SPECIFICATION Spec
CONSTANTS
    disk = disk
    console = console
    OneShot = {disk}
    Poller = {console}
    Latency = {1, 4}
    PollTime = 3
    TimerTicks = 2
    SystemTick = 2
    UserTick = 1
    TimerOn = TRUE
    MaxTicks = 9
    MaxPending = 3
INVARIANTS
    TicksAddUp
    FiredInOrder
    NoneOverdue
    TimerStaysSet
    DevicesAreServed
