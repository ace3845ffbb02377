SPECIFICATION Spec
CONSTANTS
    m = m
    t1 = t1
    t2 = t2
    t3 = t3
    mutex = mutex
    io = io
    NULL = NULL
    Thread = {m, t1, t2}
    Main = m
    Semaphore = {mutex, io}
    InitialValue <- MutexInit
    MaxThread = 2
    TimerOn = TRUE
    MaxValue = 2
SYMMETRY Interchangeable
INVARIANTS
    ThreadsInOnePlace
    NoLostWakeup
    CarcassIsDead
    MachineFollowsThread
    IDsAreExact
