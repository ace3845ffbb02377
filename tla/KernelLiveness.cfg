SPECIFICATION FairSpec
CONSTANTS
    m = m
    t1 = t1
    t2 = t2
    t3 = t3
    mutex = mutex
    io = io
    NULL = NULL
    Thread = {m, t1, t2}
    Main = m
    Semaphore = {io}
    InitialValue <- MutexInit
    MaxThread = 3
    TimerOn = TRUE
    MaxValue = 1
PROPERTIES
    ReadyRuns
    UnitsAreTaken
    ImplementsSemaphores
