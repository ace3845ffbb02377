CONSTANTS
    Node = {n1, n2}
    n1 = n1
    n2 = n2
    MayLose = TRUE
    Budget <- MCBudget
    Char = {a, q, ff}
    EOF = ff
    QuitChar = q
    MaxTyped = 4
    NumElevators = 2
    NumFloors = 3
    DelayPerFloor = 5
    SystemTick = 2
    MaxRiders = 1
    MaxCalls = 3
SPECIFICATION DevSpec
INVARIANTS PacketIsAnnounced SendsMatchInterrupts MailInOrder AckMeansReceived
INVARIANTS EchoInOrder NobodySleepsOnEvents
PROPERTIES MailSettles EchoCompletes SelfTestPasses ElevatorsArrive
