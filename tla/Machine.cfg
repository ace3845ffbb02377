SPECIFICATION ToolsSpec
CONSTANTS
    W = 8
    NumGPRegs = 4
    PageSize = 16
    NumPhysPages = 2
    Start <- MCStart
    Coffs <- MCCoffs
    HeaderSize = 3
    UserStackSize = 16
    StackSize = 8
    MEMSIZE = 26
    memoffset = 32
    MAXSCNS = 5
    MAXDATA = 3
INVARIANT ImageIsLoaded
PROPERTY ResultsAreExact
PROPERTY LoadsAreDelayed
PROPERTY StoresAreExact
PROPERTY TrapsArePrecise
PROPERTY SimulatorsAgree
PROPERTY LinesTellTheOperands
