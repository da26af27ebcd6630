SPECIFICATION UnresponsiveSpec
CONSTANTS
    c1 = c1
    NThreads = 1
    Clients <- OneClient
    Direct <- EventCommands
    Forwarded <- ThreadCommands
    Early = FALSE
    SuspendReported = FALSE
    Unresponsive <- AllTids
    MayExit <- NoThread
    MaxStops = 1
    MaxSuspends = 2
    PQ_NumWorkers = 2
    PQ_Paths <- SomePaths
    PQ_MaxLevel = 4
    PQ_MaxQueue = 2
    PQ_MaxFull = 1
    PQ_MaxErrors = 1
    PQ_MaxChanges = 1
    PQ_MaxStops = 1

    
PROPERTIES
    GoesOnRegardless
