SPECIFICATION FairSpec
CONSTANTS
    c1 = c1
    NThreads = 2
    Clients <- OneClient
    Direct <- EventCommands
    Forwarded <- MemoryCommands
    Early = FALSE
    SuspendReported = FALSE
    Unresponsive <- NoThread
    MayExit <- AllTids
    MaxStops = 1
    MaxSuspends = 2
PROPERTIES
    EveryHitReported
    EveryCallAnswered
