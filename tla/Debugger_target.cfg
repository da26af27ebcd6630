SPECIFICATION Spec
CONSTANTS
    c1 = c1
    NThreads = 2
    Clients <- OneClient
    Direct <- EventCommands
    Forwarded <- Set
    Early = FALSE
    SuspendReported = FALSE
    Unresponsive <- NoThread
    MayExit <- NoThread
    MaxStops = 2
    MaxSuspends = 2
INVARIANTS
    SetOnTarget
