SPECIFICATION Spec
CONSTANTS
    c1 = c1
    NThreads = 2
    Clients <- OneClient
    Direct <- EventCommands
    Forwarded <- NoSuspend
    Early = TRUE
    SuspendReported = FALSE
    Unresponsive <- NoThread
    MayExit <- NoThread
    MaxStops = 1
    MaxSuspends = 2
INVARIANTS
    AccessOnStopped
