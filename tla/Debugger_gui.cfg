SPECIFICATION Spec
CONSTANTS
    c1 = c1
    NThreads = 2
    Clients <- OneClient
    Direct <- EventCommands
    Forwarded <- NoSuspend
    Early = FALSE
    SuspendReported = FALSE
    Unresponsive <- NoThread
    MayExit <- NoThread
    MaxStops = 2
    MaxSuspends = 2
INVARIANTS
    TypeOK
    PausedIsStopped
    EventHeldOnce
    ReportedIsStopped
    AccessOnStopped
PROPERTIES
    OnlyTheClientContinues
