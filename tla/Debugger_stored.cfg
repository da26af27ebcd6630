SPECIFICATION Spec
CONSTANTS
    c1 = c1
    NThreads = 2
    Clients <- NoClient
    Direct <- EventsAndSuspends
    Forwarded <- NoCommands
    Early = FALSE
    SuspendReported = TRUE
    Unresponsive <- NoThread
    MayExit <- NoThread
    MaxStops = 1
    MaxSuspends = 2
INVARIANTS
    StoredInThread
