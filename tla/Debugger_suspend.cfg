SPECIFICATION Spec
CONSTANTS
    c1 = c1
    NThreads = 2
    Clients <- OneClient
    Direct <- EventsAndSuspends
    Forwarded <- Remove
    Early = FALSE
    SuspendReported = FALSE
    Unresponsive <- NoThread
    MayExit <- LastTid
    MaxStops = 1
    MaxSuspends = 2
INVARIANTS
    EventHeldOnce
    PausedIsStopped
    SuspendedStaysStopped
    CrashesOnTheDead
PROPERTIES
    OnlyTheClientContinues
CHECK_DEADLOCK FALSE
