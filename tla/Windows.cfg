SPECIFICATION WindowsSpec
CONSTANTS
    t1 = t1
    t2 = t2
    x1 = x1
    x2 = x2
    p1 = p1
    p2 = p2
    p3 = p3
    a1 = a1
    a2 = a2
    g1 = g1
    s1 = s1
    VD_Threads <- TwoThreads
    RealContext = FALSE
    ListMax = 1
    VD_MaxExceptions = 2
    VD_MaxAttach = 2
    VD_MaxListOps = 2
    SL_Threads <- GameAndSetter
    SL_Locks = {"GTCLock", "QPCLock"}
    SL_None = SL_None
    SH_Game <- Game
    SH_Setters <- Setters
    SH_Clocks = {"tick", "tick64", "counter"}
    SH_Speeds = {1, 4}
    SH_MaxTime = 3
    SH_MaxReads = 1
    Threads <- TwoThreads
    Contexts <- TwoContexts
    NoThread = NoThread
    KD_MaxBreaks = 2
    KD_MaxInjected = 1
    KD_MaxStarts = 2
    Cpus <- TwoCpus
    NumDR = 2
    NumSlots = 2
    Addresses <- TwoAddresses
    Zero = Zero
    MaxGDSteps = 6
    UM_NumCpus = 1
    UM_Capacity = 2
    UM_Enough = 2
    UM_MaxWork = 4
    CS_Cpus <- ThreeCpus
    CS_NoCpu = CS_NoCpu
    MM_Base = 7
    MM_Size = 14
    MM_Desc = 1
    MM_Page = 4
    MM_Slack = 1
    MM_Width = 100
    MM_Sizes = {0, 1, 2, 4}
    MM_MaxCalls = 7
INVARIANTS
    WindowsTypesOK
    ReportsKeptApart
    SkippedIsListed
    LockIsSound
    RegistersAreShared
    TraceKept
    SectionIsSound
    HeapIsSound
PROPERTIES
    ClocksKeepPace
    BreaksKeptApart
    EveryWaitEnds
CHECK_DEADLOCK FALSE
