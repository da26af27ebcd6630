SPECIFICATION ServerSpec
CONSTANTS
    c1 = c1
    c2 = c2
    r1 = r1
    r2 = r2
    p1 = p1
    a1 = a1
    a2 = a2
    g1 = g1
    Clients <- TwoClients
    Own = Own
    NoClient = NoClient
    SemMax = 2
    Tracees = 2
    MaxWaits = 2
    Readers <- TwoReaders
    Procs <- OneProc
    Debugged = p1
    NTasks = 2
    MaxHits = 2
    EX_Clients <- TwoClients
    EX_Addresses <- TwoAddresses
    EX_Failed = EX_Failed
    EX_Nobody = EX_Nobody
    EX_InitMax = 1
    EX_MaxCalls = 4
    SE_Readers <- OneGame
    SE_Part = 2
    SE_Unit = 4
    SE_Speeds = {3, 7}
    SE_MaxTime = 3
    SE_MaxSets = 1
    RQ_Pages = 5
    RQ_Regions <- ThreeRegions
    RQ_Chunk = 2
    RQ_InitMax = 1
    RQ_Flags <- AllFlags
    RQ_MaxChanges = 1
    RQ_MaxFails = 1
INVARIANTS
    ServerTypesOK
    CallsKeptApart
    NobodyLosesAStop
    AnswersMatchCalls
    AllocationsKnown
    ReadingsAreRight
    QueriesAreRight
PROPERTIES
    ImplementsForwardedCalls
    EveryRequestEnds
