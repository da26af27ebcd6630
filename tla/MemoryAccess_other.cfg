SPECIFICATION MA_Spec
CONSTANTS
    r1 = r1
    p1 = p1
    p2 = p2
    Readers <- OneReader
    Procs <- TwoProcs
    Debugged = p1
    NTasks = 1
    MaxHits = 1
INVARIANTS
    LeftAlone
