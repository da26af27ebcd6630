\* One connection; the table grows; appended memory is fresh from the kernel.
CONSTANTS
    c1 = c1
    c2 = c2
    o1 = o1
    o2 = o2
    o3 = o3
    Conns <- OneConn
    Pids <- TwoPids
    Obj <- Blocks
    InitMax = 2
    EntrySize = 2
    Uninit <- FreshPages
    MaxHeld = 2
SPECIFICATION Spec
SYMMETRY BlockSymmetry
INVARIANTS
    TypeOK
    HandleResolves
    RefCountExact
    OneHandlePerPid
    TableOwnsHeap
