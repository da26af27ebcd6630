CONSTANTS
    c1 = c1
    c2 = c2
    o1 = o1
    o2 = o2
    o3 = o3
    Conns <- TwoConns
    Pids <- TwoPids
    Obj <- Blocks
    InitMax = 4
    EntrySize = 2
    Uninit <- FreshPages
    MaxHeld = 1
SPECIFICATION Spec
SYMMETRY BlockSymmetry
INVARIANT OneHandlePerPid
