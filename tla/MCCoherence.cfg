SPECIFICATION Spec
CONSTANTS
    p1 = p1
    p2 = p2
    a = a
    b = b
    Cores = {p1, p2}
    Lines = {a, b}
    Caches = {1, 2, 3, 4, 5}
    L1 <- SplitL1
    Parent <- Tree
    Ways <- OneLine
    Phys <- Identity
    Walkers = {p2}
    Tracked = {a, b}
    Mem = Mem
    None = None
INVARIANTS
    SingleWriter
    DirectoryExact
    RacesForeseen
    DirtyKept
    
SYMMETRY Symmetry
