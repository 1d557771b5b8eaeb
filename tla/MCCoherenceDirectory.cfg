SPECIFICATION FairDirSpec
CONSTANTS
    p1 = p1
    p2 = p2
    a = a
    b = b
    t = t
    Cores = {p1, p2}
    Lines = {a, b, t}
    Text = {t}
    Caches = {1, 2, 3, 4, 5, 6}
    Dirs = {5}
    Policies = {"WRITEBACK", "WRITETHROUGH"}
    Through <- Direct
    SrcChild <- NoneOfThem
    L1 <- SplitL1
    Parent <- Tree
    Ways <- Entries
    Phys <- Identity
    Tracked = {}
    Walkers = {p2}
    Mem = Mem
    None = None
INVARIANTS
    TrackedExactly
    
    
PROPERTY AccessEnds
