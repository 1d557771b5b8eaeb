SPECIFICATION Spec
CONSTANTS
    Cores = {c1, c2}
    c1 = c1
    c2 = c2
    i1 = i1
    d1 = d1
    i2 = i2
    d2 = d2
    None = None
    NumProcs = 3
    Tlbs <- TlbOrder
    CoreOf <- CoreOfTlb
    Levels = 2
    Pages = 8
    MAXORDER = 2
    MaxAccesses = 4
    Modes <- RacingModes
INVARIANT EvictAssert
CHECK_DEADLOCK FALSE
