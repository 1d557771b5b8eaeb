SPECIFICATION FairSpec
CONSTANTS
    Cores = {1, 2}
    SlabSize = 16
    LastCycle = 40
    PhaseLength = 4
    L1Lat = 1
    AccLat = 1
    MemLat = 3
    MaxMemLat = 2
    MemSlots = 1
    MaxPhases = 4
    Programs <- MCPrograms
INVARIANTS
    ChainOpen
    TimeForward
    NoneForgotten
    PortExclusive
PROPERTIES
    WeaveEnds
CHECK_DEADLOCK FALSE
