SPECIFICATION FairQueueSpec
CONSTANTS
    Objs = {o1, o2, o3}
    B = 4
    W = 2
    MaxCycle = 15
CHECK_DEADLOCK FALSE
INVARIANT FirstCycleExact
PROPERTIES ImplementsEventQueue DequeueEnds
