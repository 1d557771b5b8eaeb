CONSTANTS
    MaxThreads = 3
    ParallelThreads = 2
    CleanupPeriod = 2
    FreshExit = FALSE
SPECIFICATION FairSpec
INVARIANTS RescheduleAssert JoinEndsNoPhase
PROPERTIES ImplementsPhaseBarrier WaiterRuns
