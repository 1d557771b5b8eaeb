SPECIFICATION Spec
CONSTANTS
    t1 = t1
    t2 = t2
    t3 = t3
    None = None
    Threads <- Three
    NumCores = 3
    ParallelThreads = 2
    SchedQuantum = 1
    MaxSleep = 2
    Modes <- Safety
INVARIANTS
    StatesAgree
    NoIdleMatch
    SleepersOnTime
    FinishedUnreferenced
