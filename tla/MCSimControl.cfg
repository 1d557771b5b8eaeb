SPECIFICATION FairSpec
CONSTANTS
    Procs = {0, 1, 2}
    Configs <- MCConfigs
    Word = 8
    Rate = 2
    None = None
INVARIANTS
    
    StatsLast
    AdaptiveOnTime
PROPERTIES
    SyncedEntryAtEnd
    TickEnds
    TerminationCompletes
CHECK_DEADLOCK FALSE
