SPECIFICATION FairSpec
CONSTANTS
    NumWorkers = 2
    MaxQueries = 3
    Configs <- AllConfigs
INVARIANTS
    AllMeasured
    ReportedCountIsRight
    WarmAfterCold
PROPERTY
    Termination
CHECK_DEADLOCK FALSE
