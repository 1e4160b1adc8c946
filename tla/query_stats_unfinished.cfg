SPECIFICATION Spec
CONSTANTS
    NumWorkers = 1
    MaxQueries = 1
    Configs <- Plain
INVARIANT
    StatsFinished
CHECK_DEADLOCK FALSE
