SPECIFICATION Spec
CONSTANTS
    BatchSize = 2
    Configs <- AllConfigs
INVARIANTS
    EachPointOnce
    NeverPanics
    FleetGrowsToScale
    GroupWritesItsShare
