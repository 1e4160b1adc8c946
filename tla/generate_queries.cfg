SPECIFICATION Spec
CONSTANTS
    Micro = 2
    Milli = 4
    Second = 8
    DataStart <- MCDataStart
    Forever <- MCForever
    NumMetrics = 3
    Plans <- AllPlans
    Scale = 3
    NumFleets = 4
    Numbers <- MCNumbers
    MaxDraws = 4
INVARIANTS
    SameDraws
    GroupsShareTheWork
    AsksWithinData
    SucceedTogether
    AsksWhatIsMeant
