SPECIFICATION Spec
CONSTANTS
    h1 = h1
    h2 = h2
    f1 = f1
    f2 = f2
    Fields <- TwoFields
    Day = 4
    Databases <- SmallDatabases
    HLQueries <- AllQueries
INVARIANTS
    BucketsRight
    RowsRight
