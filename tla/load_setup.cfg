SPECIFICATION Spec
CONSTANTS
    NumClients = 2
    Old = Old
    Systems <- AllSystems
    Flags <- MCFlags
INVARIANTS
    CreatorStartsAfresh
    ClientsLoadTogether
    SetUpToRun
PROPERTY
    RowsAreKept
