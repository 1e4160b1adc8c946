SPECIFICATION FairSpec
CONSTANTS
    h1 = h1
    h2 = h2
    Hosts <- TwoHosts
    NoHost = NoHost
    NilKey = NilKey
    NumWorkers = 2
    MaxRows = 2
    MaxCalls = 3
    Configs <- AllConfigs
INVARIANTS
    TypeOK
    RowsReferToTheirHost
    HostKeepsItsId
PROPERTY
    CallsReturn
