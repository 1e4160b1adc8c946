SPECIFICATION Spec
CONSTANTS
    h1 = h1
    h2 = h2
    Hosts <- TwoHosts
    NoHost = NoHost
    NilKey = NilKey
    NumWorkers = 1
    MaxRows = 2
    MaxCalls = 2
    Configs <- PlainClickhouse
INVARIANT
    HostsHaveTheirOwnIds
