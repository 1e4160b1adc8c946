SPECIFICATION FairSpec
CONSTANTS
    NumWorkers = 2
    WorkQueues = 1
    BatchSize = 1
    Limit = 0
    MaxPoints = 8
INVARIANTS
    TypeOK
    NoSendOnClosed
    OutstandingCounted
    Backpressure
PROPERTIES
    ImplementsDelivery
    Termination
