SPECIFICATION Spec
CONSTANTS
    NumWorkers = 3
    WorkQueues = 2
    BatchSize = 2
    Limit = 7
    MaxPoints = 8
INVARIANTS
    IdleWorkerIsServed
    ExactlyOnce
    ReadOrder
