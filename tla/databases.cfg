SPECIFICATION FairSpec
CONSTANTS
    NumRedisWorkers = 2
    RedisBatchSize = 3
    Hosts = {"a", "b"}
    FieldsOf <- RedisFields
    Configs <- RedisConfigs
    NumInfluxWorkers = 1
    BackingOffChanCap = 2
    MaxBatches = 3
    NumMongoWorkers = 2
    MongoBatchSize = 2
    Hour = 4
    InsertSize = 1
    Hash <- HostHash
    Files <- MongoFiles
INVARIANTS
    SamplesKept
    CountsWhatIsDone
    CountedIsStored
    BackoffsReported
    EventsHaveTheirSlot
    FunctorsRight
PROPERTIES
    BatchReturns
    CallsReturn
CHECK_DEADLOCK FALSE
