SPECIFICATION FSpec
CONSTANTS
    Events = {e1, e2, e3, e4}
    Keys = {k1}
    KeyOf <- OneKey
    NoEvent = NoEvent
    Relays = {r1}
    Partitions = {p1}
    PartitionOf <- MCPartitionOf
    MaxRetries = 1
    BatchSize = 2
    MaxConcurrency = 2
    OutboxFaults = {"dbError", "ambiguousPublish"}
    Consumers = {c1}
    NoConsumer = NoConsumer
    NoMessage = NoMessage
    MaxLength = 8
    ConsumerFaults = {"handlerError", "commitError"}
    FlowFaults = {"cacheError", "dbError", "ambiguousInsert", "apiCrash", "lockExpires"}
    MaxFaults = 2
SYMMETRY EventSymmetry
INVARIANT OverlapBounded
