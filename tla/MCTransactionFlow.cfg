SPECIFICATION FFairSpec
CONSTANTS
    Events = {e1, e2, e3}
    Keys = {k1}
    KeyOf <- OneKey
    NoEvent = NoEvent
    Relays = {r1, r2}
    Partitions = {p1}
    PartitionOf <- MCPartitionOf
    MaxRetries = 2
    BatchSize = 1
    MaxConcurrency = 1
    OutboxFaults = {}
    Consumers = {c1}
    NoConsumer = NoConsumer
    NoMessage = NoMessage
    MaxLength = 5
    ConsumerFaults = {"handlerError"}
    FlowFaults = {"apiCrash", "dbError"}
    MaxFaults = 2
INVARIANT LockCoversFlight
INVARIANT GivenUpIsNotExecuted
PROPERTY TransactionsAreSerial
PROPERTY EveryAcceptedEnds
PROPERTY AccountIsFreed
