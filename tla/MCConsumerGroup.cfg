SPECIFICATION CFairSpec
CONSTANTS
    Consumers = {c1, c2}
    NoConsumer = NoConsumer
    NoMessage = NoMessage
    Partitions = {p1}
    Messages = {good, bad}
    Invalid = {bad}
    Faults = {"handlerError", "dlqError", "commitError", "rebalance"}
    MaxLength = 3
    MaxFaults = 2
INVARIANT CommittedWasTried
INVARIANT LossesBounded
PROPERTY EveryMessageTried
