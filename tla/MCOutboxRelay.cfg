SPECIFICATION OFairSpec
CONSTANTS
    Events = {e1, e2, e3}
    Malformed = {e3}
    Relays = {r1, r2}
    Partitions = {p1}
    PartitionOf <- MCPartitionOf
    MaxRetries = 2
    BatchSize = 2
    MaxConcurrency = 1
    Faults = {"crash", "dbError"}
    MaxFaults = 1
INVARIANT OneRelayPerRow
INVARIANT OutcomesEarned
INVARIANT FreedNeverDelivered
PROPERTY TerminalIsFinal
PROPERTY EveryRowEnds
