SPECIFICATION Spec
CONSTANTS
    Accounts = {1, 2}
    Txns <- CrossingTxns
    Users = {"ann", "bob"}
    Owner <- MCOwner
    Payload <- Crossing
    Workers = {w1, w2}
    NoWorker = NoWorker
    NoTxn = NoTxn
    HighBalance = 9
    MaxDeliveries = 2
    Faults = {"retryFailed"}
INVARIANT BalanceMatchesLedger
