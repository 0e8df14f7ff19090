SPECIFICATION Spec
CONSTANTS
    Accounts = {1, 2}
    Txns <- SpendingTxns
    Users = {"ann", "bob"}
    Owner <- MCOwner
    Payload <- Spending
    Workers = {w1, w2}
    NoWorker = NoWorker
    NoTxn = NoTxn
    HighBalance = 2
    MaxDeliveries = 2
    Faults = {"dbError"}
INVARIANT TypeOK
INVARIANT BalanceMatchesLedger
INVARIANT StagedIsFresh
PROPERTY SettledIsFinal
PROPERTY ImplementsAtomicLedger
