SPECIFICATION Spec
CONSTANTS
    Accounts = {1, 2, 3}
    Txns <- RingTxns
    Users = {"ann", "bob"}
    Owner <- MCOwner
    Payload <- Ring
    Workers = {w1, w2, w3}
    NoWorker = NoWorker
    NoTxn = NoTxn
    HighBalance = 9
    MaxDeliveries = 1
    Faults = {}
INVARIANT NoWaitCycle
INVARIANT RecordedIsValid
SYMMETRY WorkerSymmetry
