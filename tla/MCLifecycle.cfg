SPECIFICATION PFairSpec
CONSTANTS
    MaxRetries = 3
    InitialWait = 1
    MaxWait = 3
    Timeout = 8
    Horizon = 10
    Calls = {c1, c2}
    MaxMessages = 2
INVARIANT OneLateAttempt
INVARIANT AttemptsSpread
INVARIANT ConnectionsUnderWork
INVARIANT ReturnsClean
PROPERTY SignalEnds
PROPERTY StartUpEnds
