SPECIFICATION GSpec
CONSTANTS
    Calls = {r1, r2, r3, r4}
    Usernames <- Typed
    TrimSpace <- Trimmed
    Wellformed = {"ann"}
    Passwords <- SomePasswords
    Unset = Unset
    AccessTTL = 1
    MaxTime = 2
INVARIANT OneOfEach
INVARIANT RefusedLeavesNoUser
INVARIANT StoredCanLogIn
INVARIANT CallsAreOwned
SYMMETRY RequestSymmetry
