SPECIFICATION Spec
CONSTANTS
    k1 = k1
    k2 = k2
    k3 = k3
    Accounts = {1, 2, 3}
    Requests = {r1, r2, r3}
    Keys = {k1, k2, k3}
    Submissions <- DrainedTwice
    InitialType <- HouseAndWallets
    PoolMax = 3
    MaxBalance = 4
    MaxAttempts = 1
    MaxClock = 0
    ConnectionFails = FALSE
SYMMETRY RequestSymmetry
PROPERTIES
    RetryReplays
