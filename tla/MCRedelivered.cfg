SPECIFICATION Spec
CONSTANTS
    k1 = k1
    k2 = k2
    k3 = k3
    Accounts = {1, 2}
    Requests = {r1, r2, r3}
    Keys = {k1, k2}
    Submissions <- Redelivered
    InitialType <- HouseOnly
    PoolMax = 2
    MaxBalance = 2
    MaxAttempts = 2
    MaxClock = 0
    ConnectionFails = TRUE
SYMMETRY RequestSymmetry
INVARIANTS
    PostedOnce
    SuccessNamesTheEvent
    ChainIntact
PROPERTIES
    AtomicPosting
