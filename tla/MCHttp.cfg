SPECIFICATION HttpSpec
CONSTANTS
    k1 = k1
    k2 = k2
    k3 = k3
    Accounts = {1, 2}
    Requests = {r1, r2, r3}
    Keys = {k1, k2, k3}
    Submissions <- MCSubmissions
    Calls <- MCCalls
    NoKey = NoKey
    Unreadable = Unreadable
    InitialType <- HouseOnly
    PoolMax = 1
    MaxBalance = 15000
    MaxAttempts = 1
    MaxClock = 1
    ConnectionFails = FALSE
SYMMETRY RequestSymmetry
INVARIANTS
    TypeOK
    CreatedOncePerKey
    CreatedIsExact
PROPERTIES
    AtomicPosting
