SPECIFICATION DamageSpec
CONSTANTS
    k1 = k1
    k2 = k2
    Accounts = {1, 2}
    Requests = {r1, r2}
    Keys = {k1, k2}
    Submissions <- TwoPostings
    InitialType <- HouseAndWallet
    PoolMax = 3
    MaxBalance = 2
    MaxAttempts = 1
    MaxClock = 0
    ConnectionFails = FALSE
    Creators = {c1}
    MaxRounds = 1
SYMMETRY Symmetric
INVARIANT
    AuditOfTheEnginePasses
