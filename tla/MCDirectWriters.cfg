SPECIFICATION DatabaseSpec
CONSTANTS
    k1 = k1
    k2 = k2
    Accounts = {1, 2}
    Requests = {r1, r2}
    Keys = {k1, k2}
    Submissions <- DepositTwice
    InitialType <- HouseAndWallets
    PoolMax = 2
    MaxBalance = 2
    MaxAttempts = 1
    MaxClock = 0
    ConnectionFails = FALSE
    Writers = {w1, w2}
    MaxSequence = 3
SYMMETRY Symmetric
INVARIANTS
    EveryEventBalances
    SignsKeepTheirMeaning
