SPECIFICATION DatabaseSpec
CONSTANTS
    k1 = k1
    k2 = k2
    Accounts = {1, 2, 3}
    Requests = {r1}
    Keys = {k1}
    Submissions <- DepositOnce
    InitialType <- HouseAndWallets
    PoolMax = 2
    MaxBalance = 2
    MaxAttempts = 1
    MaxClock = 0
    ConnectionFails = FALSE
    Writers = {w1, w2}
    MaxSequence = 2
PROPERTY
    IdentityIsLocked
