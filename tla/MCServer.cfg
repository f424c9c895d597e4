SPECIFICATION FairServerSpec
CONSTANTS
    k1 = k1
    Accounts = {1, 2}
    Requests = {r1, r2}
    Keys = {k1}
    Submissions <- DeliveredTwice
    InitialType <- HouseAndWallet
    PoolMax = 2
    MaxBalance = 2
    MaxAttempts = 1
    MaxClock = 0
    ConnectionFails = TRUE
    Creators = {c1, c2}
    Ticks = {c1}
    MaxRounds = 1
INVARIANTS
    NothingCutOff
PROPERTIES
    ShutdownEnds
    EveryCallEnds
    EveryRequestAnswered
CHECK_DEADLOCK FALSE
