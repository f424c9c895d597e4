SPECIFICATION Spec
CONSTANTS
    k1 = k1
    k2 = k2
    k3 = k3
    Accounts = {1, 2, 3}
    Requests = {r1, r2, r3, r4}
    Keys = {k1, k2, k3}
    Submissions <- Competing
    InitialType <- HouseAndWallets
    PoolMax = 2
    MaxBalance = 4
    MaxAttempts = 1
    MaxClock = 1
    ConnectionFails = FALSE
SYMMETRY RequestSymmetry
INVARIANTS
    LockedRowsAreCurrent
    ChainIntact
    BalanceReconciles
    BooksBalance
    NoOverdraft
    WinnerFound
    NoDeadlock
PROPERTIES
    AtomicPosting
