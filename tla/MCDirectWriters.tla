--------------------------- MODULE MCDirectWriters ---------------------------
(***************************************************************************)
(* Small instances of DirectWriters: a house account and wallets.          *)
(***************************************************************************)
EXTENDS DirectWriters, TLC

CONSTANTS k1, k2

Deposit(k, from, to, amount) ==
    [key |-> k, kind |-> "deposit", from |-> from, to |-> to, amount |-> amount]

HouseAndWallets == [a \in Accounts |-> IF a = 1 THEN "asset" ELSE "liability"]

\* The first two postings of a wallet.
DepositTwice == { Deposit(k1, 1, 2, 1), Deposit(k2, 1, 2, 1) }

\* One posting, beside which account 3 has no entries yet.
DepositOnce == { Deposit(k1, 1, 2, 1) }

Symmetric == Permutations(Requests) \cup Permutations(Writers)
=============================================================================
