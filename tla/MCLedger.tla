------------------------------- MODULE MCLedger -------------------------------
(***************************************************************************)
(* Small instances of LedgerEngine for TLC: a house account (1, asset) and *)
(* wallets (2 and 3, liabilities).                                         *)
(***************************************************************************)
EXTENDS LedgerRefinement, LedgerClaims, TLC

CONSTANTS k1, k2, k3

Transfer(k, from, to, amount) ==
    [key |-> k, kind |-> "transfer", from |-> from, to |-> to, amount |-> amount]
Deposit(k, from, to, amount) ==
    [key |-> k, kind |-> "deposit", from |-> from, to |-> to, amount |-> amount]

\* The house and two wallets exist.
HouseAndWallets == [a \in Accounts |-> IF a = 1 THEN "asset" ELSE "liability"]

\* The house exists; the wallet is created on the way, with whatever type.
HouseOnly == [a \in Accounts |-> IF a = 1 THEN "asset" ELSE NoType]

\* A deposit and transfers in both directions that compete for it, one of them to
\* the sender itself and one of nothing.
Competing == { Deposit(k1, 1, 2, 2), Transfer(k2, 2, 3, 2), Transfer(k3, 3, 2, 1),
               Transfer(k3, 2, 2, 1), Transfer(k3, 3, 2, 0) }

\* One key delivered with two bodies, a transfer that needs the other key's deposit
\* and a deposit that exceeds, with that one, what a balance can hold.
Redelivered == { Deposit(k1, 1, 2, 2), Deposit(k2, 1, 2, 1), Transfer(k2, 2, 2, 1) }

\* A deposit and the transfer that drains the wallet, delivered twice.
DrainedTwice == { Deposit(k1, 1, 2, 1), Transfer(k2, 2, 3, 1) }

RequestSymmetry == Permutations(Requests)
=============================================================================
