------------------------------- MODULE MCAudit -------------------------------
(***************************************************************************)
(* Small instances of Audit and AuditDamage for TLC.                       *)
(***************************************************************************)
EXTENDS AuditDamage, TLC

CONSTANTS k1, k2

Deposit(k, from, to, amount) ==
    [key |-> k, kind |-> "deposit", from |-> from, to |-> to, amount |-> amount]
Transfer(k, from, to, amount) ==
    [key |-> k, kind |-> "transfer", from |-> from, to |-> to, amount |-> amount]

\* A house account and a wallet.
HouseAndWallet == [a \in Accounts |-> IF a = 1 THEN "asset" ELSE "liability"]

\* The wallet is filled and moves money to itself: two events, two entries each.
TwoPostings == { Deposit(k1, 1, 2, 1), Transfer(k2, 2, 2, 1) }

Symmetric == Permutations(Requests) \cup Permutations(Creators)
=============================================================================
