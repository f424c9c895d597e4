---------------------------- MODULE AbstractLedger ----------------------------
(***************************************************************************)
(* What the ledger promises its clients, without requests, locks, journal  *)
(* or database: accounts with balances, and postings that happen one at a  *)
(* time, each at most once per idempotency key, never leaving an account   *)
(* below zero or above what its column holds.                              *)
(***************************************************************************)
EXTENDS Accounting

CONSTANTS Accounts, Submissions, InitialType, MaxBalance

VARIABLES account_type, balance, posted

abstractVars == <<account_type, balance, posted>>

Init ==
    /\ account_type = InitialType
    /\ balance = [a \in Accounts |-> 0]
    /\ posted = {}

Create(a, type) ==
    /\ account_type[a] = NoType
    /\ account_type' = [account_type EXCEPT ![a] = type]
    /\ UNCHANGED <<balance, posted>>

\* A transfer stays on one side of the books, a deposit enters through an asset.
Admissible(s) ==
    /\ s.amount > 0
    /\ \A a \in UniqueAccountIds(s) : account_type[a] # NoType
    /\ s.kind = "transfer" => NormalBalanceSide(account_type[s.from])
                                  = NormalBalanceSide(account_type[s.to])
    /\ s.kind = "deposit" => /\ account_type[s.from] = "asset"
                             /\ account_type[s.to] = "liability"

Post(s) ==
    /\ \A p \in posted : p.key # s.key
    /\ Admissible(s)
    /\ s.kind = "transfer" => balance[s.from] >= s.amount
    /\ balance' = [a \in Accounts |-> balance[a] + AccountDelta(s, a)]
    /\ \A a \in Accounts : 0 <= balance'[a] /\ balance'[a] <= MaxBalance
    /\ posted' = posted \cup {s}
    /\ UNCHANGED account_type

Next ==
    \/ \E a \in Accounts, type \in AccountTypes : Create(a, type)
    \/ \E s \in Submissions : Post(s)

Spec == Init /\ [][Next]_abstractVars
=============================================================================
