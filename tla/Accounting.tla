----------------------------- MODULE Accounting -----------------------------
(***************************************************************************)
(* The accounting rules of the ledger, as operators without state: which   *)
(* side of the books an account increases on, how the intent of a leg      *)
(* becomes the signed amount a journal entry stores, and which legs each   *)
(* command posts.  Amounts are integers of minor units (1/10000), as the   *)
(* BigInts of shared/utils/decimal.ts are.                                 *)
(***************************************************************************)
EXTENDS Integers

\* The enum account_type; NoType stands for a row that does not exist.
AccountTypes == {"asset", "liability", "equity", "revenue"}
NoType == "no_account"

NormalBalanceSide(type) == IF type = "asset" THEN "debit" ELSE "credit"

\* Debit is positive, credit negative.
ToStoredSignedAmount(direction, side, amount) ==
    LET isDebit == \/ direction = "increase" /\ side = "debit"
                   \/ direction = "decrease" /\ side = "credit"
    IN  IF isDebit THEN amount ELSE -amount

\* What a leg does to account_state.current_balance, whatever the side.
\* Faulty variant: every leg adds to the balance.
BalanceDeltaAlwaysUp(direction, amount) == amount

BalanceDelta(direction, amount) ==
    IF direction = "increase" THEN amount ELSE -amount

\* How the audit turns a stored amount back into a change of the balance.
\* Faulty variant: the sign of credit-normal accounts is not flipped back.
ReconciledDeltaUnflipped(side, stored) == stored

ReconciledDelta(side, stored) == IF side = "debit" THEN stored ELSE -stored

-----------------------------------------------------------------------------
(***************************************************************************)
(* The two commands.  A submission is a request body with its              *)
(* Idempotency-Key: for a deposit, from is the funding account.            *)
(***************************************************************************)
Leg(account, direction, amount) ==
    [account_id |-> account, direction |-> direction, amount |-> amount]

TransferLegs(s) == << Leg(s.from, "decrease", s.amount), Leg(s.to, "increase", s.amount) >>

DepositLegs(s) == << Leg(s.from, "increase", s.amount), Leg(s.to, "increase", s.amount) >>

Legs(s) == IF s.kind = "transfer" THEN TransferLegs(s) ELSE DepositLegs(s)

UniqueAccountIds(s) == {s.from, s.to}

\* The signed amount of leg i of s when the accounts have the types typeOf.
SignedAmount(s, i, typeOf) ==
    LET leg == Legs(s)[i]
    IN  ToStoredSignedAmount(leg.direction,
                             NormalBalanceSide(typeOf[leg.account_id]), leg.amount)

BalanceSum(s, typeOf) == SignedAmount(s, 1, typeOf) + SignedAmount(s, 2, typeOf)

\* The change of an account's balance over all of its legs.
AccountDelta(s, a) ==
    LET part(leg) == IF leg.account_id = a
                     THEN BalanceDelta(leg.direction, leg.amount) ELSE 0
    IN  part(Legs(s)[1]) + part(Legs(s)[2])
=============================================================================
