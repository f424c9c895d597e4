-------------------------- MODULE LedgerEngineProofs --------------------------
(***************************************************************************)
(* Proofs about LedgerEngine, for all accounts, requests, keys, bodies and *)
(* limits, with connections that fail or do not: the types, what the row   *)
(* locks are worth, and what the checks between them decide.               *)
(***************************************************************************)
EXTENDS LedgerEngine, SequenceTheorems, FiniteSetTheorems, WellFoundedInduction, TLAPS

-----------------------------------------------------------------------------
(***************************************************************************)
(* The accounting rules of the two commands, for all amounts and types.    *)
(***************************************************************************)
Directions == {"increase", "decrease"}
Sides == {"debit", "credit"}

\* Every account type increases on one of the two sides.
LEMMA SideOfAType == ASSUME NEW type PROVE NormalBalanceSide(type) \in Sides
  BY DEF NormalBalanceSide, Sides

\* The audit undoes what the engine stores: on either side, the reconciled change
\* is the change the engine applies to the balance
\* (verify-balance-reconciliation.ts:20-24 calls it "the exact inverse").
THEOREM ReconciledIsDelta ==
    ASSUME NEW direction \in Directions, NEW side \in Sides, NEW amount \in Int
    PROVE  ReconciledDelta(side, ToStoredSignedAmount(direction, side, amount))
              = BalanceDelta(direction, amount)
  BY DEF Directions, Sides, ReconciledDelta, ToStoredSignedAmount, BalanceDelta

\* A transfer sums to zero exactly when both accounts are on one side of the books.
THEOREM TransferBalances ==
    ASSUME NEW s, NEW typeOf, s.kind = "transfer", s.amount \in Int, s.amount > 0
    PROVE  BalanceSum(s, typeOf) = 0
              <=> NormalBalanceSide(typeOf[s.from]) = NormalBalanceSide(typeOf[s.to])
  <1> DEFINE from == NormalBalanceSide(typeOf[s.from])
             to == NormalBalanceSide(typeOf[s.to])
  <1>1. from \in Sides /\ to \in Sides
    BY SideOfAType
  <1>2. /\ SignedAmount(s, 1, typeOf) = ToStoredSignedAmount("decrease", from, s.amount)
        /\ SignedAmount(s, 2, typeOf) = ToStoredSignedAmount("increase", to, s.amount)
    BY DEF SignedAmount, Legs, TransferLegs, Leg
  <1> HIDE DEF from, to
  <1>3. BalanceSum(s, typeOf) = 0 <=> from = to
    BY <1>1, <1>2 DEF BalanceSum, ToStoredSignedAmount, Sides
  <1> QED
    BY <1>3 DEF from, to

\* A deposit sums to zero exactly when its accounts are on different sides.
THEOREM DepositBalances ==
    ASSUME NEW s, NEW typeOf, s.kind = "deposit", s.amount \in Int, s.amount > 0
    PROVE  BalanceSum(s, typeOf) = 0
              <=> NormalBalanceSide(typeOf[s.from]) # NormalBalanceSide(typeOf[s.to])
  <1> DEFINE from == NormalBalanceSide(typeOf[s.from])
             to == NormalBalanceSide(typeOf[s.to])
  <1>1. from \in Sides /\ to \in Sides
    BY SideOfAType
  <1>2. /\ SignedAmount(s, 1, typeOf) = ToStoredSignedAmount("increase", from, s.amount)
        /\ SignedAmount(s, 2, typeOf) = ToStoredSignedAmount("increase", to, s.amount)
    BY DEF SignedAmount, Legs, DepositLegs, Leg
  <1> HIDE DEF from, to
  <1>3. BalanceSum(s, typeOf) = 0 <=> from # to
    BY <1>1, <1>2 DEF BalanceSum, ToStoredSignedAmount, Sides
  <1> QED
    BY <1>3 DEF from, to

-----------------------------------------------------------------------------
(***************************************************************************)
(* Types.                                                                  *)
(***************************************************************************)
\* What the assumptions on the constants say of one submission.
LEMMA SubmissionType ==
    ASSUME NEW s \in Submissions
    PROVE  /\ s.key \in Keys
           /\ s.kind \in Kinds
           /\ s.from \in Accounts
           /\ s.to \in Accounts
           /\ s.amount \in Int
           /\ UniqueAccountIds(s) = {s.from, s.to}
           /\ UniqueAccountIds(s) \subseteq Accounts
  BY SubmissionsAssumption DEF UniqueAccountIds

LEMMA LegType ==
    ASSUME NEW s \in Submissions
    PROVE  /\ Legs(s)[1].account_id = s.from
           /\ Legs(s)[2].account_id = s.to
           /\ Legs(s)[1].amount = s.amount
           /\ Legs(s)[2].amount = s.amount
           /\ Legs(s)[1].direction = IF s.kind = "transfer" THEN "decrease" ELSE "increase"
           /\ Legs(s)[2].direction = "increase"
  BY SubmissionsAssumption DEF Legs, TransferLegs, DepositLegs, Leg

LEMMA UnreadType == Unread \in ChainStates /\ NewAccountState \in AccountStates
                    /\ NoTxn \in [id: Nat, recorded_at: Nat]
                    /\ NoOutcome \in [kind: Outcomes, transaction_id: Nat]
  <1>1. Genesis \in Hashes
    BY DEF Genesis, Hashes
  <1> QED
    BY <1>1 DEF Unread, ChainStates, NewAccountState, AccountStates, NoTxn, NoOutcome,
                Outcomes, DomainErrors

LEMMA JournalEntryType ==
    ASSUME NEW leg, leg.account_id \in Accounts, leg.amount \in Int,
           NEW row \in ChainStates, NEW t \in [id: Nat, recorded_at: Nat]
    PROVE  JournalEntry(leg, row, t) \in Entries
  <1> DEFINE fields ==
            [sequence_number |-> row.latest_sequence + 1, account_id |-> leg.account_id,
             event_id |-> t.id,
             signed_amount |-> ToStoredSignedAmount(leg.direction,
                                   NormalBalanceSide(row.account_type), leg.amount),
             recorded_at |-> t.recorded_at]
  <1>1. /\ row.latest_sequence \in Nat
        /\ row.latest_hash \in Hashes
    BY DEF ChainStates
  <1>2. fields \in HashedFields
    BY <1>1 DEF HashedFields, ToStoredSignedAmount
  <1>3. ComputeEntryHash(row.latest_hash, fields) \in Hashes
    <2> HIDE DEF fields
    <2> QED BY <1>1, <1>2 DEF ComputeEntryHash, Hashes
  <1>4. /\ fields.account_id \in Accounts
        /\ fields.event_id \in Nat
        /\ fields.signed_amount \in Int
        /\ fields.sequence_number \in Nat
        /\ fields.recorded_at \in Nat
    <2> HIDE DEF fields
    <2> QED BY <1>2 DEF HashedFields
  <1>5. JournalEntry(leg, row, t) =
            [account_id |-> fields.account_id, event_id |-> fields.event_id,
             signed_amount |-> fields.signed_amount,
             sequence_number |-> fields.sequence_number,
             recorded_at |-> fields.recorded_at, previous_hash |-> row.latest_hash,
             entry_hash |-> ComputeEntryHash(row.latest_hash, fields)]
    BY DEF JournalEntry
  <1> HIDE DEF fields
  <1> QED
    BY <1>1, <1>3, <1>4, <1>5 DEF Entries

LEMMA AdvanceTipType ==
    ASSUME NEW rows \in [Accounts -> ChainStates], NEW e \in Entries
    PROVE  AdvanceTip(rows, e) \in [Accounts -> ChainStates]
  BY DEF AdvanceTip, ChainStates, Entries

LEMMA EndTransactionType ==
    ASSUME TypeOK, NEW r \in Requests, EndTransaction(r)
    PROVE  /\ lock' \in [Accounts -> SUBSET Requests]
           /\ txn' \in [Requests -> [id: Nat, recorded_at: Nat]]
           /\ chain' \in [Requests -> [Accounts -> ChainStates]]
           /\ staged' \in [Requests -> SUBSET Entries]
  BY UnreadType DEF TypeOK, EndTransaction

LEMMA AnswerType ==
    ASSUME TypeOK, NEW r \in Requests, NEW kind \in Outcomes, NEW id \in Nat,
           Answer(r, kind, id)
    PROVE  /\ pc' \in [Requests -> Steps]
           /\ outcome' \in [Requests -> [kind: Outcomes, transaction_id: Nat]]
  BY DEF TypeOK, Answer, GoTo, Steps

LEMMA RollBackType ==
    ASSUME TypeOK, NEW r \in Requests, NEW kind \in Outcomes, RollBackWith(r, kind)
    PROVE  TypeOK'
  BY EndTransactionType, AnswerType DEF TypeOK, RollBackWith, tables

LEMMA VerdictType ==
    ASSUME NEW s \in Submissions, NEW rows
    PROVE  PostingVerdict(s, rows) \in DomainErrors \cup {"ok"}
  BY SubmissionType DEF PostingVerdict, PolicyVerdict, DomainErrors, Kinds

\* The rows r has locked are typed, its entries are entries.
LEMMA PostedEntriesType ==
    ASSUME TypeOK, NEW r \in Requests, NEW first, NEW second,
           first = FirstEntry(submission[r], chain[r], txn[r]),
           second = SecondEntry(submission[r], chain[r], first, txn[r])
    PROVE  /\ first \in Entries
           /\ second \in Entries
           /\ AdvanceTip(AdvanceTip(chain[r], first), second) \in [Accounts -> ChainStates]
  <1> DEFINE s == submission[r]
  <1>1. s \in Submissions /\ chain[r] \in [Accounts -> ChainStates]
        /\ txn[r] \in [id: Nat, recorded_at: Nat]
    BY DEF TypeOK
  <1> HIDE DEF s
  <1>2. s.from \in Accounts /\ s.to \in Accounts /\ s.amount \in Int
    BY <1>1, SubmissionType
  <1>3. first \in Entries
    BY <1>1, <1>2, LegType, JournalEntryType DEF FirstEntry, s
  <1>4. AdvanceTip(chain[r], first) \in [Accounts -> ChainStates]
    BY <1>1, <1>3, AdvanceTipType
  <1>5. second \in Entries
    BY <1>1, <1>2, <1>4, LegType, JournalEntryType DEF SecondEntry, s
  <1> QED
    BY <1>3, <1>4, <1>5, AdvanceTipType

LEMMA WrittenStateType ==
    ASSUME TypeOK, NEW r \in Requests, NEW a \in Accounts
    PROVE  WrittenState(r, a) \in AccountStates
  <1>1. submission[r] \in Submissions /\ account_state[a] \in AccountStates
        /\ chain[r][a] \in ChainStates
    BY DEF TypeOK
  <1>2. AccountDelta(submission[r], a) \in Int
    BY <1>1, LegType, SubmissionType DEF AccountDelta, BalanceDelta
  <1> QED
    BY <1>1, <1>2 DEF WrittenState, AccountStates, ChainStates

LEMMA PublishType ==
    ASSUME TypeOK, NEW r \in Requests, Publish(r)
    PROVE  /\ nextId' \in Nat \ {0}
           /\ account_type' \in [Accounts -> AccountTypes \cup {NoType}]
           /\ account_state' \in [Accounts -> AccountStates]
           /\ journal_entries' \subseteq Entries
           /\ events' \subseteq Events
           /\ idempotency_keys' \in [Keys -> Nat]
  <1>1. account_state' \in [Accounts -> AccountStates]
    BY WrittenStateType DEF Publish
  <1>2. [id |-> txn[r].id, recorded_at |-> txn[r].recorded_at,
         payload |-> submission[r]] \in Events
    BY DEF TypeOK, Events
  <1>3. submission[r].key \in Keys
    BY SubmissionType DEF TypeOK
  <1> QED
    BY <1>1, <1>2, <1>3 DEF TypeOK, Publish

-----------------------------------------------------------------------------
\* One step per action of Next.
LEMMA TypeStep == TypeOK /\ [Next]_vars => TypeOK'
  <1> SUFFICES ASSUME TypeOK, [Next]_vars PROVE TypeOK'
    OBVIOUS
  <1> USE DEF tables, workspace
  <1>1. ASSUME NEW r \in Requests, Submit(r) PROVE TypeOK'
    <2>1. pc' \in [Requests -> Steps] /\ outcome' \in [Requests -> [kind: Outcomes, transaction_id: Nat]]
      BY <1>1, UnreadType DEF TypeOK, Submit, GoTo, Steps
    <2> QED
      BY <1>1, <2>1 DEF TypeOK, Submit
  <1>2. ASSUME NEW r \in Requests, RejectAmount(r) PROVE TypeOK'
    <2>1. pc' \in [Requests -> Steps] /\ outcome' \in [Requests -> [kind: Outcomes, transaction_id: Nat]]
      BY <1>2, AnswerType DEF RejectAmount, Outcomes, DomainErrors
    <2>2. attempts' \in [Requests -> Nat]
      BY <1>2 DEF TypeOK, RejectAmount
    <2>3. UNCHANGED <<clock, tables, lock, submission, workspace>>
      BY <1>2 DEF RejectAmount
    <2> QED
      BY <2>1, <2>2, <2>3 DEF TypeOK
  <1>3. ASSUME NEW r \in Requests, LookupKey(r) PROVE TypeOK'
    <2>1. submission[r].key \in Keys
      BY SubmissionType DEF TypeOK
    <2>2. pc' \in [Requests -> Steps] /\ outcome' \in [Requests -> [kind: Outcomes, transaction_id: Nat]]
      <3>1. CASE Bound(submission[r].key)
        BY <1>3, <2>1, <3>1, AnswerType DEF LookupKey, Replay, Outcomes, TypeOK
      <3>2. CASE ~Bound(submission[r].key)
        BY <1>3, <3>2 DEF LookupKey, GoTo, Steps, TypeOK
      <3> QED BY <3>1, <3>2
    <2> QED
      BY <1>3, <2>2 DEF TypeOK, LookupKey
  <1>4. ASSUME NEW r \in Requests, Begin(r) PROVE TypeOK'
    BY <1>4 DEF TypeOK, Begin, GoTo, Steps
  <1>5. ASSUME NEW r \in Requests, LockAccount(r) PROVE TypeOK'
    <2>1. PICK a \in Accounts :
            /\ lock' = [lock EXCEPT ![a] = @ \cup {r}]
            /\ chain' = [chain EXCEPT ![r][a] =
                            [account_type |-> account_type[a],
                             current_balance |-> account_state[a].current_balance,
                             latest_hash |-> account_state[a].latest_hash,
                             latest_sequence |-> account_state[a].latest_sequence]]
      BY <1>5 DEF LockAccount
    <2>2. [account_type |-> account_type[a],
           current_balance |-> account_state[a].current_balance,
           latest_hash |-> account_state[a].latest_hash,
           latest_sequence |-> account_state[a].latest_sequence] \in ChainStates
      BY DEF TypeOK, ChainStates, AccountStates
    <2>3. chain' \in [Requests -> [Accounts -> ChainStates]]
      BY <2>1, <2>2 DEF TypeOK
    <2>4. lock' \in [Accounts -> SUBSET Requests]
      BY <2>1 DEF TypeOK
    <2> QED
      BY <1>5, <2>3, <2>4 DEF TypeOK, LockAccount
  <1>6. ASSUME NEW r \in Requests, AccountMissing(r) \/ RejectBalance(r) PROVE TypeOK'
    BY <1>6, RollBackType DEF AccountMissing, RejectBalance, Outcomes, DomainErrors
  <1>7. ASSUME NEW r \in Requests, RejectPosting(r) PROVE TypeOK'
    <2>1. PostingVerdict(submission[r], chain[r]) \in Outcomes
      BY <1>7, VerdictType DEF RejectPosting, TypeOK, Outcomes
    <2> QED
      BY <1>7, <2>1, RollBackType DEF RejectPosting
  <1>8. ASSUME NEW r \in Requests, UniqueViolation(r) PROVE TypeOK'
    <2>1. pc' \in [Requests -> Steps]
      BY <1>8 DEF UniqueViolation, GoTo, Steps, TypeOK
    <2> QED
      BY <1>8, <2>1, EndTransactionType DEF UniqueViolation, TypeOK
  <1>9. ASSUME NEW r \in Requests, PostEntries(r) PROVE TypeOK'
    <2>1. PICK first, second :
            /\ first = FirstEntry(submission[r], chain[r], txn[r])
            /\ second = SecondEntry(submission[r], chain[r], first, txn[r])
            /\ IF SlotTaken({first, second})
               THEN UniqueViolation(r)
               ELSE /\ staged' = [staged EXCEPT ![r] = {first, second}]
                    /\ chain' = [chain EXCEPT ![r] = AdvanceTip(AdvanceTip(@, first), second)]
                    /\ GoTo(r, "keying")
                    /\ UNCHANGED <<clock, tables, lock, submission, txn, outcome, attempts>>
      BY <1>9 DEF PostEntries
    <2>2. CASE SlotTaken({first, second})
      BY <1>8, <2>1, <2>2
    <2>3. CASE ~SlotTaken({first, second})
      <3>1. /\ {first, second} \subseteq Entries
            /\ AdvanceTip(AdvanceTip(chain[r], first), second) \in [Accounts -> ChainStates]
        BY <2>1, PostedEntriesType
      <3>2. /\ staged' \in [Requests -> SUBSET Entries]
            /\ chain' \in [Requests -> [Accounts -> ChainStates]]
            /\ pc' \in [Requests -> Steps]
        <4>1. staged' \in [Requests -> SUBSET Entries]
          <5> DEFINE pair == {first, second}
          <5>1. staged' = [staged EXCEPT ![r] = pair] /\ pair \in SUBSET Entries
            BY <2>1, <2>3, <3>1
          <5>2. staged \in [Requests -> SUBSET Entries]
            BY DEF TypeOK
          <5> HIDE DEF pair
          <5> QED BY <5>1, <5>2
        <4>2. chain' \in [Requests -> [Accounts -> ChainStates]]
          <5> DEFINE tips == AdvanceTip(AdvanceTip(chain[r], first), second)
          <5>1. chain' = [chain EXCEPT ![r] = tips] /\ tips \in [Accounts -> ChainStates]
            BY <2>1, <2>3, <3>1
          <5>2. chain \in [Requests -> [Accounts -> ChainStates]]
            BY DEF TypeOK
          <5> HIDE DEF tips
          <5> QED BY <5>1, <5>2
        <4>3. pc' \in [Requests -> Steps]
          BY <2>1, <2>3 DEF TypeOK, GoTo, Steps
        <4> QED BY <4>1, <4>2, <4>3
      <3> QED
        BY <2>1, <2>3, <3>2 DEF TypeOK
    <2> QED BY <2>2, <2>3
  <1>10. ASSUME NEW r \in Requests, InsertKey(r) PROVE TypeOK'
    BY <1>10 DEF TypeOK, InsertKey, GoTo, Steps
  <1>11. ASSUME NEW r \in Requests, KeyTaken(r) PROVE TypeOK'
    BY <1>8, <1>11 DEF KeyTaken
  <1>12. ASSUME NEW r \in Requests, FetchWinner(r) PROVE TypeOK'
    <2>1. submission[r].key \in Keys
      BY SubmissionType DEF TypeOK
    <2>2. pc' \in [Requests -> Steps] /\ outcome' \in [Requests -> [kind: Outcomes, transaction_id: Nat]]
      <3>1. CASE Bound(submission[r].key)
        BY <1>12, <2>1, <3>1, AnswerType DEF FetchWinner, Replay, Outcomes, TypeOK
      <3>2. CASE ~Bound(submission[r].key)
        BY <1>12, <3>2, AnswerType DEF FetchWinner, Outcomes
      <3> QED BY <3>1, <3>2
    <2> QED
      BY <1>12, <2>2 DEF TypeOK, FetchWinner
  <1>13. ASSUME NEW r \in Requests, Publish(r), EndTransaction(r),
                NEW kind \in Outcomes, NEW id \in Nat, Answer(r, kind, id),
                UNCHANGED <<clock, submission, attempts>>
         PROVE  TypeOK'
    BY <1>13, PublishType, EndTransactionType, AnswerType DEF TypeOK
  <1>14. ASSUME NEW r \in Requests, Commit(r) PROVE TypeOK'
    <2>1. CASE EntrySum(staged[r]) # 0
      BY <1>14, <2>1, RollBackType DEF Commit, Outcomes
    <2>2. CASE EntrySum(staged[r]) = 0
      <3>1. txn[r].id \in Nat /\ "posted" \in Outcomes
        BY DEF TypeOK, Outcomes
      <3> QED
        BY <1>13, <1>14, <2>2, <3>1 DEF Commit
    <2> QED BY <2>1, <2>2
  <1>15. ASSUME NEW r \in Requests, ConnectionLost(r) PROVE TypeOK'
    BY <1>15, RollBackType DEF ConnectionLost, Outcomes
  <1>16. ASSUME NEW r \in Requests, CommitAnswerLost(r) PROVE TypeOK'
    <2>1. "connection_lost" \in Outcomes
      BY DEF Outcomes
    <2> QED
      BY <1>13, <1>16, <2>1 DEF CommitAnswerLost
  <1>17. ASSUME NEW a \in Accounts, NEW type \in AccountTypes, CreateAccount(a, type)
         PROVE  TypeOK'
    BY <1>17, UnreadType DEF TypeOK, CreateAccount
  <1>18. CASE Tick
    BY <1>18, BoundsAssumption DEF TypeOK, Tick
  <1>19. CASE UNCHANGED vars
    BY <1>19 DEF TypeOK, vars
  <1> QED
    BY <1>1, <1>2, <1>3, <1>4, <1>5, <1>6, <1>7, <1>9, <1>10, <1>11, <1>12, <1>14, <1>15,
       <1>16, <1>17, <1>18, <1>19 DEF Next, Advance, Terminated

LEMMA TypeInit == Init => TypeOK
  <1> SUFFICES ASSUME Init PROVE TypeOK
    OBVIOUS
  <1>1. /\ account_state \in [Accounts -> AccountStates]
        /\ txn \in [Requests -> [id: Nat, recorded_at: Nat]]
        /\ chain \in [Requests -> [Accounts -> ChainStates]]
        /\ outcome \in [Requests -> [kind: Outcomes, transaction_id: Nat]]
    BY UnreadType DEF Init
  <1> QED
    BY <1>1, InitialTypeAssumption DEF Init, TypeOK, Steps

\* Rows, workspaces and answers keep their shapes, whatever is sent and fails
\* (the schema of db/migrations and the types of ledger.service.ts).
THEOREM TypeCorrect == Spec => []TypeOK
  BY TypeInit, TypeStep, PTL DEF Spec

-----------------------------------------------------------------------------
(***************************************************************************)
(* Why the row locks of postLedgerEntries are enough: from the lock of an  *)
(* account to the end of the transaction nobody else changes its row, so   *)
(* what the checks between the locks and the commit decided still holds    *)
(* when the posting becomes visible; and why nobody waits in a circle.     *)
(***************************************************************************)
Staging == {"keying", "committing"}

\* What the lock of account a is worth to its holder r.
Held(a, r) ==
    /\ lock[a] = {r}
    /\ pc[r] \in InTransaction
    /\ a \in UniqueAccountIds(submission[r])
    /\ account_type[a] # NoType
    /\ chain[r][a].account_type = account_type[a]
    /\ chain[r][a].current_balance = account_state[a].current_balance
    /\ pc[r] = "locking" =>
          /\ chain[r][a].latest_hash = account_state[a].latest_hash
          /\ chain[r][a].latest_sequence = account_state[a].latest_sequence

LocksInv == \A a \in Accounts : \A r \in lock[a] : Held(a, r)

\* A request that has written holds all of its accounts.
HeldInv ==
    \A r \in Requests : pc[r] \in Staging =>
        \A a \in UniqueAccountIds(submission[r]) : r \in lock[a]

LockInv == LocksInv /\ HeldInv

LEMMA LockInvImplies == LockInv => LockedRowsAreCurrent
  BY DEF LockInv, LocksInv, Held, LockedRowsAreCurrent

\* A step of a request outside of its transaction disturbs no lock.
LEMMA LockUntouched ==
    ASSUME TypeOK, LockInv, NEW r \in Requests, NEW next,
           pc[r] \notin InTransaction, next \notin Staging, GoTo(r, next),
           UNCHANGED <<lock, chain, account_type, account_state, submission>>
    PROVE  LockInv'
  <1>1. ASSUME NEW a \in Accounts, NEW q \in lock'[a] PROVE Held(a, q)'
    <2>1. q \in Requests /\ q # r /\ Held(a, q)
      BY <1>1 DEF LockInv, LocksInv, Held, TypeOK
    <2>2. pc'[q] = pc[q]
      BY <2>1 DEF GoTo, TypeOK
    <2> QED
      BY <2>1, <2>2 DEF Held, UniqueAccountIds
  <1>2. ASSUME NEW q \in Requests, pc'[q] \in Staging,
               NEW a \in UniqueAccountIds(submission[q])
        PROVE  q \in lock'[a]
    <2>1. q # r /\ pc'[q] = pc[q]
      BY <1>2 DEF GoTo, TypeOK
    <2> QED
      BY <1>2, <2>1 DEF LockInv, HeldInv
  <1> QED
    BY <1>1, <1>2 DEF LockInv, LocksInv, HeldInv, UniqueAccountIds

\* The end of a transaction releases its locks, and the locks of the others
\* stay worth what they were when only rows of r have changed.
LEMMA LockReleased ==
    ASSUME TypeOK, LockInv, NEW r \in Requests, NEW next,
           next \notin Staging, GoTo(r, next), EndTransaction(r),
           UNCHANGED <<account_type, submission>>,
           \A a \in Accounts : r \notin lock[a] => account_state'[a] = account_state[a]
    PROVE  LockInv'
  <1>1. ASSUME NEW a \in Accounts, NEW q \in lock'[a] PROVE Held(a, q)'
    <2>1. q \in Requests /\ q # r /\ q \in lock[a]
      BY <1>1 DEF EndTransaction, TypeOK
    <2>2. Held(a, q)
      BY <2>1 DEF LockInv, LocksInv
    <2>3. r \notin lock[a] /\ account_state'[a] = account_state[a]
      BY <2>1, <2>2 DEF Held
    <2>4. lock'[a] = lock[a] /\ pc'[q] = pc[q] /\ chain'[q] = chain[q]
      BY <2>1, <2>3 DEF EndTransaction, GoTo, TypeOK
    <2> QED
      BY <2>2, <2>3, <2>4 DEF Held, UniqueAccountIds
  <1>2. ASSUME NEW q \in Requests, pc'[q] \in Staging,
               NEW a \in UniqueAccountIds(submission[q])
        PROVE  q \in lock'[a]
    <2>1. q # r /\ pc'[q] = pc[q]
      BY <1>2 DEF GoTo, TypeOK
    <2>2. a \in Accounts
      BY <1>2, SubmissionType DEF TypeOK
    <2>3. q \in lock[a]
      BY <1>2, <2>1 DEF LockInv, HeldInv
    <2> QED
      BY <2>1, <2>2, <2>3 DEF EndTransaction
  <1> QED
    BY <1>1, <1>2 DEF LockInv, LocksInv, HeldInv, UniqueAccountIds

LEMMA LockRollBack ==
    ASSUME TypeOK, LockInv, NEW r \in Requests, NEW kind, RollBackWith(r, kind)
    PROVE  LockInv'
  BY LockReleased DEF RollBackWith, Answer, tables, Staging

LEMMA LockUnique ==
    ASSUME TypeOK, LockInv, NEW r \in Requests, UniqueViolation(r)
    PROVE  LockInv'
  BY LockReleased DEF UniqueViolation, tables, Staging

LEMMA LockPublish ==
    ASSUME TypeOK, LockInv, NEW r \in Requests, pc[r] = "committing",
           Publish(r), EndTransaction(r), GoTo(r, "done"), UNCHANGED submission
    PROVE  LockInv'
  <1>1. ASSUME NEW a \in Accounts, r \notin lock[a]
        PROVE  account_state'[a] = account_state[a]
    <2>1. a \notin UniqueAccountIds(submission[r])
      BY <1>1 DEF LockInv, HeldInv, Staging
    <2> QED
      BY <2>1 DEF Publish, WrittenState
  <1> QED
    BY <1>1, LockReleased DEF Publish, Staging

\* The lock reads the row it takes, and nobody holds it.
LEMMA LockTaken ==
    ASSUME TypeOK, LockInv, NEW r \in Requests, LockAccount(r)
    PROVE  LockInv'
  <1>1. PICK a \in Accounts :
          /\ NextToLock(r, a)
          /\ account_type[a] # NoType
          /\ Grantable(a)
          /\ lock' = [lock EXCEPT ![a] = @ \cup {r}]
          /\ chain' = [chain EXCEPT ![r][a] =
                          [account_type |-> account_type[a],
                           current_balance |-> account_state[a].current_balance,
                           latest_hash |-> account_state[a].latest_hash,
                           latest_sequence |-> account_state[a].latest_sequence]]
    BY DEF LockAccount
  <1>2. /\ pc[r] = "locking"
        /\ UNCHANGED <<account_type, account_state, pc, submission>>
    BY DEF LockAccount, tables
  <1>3. lock'[a] = {r} /\ \A b \in Accounts \ {a} : lock'[b] = lock[b]
    BY <1>1 DEF Grantable, TypeOK
  <1>4. /\ chain'[r][a] = [account_type |-> account_type[a],
                           current_balance |-> account_state[a].current_balance,
                           latest_hash |-> account_state[a].latest_hash,
                           latest_sequence |-> account_state[a].latest_sequence]
        /\ \A b \in Accounts \ {a} : chain'[r][b] = chain[r][b]
        /\ \A q \in Requests \ {r} : chain'[q] = chain[q]
    BY <1>1 DEF TypeOK
  <1>5. Held(a, r)'
    BY <1>1, <1>2, <1>3, <1>4 DEF Held, InTransaction, NextToLock, Unlocked, UniqueAccountIds
  <1>6. ASSUME NEW b \in Accounts, b # a, NEW q \in lock'[b] PROVE Held(b, q)'
    <2>1. q \in Requests /\ Held(b, q)
      BY <1>3, <1>6 DEF LockInv, LocksInv, TypeOK
    <2>2. chain'[q][b] = chain[q][b]
      BY <1>4, <1>6, <2>1
    <2> QED
      BY <1>2, <1>3, <1>6, <2>1, <2>2 DEF Held, UniqueAccountIds
  <1>7. LocksInv'
    BY <1>3, <1>5, <1>6 DEF LocksInv
  <1>8. HeldInv'
    <2> SUFFICES ASSUME NEW q \in Requests, pc[q] \in Staging,
                        NEW b \in UniqueAccountIds(submission[q])
                 PROVE  q \in lock'[b]
      BY <1>2 DEF HeldInv, UniqueAccountIds
    <2>1. q \in lock[b] /\ b \in Accounts
      BY SubmissionType DEF LockInv, HeldInv, TypeOK
    <2> QED
      BY <1>1, <2>1 DEF Grantable, TypeOK
  <1> QED
    BY <1>7, <1>8 DEF LockInv

\* The inserts move the tips in memory and nothing of the locked rows.
LEMMA AdvanceTipKeeps ==
    ASSUME NEW rows \in [Accounts -> ChainStates], NEW e, NEW a \in Accounts
    PROVE  /\ AdvanceTip(rows, e)[a].account_type = rows[a].account_type
           /\ AdvanceTip(rows, e)[a].current_balance = rows[a].current_balance
  BY DEF AdvanceTip, ChainStates

\* The two outcomes of PostEntries.
LEMMA PostEntriesCases ==
    ASSUME TypeOK, NEW r \in Requests, PostEntries(r)
    PROVE  \/ UniqueViolation(r)
           \/ \E first \in Entries, second \in Entries :
                /\ first = FirstEntry(submission[r], chain[r], txn[r])
                /\ second = SecondEntry(submission[r], chain[r], first, txn[r])
                /\ ~SlotTaken({first, second})
                /\ BalancesFit(submission[r])
                /\ staged' = [staged EXCEPT ![r] = {first, second}]
                /\ chain' = [chain EXCEPT ![r] = AdvanceTip(AdvanceTip(@, first), second)]
                /\ GoTo(r, "keying")
                /\ UNCHANGED <<clock, tables, lock, submission, txn, outcome, attempts>>
  <1>1. PICK first, second :
          /\ first = FirstEntry(submission[r], chain[r], txn[r])
          /\ second = SecondEntry(submission[r], chain[r], first, txn[r])
          /\ IF SlotTaken({first, second})
             THEN UniqueViolation(r)
             ELSE /\ BalancesFit(submission[r])
                  /\ staged' = [staged EXCEPT ![r] = {first, second}]
                  /\ chain' = [chain EXCEPT ![r] = AdvanceTip(AdvanceTip(@, first), second)]
                  /\ GoTo(r, "keying")
                  /\ UNCHANGED <<clock, tables, lock, submission, txn, outcome, attempts>>
    BY DEF PostEntries
  <1>2. first \in Entries /\ second \in Entries
    BY <1>1, PostedEntriesType
  <1> QED
    BY <1>1, <1>2

\* What staging leaves as it was, in the terms of the locks.
LEMMA StagedRows ==
    ASSUME TypeOK, NEW r \in Requests, PostEntries(r), ~UniqueViolation(r)
    PROVE  /\ pc[r] = "locking" /\ GoTo(r, "keying")
           /\ HoldsAll(r)
           /\ PostingVerdict(submission[r], chain[r]) = "ok"
           /\ BalancesFit(submission[r])
           /\ UNCHANGED <<clock, tables, lock, submission, txn, outcome, attempts>>
           /\ \A q \in Requests \ {r} : chain'[q] = chain[q] /\ staged'[q] = staged[q]
           /\ \A a \in Accounts :
                /\ chain'[r][a].account_type = chain[r][a].account_type
                /\ chain'[r][a].current_balance = chain[r][a].current_balance
  <1>1. PICK first \in Entries, second \in Entries :
          /\ BalancesFit(submission[r])
          /\ staged' = [staged EXCEPT ![r] = {first, second}]
          /\ chain' = [chain EXCEPT ![r] = AdvanceTip(AdvanceTip(@, first), second)]
          /\ GoTo(r, "keying")
          /\ UNCHANGED <<clock, tables, lock, submission, txn, outcome, attempts>>
    BY PostEntriesCases
  <1>2. chain \in [Requests -> [Accounts -> ChainStates]]
        /\ staged \in [Requests -> SUBSET Entries]
    BY DEF TypeOK
  <1>3. chain'[r] = AdvanceTip(AdvanceTip(chain[r], first), second)
    BY <1>1, <1>2
  <1>4. AdvanceTip(chain[r], first) \in [Accounts -> ChainStates]
    BY <1>2, AdvanceTipType
  <1>5. ASSUME NEW a \in Accounts
        PROVE  /\ chain'[r][a].account_type = chain[r][a].account_type
               /\ chain'[r][a].current_balance = chain[r][a].current_balance
    BY <1>2, <1>3, <1>4, AdvanceTipKeeps
  <1>6. \A q \in Requests \ {r} : chain'[q] = chain[q] /\ staged'[q] = staged[q]
    BY <1>1, <1>2
  <1> QED
    BY <1>1, <1>5, <1>6 DEF PostEntries, ReadyToPost

LEMMA LockStaged ==
    ASSUME TypeOK, LockInv, NEW r \in Requests, PostEntries(r)
    PROVE  LockInv'
  <1>1. CASE UniqueViolation(r)
    BY <1>1, LockUnique
  <1>2. CASE ~UniqueViolation(r)
    <2>1. /\ pc[r] = "locking" /\ pc' = [pc EXCEPT ![r] = "keying"]
          /\ HoldsAll(r)
          /\ UNCHANGED <<account_type, account_state, lock, submission>>
      BY <1>2, StagedRows DEF tables, GoTo
    <2>2. ASSUME NEW a \in Accounts, NEW q \in lock'[a] PROVE Held(a, q)'
      <3>1. q \in Requests /\ Held(a, q)
        BY <2>1, <2>2 DEF LockInv, LocksInv, TypeOK
      <3>2. /\ chain'[q][a].account_type = chain[q][a].account_type
            /\ chain'[q][a].current_balance = chain[q][a].current_balance
        BY <1>2, <3>1, StagedRows
      <3>3. CASE q = r
        BY <2>1, <3>1, <3>2, <3>3 DEF Held, UniqueAccountIds, InTransaction, TypeOK
      <3>4. CASE q # r
        <4>1. chain'[q] = chain[q] /\ pc'[q] = pc[q]
          BY <1>2, <2>1, <3>1, <3>4, StagedRows DEF TypeOK
        <4> QED
          BY <2>1, <3>1, <4>1 DEF Held, UniqueAccountIds
      <3> QED BY <3>3, <3>4
    <2>3. ASSUME NEW q \in Requests, pc'[q] \in Staging,
                 NEW a \in UniqueAccountIds(submission[q])
          PROVE  q \in lock'[a]
      <3>1. CASE q = r
        BY <2>1, <2>3, <3>1 DEF HoldsAll, Unlocked
      <3>2. CASE q # r
        BY <2>1, <2>3, <3>2 DEF LockInv, HeldInv, TypeOK
      <3> QED BY <3>1, <3>2
    <2> QED
      BY <2>1, <2>2, <2>3 DEF LockInv, LocksInv, HeldInv, UniqueAccountIds
  <1> QED BY <1>1, <1>2

-----------------------------------------------------------------------------
LEMMA LockStep == TypeOK /\ LockInv /\ [Next]_vars => LockInv'
  <1> SUFFICES ASSUME TypeOK, LockInv, [Next]_vars PROVE LockInv'
    OBVIOUS
  <1> USE DEF tables, workspace
  <1>1. ASSUME NEW r \in Requests, Submit(r) PROVE LockInv'
    BY <1>1, LockUntouched DEF Submit, MaySend, InTransaction, Staging
  <1>2. ASSUME NEW r \in Requests, RejectAmount(r) PROVE LockInv'
    BY <1>2, LockUntouched DEF RejectAmount, Answer, MaySend, InTransaction, Staging
  <1>3. ASSUME NEW r \in Requests, LookupKey(r) PROVE LockInv'
    BY <1>3, LockUntouched DEF LookupKey, Replay, Answer, InTransaction, Staging
  <1>4. ASSUME NEW r \in Requests, Begin(r) PROVE LockInv'
    BY <1>4, LockUntouched DEF Begin, InTransaction, Staging
  <1>5. ASSUME NEW r \in Requests, AccountMissing(r) PROVE LockInv'
    BY <1>5, LockRollBack DEF AccountMissing
  <1>6. ASSUME NEW r \in Requests, RejectPosting(r) \/ RejectBalance(r) PROVE LockInv'
    BY <1>6, LockRollBack DEF RejectPosting, RejectBalance
  <1>7. ASSUME NEW r \in Requests, InsertKey(r) PROVE LockInv'
    BY <1>7 DEF InsertKey, GoTo, LockInv, LocksInv, HeldInv, Held, Staging, InTransaction,
                UniqueAccountIds, TypeOK
  <1>8. ASSUME NEW r \in Requests, KeyTaken(r) PROVE LockInv'
    BY <1>8, LockUnique DEF KeyTaken
  <1>9. ASSUME NEW r \in Requests, FetchWinner(r) PROVE LockInv'
    BY <1>9, LockUntouched DEF FetchWinner, Replay, Answer, InTransaction, Staging
  <1>10. ASSUME NEW r \in Requests, Commit(r) PROVE LockInv'
    BY <1>10, LockRollBack, LockPublish DEF Commit, Answer
  <1>11. ASSUME NEW r \in Requests, ConnectionLost(r) PROVE LockInv'
    BY <1>11, LockRollBack DEF ConnectionLost
  <1>12. ASSUME NEW r \in Requests, CommitAnswerLost(r) PROVE LockInv'
    BY <1>12, LockPublish DEF CommitAnswerLost, Answer
  <1>13. ASSUME NEW b \in Accounts, NEW type \in AccountTypes, CreateAccount(b, type)
         PROVE  LockInv'
    <2>1. lock[b] = {}
      BY <1>13 DEF CreateAccount, LockInv, LocksInv, Held
    <2>2. \A a \in Accounts \ {b} : account_type'[a] = account_type[a]
                                    /\ account_state'[a] = account_state[a]
      BY <1>13 DEF CreateAccount, TypeOK
    <2>3. UNCHANGED <<lock, pc, submission, chain>>
      BY <1>13 DEF CreateAccount
    <2> QED
      BY <2>1, <2>2, <2>3 DEF LockInv, LocksInv, HeldInv, Held, UniqueAccountIds
  <1>14. CASE Tick
    BY <1>14 DEF Tick, LockInv, LocksInv, HeldInv, Held, UniqueAccountIds
  <1>15. CASE UNCHANGED vars
    BY <1>15 DEF vars, LockInv, LocksInv, HeldInv, Held, UniqueAccountIds
  <1> QED
    BY <1>1, <1>2, <1>3, <1>4, <1>5, <1>6, <1>7, <1>8, <1>9, <1>10, <1>11, <1>12, <1>13,
       <1>14, <1>15, LockTaken, LockStaged DEF Next, Advance, Terminated

LEMMA LockInit == Init => LockInv
  BY DEF Init, LockInv, LocksInv, HeldInv, Staging

LEMMA LockInvHolds == Spec => [](TypeOK /\ LockInv)
  BY TypeInit, LockInit, TypeStep, LockStep, PTL DEF Spec

\* Between its lock and its commit nobody changes an account
\* (ledger.service.ts:275-281, "safe from TOCTOU").
THEOREM LocksHold == Spec => []LockedRowsAreCurrent
  BY LockInvHolds, LockInvImplies, PTL

-----------------------------------------------------------------------------
(***************************************************************************)
(* Deadlocks.  Accounts are locked in ascending order, so a chain of waits *)
(* for row locks ascends too and ends at the latest at the largest         *)
(* account; keys are waited for by holders of all locks, and connections   *)
(* by requests that hold none.                                             *)
(***************************************************************************)
\* What a request has locked is below what it has still to lock.
OrderInv ==
    \A r \in Requests : pc[r] = "locking" =>
        \A a, b \in UniqueAccountIds(submission[r]) :
            r \in lock[a] /\ r \notin lock[b] => a < b

\* Nobody changes what a client sends.
LEMMA SubmissionStep == [Next]_vars => submission' = submission
  BY DEF Next, vars, tables, workspace, Submit, RejectAmount, Advance, LookupKey, Begin,
         LockAccount, AccountMissing, RejectPosting, RejectBalance, PostEntries, InsertKey, KeyTaken,
         FetchWinner, Commit, ConnectionLost, CommitAnswerLost, CreateAccount, Tick,
         Terminated, RollBackWith, UniqueViolation

\* A step after which r is taking locks took one, began, or left its locks alone.
LEMMA LockingStep ==
    ASSUME TypeOK, [Next]_vars, NEW r \in Requests, pc'[r] = "locking"
    PROVE  \/ LockAccount(r)
           \/ Begin(r)
           \/ pc[r] = "locking" /\ \A a \in Accounts : r \in lock'[a] <=> r \in lock[a]
  <1> DEFINE Kept == pc[r] = "locking" /\ \A a \in Accounts : r \in lock'[a] <=> r \in lock[a]
  <1>0. /\ pc \in [Requests -> Steps] /\ lock \in [Accounts -> SUBSET Requests]
    BY DEF TypeOK
  <1>1. ASSUME NEW q \in Requests, EndTransaction(q), NEW next, GoTo(q, next), next # "locking"
        PROVE  Kept
    <2>1. q # r /\ pc'[r] = pc[r]
      BY <1>0, <1>1 DEF GoTo
    <2> QED
      BY <1>1, <2>1 DEF EndTransaction
  <1>2. ASSUME NEW q \in Requests, NEW kind, RollBackWith(q, kind) PROVE Kept
    BY <1>1, <1>2 DEF RollBackWith, Answer
  <1>3. ASSUME NEW q \in Requests, UniqueViolation(q) PROVE Kept
    BY <1>1, <1>3 DEF UniqueViolation
  <1>4. ASSUME NEW q \in Requests, Commit(q) PROVE Kept
    BY <1>1, <1>2, <1>4 DEF Commit, Answer
  <1>5. ASSUME NEW q \in Requests, CommitAnswerLost(q) PROVE Kept
    BY <1>1, <1>5 DEF CommitAnswerLost, Answer
  <1>6. ASSUME NEW q \in Requests, PostEntries(q) PROVE Kept
    <2>1. CASE UniqueViolation(q)
      BY <1>3, <2>1
    <2>2. CASE ~UniqueViolation(q)
      BY <1>0, <1>6, <2>2, StagedRows DEF GoTo
    <2> QED BY <2>1, <2>2
  <1>7. ASSUME NEW q \in Requests, q # r, Begin(q) \/ LockAccount(q) PROVE Kept
    BY <1>0, <1>7 DEF Begin, LockAccount, GoTo
  <1>8. ASSUME NEW q \in Requests, AccountMissing(q) \/ RejectPosting(q) \/ RejectBalance(q)
                                   \/ ConnectionLost(q) \/ KeyTaken(q)
        PROVE  Kept
    BY <1>2, <1>3, <1>8 DEF AccountMissing, RejectPosting, RejectBalance, ConnectionLost, KeyTaken
  <1>9. ASSUME NEW q \in Requests, Submit(q) \/ RejectAmount(q) \/ LookupKey(q)
                                   \/ InsertKey(q) \/ FetchWinner(q)
        PROVE  Kept
    BY <1>0, <1>9 DEF Submit, RejectAmount, LookupKey, InsertKey, FetchWinner, Answer, Replay, GoTo
  <1>10. ASSUME UNCHANGED <<lock, pc>> PROVE Kept
    BY <1>10
  <1>11. (\E a \in Accounts, type \in AccountTypes : CreateAccount(a, type))
            \/ Tick \/ Terminated \/ UNCHANGED vars => UNCHANGED <<lock, pc>>
    BY DEF CreateAccount, Tick, Terminated, vars
  <1> HIDE DEF Kept
  <1>12. Kept \/ LockAccount(r) \/ Begin(r)
    BY <1>4, <1>5, <1>6, <1>7, <1>8, <1>9, <1>10, <1>11 DEF Next, Advance
  <1> QED
    BY <1>12 DEF Kept

LEMMA OrderStep == TypeOK /\ LockInv /\ OrderInv /\ [Next]_vars => OrderInv'
  <1> SUFFICES ASSUME TypeOK, LockInv, OrderInv, [Next]_vars, NEW r \in Requests,
                      pc'[r] = "locking",
                      NEW a \in UniqueAccountIds(submission[r]),
                      NEW b \in UniqueAccountIds(submission[r]),
                      r \in lock'[a], r \notin lock'[b]
               PROVE  a < b
    BY SubmissionStep DEF OrderInv, UniqueAccountIds
  <1>0. a \in Accounts /\ b \in Accounts /\ a \in Nat /\ b \in Nat
    BY SubmissionType, AccountsAssumption DEF TypeOK
  <1>1. CASE LockAccount(r)
    <2>1. PICK c \in Accounts : NextToLock(r, c) /\ lock' = [lock EXCEPT ![c] = @ \cup {r}]
      BY <1>1 DEF LockAccount
    <2>2. lock \in [Accounts -> SUBSET Requests] /\ pc[r] = "locking"
      BY <1>1 DEF TypeOK, LockAccount
    <2>3. b # c /\ r \notin lock[b]
      BY <1>0, <2>1, <2>2
    <2>4. CASE a = c
      BY <1>0, <2>1, <2>3, <2>4 DEF NextToLock, Unlocked
    <2>5. CASE a # c
      BY <1>0, <2>1, <2>2, <2>3, <2>5 DEF OrderInv
    <2> QED BY <2>4, <2>5
  <1>2. CASE Begin(r)
    <2>1. pc[r] = "begin" /\ lock' = lock
      BY <1>2 DEF Begin
    <2> QED
      BY <1>0, <2>1 DEF LockInv, LocksInv, Held, InTransaction
  <1>3. CASE pc[r] = "locking" /\ \A c \in Accounts : r \in lock'[c] <=> r \in lock[c]
    BY <1>0, <1>3 DEF OrderInv
  <1> QED
    BY <1>1, <1>2, <1>3, LockingStep

\* A set of numbers up to n in which none is the largest is empty.
LEMMA NoLargest ==
    ASSUME NEW n \in Nat, NEW T, T \subseteq 0..n, \A a \in T : \E b \in T : a < b
    PROVE  T = {}
  <1> SUFFICES ASSUME T # {} PROVE FALSE
    OBVIOUS
  <1> DEFINE U == {n - a : a \in T}
  <1>1. U \subseteq Nat /\ U # {}
    <2>1. \A a \in T : n - a \in Nat
      OBVIOUS
    <2> QED
      BY <2>1, Zenon
  <1> HIDE DEF U
  <1>2. PICK m \in U : \A k \in U : <<k, m>> \notin OpToRel(<, Nat)
    BY <1>1, WFMin, NatLessThanWellFounded, Zenon
  <1>3. \A k \in U : ~(k < m)
    BY <1>1, <1>2, Zenon DEF OpToRel
  <1>4. PICK a \in T : m = n - a
    BY DEF U
  <1>5. PICK b \in T : a < b
    BY <1>4
  <1>6. n - b \in U
    BY DEF U
  <1> QED
    BY <1>3, <1>4, <1>5, <1>6

LEMMA NoCircle ==
    ASSUME TypeOK, LockInv, OrderInv, NEW n \in Nat, Accounts \subseteq 0..n
    PROVE  NoDeadlock
  <1> SUFFICES ASSUME NEW S, S \subseteq Requests, S # {}, \A r \in S : WaitsWithin(r, S)
               PROVE  FALSE
    BY Zenon DEF NoDeadlock
  <1>1. \A r \in S : pc[r] # "committing"
    BY DEF WaitsWithin
  <1>2. \A r \in S : pc[r] # "keying"
    BY <1>1 DEF WaitsWithin, Inserting
  <1>3. \A r \in S : pc[r] \in InTransaction => pc[r] = "locking"
    BY <1>1, <1>2 DEF InTransaction
  <1> DEFINE T == {a \in Accounts : \E r \in S :
                      pc[r] = "locking" /\ NextToLock(r, a) /\ lock[a] \cap S # {}}
  <1>4. \A r \in S : pc[r] = "locking" => \E a \in T : NextToLock(r, a)
    BY DEF WaitsWithin
  <1>5. \E r \in S : pc[r] = "locking"
    <2> SUFFICES ASSUME \A r \in S : pc[r] # "locking" PROVE FALSE
      OBVIOUS
    <2>1. ~ConnectionFree /\ Connected \subseteq S
      BY <1>1, <1>2 DEF WaitsWithin
    <2>2. Connected = {}
      BY <1>3, <2>1 DEF Connected
    <2> QED
      BY <2>1, <2>2, FS_EmptySet, BoundsAssumption DEF ConnectionFree
  <1>6. T # {}
    BY <1>4, <1>5
  <1>7. ASSUME NEW a \in T PROVE \E b \in T : a < b
    <2>1. PICK q \in S : q \in lock[a]
      BY <1>7
    <2>2. Held(a, q)
      BY <1>7, <2>1 DEF LockInv, LocksInv
    <2>3. pc[q] = "locking" /\ a \in UniqueAccountIds(submission[q])
      BY <1>3, <2>1, <2>2 DEF Held
    <2>4. PICK b \in T : NextToLock(q, b)
      BY <1>4, <2>1, <2>3
    <2>5. b \in UniqueAccountIds(submission[q]) /\ q \notin lock[b]
      BY <2>4 DEF NextToLock, Unlocked
    <2>6. a < b
      BY <2>1, <2>3, <2>5 DEF OrderInv
    <2> QED BY <2>6
  <1>8. T \subseteq 0..n
    OBVIOUS
  <1> HIDE DEF T
  <1> QED
    BY <1>6, <1>7, <1>8, NoLargest

\* "Deadlock-safe under concurrency" (README.md:43): with ids of accounts up to any
\* largest one, no set of requests waits for itself over row locks, keys and the
\* connections of the pool.
THEOREM DeadlockFree ==
    ASSUME NEW n \in Nat, Accounts \subseteq 0..n
    PROVE  Spec => []NoDeadlock
  <1>1. Init => OrderInv
    BY DEF Init, OrderInv
  <1>2. TypeOK /\ LockInv /\ OrderInv => NoDeadlock
    BY NoCircle
  <1> QED
    BY <1>1, <1>2, OrderStep, LockInvHolds, PTL DEF Spec

-----------------------------------------------------------------------------
(***************************************************************************)
(* Why the decision of a posting still holds when it commits, and that no  *)
(* account is ever below zero or beyond its column.                        *)
(***************************************************************************)

-----------------------------------------------------------------------------
(***************************************************************************)
(* What a step of Next can do, in the terms the proofs need.               *)
(***************************************************************************)
\* The commit of r, answered or not.
Commits(r) ==
    /\ pc[r] = "committing"
    /\ EntrySum(staged[r]) = 0
    /\ Publish(r)
    /\ EndTransaction(r)
    /\ GoTo(r, "done")
    /\ UNCHANGED <<clock, submission, attempts>>

\* Rows change when an account is created and when a transaction commits.
LEMMA TableStep ==
    ASSUME [Next]_vars
    PROVE  \/ UNCHANGED <<account_type, account_state, journal_entries, events, idempotency_keys>>
           \/ \E a \in Accounts, type \in AccountTypes : CreateAccount(a, type)
           \/ \E r \in Requests : Commits(r)
  <1> DEFINE Quiet == UNCHANGED <<account_type, account_state, journal_entries, events,
                                  idempotency_keys>>
  <1>1. ASSUME NEW r \in Requests, NEW kind, RollBackWith(r, kind) PROVE Quiet
    BY <1>1 DEF RollBackWith, tables
  <1>2. ASSUME NEW r \in Requests, UniqueViolation(r) PROVE Quiet
    BY <1>2 DEF UniqueViolation, tables
  <1>3. ASSUME NEW r \in Requests, Commit(r) PROVE Quiet \/ Commits(r)
    BY <1>1, <1>3 DEF Commit, Commits, Answer
  <1>4. ASSUME NEW r \in Requests, CommitAnswerLost(r) PROVE Commits(r)
    BY <1>4 DEF CommitAnswerLost, Commits, Answer
  <1>5. ASSUME NEW r \in Requests, Submit(r) \/ RejectAmount(r) \/ LookupKey(r) \/ Begin(r)
                                   \/ LockAccount(r) \/ InsertKey(r) \/ FetchWinner(r)
        PROVE  Quiet
    BY <1>5 DEF Submit, RejectAmount, LookupKey, Begin, LockAccount, InsertKey, FetchWinner,
                tables
  <1>6. ASSUME NEW r \in Requests, AccountMissing(r) \/ RejectPosting(r) \/ RejectBalance(r) \/ ConnectionLost(r)
        PROVE  Quiet
    BY <1>1, <1>6 DEF AccountMissing, RejectPosting, RejectBalance, ConnectionLost
  <1>7. ASSUME NEW r \in Requests, PostEntries(r) PROVE Quiet
    BY <1>2, <1>7 DEF PostEntries, tables
  <1>8. ASSUME NEW r \in Requests, KeyTaken(r) PROVE Quiet
    BY <1>2, <1>8 DEF KeyTaken
  <1>9. ASSUME Tick \/ Terminated \/ UNCHANGED vars PROVE Quiet
    BY <1>9 DEF Tick, Terminated, vars, tables
  <1> HIDE DEF Quiet
  <1>10. Quiet \/ (\E a \in Accounts, type \in AccountTypes : CreateAccount(a, type))
               \/ (\E r \in Requests : Commits(r))
    BY <1>3, <1>4, <1>5, <1>6, <1>7, <1>8, <1>9 DEF Next, Advance
  <1> QED
    BY <1>10 DEF Quiet

\* A request that has staged entries staged them before, or now.
LEMMA StagingStep ==
    ASSUME TypeOK, [Next]_vars, NEW r \in Requests, pc'[r] \in Staging
    PROVE  \/ pc[r] \in Staging
           \/ PostEntries(r) /\ ~UniqueViolation(r)
  <1> USE DEF Staging, GoTo
  <1>0. pc \in [Requests -> Steps]
    BY DEF TypeOK
  <1>1. ASSUME NEW q \in Requests, PostEntries(q)
        PROVE  pc[r] \in Staging \/ (PostEntries(r) /\ ~UniqueViolation(r))
    <2>1. CASE UniqueViolation(q)
      <3>1. pc' = [pc EXCEPT ![q] = "conflict"]
        BY <2>1 DEF UniqueViolation
      <3>2. r # q /\ pc'[r] = pc[r]
        BY <1>0, <3>1
      <3> QED BY <3>2
    <2>2. CASE ~UniqueViolation(q)
      BY <1>0, <1>1, <2>2, StagedRows
    <2> QED BY <2>1, <2>2
  <1>2. ASSUME NEW q \in Requests, Submit(q) \/ RejectAmount(q) \/ LookupKey(q) \/ Begin(q)
                                   \/ LockAccount(q) \/ InsertKey(q) \/ FetchWinner(q)
        PROVE  pc[r] \in Staging
    BY <1>0, <1>2 DEF Submit, RejectAmount, LookupKey, Begin, LockAccount, InsertKey, FetchWinner,
                Answer, Replay
  <1>3. ASSUME NEW q \in Requests, AccountMissing(q) \/ RejectPosting(q) \/ RejectBalance(q) \/ KeyTaken(q)
                                   \/ Commit(q) \/ ConnectionLost(q) \/ CommitAnswerLost(q)
        PROVE  pc[r] \in Staging
    BY <1>0, <1>3 DEF AccountMissing, RejectPosting, RejectBalance, KeyTaken, Commit, ConnectionLost,
                CommitAnswerLost, RollBackWith, UniqueViolation, Answer
  <1> QED
    BY <1>1, <1>2, <1>3 DEF Next, Advance, CreateAccount, Tick, Terminated, vars

\* No step changes the rows of an account somebody holds and still holds after it.
LEMMA HeldRowsStay ==
    ASSUME TypeOK, LockInv, [Next]_vars, NEW a \in Accounts, NEW r \in lock[a], r \in lock'[a]
    PROVE  account_type'[a] = account_type[a] /\ account_state'[a] = account_state[a]
  <1>1. Held(a, r)
    BY DEF LockInv, LocksInv
  <1>2. ASSUME NEW b \in Accounts, NEW type \in AccountTypes, CreateAccount(b, type)
        PROVE  account_type'[a] = account_type[a] /\ account_state'[a] = account_state[a]
    BY <1>1, <1>2 DEF CreateAccount, Held, TypeOK
  <1>3. ASSUME NEW q \in Requests, Commits(q)
        PROVE  account_type'[a] = account_type[a] /\ account_state'[a] = account_state[a]
    <2>1. q # r
      BY <1>3 DEF Commits, EndTransaction
    <2>2. a \notin UniqueAccountIds(submission[q])
      BY <1>1, <1>3, <2>1 DEF Held, LockInv, HeldInv, Commits, Staging
    <2> QED
      BY <1>3, <2>2 DEF Commits, Publish, WrittenState
  <1> QED
    BY <1>2, <1>3, TableStep

-----------------------------------------------------------------------------
(***************************************************************************)
(* What the checks decided, over the committed rows.                       *)
(***************************************************************************)
AmountInv == \A r \in Requests : pc[r] \notin {"idle", "done"} => submission[r].amount > 0

Funded(s) == s.kind = "transfer" =>
    /\ NormalBalanceSide(account_type[s.from]) = NormalBalanceSide(account_type[s.to])
    /\ account_state[s.from].current_balance >= s.amount

FromHouse(s) == s.kind = "deposit" =>
    account_type[s.from] = "asset" /\ account_type[s.to] = "liability"

Decided(s) ==
    /\ \A a \in UniqueAccountIds(s) : account_type[a] # NoType
    /\ Funded(s)
    /\ FromHouse(s)
    /\ BalancesFit(s)

DecidedInv == \A r \in Requests : pc[r] \in Staging => Decided(submission[r])

SolventInv == \A a \in Accounts :
    0 <= account_state[a].current_balance /\ account_state[a].current_balance <= MaxBalance

\* An account that does not exist yet has no balance.
FreshInv == \A a \in Accounts : account_type[a] = NoType => account_state[a] = NewAccountState

PostingInv == AmountInv /\ DecidedInv /\ SolventInv /\ FreshInv

LEMMA AmountStep == TypeOK /\ AmountInv /\ [Next]_vars => AmountInv'
  <1> SUFFICES ASSUME TypeOK, AmountInv, [Next]_vars, NEW r \in Requests,
                      pc'[r] \notin {"idle", "done"}
               PROVE  submission'[r].amount > 0
    BY DEF AmountInv
  <1>0. pc \in [Requests -> Steps] /\ submission' = submission
    BY SubmissionStep DEF TypeOK
  <1> USE DEF AmountInv, GoTo
  <1>1. ASSUME NEW q \in Requests, PostEntries(q) PROVE submission[r].amount > 0
    <2>1. CASE UniqueViolation(q)
      BY <1>0, <1>1, <2>1 DEF UniqueViolation, PostEntries, ReadyToPost
    <2>2. CASE ~UniqueViolation(q)
      BY <1>0, <1>1, <2>2, StagedRows
    <2> QED BY <2>1, <2>2
  <1>2. ASSUME NEW q \in Requests, Submit(q) \/ RejectAmount(q) \/ LookupKey(q) \/ Begin(q)
                                   \/ LockAccount(q) \/ InsertKey(q) \/ FetchWinner(q)
        PROVE  submission[r].amount > 0
    BY <1>0, <1>2 DEF Submit, RejectAmount, LookupKey, Begin, LockAccount, InsertKey,
                      FetchWinner, Answer, Replay
  <1>3. ASSUME NEW q \in Requests, AccountMissing(q) \/ RejectPosting(q) \/ RejectBalance(q) \/ KeyTaken(q)
                                   \/ Commit(q) \/ ConnectionLost(q) \/ CommitAnswerLost(q)
        PROVE  submission[r].amount > 0
    BY <1>0, <1>3 DEF AccountMissing, RejectPosting, RejectBalance, KeyTaken, Commit, ConnectionLost,
                      CommitAnswerLost, RollBackWith, UniqueViolation, Answer
  <1>4. ASSUME pc' = pc PROVE submission[r].amount > 0
    BY <1>4
  <1> QED
    BY <1>0, <1>1, <1>2, <1>3, <1>4 DEF Next, Advance, CreateAccount, Tick, Terminated, vars

\* The verdict "ok" on rows of the types and balances of the tables, when the new
\* balances fit, is Decided.
LEMMA VerdictDecides ==
    ASSUME TypeOK, NEW s \in Submissions, s.amount > 0, NEW rows \in [Accounts -> ChainStates],
           PostingVerdict(s, rows) = "ok", BalancesFit(s),
           \A a \in UniqueAccountIds(s) :
              /\ account_type[a] # NoType
              /\ rows[a].account_type = account_type[a]
              /\ rows[a].current_balance = account_state[a].current_balance
    PROVE  Decided(s)
  <1>0. /\ s.from \in Accounts /\ s.to \in Accounts /\ s.amount \in Int /\ s.kind \in Kinds
        /\ UniqueAccountIds(s) = {s.from, s.to}
    BY SubmissionType
  <1>1. /\ BalanceSum(s, TypesOf(rows)) = 0
        /\ PolicyVerdict(s, rows) = "ok"
    BY DEF PostingVerdict
  <1>3. TypesOf(rows)[s.from] = account_type[s.from] /\ TypesOf(rows)[s.to] = account_type[s.to]
    BY <1>0 DEF TypesOf
  <1>4. ASSUME s.kind = "transfer"
        PROVE  /\ NormalBalanceSide(account_type[s.from]) = NormalBalanceSide(account_type[s.to])
               /\ account_state[s.from].current_balance >= s.amount
    <2>1. NormalBalanceSide(TypesOf(rows)[s.from]) = NormalBalanceSide(TypesOf(rows)[s.to])
      BY <1>0, <1>1, <1>4, TransferBalances
    <2>2. SufficientFunds(rows[s.from].current_balance, s.amount)
      BY <1>1, <1>4 DEF PolicyVerdict
    <2> QED
      BY <1>0, <1>3, <2>1, <2>2 DEF SufficientFunds
  <1>5. ASSUME s.kind = "deposit"
        PROVE  account_type[s.from] = "asset" /\ account_type[s.to] = "liability"
    BY <1>0, <1>1, <1>5 DEF PolicyVerdict
  <1> QED
    BY <1>4, <1>5 DEF Decided, Funded, FromHouse

LEMMA DecidedStep ==
    TypeOK /\ LockInv /\ LockInv' /\ AmountInv /\ DecidedInv /\ [Next]_vars => DecidedInv'
  <1> SUFFICES ASSUME TypeOK, LockInv, LockInv', AmountInv, DecidedInv, [Next]_vars,
                      NEW r \in Requests, pc'[r] \in Staging
               PROVE  Decided(submission[r])'
    BY DEF DecidedInv
  <1> DEFINE s == submission[r]
  <1>0. submission' = submission /\ s \in Submissions
    BY SubmissionStep DEF TypeOK
  <1>1. CASE pc[r] \in Staging
    <2>1. \A a \in {s.from, s.to} : account_type'[a] = account_type[a]
                                    /\ account_state'[a] = account_state[a]
      <3> SUFFICES ASSUME NEW a \in {s.from, s.to}
                   PROVE  account_type'[a] = account_type[a] /\ account_state'[a] = account_state[a]
        OBVIOUS
      <3>1. a \in Accounts /\ a \in UniqueAccountIds(s)
        BY <1>0, SubmissionType
      <3>2. r \in lock[a] /\ r \in lock'[a]
        BY <1>0, <1>1, <3>1 DEF LockInv, HeldInv
      <3> QED
        BY <3>1, <3>2, HeldRowsStay
    <2>2. Decided(s)
      BY <1>1 DEF DecidedInv
    <2> QED
      BY <1>0, <2>1, <2>2 DEF Decided, Funded, FromHouse, BalancesFit, UniqueAccountIds
  <1>2. CASE PostEntries(r) /\ ~UniqueViolation(r)
    <2>1. /\ PostingVerdict(s, chain[r]) = "ok"
          /\ BalancesFit(s)
          /\ HoldsAll(r)
          /\ pc[r] = "locking"
          /\ UNCHANGED <<account_type, account_state>>
      BY <1>2, StagedRows DEF tables
    <2>2. s.amount > 0 /\ chain[r] \in [Accounts -> ChainStates]
      BY <2>1 DEF AmountInv, TypeOK
    <2>3. \A a \in UniqueAccountIds(s) :
              /\ account_type[a] # NoType
              /\ chain[r][a].account_type = account_type[a]
              /\ chain[r][a].current_balance = account_state[a].current_balance
      BY <1>0, <2>1, SubmissionType DEF HoldsAll, Unlocked, LockInv, LocksInv, Held
    <2>4. Decided(s)
      BY <1>0, <2>1, <2>2, <2>3, VerdictDecides
    <2> QED
      BY <1>0, <2>1, <2>4 DEF Decided, Funded, FromHouse, BalancesFit, UniqueAccountIds
  <1> QED
    BY <1>1, <1>2, StagingStep

\* What a posting that was decided does to the balances.
LEMMA PostedBalances ==
    ASSUME TypeOK, NEW r \in Requests, Publish(r), NEW a \in Accounts
    PROVE  account_state'[a].current_balance
              = account_state[a].current_balance + AccountDelta(submission[r], a)
  <1>1. submission[r] \in Submissions /\ account_state[a].current_balance \in Int
    BY DEF TypeOK, AccountStates
  <1>2. a \notin UniqueAccountIds(submission[r]) => AccountDelta(submission[r], a) = 0
    BY <1>1, LegType, SubmissionType DEF AccountDelta
  <1> QED
    BY <1>1, <1>2 DEF Publish, WrittenState

LEMMA SolventStep ==
    TypeOK /\ AmountInv /\ DecidedInv /\ SolventInv /\ [Next]_vars => SolventInv'
  <1> SUFFICES ASSUME TypeOK, AmountInv, DecidedInv, SolventInv, [Next]_vars, NEW a \in Accounts
               PROVE  /\ 0 <= account_state'[a].current_balance
                      /\ account_state'[a].current_balance <= MaxBalance
    BY DEF SolventInv
  <1>1. CASE UNCHANGED account_state
    BY <1>1 DEF SolventInv
  <1>2. ASSUME NEW b \in Accounts, NEW type \in AccountTypes, CreateAccount(b, type)
        PROVE  /\ 0 <= account_state'[a].current_balance
               /\ account_state'[a].current_balance <= MaxBalance
    BY <1>2, BoundsAssumption DEF CreateAccount, TypeOK, SolventInv, NewAccountState
  <1>3. ASSUME NEW r \in Requests, Commits(r)
        PROVE  /\ 0 <= account_state'[a].current_balance
               /\ account_state'[a].current_balance <= MaxBalance
    <2> DEFINE s == submission[r]
               old == account_state[a].current_balance
               new == account_state'[a].current_balance
    <2>1. s \in Submissions /\ s.amount \in Int /\ s.amount > 0 /\ s.kind \in Kinds
      BY <1>3, SubmissionType DEF TypeOK, Commits, AmountInv
    <2>2. Decided(s)
      BY <1>3 DEF DecidedInv, Commits, Staging
    <2>3. new = old + AccountDelta(s, a)
      BY <1>3, PostedBalances DEF Commits
    <2>4. old \in Int /\ 0 <= old /\ old <= MaxBalance
      BY DEF TypeOK, AccountStates, SolventInv
    <2>5. a \in UniqueAccountIds(s) => new <= MaxBalance
      BY <2>2, <2>3 DEF Decided, BalancesFit, InRange
    <2>6. a \notin UniqueAccountIds(s) => new = old
      BY <2>1, <2>3, <2>4, LegType, SubmissionType DEF AccountDelta
    <2>7. 0 <= new
      <3>1. CASE s.kind = "transfer"
        <4>1. a = s.from => old >= s.amount
          BY <2>2, <3>1 DEF Decided, Funded
        <4> QED
          BY <2>1, <2>3, <2>4, <3>1, <4>1, LegType DEF AccountDelta, BalanceDelta
      <3>2. CASE s.kind = "deposit"
        BY <2>1, <2>3, <2>4, <3>2, LegType DEF AccountDelta, BalanceDelta
      <3> QED
        BY <2>1, <3>1, <3>2 DEF Kinds
    <2> QED
      BY <2>4, <2>5, <2>6, <2>7
  <1> QED
    BY <1>1, <1>2, <1>3, TableStep

LEMMA FreshStep == TypeOK /\ DecidedInv /\ FreshInv /\ [Next]_vars => FreshInv'
  <1> SUFFICES ASSUME TypeOK, DecidedInv, FreshInv, [Next]_vars, NEW a \in Accounts,
                      account_type'[a] = NoType
               PROVE  account_state'[a] = NewAccountState
    BY DEF FreshInv
  <1>1. CASE UNCHANGED <<account_type, account_state>>
    BY <1>1 DEF FreshInv
  <1>2. ASSUME NEW b \in Accounts, NEW type \in AccountTypes, CreateAccount(b, type)
        PROVE  account_state'[a] = NewAccountState
    BY <1>2 DEF CreateAccount, TypeOK, FreshInv
  <1>3. ASSUME NEW r \in Requests, Commits(r) PROVE account_state'[a] = NewAccountState
    <2>1. account_type[a] = NoType /\ Decided(submission[r])
      BY <1>3 DEF Commits, Publish, DecidedInv, Staging
    <2>2. a \notin UniqueAccountIds(submission[r])
      BY <2>1 DEF Decided
    <2> QED
      BY <1>3, <2>1, <2>2 DEF Commits, Publish, WrittenState, FreshInv
  <1> QED
    BY <1>1, <1>2, <1>3, TableStep

LEMMA PostingInit == Init => PostingInv
  BY BoundsAssumption
  DEF Init, PostingInv, AmountInv, DecidedInv, SolventInv, FreshInv, Staging, NewAccountState

LEMMA PostingStep == TypeOK /\ LockInv /\ LockInv' /\ PostingInv /\ [Next]_vars => PostingInv'
  BY AmountStep, DecidedStep, SolventStep, FreshStep DEF PostingInv

LEMMA PostingInvHolds == Spec => [](TypeOK /\ LockInv /\ PostingInv)
  BY PostingInit, PostingStep, LockInvHolds, PTL DEF Spec

LEMMA SolventIsNoOverdraft == TypeOK /\ PostingInv => NoOverdraft
  BY DEF TypeOK, AccountStates, PostingInv, SolventInv, NoOverdraft

\* No account is ever below zero, whatever transfers and deposits run at once
\* (the hard block of transfer-funds.ts:25-34).
THEOREM NeverOverdrawn == Spec => []NoOverdraft
  BY SolventIsNoOverdraft, PostingInvHolds, PTL
=============================================================================
