-------------------------- MODULE LedgerEntryProofs --------------------------
(***************************************************************************)
(* Why a key posts once and every success names its event: identities are  *)
(* never reused, and of the transactions that insert one key only one can  *)
(* come to its commit.  With that, the engine implements AbstractLedger,   *)
(* and the journal is made of chains whose entries are the legs of events. *)
(***************************************************************************)
EXTENDS LedgerEngineProofs, LedgerRefinement

-----------------------------------------------------------------------------
\* Transactions and events have identities of their own.
IdsInv ==
    /\ \A r \in Requests : pc[r] \in InTransaction => 0 < txn[r].id /\ txn[r].id < nextId
    /\ \A q, r \in Requests :
          pc[q] \in InTransaction /\ pc[r] \in InTransaction /\ txn[q].id = txn[r].id => q = r
    /\ \A e \in events :
          /\ 0 < e.id /\ e.id < nextId
          /\ \A r \in Requests : pc[r] \in InTransaction => e.id # txn[r].id

\* Keys and events are one to one, ...
EventsInv ==
    /\ \A e, f \in events : e.payload.key = f.payload.key \/ e.id = f.id => e = f
    /\ \A e \in events : idempotency_keys[e.payload.key] = e.id
    /\ \A k \in Keys : Bound(k) => \E e \in events : e.payload.key = k

\* ... and a transaction that inserted its key is the only one that will bind it.
InsertInv ==
    \A r \in Requests : pc[r] = "committing" =>
        /\ ~Bound(submission[r].key)
        /\ Inserting(submission[r].key) = {r}

KeyInv == IdsInv /\ EventsInv /\ InsertInv

-----------------------------------------------------------------------------
LEMMA TxnStep ==
    ASSUME TypeOK, [Next]_vars
    PROVE  \/ \E r \in Requests : Begin(r)
           \/ /\ nextId' = nextId
              /\ \A r \in Requests : pc'[r] \in InTransaction =>
                    pc[r] \in InTransaction /\ txn'[r] = txn[r]
  <1> DEFINE Kept == /\ nextId' = nextId
                     /\ \A r \in Requests : pc'[r] \in InTransaction =>
                           pc[r] \in InTransaction /\ txn'[r] = txn[r]
  <1>0. pc \in [Requests -> Steps] /\ txn \in [Requests -> [id: Nat, recorded_at: Nat]]
    BY DEF TypeOK
  <1>1. ASSUME NEW q \in Requests, NEW kind, RollBackWith(q, kind) PROVE Kept
    BY <1>0, <1>1 DEF RollBackWith, EndTransaction, Answer, GoTo, InTransaction, tables
  <1>2. ASSUME NEW q \in Requests, UniqueViolation(q) PROVE Kept
    BY <1>0, <1>2 DEF UniqueViolation, EndTransaction, GoTo, InTransaction, tables
  <1>3. ASSUME NEW q \in Requests, Commits(q) PROVE Kept
    BY <1>0, <1>3 DEF Commits, Publish, EndTransaction, GoTo, InTransaction
  <1>4. ASSUME NEW q \in Requests, Commit(q) PROVE Kept
    BY <1>1, <1>3, <1>4 DEF Commit, Commits, Answer
  <1>5. ASSUME NEW q \in Requests, CommitAnswerLost(q) PROVE Kept
    BY <1>3, <1>5 DEF CommitAnswerLost, Commits, Answer
  <1>6. ASSUME NEW q \in Requests, PostEntries(q) PROVE Kept
    <2>1. CASE UniqueViolation(q)
      BY <1>2, <2>1
    <2>2. CASE ~UniqueViolation(q)
      BY <1>0, <1>6, <2>2, StagedRows DEF GoTo, InTransaction, tables
    <2> QED BY <2>1, <2>2
  <1>7. ASSUME NEW q \in Requests, Submit(q) \/ RejectAmount(q) \/ LookupKey(q)
                                   \/ LockAccount(q) \/ InsertKey(q) \/ FetchWinner(q)
        PROVE  Kept
    BY <1>0, <1>7 DEF Submit, RejectAmount, LookupKey, LockAccount, InsertKey, FetchWinner,
                      Answer, Replay, GoTo, InTransaction, tables, workspace
  <1>8. ASSUME NEW q \in Requests, AccountMissing(q) \/ RejectPosting(q) \/ RejectBalance(q)
                                   \/ ConnectionLost(q) \/ KeyTaken(q)
        PROVE  Kept
    BY <1>1, <1>2, <1>8 DEF AccountMissing, RejectPosting, RejectBalance, ConnectionLost, KeyTaken
  <1>9. ASSUME UNCHANGED <<nextId, pc, txn>> PROVE Kept
    BY <1>9
  <1>10. (\E a \in Accounts, type \in AccountTypes : CreateAccount(a, type))
            \/ Tick \/ Terminated \/ UNCHANGED vars => UNCHANGED <<nextId, pc, txn>>
    BY DEF CreateAccount, Tick, Terminated, vars, tables, workspace
  <1> HIDE DEF Kept
  <1>11. Kept \/ \E r \in Requests : Begin(r)
    BY <1>4, <1>5, <1>6, <1>7, <1>8, <1>9, <1>10 DEF Next, Advance
  <1> QED
    BY <1>11 DEF Kept

LEMMA CommittingStep ==
    ASSUME TypeOK, [Next]_vars, NEW r \in Requests, pc'[r] = "committing"
    PROVE  pc[r] = "committing" \/ InsertKey(r)
  <1>0. pc \in [Requests -> Steps]
    BY DEF TypeOK
  <1>1. ASSUME NEW q \in Requests, PostEntries(q) PROVE pc[r] = "committing"
    <2>1. CASE UniqueViolation(q)
      BY <1>0, <2>1 DEF UniqueViolation, GoTo
    <2>2. CASE ~UniqueViolation(q)
      BY <1>0, <1>1, <2>2, StagedRows DEF GoTo
    <2> QED BY <2>1, <2>2
  <1>2. ASSUME NEW q \in Requests, Submit(q) \/ RejectAmount(q) \/ LookupKey(q) \/ Begin(q)
                                   \/ LockAccount(q) \/ FetchWinner(q)
        PROVE  pc[r] = "committing"
    BY <1>0, <1>2 DEF Submit, RejectAmount, LookupKey, Begin, LockAccount, FetchWinner,
                      Answer, Replay, GoTo
  <1>3. ASSUME NEW q \in Requests, AccountMissing(q) \/ RejectPosting(q) \/ RejectBalance(q) \/ KeyTaken(q)
                                   \/ Commit(q) \/ ConnectionLost(q) \/ CommitAnswerLost(q)
        PROVE  pc[r] = "committing"
    BY <1>0, <1>3 DEF AccountMissing, RejectPosting, RejectBalance, KeyTaken, Commit, ConnectionLost,
                      CommitAnswerLost, RollBackWith, UniqueViolation, Answer, GoTo
  <1>4. ASSUME NEW q \in Requests, InsertKey(q) PROVE pc[r] = "committing" \/ InsertKey(r)
    BY <1>0, <1>4 DEF InsertKey, GoTo
  <1>5. ASSUME pc' = pc PROVE pc[r] = "committing"
    BY <1>5
  <1> QED
    BY <1>1, <1>2, <1>3, <1>4, <1>5 DEF Next, Advance, CreateAccount, Tick, Terminated, vars

LEMMA BeginRows ==
    ASSUME TypeOK, NEW r \in Requests, Begin(r)
    PROVE  /\ nextId' = nextId + 1
           /\ txn'[r].id = nextId /\ pc[r] = "begin" /\ pc'[r] = "locking"
           /\ \A q \in Requests \ {r} : pc'[q] = pc[q] /\ txn'[q] = txn[q]
           /\ UNCHANGED <<events, idempotency_keys, submission>>
  BY DEF Begin, GoTo, TypeOK

\* The event r publishes.
NewEvent(r) == [id |-> txn[r].id, recorded_at |-> txn[r].recorded_at, payload |-> submission[r]]

LEMMA EventsStep ==
    ASSUME [Next]_vars
    PROVE  \/ UNCHANGED <<events, idempotency_keys>>
           \/ \E r \in Requests :
                 /\ Commits(r)
                 /\ events' = events \cup {NewEvent(r)}
                 /\ idempotency_keys' = [idempotency_keys EXCEPT ![submission[r].key] = txn[r].id]
  BY TableStep DEF Commits, Publish, NewEvent, CreateAccount

LEMMA IdsStep == TypeOK /\ IdsInv /\ [Next]_vars => IdsInv'
  <1> SUFFICES ASSUME TypeOK, IdsInv, [Next]_vars PROVE IdsInv'
    OBVIOUS
  <1>0. nextId \in Nat /\ \A r \in Requests : txn[r].id \in Nat
    BY DEF TypeOK
  <1>00. \A e \in events : e.id \in Nat
    BY DEF TypeOK, Events
  <1>1. ASSUME NEW b \in Requests, Begin(b) PROVE IdsInv'
    <2>1. /\ nextId' = nextId + 1
          /\ txn'[b].id = nextId /\ pc[b] = "begin" /\ pc'[b] = "locking"
          /\ \A q \in Requests \ {b} : pc'[q] = pc[q] /\ txn'[q] = txn[q]
          /\ UNCHANGED events
      BY <1>1, BeginRows
    <2>2. 0 < nextId
      BY DEF TypeOK
    <2> QED
      BY <1>0, <1>00, <2>1, <2>2 DEF IdsInv
  <1>2. ASSUME nextId' = nextId,
               \A r \in Requests : pc'[r] \in InTransaction =>
                    pc[r] \in InTransaction /\ txn'[r] = txn[r]
        PROVE  IdsInv'
    <2>1. CASE UNCHANGED events
      BY <1>2, <2>1 DEF IdsInv
    <2>2. ASSUME NEW c \in Requests, Commits(c), events' = events \cup {NewEvent(c)}
          PROVE  IdsInv'
      <3>1. pc[c] \in InTransaction /\ pc'[c] \notin InTransaction
        BY <2>2 DEF Commits, GoTo, InTransaction, TypeOK
      <3>2. NewEvent(c).id = txn[c].id
        BY DEF NewEvent
      <3> QED
        BY <1>2, <2>2, <3>1, <3>2 DEF IdsInv
    <2> QED
      BY <2>1, <2>2, EventsStep
  <1> QED
    BY <1>1, <1>2, TxnStep

LEMMA EventsInvStep == TypeOK /\ IdsInv /\ EventsInv /\ InsertInv /\ [Next]_vars => EventsInv'
  <1> SUFFICES ASSUME TypeOK, IdsInv, EventsInv, InsertInv, [Next]_vars PROVE EventsInv'
    OBVIOUS
  <1>1. CASE UNCHANGED <<events, idempotency_keys>>
    BY <1>1 DEF EventsInv, Bound
  <1>2. ASSUME NEW c \in Requests, Commits(c), events' = events \cup {NewEvent(c)},
               idempotency_keys' = [idempotency_keys EXCEPT ![submission[c].key] = txn[c].id]
        PROVE  EventsInv'
    <2> DEFINE n == NewEvent(c)
               k == submission[c].key
    <2>1. n.id = txn[c].id /\ n.payload.key = k
      BY DEF NewEvent
    <2>2. k \in Keys /\ idempotency_keys \in [Keys -> Nat]
      BY SubmissionType DEF TypeOK
    <2>3. \A e \in events : e.payload.key \in Keys
      BY SubmissionType DEF TypeOK, Events
    <2>4. idempotency_keys[k] = 0
      BY <1>2 DEF InsertInv, Commits, Bound
    <2>5. \A e \in events : e.id # n.id /\ e.id # 0
      BY <1>2, <2>1 DEF IdsInv, Commits, InTransaction
    <2>6. \A e \in events : e.payload.key # k
      BY <2>4, <2>5 DEF EventsInv
    <2>7. /\ idempotency_keys'[k] = n.id
          /\ \A l \in Keys \ {k} : idempotency_keys'[l] = idempotency_keys[l]
      BY <1>2, <2>1, <2>2
    <2> HIDE DEF n, k
    <2>8. \A e, f \in events' : e.payload.key = f.payload.key \/ e.id = f.id => e = f
      BY <1>2, <2>1, <2>5, <2>6 DEF EventsInv, n
    <2>9. \A e \in events' : idempotency_keys'[e.payload.key] = e.id
      BY <1>2, <2>1, <2>3, <2>6, <2>7 DEF EventsInv, n
    <2>10. ASSUME NEW l \in Keys, idempotency_keys'[l] # 0
           PROVE  \E e \in events' : e.payload.key = l
      <3>1. CASE l = k
        BY <1>2, <2>1, <3>1 DEF n
      <3>2. CASE l # k
        BY <1>2, <2>7, <2>10, <3>2 DEF EventsInv, Bound
      <3> QED BY <3>1, <3>2
    <2> QED
      BY <2>8, <2>9, <2>10 DEF EventsInv, Bound
  <1> QED
    BY <1>1, <1>2, EventsStep

LEMMA InsertStep == TypeOK /\ InsertInv /\ [Next]_vars => InsertInv'
  <1> SUFFICES ASSUME TypeOK, InsertInv, [Next]_vars PROVE InsertInv'
    OBVIOUS
  <1> submission' = submission
    BY SubmissionStep
  <1> SUFFICES ASSUME NEW r \in Requests, pc'[r] = "committing"
               PROVE  /\ idempotency_keys'[submission[r].key] = 0
                      /\ \A q \in Requests : pc'[q] = "committing"
                            /\ submission[q].key = submission[r].key => q = r
    BY DEF InsertInv, Inserting, Bound
  <1>0. /\ pc \in [Requests -> Steps]
        /\ idempotency_keys \in [Keys -> Nat]
        /\ \A q \in Requests : submission[q].key \in Keys
    BY SubmissionType DEF TypeOK
  <1>1. ASSUME NEW q \in Requests, InsertKey(q) PROVE UNCHANGED idempotency_keys
    BY <1>1 DEF InsertKey, tables
  <1>2. ASSUME NEW p \in Requests, NEW q \in Requests, p # q, pc'[p] = "committing",
               pc'[q] = "committing", submission[q].key = submission[p].key, InsertKey(p)
        PROVE  FALSE
    <2>1. pc'[q] = pc[q]
      BY <1>0, <1>2 DEF InsertKey, GoTo
    <2> QED
      BY <1>2, <2>1 DEF InsertKey, Inserting
  <1>3. \A q \in Requests : pc'[q] = "committing" /\ submission[q].key = submission[r].key
            => q = r
    <2> SUFFICES ASSUME NEW q \in Requests, pc'[q] = "committing",
                        submission[q].key = submission[r].key, q # r
                 PROVE  FALSE
      OBVIOUS
    <2>1. pc[q] = "committing" /\ pc[r] = "committing"
      BY <1>2, CommittingStep
    <2> QED
      BY <2>1 DEF InsertInv, Inserting
  <1>4. idempotency_keys'[submission[r].key] = 0
    <2>1. idempotency_keys[submission[r].key] = 0
      <3>1. CASE pc[r] = "committing"
        BY <3>1 DEF InsertInv, Bound
      <3>2. CASE InsertKey(r)
        BY <3>2 DEF InsertKey, Bound
      <3> QED BY <3>1, <3>2, CommittingStep
    <2>2. ASSUME NEW c \in Requests, Commits(c),
                 idempotency_keys' = [idempotency_keys EXCEPT ![submission[c].key] = txn[c].id]
          PROVE  idempotency_keys'[submission[r].key] = 0
      <3>1. c # r /\ pc[c] = "committing" /\ pc'[r] = pc[r]
        BY <1>0, <2>2 DEF Commits, GoTo
      <3>2. submission[c].key # submission[r].key
        BY <3>1 DEF InsertInv, Inserting
      <3> QED
        BY <1>0, <2>1, <2>2, <3>2
    <2> QED
      BY <2>1, <2>2, EventsStep
  <1> QED
    BY <1>3, <1>4

LEMMA KeyInit == Init => KeyInv
  BY DEF Init, KeyInv, IdsInv, EventsInv, InsertInv, InTransaction, Bound

LEMMA KeyStep == TypeOK /\ KeyInv /\ [Next]_vars => KeyInv'
  BY IdsStep, EventsInvStep, InsertStep DEF KeyInv

LEMMA KeyInvHolds == Spec => [](TypeOK /\ KeyInv)
  BY KeyInit, KeyStep, TypeInit, TypeStep, PTL DEF Spec

-----------------------------------------------------------------------------
(***************************************************************************)
(* The answers.                                                            *)
(***************************************************************************)
Success == {"posted", "replayed"}

\* A step that answers a request with success either commits it or found the
\* row of its key.
LEMMA AnswerStep ==
    ASSUME TypeOK, [Next]_vars, NEW r \in Requests, outcome'[r].kind \in Success
    PROVE  \/ outcome'[r] = outcome[r]
           \/ /\ Bound(submission[r].key)
              /\ outcome'[r].transaction_id = idempotency_keys[submission[r].key]
              /\ UNCHANGED events
           \/ /\ Commits(r)
              /\ outcome'[r].transaction_id = txn[r].id
  <1> DEFINE Good == \/ outcome'[r] = outcome[r]
                     \/ /\ Bound(submission[r].key)
                        /\ outcome'[r].transaction_id = idempotency_keys[submission[r].key]
                        /\ UNCHANGED events
                     \/ /\ Commits(r)
                        /\ outcome'[r].transaction_id = txn[r].id
  <1>0. outcome \in [Requests -> [kind: Outcomes, transaction_id: Nat]]
    BY DEF TypeOK
  <1>1. ASSUME NEW q \in Requests, NEW kind, kind \notin Success, NEW id, Answer(q, kind, id)
        PROVE  Good
    BY <1>0, <1>1 DEF Answer
  <1>2. ASSUME NEW q \in Requests, NEW kind, kind \notin Success, RollBackWith(q, kind)
        PROVE  Good
    BY <1>1, <1>2 DEF RollBackWith
  <1>3. ASSUME NEW q \in Requests, Submit(q) PROVE Good
    BY <1>0, <1>3 DEF Submit, NoOutcome, Success
  <1>4. ASSUME NEW q \in Requests, RejectAmount(q) PROVE Good
    BY <1>1, <1>4 DEF RejectAmount, Success
  <1>5. ASSUME NEW q \in Requests, Replay(q), Bound(submission[q].key), UNCHANGED tables
        PROVE  Good
    BY <1>0, <1>5 DEF Replay, Answer, tables
  <1>6. ASSUME NEW q \in Requests, LookupKey(q) PROVE Good
    BY <1>5, <1>6 DEF LookupKey
  <1>7. ASSUME NEW q \in Requests, FetchWinner(q) PROVE Good
    <2>1. CASE Bound(submission[q].key)
      BY <1>5, <1>7, <2>1 DEF FetchWinner
    <2>2. CASE ~Bound(submission[q].key)
      BY <1>1, <1>7, <2>2 DEF FetchWinner, Success
    <2> QED BY <2>1, <2>2
  <1>8. ASSUME NEW q \in Requests, AccountMissing(q) \/ ConnectionLost(q) \/ RejectBalance(q) PROVE Good
    BY <1>2, <1>8 DEF AccountMissing, ConnectionLost, RejectBalance, Success
  <1>9. ASSUME NEW q \in Requests, RejectPosting(q) PROVE Good
    <2>1. PostingVerdict(submission[q], chain[q]) \notin Success
      BY VerdictType DEF TypeOK, DomainErrors, Success
    <2> QED
      BY <1>2, <1>9, <2>1 DEF RejectPosting
  <1>10. ASSUME NEW q \in Requests, Commit(q) PROVE Good
    <2>1. CASE EntrySum(staged[q]) # 0
      BY <1>2, <1>10, <2>1 DEF Commit, Success
    <2>2. CASE EntrySum(staged[q]) = 0
      <3>1. Commits(q) /\ Answer(q, "posted", txn[q].id)
        BY <1>10, <2>2 DEF Commit, Commits, Answer
      <3> QED
        BY <1>0, <3>1 DEF Answer
    <2> QED BY <2>1, <2>2
  <1>11. ASSUME NEW q \in Requests, CommitAnswerLost(q) PROVE Good
    BY <1>1, <1>11 DEF CommitAnswerLost, Success
  <1>12. ASSUME NEW q \in Requests, Begin(q) \/ LockAccount(q) \/ PostEntries(q)
                                    \/ InsertKey(q) \/ KeyTaken(q)
         PROVE  Good
    BY <1>12 DEF Begin, LockAccount, PostEntries, InsertKey, KeyTaken, UniqueViolation
  <1>13. (\E a \in Accounts, type \in AccountTypes : CreateAccount(a, type))
            \/ Tick \/ Terminated \/ UNCHANGED vars => outcome' = outcome
    BY DEF CreateAccount, Tick, Terminated, vars
  <1> HIDE DEF Good
  <1>14. Good \/ outcome' = outcome
    BY <1>3, <1>4, <1>6, <1>7, <1>8, <1>9, <1>10, <1>11, <1>12, <1>13 DEF Next, Advance
  <1> QED
    BY <1>14 DEF Good

LEMMA SuccessStep ==
    TypeOK /\ EventsInv /\ SuccessNamesTheEvent /\ [Next]_vars => SuccessNamesTheEvent'
  <1> SUFFICES ASSUME TypeOK, EventsInv, SuccessNamesTheEvent, [Next]_vars,
                      NEW r \in Requests, outcome'[r].kind \in Success
               PROVE  \E e \in events' : /\ e.id = outcome'[r].transaction_id
                                         /\ e.payload.key = submission'[r].key
    BY DEF SuccessNamesTheEvent, Success
  <1>0. submission' = submission /\ submission[r].key \in Keys
    BY SubmissionStep, SubmissionType DEF TypeOK
  <1>1. events \subseteq events'
    BY EventsStep
  <1>2. CASE outcome'[r] = outcome[r]
    BY <1>0, <1>1, <1>2 DEF SuccessNamesTheEvent, Success
  <1>3. CASE /\ Bound(submission[r].key)
             /\ outcome'[r].transaction_id = idempotency_keys[submission[r].key]
             /\ UNCHANGED events
    BY <1>0, <1>3 DEF EventsInv
  <1>4. CASE Commits(r) /\ outcome'[r].transaction_id = txn[r].id
    <2>1. NewEvent(r) \in events'
      BY <1>4 DEF Commits, Publish, NewEvent
    <2>2. NewEvent(r).id = txn[r].id /\ NewEvent(r).payload.key = submission[r].key
      BY DEF NewEvent
    <2> QED
      BY <1>0, <1>4, <2>1, <2>2
  <1> QED
    BY <1>2, <1>3, <1>4, AnswerStep

\* A success, of the first delivery or of a later one, names the one event that
\* carries the key of the request (ledger.service.ts:155-173 and 412-431).
THEOREM SuccessIsTheEvent == Spec => []SuccessNamesTheEvent
  <1>1. Init => SuccessNamesTheEvent
    BY DEF Init, SuccessNamesTheEvent, NoOutcome
  <1>2. TypeOK /\ KeyInv /\ SuccessNamesTheEvent /\ [Next]_vars => SuccessNamesTheEvent'
    BY SuccessStep DEF KeyInv
  <1> QED
    BY <1>1, <1>2, KeyInvHolds, PTL DEF Spec

-----------------------------------------------------------------------------
(***************************************************************************)
(* LedgerEngine implements AbstractLedger: the commit of a transaction is  *)
(* the posting of its submission, decided in the state it commits in.      *)
(***************************************************************************)
\* The stored balances.
Stored == [a \in Accounts |-> account_state[a].current_balance]
Posted == {e.payload : e \in events}

\* The commit of r posts its submission.
LEMMA CommitPosts ==
    ASSUME TypeOK, PostingInv, KeyInv, NEW r \in Requests, Commits(r), SolventInv',
           NEW s \in Submissions, s = submission[r]
    PROVE  Abstract!Post(s)
  <1>0. /\ s.amount > 0
        /\ s.from \in Accounts /\ s.to \in Accounts
        /\ Decided(s)
    BY SubmissionType DEF TypeOK, PostingInv, AmountInv, DecidedInv, Commits, Staging
  <1>1. \A p \in Posted : p.key # s.key
    <2> SUFFICES ASSUME NEW e \in events PROVE e.payload.key # s.key
      BY DEF Posted
    <2>1. idempotency_keys[s.key] = 0
      BY DEF KeyInv, InsertInv, Commits, Bound
    <2>2. idempotency_keys[e.payload.key] = e.id /\ 0 < e.id
      BY DEF KeyInv, IdsInv, EventsInv
    <2> QED
      BY <2>1, <2>2
  <1>2. Abstract!Admissible(s)
    BY <1>0 DEF Abstract!Admissible, Decided, Funded, FromHouse, Abstract!NormalBalanceSide,
                NormalBalanceSide, Abstract!UniqueAccountIds, UniqueAccountIds,
                Abstract!NoType, NoType
  <1>3. s.kind = "transfer" => Stored[s.from] >= s.amount
    BY <1>0 DEF Decided, Funded, Stored
  <1>4. Stored' = [a \in Accounts |-> Stored[a] + AccountDelta(s, a)]
    BY PostedBalances DEF Stored, Commits
  <1>5. \A a \in Accounts : 0 <= Stored'[a] /\ Stored'[a] <= MaxBalance
    BY DEF SolventInv, Stored
  <1>6. Posted' = Posted \cup {s}
    <2>1. events' = events \cup {NewEvent(r)} /\ NewEvent(r).payload = s
      BY DEF Commits, Publish, NewEvent
    <2> QED
      BY <2>1 DEF Posted
  <1>7. UNCHANGED account_type
    BY DEF Commits, Publish
  <1>8. \A a \in Accounts : Abstract!AccountDelta(s, a) = AccountDelta(s, a)
    BY DEF Abstract!AccountDelta, AccountDelta, Abstract!Legs, Legs, Abstract!TransferLegs,
           TransferLegs, Abstract!DepositLegs, DepositLegs, Abstract!Leg, Leg,
           Abstract!BalanceDelta, BalanceDelta
  <1>9. Stored' = [a \in Accounts |-> Stored[a] + Abstract!AccountDelta(s, a)]
    BY <1>4, <1>8
  <1> QED
    BY <1>1, <1>2, <1>3, <1>5, <1>6, <1>7, <1>9 DEF Abstract!Post, Stored, Posted

LEMMA RefinementInit == Init => Abstract!Init
  BY DEF Init, Abstract!Init, NewAccountState

LEMMA RefinementStep ==
    TypeOK /\ PostingInv /\ PostingInv' /\ KeyInv /\ [Next]_vars
        => [Abstract!Next]_(Abstract!abstractVars)
  <1> SUFFICES ASSUME TypeOK, PostingInv, PostingInv', KeyInv, [Next]_vars
               PROVE  [Abstract!Next]_(Abstract!abstractVars)
    OBVIOUS
  <1>1. CASE UNCHANGED <<account_type, account_state, journal_entries, events, idempotency_keys>>
    BY <1>1 DEF Abstract!abstractVars
  <1>2. ASSUME NEW a \in Accounts, NEW type \in AccountTypes, CreateAccount(a, type)
        PROVE  Abstract!Next
    <2>1. /\ account_type[a] = NoType
          /\ account_type' = [account_type EXCEPT ![a] = type]
          /\ account_state' = [account_state EXCEPT ![a] = NewAccountState]
          /\ UNCHANGED events
      BY <1>2 DEF CreateAccount
    <2>2. account_state[a] = NewAccountState
      BY <2>1 DEF PostingInv, FreshInv
    <2>3. account_state' = account_state
      BY <2>1, <2>2 DEF TypeOK
    <2>4. Abstract!Create(a, type)
      BY <2>1, <2>3 DEF Abstract!Create, Abstract!NoType, NoType
    <2>5. type \in Abstract!AccountTypes
      BY DEF Abstract!AccountTypes, AccountTypes
    <2> QED
      BY <2>4, <2>5 DEF Abstract!Next
  <1>3. ASSUME NEW r \in Requests, Commits(r) PROVE Abstract!Next
    <2>1. PICK s \in Submissions : s = submission[r]
      BY DEF TypeOK
    <2>2. Abstract!Post(s)
      BY <1>3, <2>1, CommitPosts DEF PostingInv
    <2> QED
      BY <2>2 DEF Abstract!Next
  <1> QED
    BY <1>1, <1>2, <1>3, TableStep

\* The concurrent, failing and retried requests of the engine are, for their
\* clients, postings that happen one at a time, each once per key, admissible in
\* the state it meets and never beyond what an account holds (README.md:38-43).
THEOREM EngineRefinesLedger == Spec => AtomicPosting
  <1>1. Spec => [](TypeOK /\ LockInv /\ PostingInv /\ KeyInv)
    BY PostingInvHolds, KeyInvHolds, PTL
  <1> QED
    BY <1>1, RefinementInit, RefinementStep, PTL DEF Spec, AtomicPosting, Abstract!Spec

-----------------------------------------------------------------------------
(***************************************************************************)
(* The journal: what a posting writes continues the chains of its accounts *)
(* from the tips that are stored when it commits, and the entries of an    *)
(* event are those of its two legs.                                        *)
(***************************************************************************)
\* The entries J of account a are one chain of n entries that ends in hash.
Chained(J, a, hash, n) ==
    LET entries == {e \in J : e.account_id = a}
    IN  /\ \A e \in entries :
              /\ e.sequence_number \in 1..n
              /\ e.entry_hash = ComputeEntryHash(e.previous_hash, FieldsOf(e))
              /\ e.sequence_number = 1 => e.previous_hash = Genesis
              /\ e.sequence_number = n => e.entry_hash = hash
        /\ \A e, f \in entries :
              /\ SameSlot(e, f) => e = f
              /\ f.sequence_number = e.sequence_number + 1 => f.previous_hash = e.entry_hash
        /\ \A m \in 1..n : \E e \in entries : e.sequence_number = m
        /\ n = 0 => hash = Genesis

\* Entry e continues a chain of n entries that ends in hash.
Follows(e, hash, n) ==
    /\ e.sequence_number = n + 1
    /\ e.previous_hash = hash
    /\ e.entry_hash = ComputeEntryHash(hash, FieldsOf(e))

\* Entry e is the i-th leg of submission s in the transaction with this id.
IsLeg(e, s, i, id) ==
    /\ e.account_id = Legs(s)[i].account_id
    /\ e.signed_amount = SignedAmount(s, i, account_type)
    /\ e.event_id = id

\* What r has staged continues the chains of its accounts, and the tips it will
\* write back are those of what it staged.
Staged(r, first, second) ==
    LET s == submission[r]
        tip(a) == chain[r][a]
    IN  /\ staged[r] = {first, second}
        /\ IsLeg(first, s, 1, txn[r].id)
        /\ IsLeg(second, s, 2, txn[r].id)
        /\ Follows(first, account_state[s.from].latest_hash,
                          account_state[s.from].latest_sequence)
        /\ s.from = s.to => Follows(second, first.entry_hash, first.sequence_number)
        /\ s.from # s.to =>
              /\ Follows(second, account_state[s.to].latest_hash,
                                 account_state[s.to].latest_sequence)
              /\ tip(s.from).latest_hash = first.entry_hash
              /\ tip(s.from).latest_sequence = first.sequence_number
        /\ tip(s.to).latest_hash = second.entry_hash
        /\ tip(s.to).latest_sequence = second.sequence_number

StagedInv ==
    \A r \in Requests : pc[r] \in Staging =>
        \E first, second \in Entries : Staged(r, first, second)

-----------------------------------------------------------------------------
(***************************************************************************)
(* Chains.                                                                 *)
(***************************************************************************)
LEMMA ChainIntactIsChained ==
    ChainIntact <=> \A a \in Accounts :
        Chained(journal_entries, a, account_state[a].latest_hash,
                account_state[a].latest_sequence)
  BY DEF ChainIntact, Chained

LEMMA AppendEntry ==
    ASSUME NEW J, J \subseteq Entries, NEW a, NEW hash, NEW n \in Nat,
           Chained(J, a, hash, n), NEW e \in Entries, e.account_id = a, Follows(e, hash, n)
    PROVE  Chained(J \cup {e}, a, e.entry_hash, n + 1)
  <1> DEFINE old == {f \in J : f.account_id = a}
             new == {f \in J \cup {e} : f.account_id = a}
  <1>1. new = old \cup {e}
    OBVIOUS
  <1>2. \A f \in old : /\ f.sequence_number \in 1..n
                       /\ f.entry_hash = ComputeEntryHash(f.previous_hash, FieldsOf(f))
                       /\ f.sequence_number = 1 => f.previous_hash = Genesis
                       /\ f.sequence_number = n => f.entry_hash = hash
    BY DEF Chained
  <1>3. \A f, g \in old :
              /\ SameSlot(f, g) => f = g
              /\ g.sequence_number = f.sequence_number + 1 => g.previous_hash = f.entry_hash
    BY DEF Chained
  <1>4. /\ \A m \in 1..n : \E f \in old : f.sequence_number = m
        /\ n = 0 => hash = Genesis
    BY DEF Chained
  <1>5. /\ e.sequence_number = n + 1 /\ e.previous_hash = hash
        /\ e.entry_hash = ComputeEntryHash(hash, FieldsOf(e))
    BY DEF Follows
  <1> HIDE DEF old, new
  <1>6. \A f \in new :
              /\ f.sequence_number \in 1..(n + 1)
              /\ f.entry_hash = ComputeEntryHash(f.previous_hash, FieldsOf(f))
              /\ f.sequence_number = 1 => f.previous_hash = Genesis
              /\ f.sequence_number = n + 1 => f.entry_hash = e.entry_hash
    <2> SUFFICES ASSUME NEW f \in new
                 PROVE  /\ f.sequence_number \in 1..(n + 1)
                        /\ f.entry_hash = ComputeEntryHash(f.previous_hash, FieldsOf(f))
                        /\ f.sequence_number = 1 => f.previous_hash = Genesis
                        /\ f.sequence_number = n + 1 => f.entry_hash = e.entry_hash
      OBVIOUS
    <2>1. CASE f = e
      BY <1>4, <1>5, <2>1
    <2>2. CASE f \in old
      BY <1>2, <2>2
    <2> QED BY <1>1, <2>1, <2>2
  <1>7. \A f, g \in new :
              /\ SameSlot(f, g) => f = g
              /\ g.sequence_number = f.sequence_number + 1 => g.previous_hash = f.entry_hash
    <2> SUFFICES ASSUME NEW f \in new, NEW g \in new
                 PROVE  /\ SameSlot(f, g) => f = g
                        /\ g.sequence_number = f.sequence_number + 1
                              => g.previous_hash = f.entry_hash
      OBVIOUS
    <2>1. CASE f \in old /\ g \in old
      BY <1>3, <2>1
    <2>2. CASE f = e /\ g \in old
      BY <1>2, <1>5, <2>2 DEF SameSlot
    <2>3. CASE f \in old /\ g = e
      BY <1>2, <1>5, <2>3 DEF SameSlot
    <2>4. CASE f = e /\ g = e
      BY <1>5, <2>4
    <2> QED BY <1>1, <2>1, <2>2, <2>3, <2>4
  <1>8. \A m \in 1..(n + 1) : \E f \in new : f.sequence_number = m
    <2> SUFFICES ASSUME NEW m \in 1..(n + 1) PROVE \E f \in new : f.sequence_number = m
      OBVIOUS
    <2>1. CASE m = n + 1
      BY <1>1, <1>5, <2>1
    <2>2. CASE m \in 1..n
      BY <1>1, <1>4, <2>2
    <2> QED BY <2>1, <2>2
  <1>9. n + 1 # 0
    OBVIOUS
  <1> QED
    BY <1>6, <1>7, <1>8, <1>9 DEF Chained, new

\* Entries of another account do not matter.
LEMMA OtherEntry ==
    ASSUME NEW J, NEW a, NEW hash, NEW n, Chained(J, a, hash, n),
           NEW e, e.account_id # a
    PROVE  Chained(J \cup {e}, a, hash, n)
  <1>1. {f \in J \cup {e} : f.account_id = a} = {f \in J : f.account_id = a}
    OBVIOUS
  <1> QED
    BY <1>1 DEF Chained
-----------------------------------------------------------------------------
(***************************************************************************)
(* What is staged.                                                         *)
(***************************************************************************)
LEMMA JournalEntryIs ==
    ASSUME NEW leg, NEW row, NEW t
    PROVE  LET e == JournalEntry(leg, row, t)
           IN  /\ e.account_id = leg.account_id
               /\ e.event_id = t.id
               /\ e.signed_amount = ToStoredSignedAmount(leg.direction,
                                        NormalBalanceSide(row.account_type), leg.amount)
               /\ Follows(e, row.latest_hash, row.latest_sequence)
  BY DEF JournalEntry, Follows, FieldsOf

LEMMA AdvanceTipIs ==
    ASSUME NEW rows \in [Accounts -> ChainStates], NEW e \in Entries, NEW a \in Accounts
    PROVE  /\ AdvanceTip(rows, e)[a].account_type = rows[a].account_type
           /\ a = e.account_id => /\ AdvanceTip(rows, e)[a].latest_hash = e.entry_hash
                                  /\ AdvanceTip(rows, e)[a].latest_sequence = e.sequence_number
           /\ a # e.account_id => AdvanceTip(rows, e)[a] = rows[a]
  BY DEF AdvanceTip, ChainStates, Entries

\* The inserts of PostEntries, over the rows of the tables.
LEMMA StagesEntries ==
    ASSUME TypeOK, LockInv, NEW r \in Requests, pc[r] = "locking", HoldsAll(r),
           NEW first \in Entries, NEW second \in Entries,
           first = FirstEntry(submission[r], chain[r], txn[r]),
           second = SecondEntry(submission[r], chain[r], first, txn[r])
    PROVE  /\ IsLeg(first, submission[r], 1, txn[r].id)
           /\ IsLeg(second, submission[r], 2, txn[r].id)
           /\ Follows(first, account_state[submission[r].from].latest_hash,
                             account_state[submission[r].from].latest_sequence)
           /\ IF submission[r].from = submission[r].to
              THEN Follows(second, first.entry_hash, first.sequence_number)
              ELSE Follows(second, account_state[submission[r].to].latest_hash,
                                   account_state[submission[r].to].latest_sequence)
  <1> DEFINE s == submission[r]
             rows == chain[r]
             t == txn[r]
  <1>1. s \in Submissions /\ rows \in [Accounts -> ChainStates]
    BY DEF TypeOK
  <1>2. /\ s.from \in Accounts /\ s.to \in Accounts
        /\ UniqueAccountIds(s) = {s.from, s.to}
        /\ Legs(s)[1].account_id = s.from /\ Legs(s)[2].account_id = s.to
    BY <1>1, SubmissionType, LegType
  <1>3. \A a \in {s.from, s.to} :
            /\ rows[a].account_type = account_type[a]
            /\ rows[a].latest_hash = account_state[a].latest_hash
            /\ rows[a].latest_sequence = account_state[a].latest_sequence
    BY <1>2 DEF HoldsAll, Unlocked, LockInv, LocksInv, Held
  <1> DEFINE after == AdvanceTip(rows, first)
  <1>4. /\ first = JournalEntry(Legs(s)[1], rows[s.from], t)
        /\ second = JournalEntry(Legs(s)[2], after[s.to], t)
    BY DEF FirstEntry, SecondEntry
  <1> HIDE DEF s, rows, t
  <1>5. /\ first.account_id = s.from
        /\ first.event_id = t.id
        /\ first.signed_amount = ToStoredSignedAmount(Legs(s)[1].direction,
                                     NormalBalanceSide(rows[s.from].account_type), Legs(s)[1].amount)
        /\ Follows(first, rows[s.from].latest_hash, rows[s.from].latest_sequence)
    BY <1>2, <1>4, JournalEntryIs
  <1>6. /\ after[s.to].account_type = rows[s.to].account_type
        /\ s.to = s.from => /\ after[s.to].latest_hash = first.entry_hash
                            /\ after[s.to].latest_sequence = first.sequence_number
        /\ s.to # s.from => after[s.to] = rows[s.to]
    BY <1>1, <1>2, <1>5, AdvanceTipIs
  <1> HIDE DEF after
  <1>7. /\ second.account_id = s.to
        /\ second.event_id = t.id
        /\ second.signed_amount = ToStoredSignedAmount(Legs(s)[2].direction,
                                      NormalBalanceSide(after[s.to].account_type), Legs(s)[2].amount)
        /\ Follows(second, after[s.to].latest_hash, after[s.to].latest_sequence)
    BY <1>2, <1>4, JournalEntryIs
  <1>8. IsLeg(first, s, 1, t.id) /\ IsLeg(second, s, 2, t.id)
    BY <1>2, <1>3, <1>5, <1>6, <1>7 DEF IsLeg, SignedAmount
  <1>9. /\ Follows(first, account_state[s.from].latest_hash, account_state[s.from].latest_sequence)
        /\ s.from = s.to => Follows(second, first.entry_hash, first.sequence_number)
        /\ s.from # s.to => Follows(second, account_state[s.to].latest_hash,
                                            account_state[s.to].latest_sequence)
    BY <1>3, <1>5, <1>6, <1>7
  <1> QED
    BY <1>8, <1>9 DEF s, t

LEMMA StagedByPosting ==
    ASSUME TypeOK, LockInv, NEW r \in Requests, PostEntries(r), ~UniqueViolation(r)
    PROVE  \E first, second \in Entries : Staged(r, first, second)'
  <1>1. PICK first \in Entries, second \in Entries :
          /\ first = FirstEntry(submission[r], chain[r], txn[r])
          /\ second = SecondEntry(submission[r], chain[r], first, txn[r])
          /\ staged' = [staged EXCEPT ![r] = {first, second}]
          /\ chain' = [chain EXCEPT ![r] = AdvanceTip(AdvanceTip(@, first), second)]
          /\ UNCHANGED <<clock, tables, lock, submission, txn, outcome, attempts>>
    BY PostEntriesCases
  <1> DEFINE s == submission[r]
             tips == AdvanceTip(AdvanceTip(chain[r], first), second)
  <1>2. pc[r] = "locking" /\ HoldsAll(r)
    BY StagedRows
  <1>3. /\ IsLeg(first, s, 1, txn[r].id)
        /\ IsLeg(second, s, 2, txn[r].id)
        /\ Follows(first, account_state[s.from].latest_hash, account_state[s.from].latest_sequence)
        /\ s.from = s.to => Follows(second, first.entry_hash, first.sequence_number)
        /\ s.from # s.to => Follows(second, account_state[s.to].latest_hash,
                                            account_state[s.to].latest_sequence)
    BY <1>1, <1>2, StagesEntries
  <1>4. /\ s \in Submissions /\ chain[r] \in [Accounts -> ChainStates]
        /\ s.from \in Accounts /\ s.to \in Accounts
        /\ first.account_id = s.from /\ second.account_id = s.to
    BY <1>3, SubmissionType, LegType DEF TypeOK, IsLeg
  <1>5. AdvanceTip(chain[r], first) \in [Accounts -> ChainStates]
    BY <1>4, AdvanceTipType
  <1>6. /\ tips[s.to].latest_hash = second.entry_hash
        /\ tips[s.to].latest_sequence = second.sequence_number
    BY <1>4, <1>5, AdvanceTipIs
  <1>7. ASSUME s.from # s.to
        PROVE  /\ tips[s.from].latest_hash = first.entry_hash
               /\ tips[s.from].latest_sequence = first.sequence_number
    <2>1. tips[s.from] = AdvanceTip(chain[r], first)[s.from]
      BY <1>4, <1>5, <1>7, AdvanceTipIs
    <2> QED
      BY <1>4, <2>1, AdvanceTipIs
  <1>8. chain \in [Requests -> [Accounts -> ChainStates]] /\ staged \in [Requests -> SUBSET Entries]
    BY DEF TypeOK
  <1>9. chain'[r] = tips /\ staged'[r] = {first, second}
    BY <1>1, <1>8
  <1>10. UNCHANGED <<account_type, account_state, submission, txn>>
    BY <1>1 DEF tables
  <1> HIDE DEF tips
  <1>11. /\ IsLeg(first, s, 1, txn[r].id)' /\ IsLeg(second, s, 2, txn[r].id)'
    BY <1>3, <1>10 DEF IsLeg, SignedAmount
  <1>12. Staged(r, first, second)'
    BY <1>3, <1>6, <1>7, <1>9, <1>10, <1>11 DEF Staged
  <1> QED
    BY <1>12

\* Until its transaction ends, what a request has staged stays.
LEMMA StagingKeeps ==
    ASSUME TypeOK, [Next]_vars, NEW r \in Requests, pc[r] \in Staging, pc'[r] \in Staging
    PROVE  staged'[r] = staged[r] /\ chain'[r] = chain[r] /\ txn'[r] = txn[r]
  <1> DEFINE Kept == staged'[r] = staged[r] /\ chain'[r] = chain[r] /\ txn'[r] = txn[r]
  <1>0. /\ pc \in [Requests -> Steps] /\ txn \in [Requests -> [id: Nat, recorded_at: Nat]]
        /\ chain \in [Requests -> [Accounts -> ChainStates]]
        /\ staged \in [Requests -> SUBSET Entries]
    BY DEF TypeOK
  <1>1. ASSUME NEW q \in Requests, EndTransaction(q), NEW next, GoTo(q, next), next \notin Staging
        PROVE  Kept
    <2>1. q # r
      BY <1>0, <1>1 DEF GoTo
    <2> QED
      BY <1>0, <1>1, <2>1 DEF EndTransaction
  <1>2. ASSUME NEW q \in Requests, NEW kind, RollBackWith(q, kind) PROVE Kept
    BY <1>1, <1>2 DEF RollBackWith, Answer, Staging
  <1>3. ASSUME NEW q \in Requests, UniqueViolation(q) PROVE Kept
    BY <1>1, <1>3 DEF UniqueViolation, Staging
  <1>4. ASSUME NEW q \in Requests, Commits(q) PROVE Kept
    BY <1>1, <1>4 DEF Commits, Staging
  <1>5. ASSUME NEW q \in Requests, Commit(q) PROVE Kept
    BY <1>2, <1>4, <1>5 DEF Commit, Commits, Answer
  <1>6. ASSUME NEW q \in Requests, CommitAnswerLost(q) PROVE Kept
    BY <1>4, <1>6 DEF CommitAnswerLost, Commits, Answer
  <1>7. ASSUME NEW q \in Requests, PostEntries(q) PROVE Kept
    <2>1. CASE UniqueViolation(q)
      BY <1>3, <2>1
    <2>2. CASE ~UniqueViolation(q)
      <3>1. pc[q] = "locking" /\ UNCHANGED txn
        BY <1>7, <2>2, StagedRows
      <3>2. q # r
        BY <3>1 DEF Staging
      <3> QED
        BY <1>7, <2>2, <3>1, <3>2, StagedRows
    <2> QED BY <2>1, <2>2
  <1>8. ASSUME NEW q \in Requests, Begin(q) PROVE Kept
    BY <1>0, <1>8 DEF Begin, Staging
  <1>9. ASSUME NEW q \in Requests, LockAccount(q) PROVE Kept
    BY <1>0, <1>9 DEF LockAccount, Staging
  <1>10. ASSUME NEW q \in Requests, AccountMissing(q) \/ RejectPosting(q) \/ RejectBalance(q)
                                    \/ ConnectionLost(q) \/ KeyTaken(q)
         PROVE  Kept
    BY <1>2, <1>3, <1>10 DEF AccountMissing, RejectPosting, RejectBalance, ConnectionLost, KeyTaken
  <1>11. ASSUME UNCHANGED workspace PROVE Kept
    BY <1>11 DEF workspace
  <1>12. ASSUME NEW q \in Requests, Submit(q) \/ RejectAmount(q) \/ LookupKey(q)
                                    \/ InsertKey(q) \/ FetchWinner(q)
         PROVE  UNCHANGED workspace
    BY <1>12 DEF Submit, RejectAmount, LookupKey, InsertKey, FetchWinner
  <1>13. (\E a \in Accounts, type \in AccountTypes : CreateAccount(a, type))
            \/ Tick \/ Terminated \/ UNCHANGED vars => UNCHANGED workspace
    BY DEF CreateAccount, Tick, Terminated, vars
  <1> HIDE DEF Kept
  <1>14. Kept
    BY <1>5, <1>6, <1>7, <1>8, <1>9, <1>10, <1>11, <1>12, <1>13 DEF Next, Advance
  <1> QED
    BY <1>14 DEF Kept

LEMMA StagedStep == TypeOK /\ LockInv /\ LockInv' /\ StagedInv /\ [Next]_vars => StagedInv'
  <1> SUFFICES ASSUME TypeOK, LockInv, LockInv', StagedInv, [Next]_vars,
                      NEW r \in Requests, pc'[r] \in Staging
               PROVE  \E first, second \in Entries : Staged(r, first, second)'
    BY DEF StagedInv
  <1>1. CASE PostEntries(r) /\ ~UniqueViolation(r)
    BY <1>1, StagedByPosting
  <1>2. CASE pc[r] \in Staging
    <2> DEFINE s == submission[r]
    <2>0. submission' = submission /\ s \in Submissions
      BY SubmissionStep DEF TypeOK
    <2>1. PICK first \in Entries, second \in Entries : Staged(r, first, second)
      BY <1>2 DEF StagedInv
    <2>2. staged'[r] = staged[r] /\ chain'[r] = chain[r] /\ txn'[r] = txn[r]
      BY <1>2, StagingKeeps
    <2>3. \A a \in {s.from, s.to} : account_type'[a] = account_type[a]
                                    /\ account_state'[a] = account_state[a]
      <3> SUFFICES ASSUME NEW a \in {s.from, s.to}
                   PROVE  account_type'[a] = account_type[a] /\ account_state'[a] = account_state[a]
        OBVIOUS
      <3>1. a \in Accounts /\ a \in UniqueAccountIds(s)
        BY <2>0, SubmissionType
      <3>2. r \in lock[a] /\ r \in lock'[a]
        BY <1>2, <2>0, <3>1 DEF LockInv, HeldInv
      <3> QED
        BY <3>1, <3>2, HeldRowsStay
    <2>4. /\ Legs(s)[1].account_id = s.from /\ Legs(s)[2].account_id = s.to
      BY <2>0, LegType
    <2>5. IsLeg(first, s, 1, txn[r].id)' /\ IsLeg(second, s, 2, txn[r].id)'
      BY <2>0, <2>1, <2>2, <2>3, <2>4 DEF Staged, IsLeg, SignedAmount
    <2>6. Staged(r, first, second)'
      BY <2>0, <2>1, <2>2, <2>3, <2>5 DEF Staged
    <2> QED
      BY <2>6
  <1> QED
    BY <1>1, <1>2, StagingStep

-----------------------------------------------------------------------------
(***************************************************************************)
(* The journal is intact.                                                  *)
(***************************************************************************)
\* What a commit leaves of each account's chain.
LEMMA CommitChains ==
    ASSUME TypeOK, StagedInv, ChainIntact, NEW r \in Requests, Commits(r), NEW a \in Accounts
    PROVE  Chained(journal_entries', a, account_state'[a].latest_hash,
                   account_state'[a].latest_sequence)
  <1> DEFINE s == submission[r]
             J == journal_entries
             state == account_state[a]
  <1>1. PICK first \in Entries, second \in Entries : Staged(r, first, second)
    BY DEF StagedInv, Commits, Staging
  <1>2. journal_entries' = (J \cup {first}) \cup {second}
    BY <1>1 DEF Commits, Publish, Staged
  <1>3. /\ s \in Submissions /\ s.from \in Accounts /\ s.to \in Accounts
        /\ UniqueAccountIds(s) = {s.from, s.to}
        /\ first.account_id = s.from /\ second.account_id = s.to
    BY <1>1, SubmissionType, LegType DEF TypeOK, Staged, IsLeg
  <1>4. /\ J \subseteq Entries /\ J \cup {first} \subseteq Entries
        /\ state.latest_sequence \in Nat
    BY DEF TypeOK, AccountStates
  <1>5. Chained(J, a, state.latest_hash, state.latest_sequence)
    BY ChainIntactIsChained
  <1>6. /\ a \notin {s.from, s.to} => account_state'[a] = state
        /\ a \in {s.from, s.to} =>
              /\ account_state'[a].latest_hash = chain[r][a].latest_hash
              /\ account_state'[a].latest_sequence = chain[r][a].latest_sequence
    BY <1>3 DEF Commits, Publish, WrittenState
  <1> HIDE DEF s, J, state
  <1>7. CASE a \notin {s.from, s.to}
    BY <1>2, <1>3, <1>5, <1>6, <1>7, OtherEntry
  <1>8. CASE s.from = s.to /\ a = s.from
    <2>1. Follows(first, state.latest_hash, state.latest_sequence)
          /\ Follows(second, first.entry_hash, first.sequence_number)
          /\ account_state'[a].latest_hash = second.entry_hash
          /\ account_state'[a].latest_sequence = second.sequence_number
      BY <1>1, <1>6, <1>8 DEF Staged, s, state
    <2>2. Chained(J \cup {first}, a, first.entry_hash, state.latest_sequence + 1)
      BY <1>3, <1>4, <1>5, <1>8, <2>1, AppendEntry
    <2>3. first.sequence_number = state.latest_sequence + 1 /\ first.sequence_number \in Nat
      BY <1>4, <2>1 DEF Follows
    <2>4. Chained((J \cup {first}) \cup {second}, a, second.entry_hash, first.sequence_number + 1)
      BY <1>3, <1>4, <1>8, <2>1, <2>2, <2>3, AppendEntry
    <2>5. second.sequence_number = first.sequence_number + 1
      BY <2>1 DEF Follows
    <2> QED
      BY <1>2, <2>1, <2>4, <2>5
  <1>9. CASE s.from # s.to /\ a = s.from
    <2>1. Follows(first, state.latest_hash, state.latest_sequence)
          /\ account_state'[a].latest_hash = first.entry_hash
          /\ account_state'[a].latest_sequence = first.sequence_number
      BY <1>1, <1>6, <1>9 DEF Staged, s, state
    <2>2. Chained(J \cup {first}, a, first.entry_hash, state.latest_sequence + 1)
      BY <1>3, <1>4, <1>5, <1>9, <2>1, AppendEntry
    <2>3. first.sequence_number = state.latest_sequence + 1
      BY <2>1 DEF Follows
    <2>4. second.account_id # a
      BY <1>3, <1>9
    <2>5. Chained((J \cup {first}) \cup {second}, a, first.entry_hash, state.latest_sequence + 1)
      BY <2>2, <2>4, OtherEntry
    <2> QED
      BY <1>2, <2>1, <2>3, <2>5
  <1>10. CASE s.from # s.to /\ a = s.to
    <2>1. Follows(second, state.latest_hash, state.latest_sequence)
          /\ account_state'[a].latest_hash = second.entry_hash
          /\ account_state'[a].latest_sequence = second.sequence_number
      BY <1>1, <1>6, <1>10 DEF Staged, s, state
    <2>2. first.account_id # a
      BY <1>3, <1>10
    <2>3. Chained(J \cup {first}, a, state.latest_hash, state.latest_sequence)
      BY <1>5, <2>2, OtherEntry
    <2>4. Chained((J \cup {first}) \cup {second}, a, second.entry_hash, state.latest_sequence + 1)
      BY <1>3, <1>4, <1>10, <2>1, <2>3, AppendEntry
    <2>5. second.sequence_number = state.latest_sequence + 1
      BY <2>1 DEF Follows
    <2> QED
      BY <1>2, <2>1, <2>4, <2>5
  <1> QED
    BY <1>7, <1>8, <1>9, <1>10

LEMMA ChainStep ==
    TypeOK /\ FreshInv /\ StagedInv /\ ChainIntact /\ [Next]_vars => ChainIntact'
  <1> SUFFICES ASSUME TypeOK, FreshInv, StagedInv, ChainIntact, [Next]_vars PROVE ChainIntact'
    OBVIOUS
  <1>1. CASE UNCHANGED <<account_state, journal_entries>>
    BY <1>1 DEF ChainIntact
  <1>2. ASSUME NEW b \in Accounts, NEW type \in AccountTypes, CreateAccount(b, type)
        PROVE  UNCHANGED <<account_state, journal_entries>>
    <2>1. account_state[b] = NewAccountState
      BY <1>2 DEF CreateAccount, FreshInv
    <2> QED
      BY <1>2, <2>1 DEF CreateAccount, TypeOK
  <1>3. ASSUME NEW r \in Requests, Commits(r) PROVE ChainIntact'
    <2>1. \A a \in Accounts : Chained(journal_entries', a, account_state'[a].latest_hash,
                                      account_state'[a].latest_sequence)
      BY <1>3, CommitChains
    <2> QED
      BY <2>1 DEF ChainIntact, Chained
  <1> QED
    BY <1>1, <1>2, <1>3, TableStep

EntryInv == StagedInv /\ ChainIntact

LEMMA EntryInit == Init => EntryInv
  <1> SUFFICES ASSUME Init PROVE EntryInv
    OBVIOUS
  <1>1. StagedInv
    BY DEF Init, StagedInv, Staging
  <1>2. /\ journal_entries = {}
        /\ \A a \in Accounts : account_state[a] = NewAccountState
    BY DEF Init
  <1>3. ChainIntact
    BY <1>2 DEF ChainIntact, NewAccountState
  <1> QED
    BY <1>1, <1>3 DEF EntryInv

LEMMA EntryStep ==
    TypeOK /\ LockInv /\ LockInv' /\ PostingInv /\ EntryInv /\ [Next]_vars => EntryInv'
  BY StagedStep, ChainStep DEF EntryInv, PostingInv

LEMMA EntryInvHolds == Spec => [](TypeOK /\ LockInv /\ PostingInv /\ KeyInv /\ EntryInv)
  BY EntryInit, EntryStep, PostingInvHolds, KeyInvHolds, PTL DEF Spec

\* The journal of every account is one chain that ends in its stored tip, however
\* many postings on it run at once (0003_create_journal_entries.ts:35, "never
\* reused, never skipped").
THEOREM JournalIsChained == Spec => []ChainIntact
  BY EntryInvHolds, PTL DEF EntryInv

-----------------------------------------------------------------------------
(***************************************************************************)
(* The catch block.                                                        *)
(***************************************************************************)
\* A posting that holds its accounts meets no taken slot: the unique index on
\* (account_id, sequence_number) never fails for the engine.
LEMMA SlotsFree ==
    ASSUME TypeOK, LockInv, ChainIntact, NEW r \in Requests, pc[r] = "locking", HoldsAll(r),
           NEW first, NEW second,
           first = FirstEntry(submission[r], chain[r], txn[r]),
           second = SecondEntry(submission[r], chain[r], first, txn[r])
    PROVE  ~SlotTaken({first, second})
  <1> DEFINE s == submission[r]
  <1>1. first \in Entries /\ second \in Entries
    BY PostedEntriesType
  <1>2. /\ IsLeg(first, s, 1, txn[r].id)
        /\ IsLeg(second, s, 2, txn[r].id)
        /\ Follows(first, account_state[s.from].latest_hash, account_state[s.from].latest_sequence)
        /\ s.from = s.to => Follows(second, first.entry_hash, first.sequence_number)
        /\ s.from # s.to => Follows(second, account_state[s.to].latest_hash,
                                            account_state[s.to].latest_sequence)
    BY <1>1, StagesEntries
  <1>3. /\ s.from \in Accounts /\ s.to \in Accounts
        /\ first.account_id = s.from /\ second.account_id = s.to
    BY <1>2, SubmissionType, LegType DEF TypeOK, IsLeg
  <1>4. /\ account_state[s.from].latest_sequence \in Nat
        /\ account_state[s.to].latest_sequence \in Nat
    BY <1>3 DEF TypeOK, AccountStates
  <1>5. /\ first.sequence_number = account_state[s.from].latest_sequence + 1
        /\ second.sequence_number > account_state[s.to].latest_sequence
        /\ s.from = s.to => second.sequence_number # first.sequence_number
    BY <1>2, <1>4 DEF Follows
  <1>6. \A e \in journal_entries :
            e.account_id \in Accounts => e.sequence_number <= account_state[e.account_id].latest_sequence
    BY DEF ChainIntact, TypeOK, AccountStates
  <1> HIDE DEF s
  <1>7. ASSUME NEW e \in {first, second}, NEW f \in journal_entries PROVE ~SameSlot(e, f)
    <2>1. f.sequence_number \in Int
      BY <1>7 DEF TypeOK, Entries
    <2> QED
      BY <1>3, <1>4, <1>5, <1>6, <1>7, <2>1 DEF SameSlot
  <1>8. ~SameSlot(first, second) /\ ~SameSlot(second, first)
    BY <1>3, <1>5 DEF SameSlot
  <1> QED
    BY <1>7, <1>8 DEF SlotTaken

\* Only a taken key leads to the catch block.
ConflictInv == \A r \in Requests : pc[r] = "conflict" => Bound(submission[r].key)

LEMMA ConflictStep ==
    ASSUME TypeOK, LockInv, ChainIntact, [Next]_vars, NEW r \in Requests, pc'[r] = "conflict"
    PROVE  pc[r] = "conflict" \/ KeyTaken(r)
  <1>0. pc \in [Requests -> Steps]
    BY DEF TypeOK
  <1>1. ASSUME NEW q \in Requests, PostEntries(q) PROVE pc[r] = "conflict"
    <2>1. PICK first, second :
          /\ first = FirstEntry(submission[q], chain[q], txn[q])
          /\ second = SecondEntry(submission[q], chain[q], first, txn[q])
          /\ SlotTaken({first, second}) \/ GoTo(q, "keying")
      BY <1>1 DEF PostEntries
    <2>2. pc[q] = "locking" /\ HoldsAll(q)
      BY <1>1 DEF PostEntries, ReadyToPost
    <2>3. GoTo(q, "keying")
      BY <2>1, <2>2, SlotsFree
    <2> QED
      BY <1>0, <2>3 DEF GoTo
  <1>2. ASSUME NEW q \in Requests, Submit(q) \/ RejectAmount(q) \/ LookupKey(q) \/ Begin(q)
                                   \/ LockAccount(q) \/ InsertKey(q) \/ FetchWinner(q)
        PROVE  pc[r] = "conflict"
    BY <1>0, <1>2 DEF Submit, RejectAmount, LookupKey, Begin, LockAccount, InsertKey, FetchWinner,
                      Answer, Replay, GoTo
  <1>3. ASSUME NEW q \in Requests, AccountMissing(q) \/ RejectPosting(q) \/ RejectBalance(q)
                                   \/ Commit(q) \/ ConnectionLost(q) \/ CommitAnswerLost(q)
        PROVE  pc[r] = "conflict"
    BY <1>0, <1>3 DEF AccountMissing, RejectPosting, RejectBalance, Commit, ConnectionLost,
                      CommitAnswerLost, RollBackWith, Answer, GoTo
  <1>4. ASSUME NEW q \in Requests, KeyTaken(q) PROVE pc[r] = "conflict" \/ KeyTaken(r)
    BY <1>0, <1>4 DEF KeyTaken, UniqueViolation, GoTo
  <1>5. ASSUME pc' = pc PROVE pc[r] = "conflict"
    BY <1>5
  <1> QED
    BY <1>1, <1>2, <1>3, <1>4, <1>5 DEF Next, Advance, CreateAccount, Tick, Terminated, vars

\* A key that is bound stays bound.
LEMMA BoundStays ==
    ASSUME TypeOK, IdsInv, [Next]_vars, NEW k \in Keys, Bound(k)
    PROVE  Bound(k)'
  <1>1. CASE UNCHANGED idempotency_keys
    BY <1>1 DEF Bound
  <1>2. ASSUME NEW c \in Requests, Commits(c),
               idempotency_keys' = [idempotency_keys EXCEPT ![submission[c].key] = txn[c].id]
        PROVE  Bound(k)'
    <2>1. 0 < txn[c].id
      BY <1>2 DEF IdsInv, Commits, InTransaction
    <2> QED
      BY <1>2, <2>1 DEF Bound, TypeOK
  <1> QED
    BY <1>1, <1>2, EventsStep

LEMMA ConflictInvStep ==
    TypeOK /\ LockInv /\ IdsInv /\ ChainIntact /\ ConflictInv /\ [Next]_vars => ConflictInv'
  <1> SUFFICES ASSUME TypeOK, LockInv, IdsInv, ChainIntact, ConflictInv, [Next]_vars,
                      NEW r \in Requests, pc'[r] = "conflict"
               PROVE  Bound(submission[r].key)'
    BY DEF ConflictInv
  <1>1. Bound(submission[r].key)
    BY ConflictStep DEF ConflictInv, KeyTaken
  <1>2. submission' = submission /\ submission[r].key \in Keys
    BY SubmissionStep, SubmissionType DEF TypeOK
  <1> QED
    BY <1>1, <1>2, BoundStays DEF Bound

LEMMA WinnerStep == TypeOK /\ ConflictInv /\ WinnerFound /\ [Next]_vars => WinnerFound'
  <1> SUFFICES ASSUME TypeOK, ConflictInv, WinnerFound, [Next]_vars, NEW r \in Requests
               PROVE  outcome'[r].kind # "winner_missing"
    BY DEF WinnerFound
  <1> DEFINE Good == outcome'[r].kind # "winner_missing"
  <1>0. outcome \in [Requests -> [kind: Outcomes, transaction_id: Nat]]
        /\ outcome[r].kind # "winner_missing"
    BY DEF TypeOK, WinnerFound
  <1>1. ASSUME NEW q \in Requests, NEW kind, kind # "winner_missing", NEW id, Answer(q, kind, id)
        PROVE  Good
    BY <1>0, <1>1 DEF Answer
  <1>2. ASSUME NEW q \in Requests, NEW kind, kind # "winner_missing", RollBackWith(q, kind)
        PROVE  Good
    BY <1>1, <1>2 DEF RollBackWith
  <1>3. ASSUME outcome' = outcome PROVE Good
    BY <1>0, <1>3
  <1>4. ASSUME NEW q \in Requests, Submit(q) PROVE Good
    BY <1>0, <1>4 DEF Submit, NoOutcome
  <1>5. ASSUME NEW q \in Requests, RejectAmount(q) PROVE Good
    BY <1>1, <1>5 DEF RejectAmount
  <1>6. ASSUME NEW q \in Requests, LookupKey(q) PROVE Good
    BY <1>1, <1>3, <1>6 DEF LookupKey, Replay
  <1>7. ASSUME NEW q \in Requests, FetchWinner(q) PROVE Good
    <2>1. Bound(submission[q].key)
      BY <1>7 DEF FetchWinner, ConflictInv
    <2> QED
      BY <1>1, <1>7, <2>1 DEF FetchWinner, Replay
  <1>8. ASSUME NEW q \in Requests, AccountMissing(q) \/ ConnectionLost(q) \/ RejectBalance(q) PROVE Good
    BY <1>2, <1>8 DEF AccountMissing, ConnectionLost, RejectBalance
  <1>9. ASSUME NEW q \in Requests, RejectPosting(q) PROVE Good
    <2>1. PostingVerdict(submission[q], chain[q]) # "winner_missing"
      BY VerdictType DEF TypeOK, DomainErrors
    <2> QED
      BY <1>2, <1>9, <2>1 DEF RejectPosting
  <1>10. ASSUME NEW q \in Requests, Commit(q) PROVE Good
    BY <1>1, <1>2, <1>10 DEF Commit
  <1>11. ASSUME NEW q \in Requests, CommitAnswerLost(q) PROVE Good
    BY <1>1, <1>11 DEF CommitAnswerLost
  <1>12. ASSUME NEW q \in Requests, Begin(q) \/ LockAccount(q) \/ PostEntries(q)
                                    \/ InsertKey(q) \/ KeyTaken(q)
         PROVE  outcome' = outcome
    BY <1>12 DEF Begin, LockAccount, PostEntries, InsertKey, KeyTaken, UniqueViolation
  <1>13. (\E a \in Accounts, type \in AccountTypes : CreateAccount(a, type))
            \/ Tick \/ Terminated \/ UNCHANGED vars => outcome' = outcome
    BY DEF CreateAccount, Tick, Terminated, vars
  <1> HIDE DEF Good
  <1>14. Good
    BY <1>3, <1>4, <1>5, <1>6, <1>7, <1>8, <1>9, <1>10, <1>11, <1>12, <1>13 DEF Next, Advance
  <1> QED
    BY <1>14 DEF Good

\* The catch block always finds the winner it looks for (ledger.service.ts:412-431):
\* of the two unique indexes only the one on the key ever fails.
THEOREM CatchFindsWinner == Spec => []WinnerFound
  <1>1. Init => ConflictInv /\ WinnerFound
    BY DEF Init, ConflictInv, WinnerFound, NoOutcome
  <1>2. TypeOK /\ LockInv /\ KeyInv /\ EntryInv /\ ConflictInv /\ [Next]_vars => ConflictInv'
    BY ConflictInvStep DEF KeyInv, EntryInv
  <1> QED
    BY <1>1, <1>2, WinnerStep, EntryInvHolds, PTL DEF Spec

-----------------------------------------------------------------------------
(***************************************************************************)
(* The entries of an event.                                                *)
(***************************************************************************)
\* The entries J hold of event e are those of its legs and no others.
HasItsLegs(e, J) ==
    \E first, second \in Entries :
        /\ {j \in J : j.event_id = e.id} = {first, second}
        /\ first # second
        /\ IsLeg(first, e.payload, 1, e.id)
        /\ IsLeg(second, e.payload, 2, e.id)

\* The accounts of an event exist, so that their types, and with them the signs of
\* its entries, stay.
LegsInv ==
    /\ \A j \in journal_entries : \E e \in events : e.id = j.event_id
    /\ \A e \in events :
          /\ account_type[e.payload.from] # NoType
          /\ account_type[e.payload.to] # NoType
          /\ HasItsLegs(e, journal_entries)

\* The types of an event's accounts are all of the tables its legs depend on.
LEMMA LegsStay ==
    ASSUME TypeOK, NEW e \in events, HasItsLegs(e, journal_entries), NEW J,
           {j \in J : j.event_id = e.id} = {j \in journal_entries : j.event_id = e.id},
           account_type'[e.payload.from] = account_type[e.payload.from],
           account_type'[e.payload.to] = account_type[e.payload.to],
           journal_entries' = J
    PROVE  HasItsLegs(e, journal_entries)'
  <1>1. PICK first \in Entries, second \in Entries :
            /\ {j \in journal_entries : j.event_id = e.id} = {first, second}
            /\ first # second
            /\ IsLeg(first, e.payload, 1, e.id)
            /\ IsLeg(second, e.payload, 2, e.id)
    BY DEF HasItsLegs
  <1>2. /\ Legs(e.payload)[1].account_id = e.payload.from
        /\ Legs(e.payload)[2].account_id = e.payload.to
    BY LegType DEF TypeOK, Events
  <1>3. IsLeg(first, e.payload, 1, e.id)' /\ IsLeg(second, e.payload, 2, e.id)'
    BY <1>1, <1>2 DEF IsLeg, SignedAmount
  <1>4. {j \in journal_entries' : j.event_id = e.id} = {first, second}
    BY <1>1
  <1> QED
    BY <1>1, <1>3, <1>4 DEF HasItsLegs

\* A commit adds the two entries of its legs, which are new.
LEMMA CommitAdds ==
    ASSUME TypeOK, KeyInv, StagedInv, LegsInv, NEW c \in Requests, Commits(c)
    PROVE  \E first, second \in Entries :
              /\ journal_entries' = journal_entries \cup {first, second}
              /\ first # second
              /\ \A e \in events : e.id # txn[c].id
              /\ \A j \in journal_entries : j.event_id # txn[c].id
              /\ IsLeg(first, submission[c], 1, txn[c].id)
              /\ IsLeg(second, submission[c], 2, txn[c].id)
              /\ first.account_id = submission[c].from
              /\ second.account_id = submission[c].to
  <1> DEFINE s == submission[c]
  <1>1. PICK first \in Entries, second \in Entries : Staged(c, first, second)
    BY DEF StagedInv, Commits, Staging
  <1>2. journal_entries' = journal_entries \cup {first, second}
    BY <1>1 DEF Commits, Publish, Staged
  <1>3. IsLeg(first, s, 1, txn[c].id) /\ IsLeg(second, s, 2, txn[c].id)
    BY <1>1 DEF Staged
  <1>4. first.account_id = s.from /\ second.account_id = s.to
    BY <1>3, SubmissionType, LegType DEF TypeOK, IsLeg
  <1>5. first # second
    <2>1. CASE s.from # s.to
      BY <1>4, <2>1
    <2>2. CASE s.from = s.to
      <3>1. Follows(second, first.entry_hash, first.sequence_number)
        BY <1>1, <2>2 DEF Staged
      <3>2. second.sequence_number = first.sequence_number + 1 /\ first.sequence_number \in Nat
        BY <3>1 DEF Follows, Entries
      <3> QED BY <3>2
    <2> QED BY <2>1, <2>2
  <1>6. \A e \in events : e.id # txn[c].id
    BY DEF KeyInv, IdsInv, Commits, InTransaction
  <1>7. \A j \in journal_entries : j.event_id # txn[c].id
    BY <1>6 DEF LegsInv
  <1> QED
    BY <1>2, <1>3, <1>4, <1>5, <1>6, <1>7

LEMMA CommitLegs ==
    ASSUME TypeOK, PostingInv, KeyInv, StagedInv, LegsInv, NEW c \in Requests, Commits(c)
    PROVE  LegsInv'
  <1> DEFINE s == submission[c]
             J == journal_entries
  <1>0. PICK n : n = NewEvent(c)
    OBVIOUS
  <1>1. PICK first \in Entries, second \in Entries :
              /\ journal_entries' = J \cup {first, second}
              /\ first # second
              /\ \A e \in events : e.id # txn[c].id
              /\ \A j \in J : j.event_id # txn[c].id
              /\ IsLeg(first, s, 1, txn[c].id)
              /\ IsLeg(second, s, 2, txn[c].id)
    BY CommitAdds
  <1>2. /\ journal_entries' = J \cup {first, second}
        /\ events' = events \cup {n}
        /\ account_type' = account_type
    BY <1>0, <1>1 DEF Commits, Publish, NewEvent
  <1>3. n.id = txn[c].id /\ n.payload = s
    BY <1>0 DEF NewEvent
  <1>4. /\ IsLeg(first, s, 1, n.id) /\ IsLeg(second, s, 2, n.id)
        /\ first.event_id = n.id /\ second.event_id = n.id
    BY <1>1, <1>3 DEF IsLeg
  <1>5. UniqueAccountIds(s) = {s.from, s.to}
    BY SubmissionType DEF TypeOK
  <1>6. first # second
    BY <1>1
  <1>7. \A e \in events : e.id # n.id
    BY <1>1, <1>3
  <1>8. \A j \in J : j.event_id # n.id
    BY <1>1, <1>3
  <1>9. account_type[s.from] # NoType /\ account_type[s.to] # NoType
    BY <1>5 DEF PostingInv, DecidedInv, Decided, Commits, Staging
  <1> HIDE DEF s, J
  <1>10. \A j \in journal_entries' : \E e \in events' : e.id = j.event_id
    BY <1>2, <1>4 DEF LegsInv, J
  <1>11. ASSUME NEW e \in events
         PROVE  /\ account_type'[e.payload.from] # NoType
                /\ account_type'[e.payload.to] # NoType
                /\ HasItsLegs(e, journal_entries)'
    <2>1. {j \in journal_entries' : j.event_id = e.id} = {j \in J : j.event_id = e.id}
      BY <1>2, <1>4, <1>7
    <2> QED
      BY <1>2, <2>1, LegsStay DEF LegsInv, J
  <1>12. /\ account_type'[n.payload.from] # NoType
         /\ account_type'[n.payload.to] # NoType
    BY <1>2, <1>3, <1>9
  <1>13. HasItsLegs(n, journal_entries)'
    <2>1. {j \in journal_entries' : j.event_id = n.id} = {first, second}
      BY <1>2, <1>4, <1>8
    <2>2. IsLeg(first, n.payload, 1, n.id)' /\ IsLeg(second, n.payload, 2, n.id)'
      BY <1>2, <1>3, <1>4 DEF IsLeg
    <2> QED
      BY <1>6, <2>1, <2>2 DEF HasItsLegs
  <1> QED
    BY <1>2, <1>10, <1>11, <1>12, <1>13 DEF LegsInv

LEMMA LegsStep ==
    TypeOK /\ PostingInv /\ KeyInv /\ StagedInv /\ LegsInv /\ [Next]_vars => LegsInv'
  <1> SUFFICES ASSUME TypeOK, PostingInv, KeyInv, StagedInv, LegsInv, [Next]_vars PROVE LegsInv'
    OBVIOUS
  <1>1. ASSUME UNCHANGED <<events, journal_entries>>,
               \A a \in Accounts : account_type[a] # NoType => account_type'[a] = account_type[a]
        PROVE  LegsInv'
    <2>1. ASSUME NEW e \in events
          PROVE  /\ account_type'[e.payload.from] # NoType
                 /\ account_type'[e.payload.to] # NoType
                 /\ HasItsLegs(e, journal_entries)'
      <3>1. e.payload.from \in Accounts /\ e.payload.to \in Accounts
        BY SubmissionType DEF TypeOK, Events
      <3>2. /\ account_type[e.payload.from] # NoType
            /\ account_type[e.payload.to] # NoType
            /\ HasItsLegs(e, journal_entries)
        BY DEF LegsInv
      <3>3. /\ account_type'[e.payload.from] = account_type[e.payload.from]
            /\ account_type'[e.payload.to] = account_type[e.payload.to]
        BY <1>1, <3>1, <3>2
      <3> QED
        BY <1>1, <3>2, <3>3, LegsStay
    <2> QED
      BY <1>1, <2>1 DEF LegsInv
  <1>2. CASE UNCHANGED <<account_type, account_state, journal_entries, events, idempotency_keys>>
    BY <1>1, <1>2
  <1>3. ASSUME NEW b \in Accounts, NEW type \in AccountTypes, CreateAccount(b, type)
        PROVE  LegsInv'
    <2>1. \A a \in Accounts : account_type[a] # NoType => account_type'[a] = account_type[a]
      BY <1>3 DEF CreateAccount, TypeOK
    <2> QED
      BY <1>1, <1>3, <2>1 DEF CreateAccount
  <1>4. ASSUME NEW c \in Requests, Commits(c) PROVE LegsInv'
    BY <1>4, CommitLegs
  <1> QED
    BY <1>2, <1>3, <1>4, TableStep

LEMMA LegsGiveEntries ==
    ASSUME TypeOK, EventsInv, LegsInv
    PROVE  PostedOnce
  <1>1. ASSUME NEW e \in events
        PROVE  LET posted == {j \in journal_entries : j.event_id = e.id}
               IN  /\ Cardinality(posted) = 2
                   /\ \A i \in 1..2 : \E j \in posted :
                        /\ j.account_id = Legs(e.payload)[i].account_id
                        /\ j.signed_amount = SignedAmount(e.payload, i, account_type)
    <2> DEFINE posted == {j \in journal_entries : j.event_id = e.id}
    <2>1. PICK first \in Entries, second \in Entries :
            /\ posted = {first, second}
            /\ first # second
            /\ IsLeg(first, e.payload, 1, e.id)
            /\ IsLeg(second, e.payload, 2, e.id)
      <3>1. HasItsLegs(e, journal_entries)
        BY DEF LegsInv
      <3> QED
        BY <3>1 DEF HasItsLegs
    <2> HIDE DEF posted
    <2>2. Cardinality(posted) = 2
      <3>1. IsFiniteSet({first}) /\ Cardinality({first}) = 1
        BY FS_Singleton
      <3>2. Cardinality({first} \cup {second}) = 2
        <4>1. second \notin {first}
          BY <2>1
        <4>2. Cardinality({first} \cup {second}) = Cardinality({first}) + 1
          BY <3>1, <4>1, FS_AddElement
        <4> QED BY <3>1, <4>2
      <3>3. posted = {first} \cup {second}
        BY <2>1
      <3> QED BY <3>2, <3>3
    <2>3. ASSUME NEW i \in 1..2
          PROVE  \E j \in posted : /\ j.account_id = Legs(e.payload)[i].account_id
                                   /\ j.signed_amount = SignedAmount(e.payload, i, account_type)
      <3>1. CASE i = 1
        BY <2>1, <3>1 DEF IsLeg
      <3>2. CASE i = 2
        BY <2>1, <3>2 DEF IsLeg
      <3> QED BY <3>1, <3>2
    <2> QED
      BY <2>2, <2>3 DEF posted
  <1>2. \A j \in journal_entries : \E e \in events : e.id = j.event_id
    BY DEF LegsInv
  <1> QED
    BY <1>1, <1>2 DEF PostedOnce, EventsInv

\* Everything that is known of the engine, for the proofs of what is built on it.
EngineInv == TypeOK /\ LockInv /\ PostingInv /\ KeyInv /\ EntryInv /\ LegsInv

LEMMA EngineInit == Init => EngineInv
  <1>1. Init => LegsInv
    BY DEF Init, LegsInv
  <1> QED
    BY <1>1, TypeInit, LockInit, PostingInit, KeyInit, EntryInit DEF EngineInv

LEMMA EngineStep == EngineInv /\ [Next]_vars => EngineInv'
  <1> SUFFICES ASSUME EngineInv, [Next]_vars PROVE EngineInv'
    OBVIOUS
  <1>1. TypeOK' /\ LockInv' /\ KeyInv'
    BY TypeStep, LockStep, KeyStep DEF EngineInv
  <1>2. PostingInv' /\ EntryInv'
    BY <1>1, PostingStep, EntryStep DEF EngineInv
  <1>3. LegsInv'
    BY LegsStep DEF EngineInv, EntryInv
  <1> QED
    BY <1>1, <1>2, <1>3 DEF EngineInv

LEMMA EngineInvHolds == Spec => []EngineInv
  BY EngineInit, EngineStep, PTL DEF Spec

\* A key posts once, and the event it names has one entry for each of its legs,
\* with the side and the sign the leg asks for, and no others (README.md:42).
THEOREM KeyPostsOnce == Spec => []PostedOnce
  <1>1. EngineInv => PostedOnce
    BY LegsGiveEntries DEF EngineInv, KeyInv
  <1> QED
    BY <1>1, EngineInvHolds, PTL
=============================================================================
