------------------------------ MODULE HttpProofs ------------------------------
(***************************************************************************)
(* Proofs about HttpLayer, for all calls, texts of amounts and clients.    *)
(* The engine keeps its invariant behind the routes; what a client is told *)
(* follows from what the outcome of its request says of the events.        *)
(***************************************************************************)
EXTENDS HttpLayer, LedgerEntryProofs

\* A call that reaches the engine is what its request submits; one that does not
\* leaves no trace in the engine.
CallInv ==
    \A r \in Requests :
        /\ call[r] \in Calls
        /\ Reaches(call[r]) => submission[r] = Parsed(call[r])
        /\ ~Reaches(call[r]) => pc[r] \in {"idle", "done"} /\ outcome[r] = NoOutcome

\* A success on the wire is the success of the outcome.
StatusInv ==
    /\ DOMAIN status = Requests
    /\ \A r \in Requests : status[r] \in {200, 201} =>
          /\ Reaches(call[r])
          /\ pc[r] = "done"
          /\ status[r] = StatusOf(outcome[r].kind)

\* Who answers "posted" has posted an event of its own, and nobody else answers so
\* with the same event.
Posts(r, e) ==
    /\ e.id = outcome[r].transaction_id
    /\ e.payload = submission[r]

PostedInv ==
    /\ \A r \in Requests : outcome[r].kind = "posted" =>
          submission[r].amount > 0 /\ \E e \in events : Posts(r, e)
    /\ \A q, r \in Requests :
          /\ outcome[q].kind = "posted" /\ outcome[r].kind = "posted"
          /\ outcome[q].transaction_id = outcome[r].transaction_id
          => q = r

HttpInv ==
    EngineInv /\ SuccessNamesTheEvent /\ CallInv /\ StatusInv /\ PostedInv

-----------------------------------------------------------------------------
(***************************************************************************)
(* Steps of the engine.                                                    *)
(***************************************************************************)
\* A request that rests and is not sent stays as it is.
LEMMA RestingStep ==
    ASSUME TypeOK, [Next]_vars, NEW r \in Requests, pc[r] \in {"idle", "done"},
           attempts'[r] = attempts[r]
    PROVE  pc'[r] = pc[r] /\ outcome'[r] = outcome[r]
  <1> DEFINE Still == pc'[r] = pc[r] /\ outcome'[r] = outcome[r]
  <1>0. /\ pc \in [Requests -> Steps]
        /\ outcome \in [Requests -> [kind: Outcomes, transaction_id: Nat]]
        /\ attempts \in [Requests -> Nat]
    BY DEF TypeOK
  <1> USE DEF Answer, GoTo
  <1>1. ASSUME NEW q \in Requests, Submit(q) \/ RejectAmount(q) PROVE Still
    <2>1. attempts' = [attempts EXCEPT ![q] = @ + 1]
      BY <1>1 DEF Submit, RejectAmount
    <2>2. q # r
      BY <1>0, <2>1
    <2> QED
      BY <1>0, <1>1, <2>2 DEF Submit, RejectAmount
  <1>2. ASSUME NEW q \in Requests, q # r, NEW kind, NEW id, Answer(q, kind, id) PROVE Still
    BY <1>0, <1>2
  <1>3. ASSUME NEW q \in Requests, q # r, NEW kind, RollBackWith(q, kind) PROVE Still
    BY <1>2, <1>3 DEF RollBackWith
  <1>4. ASSUME NEW q \in Requests, q # r, UniqueViolation(q) PROVE Still
    BY <1>0, <1>4 DEF UniqueViolation
  <1>5. ASSUME NEW q \in Requests, LookupKey(q) \/ FetchWinner(q) PROVE Still
    BY <1>0, <1>2, <1>5 DEF LookupKey, FetchWinner, Replay
  <1>6. ASSUME NEW q \in Requests, Begin(q) \/ LockAccount(q) \/ InsertKey(q) PROVE Still
    BY <1>0, <1>6 DEF Begin, LockAccount, InsertKey
  <1>7. ASSUME NEW q \in Requests, PostEntries(q) PROVE Still
    <2>1. q # r
      BY <1>7 DEF PostEntries, ReadyToPost
    <2>2. CASE ~UniqueViolation(q)
      BY <1>0, <1>7, <2>1, <2>2 DEF PostEntries
    <2> QED
      BY <1>4, <2>1, <2>2
  <1>8. ASSUME NEW q \in Requests, AccountMissing(q) \/ ConnectionLost(q) \/ RejectPosting(q)
                                   \/ RejectBalance(q) \/ KeyTaken(q)
        PROVE  Still
    BY <1>3, <1>4, <1>8 DEF AccountMissing, ConnectionLost, RejectPosting, RejectBalance,
                            ReadyToPost, KeyTaken
  <1>9. ASSUME NEW q \in Requests, Commit(q) \/ CommitAnswerLost(q) PROVE Still
    BY <1>0, <1>2, <1>3, <1>9 DEF Commit, CommitAnswerLost
  <1>10. (\E a \in Accounts, type \in AccountTypes : CreateAccount(a, type))
            \/ Tick \/ Terminated \/ UNCHANGED vars => Still
    BY DEF CreateAccount, Tick, Terminated, vars
  <1> HIDE DEF Still
  <1>11. Still
    BY <1>1, <1>5, <1>6, <1>7, <1>8, <1>9, <1>10 DEF Next, Advance
  <1> QED
    BY <1>11 DEF Still

\* "posted" is the answer to a commit.
LEMMA PostedAnswer ==
    ASSUME TypeOK, [Next]_vars, NEW r \in Requests, outcome'[r].kind = "posted"
    PROVE  \/ outcome'[r] = outcome[r]
           \/ Commits(r) /\ outcome'[r].transaction_id = txn[r].id
  <1> DEFINE Good == \/ outcome'[r] = outcome[r]
                     \/ Commits(r) /\ outcome'[r].transaction_id = txn[r].id
  <1>0. outcome \in [Requests -> [kind: Outcomes, transaction_id: Nat]]
    BY DEF TypeOK
  <1>1. ASSUME NEW q \in Requests, NEW kind, kind # "posted", NEW id, Answer(q, kind, id)
        PROVE  Good
    BY <1>0, <1>1 DEF Answer
  <1>2. ASSUME NEW q \in Requests, NEW kind, kind # "posted", RollBackWith(q, kind)
        PROVE  Good
    BY <1>1, <1>2 DEF RollBackWith
  <1>3. ASSUME NEW q \in Requests, Submit(q) \/ RejectAmount(q) PROVE Good
    BY <1>0, <1>1, <1>3 DEF Submit, RejectAmount, NoOutcome
  <1>4. ASSUME NEW q \in Requests, LookupKey(q) \/ FetchWinner(q) PROVE Good
    BY <1>1, <1>4 DEF LookupKey, FetchWinner, Replay
  <1>5. ASSUME NEW q \in Requests, AccountMissing(q) \/ ConnectionLost(q) \/ RejectBalance(q) PROVE Good
    BY <1>2, <1>5 DEF AccountMissing, ConnectionLost, RejectBalance
  <1>6. ASSUME NEW q \in Requests, RejectPosting(q) PROVE Good
    <2>1. PostingVerdict(submission[q], chain[q]) # "posted"
      BY VerdictType DEF TypeOK, DomainErrors
    <2> QED
      BY <1>2, <1>6, <2>1 DEF RejectPosting
  <1>7. ASSUME NEW q \in Requests, Commit(q) PROVE Good
    <2>1. CASE EntrySum(staged[q]) # 0
      BY <1>2, <1>7, <2>1 DEF Commit
    <2>2. CASE EntrySum(staged[q]) = 0
      <3>1. Commits(q) /\ Answer(q, "posted", txn[q].id)
        BY <1>7, <2>2 DEF Commit, Commits, Answer
      <3> QED
        BY <1>0, <3>1 DEF Answer
    <2> QED BY <2>1, <2>2
  <1>8. ASSUME NEW q \in Requests, CommitAnswerLost(q) PROVE Good
    BY <1>1, <1>8 DEF CommitAnswerLost
  <1>9. ASSUME NEW q \in Requests, Begin(q) \/ LockAccount(q) \/ PostEntries(q)
                                   \/ InsertKey(q) \/ KeyTaken(q)
        PROVE  Good
    BY <1>9 DEF Begin, LockAccount, PostEntries, InsertKey, KeyTaken, UniqueViolation
  <1>10. (\E a \in Accounts, type \in AccountTypes : CreateAccount(a, type))
            \/ Tick \/ Terminated \/ UNCHANGED vars => outcome' = outcome
    BY DEF CreateAccount, Tick, Terminated, vars
  <1> HIDE DEF Good
  <1>11. Good \/ outcome' = outcome
    BY <1>3, <1>4, <1>5, <1>6, <1>7, <1>8, <1>9, <1>10 DEF Next, Advance
  <1> QED
    BY <1>11 DEF Good

LEMMA PostedStep ==
    TypeOK /\ AmountInv /\ IdsInv /\ PostedInv /\ [Next]_vars => PostedInv'
  <1> SUFFICES ASSUME TypeOK, AmountInv, IdsInv, PostedInv, [Next]_vars PROVE PostedInv'
    OBVIOUS
  <1>0. submission' = submission /\ events \subseteq events'
    BY SubmissionStep, EventsStep
  <1> DEFINE id(r) == outcome[r].transaction_id
  \* The identity of a commit is new to whoever has posted before.
  <1>1. ASSUME NEW c \in Requests, Commits(c), NEW q \in Requests,
               outcome'[q].kind = "posted", outcome'[q] = outcome[q]
        PROVE  outcome'[q].transaction_id # txn[c].id
    BY <1>1 DEF PostedInv, Posts, IdsInv, Commits, InTransaction
  <1>2. ASSUME NEW r \in Requests, outcome'[r].kind = "posted"
        PROVE  /\ submission'[r].amount > 0
               /\ \E e \in events' : Posts(r, e)'
    <2>1. CASE outcome'[r] = outcome[r]
      BY <1>0, <1>2, <2>1 DEF PostedInv, Posts
    <2>2. CASE Commits(r) /\ outcome'[r].transaction_id = txn[r].id
      <3>1. NewEvent(r) \in events'
        BY <2>2 DEF Commits, Publish, NewEvent
      <3>2. NewEvent(r).id = txn[r].id /\ NewEvent(r).payload = submission[r]
        BY DEF NewEvent
      <3>3. submission[r].amount > 0
        BY <2>2 DEF AmountInv, Commits
      <3> QED
        BY <1>0, <2>2, <3>1, <3>2, <3>3 DEF Posts
    <2> QED
      BY <1>2, <2>1, <2>2, PostedAnswer
  <1>3. ASSUME NEW q \in Requests, NEW r \in Requests,
               outcome'[q].kind = "posted", outcome'[r].kind = "posted",
               outcome'[q].transaction_id = outcome'[r].transaction_id
        PROVE  q = r
    <2>1. CASE outcome'[q] = outcome[q] /\ outcome'[r] = outcome[r]
      BY <1>3, <2>1 DEF PostedInv
    <2>2. CASE Commits(r) /\ outcome'[r].transaction_id = txn[r].id /\ outcome'[q] = outcome[q]
      BY <1>1, <1>3, <2>2
    <2>3. CASE Commits(q) /\ outcome'[q].transaction_id = txn[q].id /\ outcome'[r] = outcome[r]
      BY <1>1, <1>3, <2>3
    <2>4. CASE Commits(q) /\ Commits(r)
      BY <2>4 DEF Commits, GoTo, TypeOK
    <2> QED
      BY <1>3, <2>1, <2>2, <2>3, <2>4, PostedAnswer
  <1> QED
    BY <1>2, <1>3 DEF PostedInv

-----------------------------------------------------------------------------
(***************************************************************************)
(* Steps of the routes.                                                    *)
(***************************************************************************)
\* What the engine's invariants see of a call that is refused before it.
Refuses(r) ==
    /\ pc[r] \in {"idle", "done"}
    /\ GoTo(r, "done")
    /\ attempts' = [attempts EXCEPT ![r] = @ + 1]
    /\ UNCHANGED <<clock, tables, lock, submission, workspace, outcome>>

LEMMA RefusedEngine == ASSUME EngineInv, NEW r \in Requests, Refuses(r) PROVE EngineInv'
  <1>0. /\ TypeOK
        /\ pc' \in [Requests -> Steps]
        /\ pc'[r] = "done"
        /\ \A q \in Requests \ {r} : pc'[q] = pc[q]
    BY DEF EngineInv, TypeOK, Refuses, GoTo, Steps
  <1>1. TypeOK'
    BY <1>0 DEF TypeOK, Refuses, tables, workspace
  <1>2. LockInv'
    BY <1>0, LockUntouched DEF EngineInv, Refuses, InTransaction, Staging, tables, workspace
  <1>3. PostingInv'
    BY <1>0 DEF EngineInv, PostingInv, AmountInv, DecidedInv, SolventInv, FreshInv, Staging,
                Decided, Funded, FromHouse, BalancesFit, Refuses, tables
  <1>4. KeyInv'
    BY <1>0 DEF EngineInv, KeyInv, IdsInv, EventsInv, InsertInv, InTransaction, Inserting, Bound,
                Refuses, tables, workspace
  <1>5. StagedInv'
    <2>1. /\ \A q \in Requests : pc'[q] \in Staging => pc[q] \in Staging
          /\ UNCHANGED <<account_type, account_state, submission, txn, chain, staged>>
      BY <1>0 DEF Refuses, Staging, tables, workspace
    <2> QED
      BY <2>1 DEF EngineInv, EntryInv, StagedInv, Staged, IsLeg, SignedAmount
  <1>6. ChainIntact'
    BY DEF EngineInv, EntryInv, ChainIntact, Refuses, tables
  <1>7. LegsInv'
    BY DEF EngineInv, LegsInv, HasItsLegs, IsLeg, SignedAmount, Refuses, tables
  <1> QED
    BY <1>1, <1>2, <1>3, <1>4, <1>5, <1>6, <1>7 DEF EngineInv, EntryInv

LEMMA HttpEngineStep == EngineInv /\ [HttpNext]_httpVars => EngineInv'
  <1>1. ASSUME EngineInv, NEW r \in Requests, RefuseCall(r) PROVE EngineInv'
    BY <1>1, RefusedEngine DEF RefuseCall, Refuses, MaySend
  <1> QED
    BY <1>1, EngineStep DEF HttpNext, httpVars

LEMMA CallStep == TypeOK /\ CallInv /\ [HttpNext]_httpVars => CallInv'
  <1> SUFFICES ASSUME TypeOK, CallInv, [HttpNext]_httpVars PROVE CallInv'
    OBVIOUS
  <1>1. CASE UNCHANGED httpVars
    BY <1>1 DEF CallInv, httpVars, vars
  <1>2. ASSUME NEW r \in Requests, RefuseCall(r) PROVE CallInv'
    BY <1>2 DEF CallInv, RefuseCall, GoTo, TypeOK
  <1>3. CASE Next /\ Respond
    <2>1. call' = call /\ submission' = submission
      BY <1>3, SubmissionStep DEF Respond
    <2>2. ASSUME NEW r \in Requests, ~Reaches(call[r])
          PROVE  pc'[r] \in {"idle", "done"} /\ outcome'[r] = NoOutcome
      <3>1. attempts'[r] = attempts[r]
        BY <1>3, <2>2 DEF Respond
      <3>2. pc[r] \in {"idle", "done"} /\ outcome[r] = NoOutcome
        BY <2>2 DEF CallInv
      <3> QED
        BY <1>3, <3>1, <3>2, RestingStep
    <2> QED
      BY <2>1, <2>2 DEF CallInv
  <1> QED
    BY <1>1, <1>2, <1>3 DEF HttpNext

\* A call that is refused before the engine is never told of a success.
LEMMA RefusalIsNoSuccess == ASSUME NEW c PROVE Refusal(c) \notin {200, 201}
  BY DEF Refusal, NoStatus

LEMMA StatusStep == TypeOK /\ CallInv /\ StatusInv /\ [HttpNext]_httpVars => StatusInv'
  <1> SUFFICES ASSUME TypeOK, CallInv, StatusInv, [HttpNext]_httpVars PROVE StatusInv'
    OBVIOUS
  <1>0. DOMAIN status' = Requests
    BY DEF StatusInv, HttpNext, RefuseCall, Respond, httpVars
  <1> SUFFICES ASSUME NEW q \in Requests, status'[q] \in {200, 201}
               PROVE  /\ Reaches(call'[q])
                      /\ pc'[q] = "done"
                      /\ status'[q] = StatusOf(outcome'[q].kind)
    BY <1>0 DEF StatusInv
  <1>1. CASE UNCHANGED httpVars
    BY <1>1 DEF StatusInv, httpVars, vars
  <1>2. ASSUME NEW r \in Requests, RefuseCall(r)
        PROVE  /\ Reaches(call'[q])
               /\ pc'[q] = "done"
               /\ status'[q] = StatusOf(outcome'[q].kind)
    <2>1. status'[q] = IF q = r THEN Refusal(call[r]) ELSE status[q]
      BY <1>2 DEF RefuseCall, StatusInv
    <2>2. q # r
      BY <2>1, RefusalIsNoSuccess
    <2> QED
      BY <1>2, <2>1, <2>2 DEF StatusInv, RefuseCall, GoTo, TypeOK
  <1>3. CASE Next /\ Respond
    <2>1. /\ pc'[q] = "done"
          /\ outcome'[q] = outcome[q] => status'[q] = status[q]
          /\ outcome'[q] # outcome[q] => status'[q] = StatusOf(outcome'[q].kind)
          /\ call' = call
      BY <1>3 DEF Respond, NoStatus
    <2>2. CASE outcome'[q] = outcome[q]
      BY <2>1, <2>2 DEF StatusInv
    <2>3. CASE outcome'[q] # outcome[q]
      <3>1. Reaches(call[q])
        <4>1. SUFFICES ASSUME ~Reaches(call[q]) PROVE FALSE
          OBVIOUS
        <4>2. attempts'[q] = attempts[q] /\ pc[q] \in {"idle", "done"}
          BY <1>3, <4>1 DEF Respond, CallInv
        <4> QED
          BY <1>3, <2>3, <4>2, RestingStep
      <3> QED
        BY <2>1, <2>3, <3>1
    <2> QED
      BY <2>2, <2>3
  <1> QED
    BY <1>1, <1>2, <1>3 DEF HttpNext

LEMMA HttpInvInit == HttpInit => HttpInv
  <1> SUFFICES ASSUME HttpInit PROVE HttpInv
    OBVIOUS
  <1>1. Init
    BY DEF HttpInit
  <1>2. EngineInv
    BY <1>1, EngineInit
  <1>3. SuccessNamesTheEvent /\ PostedInv
    BY <1>1 DEF Init, SuccessNamesTheEvent, PostedInv, NoOutcome
  <1>4. CallInv
    BY <1>1 DEF HttpInit, Init, CallInv
  <1>5. StatusInv
    BY DEF HttpInit, StatusInv, NoStatus
  <1> QED
    BY <1>2, <1>3, <1>4, <1>5 DEF HttpInv

LEMMA HttpStep == HttpInv /\ [HttpNext]_httpVars => HttpInv'
  <1> SUFFICES ASSUME HttpInv, [HttpNext]_httpVars PROVE HttpInv'
    OBVIOUS
  <1>1. EngineInv'
    BY HttpEngineStep DEF HttpInv
  <1>2. CallInv' /\ StatusInv'
    BY CallStep, StatusStep DEF HttpInv, EngineInv
  <1>3. SuccessNamesTheEvent' /\ PostedInv'
    <2>1. CASE [Next]_vars
      BY <2>1, SuccessStep, PostedStep DEF HttpInv, EngineInv, KeyInv, PostingInv
    <2>2. ASSUME NEW r \in Requests, RefuseCall(r)
          PROVE  SuccessNamesTheEvent' /\ PostedInv'
      BY <2>2 DEF HttpInv, RefuseCall, SuccessNamesTheEvent, PostedInv, Posts, tables
    <2> QED
      BY <2>1, <2>2 DEF HttpNext, httpVars
  <1> QED
    BY <1>1, <1>2, <1>3 DEF HttpInv

LEMMA HttpInvHolds == HttpSpec => []HttpInv
  BY HttpInvInit, HttpStep, PTL DEF HttpSpec

-----------------------------------------------------------------------------
(***************************************************************************)
(* What a client is told.                                                  *)
(***************************************************************************)
LEMMA ParsedFields ==
    ASSUME NEW c
    PROVE  /\ Parsed(c).key = c.key
           /\ Parsed(c).from = c.from
           /\ Parsed(c).to = c.to
           /\ Parsed(c).amount = ToMinorUnits(c.amount)
  BY Zenon DEF Parsed

\* The outcome behind a status, and the event behind the outcome.
LEMMA ToldCreated ==
    ASSUME HttpInv, NEW r \in Requests, status[r] = 201
    PROVE  /\ Reaches(call[r])
           /\ submission[r] = Parsed(call[r])
           /\ outcome[r].kind = "posted"
           /\ submission[r].amount > 0
           /\ \E e \in events : Posts(r, e)
  <1>1. Reaches(call[r]) /\ StatusOf(outcome[r].kind) = 201
    BY DEF HttpInv, StatusInv
  <1>2. outcome[r].kind = "posted"
    BY <1>1 DEF StatusOf
  <1> QED
    BY <1>1, <1>2 DEF HttpInv, CallInv, PostedInv

\* Of all calls with one key, whoever sends them and however often, at most one is
\* answered 201, and a 200 is only ever the answer to a posting that succeeded
\* (ledger.routes.ts:55-57).
THEOREM CreatedOnce == HttpSpec => []CreatedOncePerKey
  <1>1. HttpInv => CreatedOncePerKey
    <2> SUFFICES ASSUME HttpInv PROVE CreatedOncePerKey
      OBVIOUS
    <2>1. ASSUME NEW q \in Requests, NEW r \in Requests, status[q] = 201, status[r] = 201,
                 call[q].key = call[r].key
          PROVE  q = r
      <3>1. /\ submission[q].key = call[q].key
            /\ submission[r].key = call[r].key
        BY <2>1, ToldCreated, ParsedFields
      <3>2. PICK e \in events : Posts(q, e)
        BY <2>1, ToldCreated
      <3>3. PICK f \in events : Posts(r, f)
        BY <2>1, ToldCreated
      <3>4. e = f
        BY <2>1, <3>1, <3>2, <3>3 DEF Posts, HttpInv, EngineInv, KeyInv, EventsInv
      <3> QED
        BY <2>1, <3>2, <3>3, <3>4, ToldCreated DEF Posts, HttpInv, PostedInv
    <2>2. ASSUME NEW r \in Requests, status[r] = 200
          PROVE  \E e \in events : e.payload.key = call[r].key
      <3>1. Reaches(call[r]) /\ StatusOf(outcome[r].kind) = 200
        BY <2>2 DEF HttpInv, StatusInv
      <3>2. outcome[r].kind = "replayed"
        BY <3>1 DEF StatusOf
      <3>3. submission[r].key = call[r].key
        BY <3>1, ParsedFields DEF HttpInv, CallInv
      <3> QED
        BY <3>2, <3>3 DEF HttpInv, SuccessNamesTheEvent
    <2> QED
      BY <2>1, <2>2 DEF CreatedOncePerKey
  <1> QED
    BY <1>1, HttpInvHolds, PTL

\* Behind the routes the ledger is the same: every call, refused, answered or lost,
\* is for its client at most one posting of AbstractLedger.
THEOREM CallsArePostings == HttpSpec => AtomicPosting
  <1>1. HttpInit => Abstract!Init
    BY RefinementInit DEF HttpInit
  <1>2. HttpInv /\ HttpInv' /\ [HttpNext]_httpVars => [Abstract!Next]_(Abstract!abstractVars)
    <2>1. ASSUME NEW r \in Requests, RefuseCall(r) PROVE UNCHANGED Abstract!abstractVars
      BY <2>1 DEF RefuseCall, tables, Abstract!abstractVars
    <2> QED
      BY <2>1, RefinementStep DEF HttpNext, httpVars, HttpInv, EngineInv
  <1> QED
    BY <1>1, <1>2, HttpInvHolds, PTL DEF HttpSpec, AtomicPosting, Abstract!Spec

-----------------------------------------------------------------------------
(***************************************************************************)
(* The two conversions of decimal.ts, for all integers and all texts.      *)
(***************************************************************************)
\* What is left of a magnitude after its whole part.
Remainders == 0..9999

\* What padStart(4, '0') returns: four digits.
LEMMA FourDigitsType ==
    ASSUME NEW f \in Remainders
    PROVE  FourDigits(f) \in Seq(Digits) /\ Len(FourDigits(f)) = 4
  <1>1. \A m \in Nat : m % 10 \in Digits
    BY DEF Digits
  <1>0. f \in Nat /\ f <= 9999
    BY DEF Remainders
  <1>2. f \div 1000 \in Digits
    BY <1>0 DEF Digits
  <1>3. f \div 100 \in Nat /\ f \div 10 \in Nat
    BY <1>0
  <1>4. /\ (f \div 100) % 10 \in Digits
        /\ (f \div 10) % 10 \in Digits
        /\ f % 10 \in Digits
    BY <1>0, <1>1, <1>3
  <1> QED
    BY <1>2, <1>4 DEF FourDigits

\* ... whose value is the remainder they were taken from.
LEMMA DigitsOfFourDigits ==
    ASSUME NEW f \in Remainders
    PROVE  DigitsValue(FourDigits(f)) = f
  <1>1. f \div 10 = 10 * (f \div 100) + ((f \div 10) % 10)
    BY SMTT(30) DEF Remainders
  <1>2. f = 10 * (f \div 10) + (f % 10)
    BY SMTT(30) DEF Remainders
  <1>3. f \div 100 = 10 * (f \div 1000) + ((f \div 100) % 10)
    BY SMTT(30) DEF Remainders
  <1> QED
    BY <1>1, <1>2, <1>3 DEF DigitsValue, FourDigits, Remainders

\* Padding four digits adds none.
LEMMA PadEndOfFour ==
    ASSUME NEW d \in Seq(Digits), Len(d) = 4
    PROVE  DigitsValue(PadEnd(d)) = DigitsValue(d)
  BY DEF PadEnd, Places, DigitsValue

\* The parts of a magnitude, and the magnitude from its parts.
LEMMA ScaleParts ==
    ASSUME NEW m \in Nat
    PROVE  /\ m \div Scale \in Nat
           /\ m % Scale \in Remainders
           /\ ((m \div Scale) * Scale) + (m % Scale) = m
  BY DEF Scale, Remainders

\* fromMinorUnits writes four digits after the point and the sign of the number.
LEMMA FromMinorUnitsType ==
    ASSUME NEW n \in Int
    PROVE  FromMinorUnits(n) \in Texts /\ Len(FromMinorUnits(n).fraction) = Places
  <1>1. \A m \in Nat : /\ m \div Scale \in Nat
                       /\ FourDigits(m % Scale) \in Seq(Digits)
                       /\ Len(FourDigits(m % Scale)) = 4
    <2> TAKE m \in Nat
    <2> DEFINE f == m % Scale
    <2>1. f \in Remainders /\ m \div Scale \in Nat
      BY ScaleParts
    <2>2. FourDigits(f) \in Seq(Digits) /\ Len(FourDigits(f)) = 4
      <3> HIDE DEF f
      <3> QED
        BY <2>1, FourDigitsType
    <2> QED
      BY <2>1, <2>2
  <1>2. (IF n < 0 THEN -n ELSE n) \in Nat
    OBVIOUS
  <1> QED
    BY <1>1, <1>2 DEF FromMinorUnits, Texts, Places

\* Reading the four digits that were written gives the remainder back.
LEMMA FractionRoundTrip ==
    ASSUME NEW f \in Remainders
    PROVE  DigitsValue(PadEnd(FourDigits(f))) = f
  <1> DEFINE d == FourDigits(f)
  <1>1. d \in Seq(Digits) /\ Len(d) = 4 /\ DigitsValue(d) = f
    BY FourDigitsType, DigitsOfFourDigits
  <1> HIDE DEF d
  <1>2. DigitsValue(PadEnd(d)) = f
    BY <1>1, PadEndOfFour
  <1> QED
    BY <1>2 DEF d

\* fromMinorUnits "is the inverse of toMinorUnits" (decimal.ts:54): what the engine
\* writes as text is the number it computed, for every number.  The zero-sum check
\* goes through both conversions (ledger.service.ts:268-270).
THEOREM RoundTrip ==
    ASSUME NEW n \in Int
    PROVE  ToMinorUnits(FromMinorUnits(n)) = n
  <1>1. CASE n >= 0
    <2>1. FromMinorUnits(n) =
              [negative |-> FALSE, whole |-> n \div Scale, fraction |-> FourDigits(n % Scale)]
      <3>1. (n < 0) = FALSE
        BY <1>1
      <3> QED
        BY <3>1, Zenon DEF FromMinorUnits
    <2>2. n \in Nat
      BY <1>1
    <2>3. DigitsValue(PadEnd(FourDigits(n % Scale))) = n % Scale
      BY <2>2, ScaleParts, FractionRoundTrip
    <2>4. ((n \div Scale) * Scale) + (n % Scale) = n
      BY <2>2, ScaleParts
    <2> QED
      BY <2>1, <2>3, <2>4 DEF ToMinorUnits, Signed
  <1>2. CASE n < 0
    <2> DEFINE m == -n
    <2>1. m \in Nat /\ m # 0
      BY <1>2
    <2>2. FromMinorUnits(n) =
              [negative |-> TRUE, whole |-> m \div Scale, fraction |-> FourDigits(m % Scale)]
      <3>1. (n < 0) = TRUE /\ ((-n) # 0) = TRUE
        BY <1>2
      <3> QED
        BY <3>1, Zenon DEF FromMinorUnits
    <2> HIDE DEF m
    <2>3. DigitsValue(PadEnd(FourDigits(m % Scale))) = m % Scale
      BY <2>1, ScaleParts, FractionRoundTrip
    <2>4. ((m \div Scale) * Scale) + (m % Scale) = m
      BY <2>1, ScaleParts
    <2>5. ToMinorUnits(FromMinorUnits(n)) = -m
      BY <2>2, <2>3, <2>4 DEF ToMinorUnits, Signed
    <2> QED
      BY <2>5 DEF m
  <1> QED
    BY <1>1, <1>2

\* No two numbers have the same text: a stored amount says which number was meant.
THEOREM TextsDistinguish ==
    ASSUME NEW m \in Int, NEW n \in Int, FromMinorUnits(m) = FromMinorUnits(n)
    PROVE  m = n
  BY RoundTrip

-----------------------------------------------------------------------------
(***************************************************************************)
(* What a text denotes.  Texts of the calls have at most four digits after *)
(* the point, so their reading is unrolled and not proved by induction.    *)
(***************************************************************************)
IsReading(g, n, d) ==
    g = [i \in 0..Len(d) |-> IF i = 0 THEN n ELSE 10 * g[i - 1] + d[i]]

LEMMA ReadingIsReading ==
    ASSUME NEW n, NEW d, NEW g, IsReading(g, n, d)
    PROVE  \E h : IsReading(h, n, d) /\ ReadAfter(n, d) = h[Len(d)]
  <1> DEFINE h == CHOOSE f : f = [i \in 0..Len(d) |-> IF i = 0 THEN n ELSE 10 * f[i - 1] + d[i]]
  <1>1. IsReading(h, n, d)
    BY Zenon DEF IsReading
  <1>2. ReadAfter(n, d) = h[Len(d)]
    BY Zenon DEF ReadAfter
  <1> QED
    BY <1>1, <1>2

\* The values of a reading of up to four digits.
LEMMA FewReadings ==
    ASSUME NEW n \in Nat, NEW d \in Seq(Nat), NEW k \in 0..4, Len(d) = k
    PROVE  \E h : /\ ReadAfter(n, d) = h[k]
                  /\ h[0] = n
                  /\ \A i \in 1..k : h[i] = 10 * h[i - 1] + d[i]
  <1> DEFINE v1 == 10 * n + d[1]
             v2 == 10 * v1 + d[2]
             v3 == 10 * v2 + d[3]
             v4 == 10 * v3 + d[4]
             g == [i \in 0..k |-> IF i = 0 THEN n ELSE IF i = 1 THEN v1
                                       ELSE IF i = 2 THEN v2 ELSE IF i = 3 THEN v3 ELSE v4]
  <1>1. IsReading(g, n, d)
    <2>1. \A i \in 0..k : g[i] = IF i = 0 THEN n ELSE 10 * g[i - 1] + d[i]
      <3> SUFFICES ASSUME NEW i \in 0..k
                   PROVE  g[i] = IF i = 0 THEN n ELSE 10 * g[i - 1] + d[i]
        OBVIOUS
      <3> HIDE DEF v1, v2, v3, v4
      <3>1. CASE i = 0
        BY <3>1
      <3>2. CASE i = 1
        BY <3>2 DEF v1
      <3>3. CASE i = 2
        BY <3>3 DEF v2
      <3>4. CASE i = 3
        BY <3>4 DEF v3
      <3>5. CASE i = 4
        BY <3>5 DEF v4
      <3> QED
        BY <3>1, <3>2, <3>3, <3>4, <3>5
    <2> HIDE DEF v1, v2, v3, v4
    <2>2. g = [i \in 0..k |-> g[i]]
      OBVIOUS
    <2> HIDE DEF g
    <2> QED
      BY <2>1, <2>2 DEF IsReading
  <1> HIDE DEF g
  <1>2. PICK h : IsReading(h, n, d) /\ ReadAfter(n, d) = h[k]
    BY <1>1, ReadingIsReading
  <1> HIDE DEF v1, v2, v3, v4
  <1>3. \A i \in 0..k : h[i] = IF i = 0 THEN n ELSE 10 * h[i - 1] + d[i]
    BY <1>2 DEF IsReading
  <1>4. h[0] = n
    BY <1>3
  <1>5. \A i \in 1..k : h[i] = 10 * h[i - 1] + d[i]
    BY <1>3
  <1> QED
    BY <1>2, <1>4, <1>5

\* The value of up to four digits.
FewDigits(n, k, a, b, c, e) ==
    IF k = 0 THEN n
    ELSE IF k = 1 THEN 10 * n + a
    ELSE IF k = 2 THEN 100 * n + 10 * a + b
    ELSE IF k = 3 THEN 1000 * n + 100 * a + 10 * b + c
    ELSE 10000 * n + 1000 * a + 100 * b + 10 * c + e

\* h[i] is the value of the first i of k digits, after n.
ReadsDigits(h, n, k, d) ==
    h[0] = n /\ \A i \in 1..k : h[i] = 10 * h[i - 1] + d[i] /\ d[i] \in Nat

LEMMA FewSteps ==
    ASSUME NEW n \in Nat, NEW k \in 0..4, NEW h, NEW d, ReadsDigits(h, n, k, d)
    PROVE  h[k] = FewDigits(n, k, d[1], d[2], d[3], d[4])
  <1> USE DEF ReadsDigits
  <1>1. /\ k >= 1 => h[1] = 10 * h[0] + d[1] /\ d[1] \in Nat
        /\ k >= 2 => h[2] = 10 * h[1] + d[2] /\ d[2] \in Nat
        /\ k >= 3 => h[3] = 10 * h[2] + d[3] /\ d[3] \in Nat
        /\ k >= 4 => h[4] = 10 * h[3] + d[4] /\ d[4] \in Nat
    <2>1. k >= 1 => h[1] = 10 * h[1 - 1] + d[1] /\ d[1] \in Nat
      OBVIOUS
    <2>2. k >= 2 => h[2] = 10 * h[2 - 1] + d[2] /\ d[2] \in Nat
      OBVIOUS
    <2>3. k >= 3 => h[3] = 10 * h[3 - 1] + d[3] /\ d[3] \in Nat
      OBVIOUS
    <2>4. k >= 4 => h[4] = 10 * h[4 - 1] + d[4] /\ d[4] \in Nat
      OBVIOUS
    <2> QED
      BY <2>1, <2>2, <2>3, <2>4
  <1>2. k = 0 \/ k = 1 \/ k = 2 \/ k = 3 \/ k = 4
    OBVIOUS
  <1> QED
    BY <1>1, <1>2 DEF FewDigits

LEMMA ReadFew ==
    ASSUME NEW n \in Nat, NEW d \in Seq(Nat), NEW k \in 0..4, Len(d) = k
    PROVE  ReadAfter(n, d) = FewDigits(n, k, d[1], d[2], d[3], d[4])
  <1>1. \A i \in 1..k : d[i] \in Nat
    BY ElementOfSeq
  <1>2. PICK h : /\ ReadAfter(n, d) = h[k]
                 /\ h[0] = n
                 /\ \A i \in 1..k : h[i] = 10 * h[i - 1] + d[i]
    BY FewReadings, Zenon
  <1>3. \A i \in 1..k : h[i] = 10 * h[i - 1] + d[i] /\ d[i] \in Nat
    BY <1>1, <1>2, Zenon
  <1>4. ReadsDigits(h, n, k, d)
    BY <1>2, <1>3, Zenon DEF ReadsDigits
  <1>5. h[k] = FewDigits(n, k, d[1], d[2], d[3], d[4])
    BY <1>4, FewSteps
  <1> QED
    BY <1>2, <1>5


LEMMA PowerFew ==
    ASSUME NEW k \in 0..4
    PROVE  PowerOfTen(k) = IF k = 0 THEN 1 ELSE IF k = 1 THEN 10 ELSE IF k = 2 THEN 100
                           ELSE IF k = 3 THEN 1000 ELSE 10000
  <1> PICK d : d = [i \in 1..k |-> 0]
    OBVIOUS
  <1>1. d \in Seq(Nat) /\ Len(d) = k /\ \A i \in 1..k : d[i] = 0
    OBVIOUS
  <1>2. ReadAfter(1, d) = FewDigits(1, k, d[1], d[2], d[3], d[4])
    <2>1. 1 \in Nat
      OBVIOUS
    <2> QED
      BY <1>1, <2>1, ReadFew, Zenon
  <1>3. /\ k >= 1 => d[1] = 0
        /\ k >= 2 => d[2] = 0
        /\ k >= 3 => d[3] = 0
        /\ k >= 4 => d[4] = 0
    BY <1>1
  <1>4. PowerOfTen(k) = ReadAfter(1, d)
    BY Zenon DEF PowerOfTen
  <1>5. k = 0 \/ k = 1 \/ k = 2 \/ k = 3 \/ k = 4
    OBVIOUS
  <1> QED
    BY <1>2, <1>3, <1>4, <1>5 DEF FewDigits

\* The sum that padEnd(4, '0') and BigInt make of up to four digits, and 10^k.
PaddedSum(k, a, b, c, e) ==
    1000 * (IF 1 <= k THEN a ELSE 0) + 100 * (IF 2 <= k THEN b ELSE 0)
        + 10 * (IF 3 <= k THEN c ELSE 0) + (IF 4 <= k THEN e ELSE 0)

LEMMA PaddedSums ==
    ASSUME NEW n \in Nat, NEW k \in 0..4, NEW d, \A i \in 1..k : d[i] \in Nat
    PROVE  LET value == PaddedSum(k, d[1], d[2], d[3], d[4])
               read == FewDigits(n, k, d[1], d[2], d[3], d[4])
           IN  /\ value \in Nat
               /\ read \in Nat
               /\ (n * Scale + value) * PowerOfTen(k) = read * Scale
  <1> DEFINE value == PaddedSum(k, d[1], d[2], d[3], d[4])
             read == FewDigits(n, k, d[1], d[2], d[3], d[4])
  <1>1. CASE k = 0
    <2>1. value = 0 /\ read = n /\ PowerOfTen(k) = 1
      BY <1>1, PowerFew DEF PaddedSum, FewDigits
    <2> HIDE DEF value, read
    <2>2. value \in Nat /\ read \in Nat /\ (n * Scale + value) * PowerOfTen(k) = read * Scale
      BY <2>1 DEF Scale
    <2> QED
      BY <2>2 DEF value, read
  <1>2. CASE k = 1
    <2>0. d[1] \in Nat
      BY <1>2
    <2>1. value = 1000 * d[1] /\ read = 10 * n + d[1] /\ PowerOfTen(k) = 10
      BY <1>2, <2>0, PowerFew DEF PaddedSum, FewDigits
    <2> HIDE DEF value, read
    <2>2. value \in Nat /\ read \in Nat /\ (n * Scale + value) * PowerOfTen(k) = read * Scale
      BY <2>0, <2>1 DEF Scale
    <2> QED
      BY <2>2 DEF value, read
  <1>3. CASE k = 2
    <2>0. d[1] \in Nat /\ d[2] \in Nat
      BY <1>3
    <2>1. /\ value = 1000 * d[1] + 100 * d[2]
          /\ read = 100 * n + 10 * d[1] + d[2]
          /\ PowerOfTen(k) = 100
      BY <1>3, <2>0, PowerFew DEF PaddedSum, FewDigits
    <2> HIDE DEF value, read
    <2>2. value \in Nat /\ read \in Nat /\ (n * Scale + value) * PowerOfTen(k) = read * Scale
      BY <2>0, <2>1 DEF Scale
    <2> QED
      BY <2>2 DEF value, read
  <1>4. CASE k = 3
    <2>0. d[1] \in Nat /\ d[2] \in Nat /\ d[3] \in Nat
      BY <1>4
    <2>1. /\ value = 1000 * d[1] + 100 * d[2] + 10 * d[3]
          /\ read = 1000 * n + 100 * d[1] + 10 * d[2] + d[3]
          /\ PowerOfTen(k) = 1000
      BY <1>4, <2>0, PowerFew DEF PaddedSum, FewDigits
    <2> HIDE DEF value, read
    <2>2. value \in Nat /\ read \in Nat /\ (n * Scale + value) * PowerOfTen(k) = read * Scale
      BY <2>0, <2>1 DEF Scale
    <2> QED
      BY <2>2 DEF value, read
  <1>5. CASE k = 4
    <2>0. d[1] \in Nat /\ d[2] \in Nat /\ d[3] \in Nat /\ d[4] \in Nat
      BY <1>5
    <2>1. /\ value = 1000 * d[1] + 100 * d[2] + 10 * d[3] + d[4]
          /\ read = 10000 * n + 1000 * d[1] + 100 * d[2] + 10 * d[3] + d[4]
          /\ PowerOfTen(k) = 10000
      BY <1>5, <2>0, PowerFew DEF PaddedSum, FewDigits
    <2> HIDE DEF value, read
    <2>2. value \in Nat /\ read \in Nat /\ n * Scale + value = read /\ PowerOfTen(k) = Scale
      BY <2>0, <2>1 DEF Scale
    <2> QED
      BY <2>2 DEF value, read
  <1> HIDE DEF value, read
  <1>6. k = 0 \/ k = 1 \/ k = 2 \/ k = 3 \/ k = 4
    OBVIOUS
  <1> QED
    BY <1>1, <1>2, <1>3, <1>4, <1>5, <1>6, Zenon DEF value, read

\* The number of padded digits, scaled back, is the number of the text.
LEMMA PaddedValue ==
    ASSUME NEW n \in Nat, NEW d \in Seq(Digits), NEW k \in 0..4, Len(d) = k
    PROVE  /\ DigitsValue(PadEnd(d)) \in Nat
           /\ ReadAfter(n, d) \in Nat
           /\ (n * Scale + DigitsValue(PadEnd(d))) * PowerOfTen(k) = ReadAfter(n, d) * Scale
  <1>1. d \in Seq(Nat)
    BY DEF Digits
  <1>2. \A i \in 1..k : d[i] \in Nat
    BY <1>1, ElementOfSeq
  <1>3. ReadAfter(n, d) = FewDigits(n, k, d[1], d[2], d[3], d[4])
    BY <1>1, ReadFew, Zenon
  <1>4. DigitsValue(PadEnd(d)) = PaddedSum(k, d[1], d[2], d[3], d[4])
    BY DEF DigitsValue, PadEnd, Places, PaddedSum
  <1>5. /\ PaddedSum(k, d[1], d[2], d[3], d[4]) \in Nat
        /\ FewDigits(n, k, d[1], d[2], d[3], d[4]) \in Nat
        /\ (n * Scale + PaddedSum(k, d[1], d[2], d[3], d[4])) * PowerOfTen(k)
                = FewDigits(n, k, d[1], d[2], d[3], d[4]) * Scale
    BY <1>2, PaddedSums, Zenon
  <1> QED
    BY <1>3, <1>4, <1>5, Zenon


\* toMinorUnits is exact: what it returns for a text that it does not refuse is the
\* number that the text denotes, whatever its sign and however many of the four
\* digits are missing (decimal.ts:1-9).
THEOREM ToMinorUnitsIsExact ==
    ASSUME NEW t \in Texts, ~TooPrecise(t)
    PROVE  ToMinorUnits(t) \in Int /\ Denotes(t, ToMinorUnits(t))
  <1> DEFINE d == t.fraction
             k == Len(d)
  <1>1. /\ t.negative \in BOOLEAN
        /\ t.whole \in Nat
        /\ d \in Seq(Digits)
    BY DEF Texts
  <1>2. k \in 0..4
    <2>1. k \in Nat
      BY <1>1, LenProperties, Zenon
    <2>2. ~(k > 4)
      BY DEF TooPrecise, Places
    <2> HIDE DEF k
    <2> QED
      BY <2>1, <2>2
  <1> HIDE DEF k
  <1>3. /\ DigitsValue(PadEnd(d)) \in Nat
        /\ ReadAfter(t.whole, d) \in Nat
        /\ (t.whole * Scale + DigitsValue(PadEnd(d))) * PowerOfTen(k)
                = ReadAfter(t.whole, d) * Scale
    BY <1>1, <1>2, PaddedValue, Zenon DEF k
  <1>4. PowerOfTen(k) \in Nat
    BY <1>2, PowerFew
  <1> PICK m : m = t.whole * Scale + DigitsValue(PadEnd(d))
    OBVIOUS
  <1> PICK u : u = ReadAfter(t.whole, d)
    OBVIOUS
  <1> PICK p : p = PowerOfTen(k)
    OBVIOUS
  <1>5. m \in Nat /\ u \in Nat /\ p \in Nat /\ m * p = u * Scale
    <2>1. t.whole * Scale \in Nat
      BY <1>1 DEF Scale
    <2>2. m \in Nat
      <3> PICK v : v = DigitsValue(PadEnd(d))
        OBVIOUS
      <3>1. v \in Nat /\ m = t.whole * Scale + v
        BY <1>3
      <3> QED
        BY <2>1, <3>1
    <2> QED
      BY <1>3, <1>4, <2>2, Zenon
  <1>6. ToMinorUnits(t) = IF t.negative THEN -m ELSE m
    BY Zenon DEF ToMinorUnits, Signed
  <1>7. Denotes(t, ToMinorUnits(t)) <=>
            ToMinorUnits(t) * p = (IF t.negative THEN -u ELSE u) * Scale
    BY Zenon DEF Denotes, Unscaled, k
  <1>8. (-m) * p = (-u) * Scale
    <2>1. (-m) * p = -(m * p) /\ (-u) * Scale = -(u * Scale)
      BY <1>5 DEF Scale
    <2> QED
      BY <1>5, <2>1
  <1>9. CASE t.negative
    <2>1. ToMinorUnits(t) = -m
      BY <1>6, <1>9
    <2> QED
      BY <1>5, <1>7, <1>8, <1>9, <2>1
  <1>10. CASE ~t.negative
    <2>1. ToMinorUnits(t) = m
      BY <1>6, <1>10
    <2> QED
      BY <1>5, <1>7, <1>10, <2>1
  <1> QED
    BY <1>9, <1>10

\* fromMinorUnits is exact, and writes one text per number, with no sign before a zero:
\* it is what NUMERIC(19, 4) gives back, so that a hash over it recomputes.
THEOREM FromMinorUnitsIsExact ==
    ASSUME NEW n \in Int
    PROVE  /\ Denotes(FromMinorUnits(n), n)
           /\ Canonical(FromMinorUnits(n))
  <1> DEFINE t == FromMinorUnits(n)
  <1>1. t \in Texts /\ Len(t.fraction) = Places
    BY FromMinorUnitsType
  <1>2. ToMinorUnits(t) = n
    BY RoundTrip
  <1>3. t.negative => n < 0
    BY DEF FromMinorUnits
  <1> HIDE DEF t
  <1>4. Denotes(t, n)
    <2>1. ~TooPrecise(t)
      BY <1>1 DEF TooPrecise, Places
    <2> QED
      BY <1>1, <1>2, <2>1, ToMinorUnitsIsExact
  <1>5. ASSUME t.negative PROVE Unscaled(t) # 0
    <2>1. SUFFICES ASSUME Unscaled(t) = 0 PROVE FALSE
      OBVIOUS
    <2>2. PowerOfTen(4) = 10000
      BY PowerFew
    <2>3. n * PowerOfTen(4) = (-Unscaled(t)) * Scale
      BY <1>1, <1>4, <1>5 DEF Denotes, Places
    <2>4. n * 10000 = 0
      BY <2>1, <2>2, <2>3 DEF Scale
    <2> QED
      BY <1>3, <1>5, <2>4
  <1> QED
    BY <1>1, <1>4, <1>5 DEF Canonical, t

-----------------------------------------------------------------------------
(***************************************************************************)
(* What stands behind a 201.                                               *)
(***************************************************************************)
LEMMA PairCardinality == ASSUME NEW a, NEW b, a # b PROVE Cardinality({a, b}) = 2
  <1>1. PICK S : S = {a}
    OBVIOUS
  <1>2. IsFiniteSet(S) /\ Cardinality(S) = 1
    BY <1>1, FS_Singleton
  <1>3. Cardinality(S \cup {b}) = Cardinality(S) + 1
    BY <1>1, <1>2, FS_AddElement
  <1>4. S \cup {b} = {a, b}
    BY <1>1
  <1> QED
    BY <1>2, <1>3, <1>4

\* Both entries have the magnitude of the leg.
LEMMA LegMagnitude ==
    ASSUME NEW s \in Submissions, s.amount > 0, NEW i \in 1..2, NEW typeOf
    PROVE  SignedAmount(s, i, typeOf) \in {s.amount, -s.amount}
  <1>1. /\ s.amount \in Int
        /\ Legs(s)[i].amount = s.amount
        /\ Legs(s)[i].direction \in Directions
    BY LegType, SubmissionType DEF Directions
  <1> QED
    BY <1>1 DEF SignedAmount, ToStoredSignedAmount

\* The entries behind a 201 are two, on the accounts of the call, and their magnitude
\* is the number its body was written with; their stored text is what the column
\* gives back (decimal.ts:1-9).
THEOREM CreatedExactly == HttpSpec => []CreatedIsExact
  <1>1. HttpInv => CreatedIsExact
    <2> SUFFICES ASSUME HttpInv, NEW r \in Requests, status[r] = 201
                 PROVE  LET entries == {j \in journal_entries :
                                           j.event_id = outcome[r].transaction_id}
                            magnitude(j) == IF j.signed_amount < 0 THEN -j.signed_amount
                                            ELSE j.signed_amount
                            stored(j) == FromMinorUnits(j.signed_amount)
                        IN  /\ {j.account_id : j \in entries} = {call[r].from, call[r].to}
                            /\ Cardinality(entries) = 2
                            /\ \A j \in entries :
                                  /\ magnitude(j) > 0
                                  /\ Denotes(call[r].amount, magnitude(j))
                                  /\ Canonical(stored(j))
                                  /\ Denotes(stored(j), j.signed_amount)
      BY Zenon DEF CreatedIsExact
    <2> DEFINE entries == {j \in journal_entries : j.event_id = outcome[r].transaction_id}
               s == submission[r]
               amount == call[r].amount
    <2>1. /\ Reaches(call[r])
          /\ s = Parsed(call[r])
          /\ s.amount > 0
          /\ call[r] \in Calls
      BY ToldCreated DEF HttpInv, CallInv
    <2>2. PICK e \in events : Posts(r, e)
      BY ToldCreated
    <2>3. s \in Submissions /\ s.amount \in Int
      BY SubmissionType DEF HttpInv, EngineInv, TypeOK
    <2>4. s.from = call[r].from /\ s.to = call[r].to /\ s.amount = ToMinorUnits(amount)
      BY <2>1, ParsedFields
    <2>5. amount \in Texts /\ ~TooPrecise(amount)
      <3>1. ~Throws(amount)
        BY <2>1 DEF Reaches, Refusal, NoStatus
      <3> QED
        BY <2>1, <3>1, CallsAssumption DEF Throws
    <2>6. Denotes(amount, s.amount)
      BY <2>4, <2>5, ToMinorUnitsIsExact
    <2>7. PICK first \in Entries, second \in Entries :
              /\ entries = {first, second}
              /\ first # second
              /\ IsLeg(first, s, 1, e.id)
              /\ IsLeg(second, s, 2, e.id)
      <3>1. HasItsLegs(e, journal_entries) /\ e.id = outcome[r].transaction_id /\ e.payload = s
        BY <2>2 DEF HttpInv, EngineInv, LegsInv, Posts
      <3> QED
        BY <3>1 DEF HasItsLegs
    <2>8. {j.account_id : j \in entries} = {call[r].from, call[r].to}
      <3>1. first.account_id = s.from /\ second.account_id = s.to
        BY <2>3, <2>7, LegType DEF IsLeg
      <3> QED
        BY <2>4, <2>7, <3>1
    <2>9. Cardinality(entries) = 2
      <3>1. entries = {first, second}
        BY <2>7
      <3> HIDE DEF entries
      <3> QED
        BY <2>7, <3>1, PairCardinality
    <2>10. ASSUME NEW j \in entries
           PROVE  /\ j.signed_amount \in {s.amount, -s.amount}
                  /\ j.signed_amount \in Int
      <3>1. j = first \/ j = second
        BY <2>7
      <3>2. first.signed_amount = SignedAmount(s, 1, account_type)
            /\ second.signed_amount = SignedAmount(s, 2, account_type)
        BY <2>7 DEF IsLeg
      <3>3. j.signed_amount \in {s.amount, -s.amount}
        BY <2>1, <2>3, <3>1, <3>2, LegMagnitude
      <3> QED
        BY <2>3, <3>3
    <2>11. ASSUME NEW j \in entries
           PROVE  (IF j.signed_amount < 0 THEN -j.signed_amount ELSE j.signed_amount) = s.amount
      <3> HIDE DEF entries, s
      <3> QED
        BY <2>1, <2>3, <2>10
    <2>12. ASSUME NEW j \in entries
           PROVE  /\ Canonical(FromMinorUnits(j.signed_amount))
                  /\ Denotes(FromMinorUnits(j.signed_amount), j.signed_amount)
      BY <2>10, FromMinorUnitsIsExact
    <2> HIDE DEF s
    <2> QED
      BY <2>1, <2>6, <2>8, <2>9, <2>11, <2>12, Zenon
  <1> QED
    BY <1>1, HttpInvHolds, PTL
=============================================================================
