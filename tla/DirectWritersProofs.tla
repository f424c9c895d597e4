-------------------------- MODULE DirectWritersProofs --------------------------
(***************************************************************************)
(* Proofs about DirectWriters, for any number of sessions beside the       *)
(* program and any statements of theirs.  What the engine relies on is out *)
(* of their reach: they never change a row that a posting holds, nor the   *)
(* events and the keys.  What they insert and retype meets the triggers.   *)
(***************************************************************************)
EXTENDS DirectWriters, LedgerEntryProofs

WriterTypeOK ==
    /\ retyped \in [Writers -> [Accounts -> AccountTypes \cup {NoType}]]
    /\ added \in [Writers -> SUBSET Entries]

\* The invariants of the engine that hold beside writers.  ChainIntact is not one
\* of them: an entry that a writer makes up is not chained.
PostingsInv == TypeOK /\ LockInv /\ PostingInv /\ KeyInv /\ StagedInv

\* A row is retyped only while no posting holds it, and before its first posting.
RetypedInv ==
    \A w \in Writers, a \in Accounts : retyped[w][a] # NoType =>
        /\ lock[a] = {}
        /\ account_type[a] # NoType
        /\ \A e \in events : a \notin UniqueAccountIds(e.payload)

\* Every entry belongs to an event, also the ones writers add (the foreign key).
OwnedInv ==
    /\ \A j \in journal_entries : \E e \in events : e.id = j.event_id
    /\ \A w \in Writers : \A j \in added[w] : \E e \in events : e.id = j.event_id

\* The entries of the legs of event e, among whatever was added to it.
KeepsItsLegs(e) ==
    \A i \in 1..2 : \E j \in journal_entries :
        /\ IsLeg(j, e.payload, i, e.id)
        /\ j.entry_hash # Unchained

LegsKeptInv ==
    \A e \in events :
        /\ \A a \in UniqueAccountIds(e.payload) : account_type[a] # NoType
        /\ KeepsItsLegs(e)

DatabaseInv ==
    PostingsInv /\ WriterTypeOK /\ RetypedInv /\ OwnedInv /\ LegsKeptInv /\ EveryEventBalances

-----------------------------------------------------------------------------
(***************************************************************************)
(* The steps of a writer.                                                  *)
(***************************************************************************)
\* What a step of a writer can do: nothing that others see, or its commit.
WriterCommits(w) ==
    /\ Balances(w)
    /\ account_type' = [a \in Accounts |-> IF retyped[w][a] = NoType
                                           THEN account_type[a] ELSE retyped[w][a]]
    /\ journal_entries' = journal_entries \cup added[w]
    /\ EndWriter(w)
    /\ UNCHANGED <<clock, nextId, account_state, events, idempotency_keys, lock, pc,
                   submission, workspace, outcome, attempts>>

Retypes(w, a, type) ==
    /\ type # NoType
    /\ account_type[a] # NoType
    /\ lock[a] = {}
    /\ ~HasEntries(w, a)
    /\ retyped' = [retyped EXCEPT ![w][a] = type]
    /\ UNCHANGED <<vars, added>>

Adds(w, e) ==
    /\ \E ev \in events : ev.id = e.event_id
    /\ added' = [added EXCEPT ![w] = @ \cup {e}]
    /\ UNCHANGED <<vars, retyped>>

LEMMA WriterStep ==
    ASSUME TypeOK, NEW w \in Writers, WriterNext(w)
    PROVE  \/ EndWriter(w) /\ UNCHANGED vars
           \/ \E a \in Accounts, type \in AccountTypes : Retypes(w, a, type)
           \/ \E e \in Entries : Adds(w, e)
           \/ WriterCommits(w)
  <1>1. ASSUME NEW a \in Accounts, NEW type \in AccountTypes, UpdateType(w, a, type)
        PROVE  Abort(w) \/ Retypes(w, a, type)
    BY <1>1 DEF UpdateType, Retypes, HoldsAccountRow
  <1>2. ASSUME NEW ev \in events, NEW a \in Accounts, NEW amount \in {-1, 1},
               NEW n \in 1..MaxSequence, InsertEntry(w, BareEntry(ev.id, a, amount, n))
        PROVE  Abort(w) \/ \E e \in Entries : Adds(w, e)
    <2> DEFINE e == BareEntry(ev.id, a, amount, n)
    <2>1. ev.id \in Nat /\ n \in Nat /\ Genesis \in Hashes
      BY MaxSequenceAssumption DEF TypeOK, Events, Genesis, Hashes
    <2>2. e \in Entries /\ e.event_id = ev.id
      BY <2>1 DEF BareEntry, Entries, Unchained
    <2>3. InsertEntry(w, e)
      BY <1>2
    <2> HIDE DEF e
    <2> QED
      BY <2>2, <2>3 DEF InsertEntry, Adds
  <1>3. ASSUME NEW e \in journal_entries, DeleteEntry(w, e) PROVE Abort(w)
    BY <1>3 DEF DeleteEntry, MutationBlocked
  <1>4. ASSUME CommitWriter(w) PROVE Abort(w) \/ WriterCommits(w)
    BY <1>4 DEF CommitWriter, WriterCommits
  <1>5. ASSUME RollBackWriter(w) PROVE Abort(w)
    BY <1>5 DEF RollBackWriter
  <1>6. \/ Abort(w)
        \/ \E a \in Accounts, type \in AccountTypes : Retypes(w, a, type)
        \/ \E e \in Entries : Adds(w, e)
        \/ WriterCommits(w)
    BY <1>1, <1>2, <1>3, <1>4, <1>5 DEF WriterNext
  <1> QED
    BY <1>6 DEF Abort

\* The commit of a writer changes no type an event or a posting depends on.
LEMMA WriterCommitTypes ==
    ASSUME TypeOK, WriterTypeOK, RetypedInv, NEW w \in Writers, WriterCommits(w), NEW a \in Accounts
    PROVE  /\ account_type'[a] \in AccountTypes \cup {NoType}
           /\ account_type[a] # NoType => account_type'[a] # NoType
           /\ account_type[a] = NoType => account_type'[a] = NoType
           /\ lock[a] # {} => account_type'[a] = account_type[a]
           /\ (\E e \in events : a \in UniqueAccountIds(e.payload))
                  => account_type'[a] = account_type[a]
  BY DEF WriterCommits, RetypedInv, TypeOK, WriterTypeOK

\* The engine goes on beside a writer as if its rows were its own.
LEMMA PostingsBesideCommit ==
    ASSUME PostingsInv, WriterTypeOK, RetypedInv, NEW w \in Writers, WriterCommits(w)
    PROVE  PostingsInv'
  <1> USE DEF PostingsInv
  <1>1. UNCHANGED <<clock, nextId, account_state, events, idempotency_keys, lock, pc,
                    submission, txn, chain, staged, outcome, attempts>>
    BY DEF WriterCommits, workspace
  <1>2. \A a \in Accounts :
            /\ account_type[a] # NoType => account_type'[a] # NoType
            /\ account_type[a] = NoType => account_type'[a] = NoType
            /\ lock[a] # {} => account_type'[a] = account_type[a]
    BY WriterCommitTypes
  <1>3. TypeOK'
    <2>1. account_type' \in [Accounts -> AccountTypes \cup {NoType}]
      BY WriterCommitTypes DEF WriterCommits
    <2>2. journal_entries' \subseteq Entries
      BY DEF WriterCommits, TypeOK, WriterTypeOK
    <2> QED
      BY <1>1, <2>1, <2>2 DEF TypeOK
  <1>4. LockInv'
    <2>1. ASSUME NEW a \in Accounts, NEW r \in lock[a] PROVE Held(a, r)'
      <3>1. Held(a, r)
        BY DEF LockInv, LocksInv
      <3>2. account_type'[a] = account_type[a]
        BY <1>2
      <3> QED
        BY <1>1, <3>1, <3>2 DEF Held, UniqueAccountIds
    <2> QED
      BY <1>1, <2>1 DEF LockInv, LocksInv, HeldInv, UniqueAccountIds
  <1>5. \A r \in Requests : pc[r] \in Staging =>
            /\ submission[r] \in Submissions
            /\ \A a \in UniqueAccountIds(submission[r]) :
                    a \in Accounts /\ account_type'[a] = account_type[a]
    <2> SUFFICES ASSUME NEW r \in Requests, pc[r] \in Staging,
                        NEW a \in UniqueAccountIds(submission[r])
                 PROVE  a \in Accounts /\ account_type'[a] = account_type[a]
      BY DEF TypeOK
    <2>1. a \in Accounts /\ r \in lock[a]
      BY SubmissionType DEF TypeOK, LockInv, HeldInv
    <2> QED
      BY <1>2, <2>1
  <1>6. PostingInv'
    <2>1. ASSUME NEW r \in Requests, pc[r] \in Staging PROVE Decided(submission[r])'
      <3>1. Decided(submission[r])
        BY <2>1 DEF PostingInv, DecidedInv
      <3>2. /\ UniqueAccountIds(submission[r]) = {submission[r].from, submission[r].to}
            /\ account_type'[submission[r].from] = account_type[submission[r].from]
            /\ account_type'[submission[r].to] = account_type[submission[r].to]
        BY <1>5, <2>1, SubmissionType
      <3> QED
        BY <1>1, <3>1, <3>2 DEF Decided, Funded, FromHouse, BalancesFit, UniqueAccountIds
    <2>2. DecidedInv'
      BY <1>1, <2>1 DEF DecidedInv
    <2>3. AmountInv' /\ SolventInv'
      BY <1>1 DEF PostingInv, AmountInv, SolventInv
    <2>4. FreshInv'
      BY <1>1, <1>2 DEF PostingInv, FreshInv
    <2> QED
      BY <2>2, <2>3, <2>4 DEF PostingInv
  <1>7. KeyInv'
    BY <1>1 DEF KeyInv, IdsInv, EventsInv, InsertInv, Bound, Inserting
  <1>8. StagedInv'
    <2> SUFFICES ASSUME NEW r \in Requests, pc[r] \in Staging
                 PROVE  \E first, second \in Entries : Staged(r, first, second)'
      BY <1>1 DEF StagedInv
    <2> DEFINE s == submission[r]
    <2>1. PICK first \in Entries, second \in Entries : Staged(r, first, second)
      BY DEF StagedInv
    <2>2. /\ s \in Submissions
          /\ account_type'[s.from] = account_type[s.from]
          /\ account_type'[s.to] = account_type[s.to]
      BY <1>5, SubmissionType
    <2>3. Legs(s)[1].account_id = s.from /\ Legs(s)[2].account_id = s.to
      BY <2>2, LegType
    <2>4. IsLeg(first, s, 1, txn[r].id)' /\ IsLeg(second, s, 2, txn[r].id)'
      BY <1>1, <2>1, <2>2, <2>3 DEF Staged, IsLeg, SignedAmount
    <2>5. Staged(r, first, second)'
      BY <1>1, <2>1, <2>4 DEF Staged
    <2> QED
      BY <2>5
  <1> QED
    BY <1>3, <1>4, <1>6, <1>7, <1>8

\* Nothing the engine looks at.
LEMMA PostingsUnchanged == ASSUME PostingsInv, UNCHANGED vars PROVE PostingsInv'
  <1>1. [Next]_vars
    OBVIOUS
  <1>2. TypeOK' /\ LockInv'
    BY <1>1, TypeStep, LockStep DEF PostingsInv
  <1> QED
    BY <1>1, <1>2, PostingStep, KeyStep, StagedStep DEF PostingsInv

LEMMA PostingsStep ==
    ASSUME PostingsInv, WriterTypeOK, RetypedInv, [DatabaseNext]_databaseVars
    PROVE  PostingsInv'
  <1>1. CASE [Next]_vars
    <2>1. TypeOK' /\ LockInv'
      BY <1>1, TypeStep, LockStep DEF PostingsInv
    <2> QED
      BY <1>1, <2>1, PostingStep, KeyStep, StagedStep DEF PostingsInv
  <1>2. ASSUME NEW w \in Writers, WriterNext(w) PROVE PostingsInv'
    <2>1. ASSUME NEW a \in Accounts, NEW type \in AccountTypes, Retypes(w, a, type)
          PROVE  UNCHANGED vars
      BY <2>1 DEF Retypes
    <2>2. ASSUME NEW e \in Entries, Adds(w, e) PROVE UNCHANGED vars
      BY <2>2 DEF Adds
    <2> QED
      BY <1>2, <2>1, <2>2, WriterStep, PostingsUnchanged, PostingsBesideCommit DEF PostingsInv
  <1> QED
    BY <1>1, <1>2 DEF DatabaseNext, databaseVars

LEMMA WriterTypeStep ==
    ASSUME TypeOK, WriterTypeOK, [DatabaseNext]_databaseVars PROVE WriterTypeOK'
  <1>1. CASE UNCHANGED writerVars
    BY <1>1 DEF WriterTypeOK, writerVars
  <1>2. ASSUME NEW w \in Writers, WriterNext(w) PROVE WriterTypeOK'
    <2>1. CASE EndWriter(w)
      BY <2>1 DEF EndWriter, WriterTypeOK
    <2>2. ASSUME NEW a \in Accounts, NEW type \in AccountTypes, Retypes(w, a, type)
          PROVE  WriterTypeOK'
      BY <2>2 DEF Retypes, WriterTypeOK
    <2>3. ASSUME NEW e \in Entries, Adds(w, e) PROVE WriterTypeOK'
      BY <2>3 DEF Adds, WriterTypeOK
    <2> QED
      BY <1>2, <2>1, <2>2, <2>3, WriterStep DEF WriterCommits
  <1> QED
    BY <1>1, <1>2 DEF DatabaseNext, BesideWriters, databaseVars

-----------------------------------------------------------------------------
(***************************************************************************)
(* What the triggers keep.                                                 *)
(***************************************************************************)
\* The commit of a posting, in the terms of the journal.
LEMMA PostingAdds ==
    ASSUME PostingsInv, NEW c \in Requests, Commits(c)
    PROVE  /\ account_type' = account_type
           /\ events' = events \cup {NewEvent(c)}
           /\ journal_entries' = journal_entries \cup staged[c]
           /\ NewEvent(c).id = txn[c].id /\ NewEvent(c).payload = submission[c]
           /\ \A e \in events : e.id # txn[c].id
           /\ EntrySum(staged[c]) = 0
           /\ \A a \in UniqueAccountIds(submission[c]) : c \in lock[a] /\ account_type[a] # NoType
           /\ \E first, second \in Entries :
                /\ staged[c] = {first, second}
                /\ IsLeg(first, submission[c], 1, txn[c].id) /\ first.entry_hash # Unchained
                /\ IsLeg(second, submission[c], 2, txn[c].id) /\ second.entry_hash # Unchained
  <1>1. PICK first \in Entries, second \in Entries : Staged(c, first, second)
    BY DEF PostingsInv, StagedInv, Commits, Staging
  <1>2. first.entry_hash # Unchained /\ second.entry_hash # Unchained
    <2>1. ASSUME NEW e, NEW hash \in Hashes, NEW n, Follows(e, hash, n)
          PROVE  e.entry_hash # Unchained
      BY <2>1 DEF Follows, ComputeEntryHash, Hashes, Unchained, Genesis
    <2>2. \A a \in Accounts : account_state[a].latest_hash \in Hashes
      BY DEF PostingsInv, TypeOK, AccountStates
    <2>3. submission[c].from \in Accounts /\ submission[c].to \in Accounts
      BY SubmissionType DEF PostingsInv, TypeOK
    <2>4. first.entry_hash \in Hashes
      BY DEF Entries
    <2> QED
      BY <1>1, <2>1, <2>2, <2>3, <2>4 DEF Staged
  <1>3. \A a \in UniqueAccountIds(submission[c]) : c \in lock[a] /\ account_type[a] # NoType
    BY DEF PostingsInv, LockInv, HeldInv, PostingInv, DecidedInv, Decided, Commits, Staging
  <1>4. \A e \in events : e.id # txn[c].id
    BY DEF PostingsInv, KeyInv, IdsInv, Commits, InTransaction
  <1>5. staged[c] = {first, second} /\ IsLeg(first, submission[c], 1, txn[c].id)
                                    /\ IsLeg(second, submission[c], 2, txn[c].id)
    BY <1>1 DEF Staged
  <1> QED
    BY <1>2, <1>3, <1>4, <1>5 DEF Commits, Publish, NewEvent

LEMMA RetypedStep ==
    ASSUME DatabaseInv, TypeOK', [DatabaseNext]_databaseVars PROVE RetypedInv'
  <1> USE DEF DatabaseInv
  <1>1. ASSUME [Next]_vars, BesideWriters, NEW w \in Writers, NEW a \in Accounts,
               retyped[w][a] # NoType
        PROVE  /\ lock'[a] = {}
               /\ account_type'[a] # NoType
               /\ \A e \in events' : a \notin UniqueAccountIds(e.payload)
    <2>1. /\ lock[a] = {} /\ account_type[a] # NoType
          /\ \A e \in events : a \notin UniqueAccountIds(e.payload)
      BY <1>1 DEF RetypedInv
    <2>2. lock'[a] = {}
      BY <1>1, <2>1 DEF BesideWriters, HeldByWriters
    <2>3. CASE UNCHANGED <<account_type, account_state, journal_entries, events, idempotency_keys>>
      BY <2>1, <2>2, <2>3
    <2>4. ASSUME NEW b \in Accounts, NEW type \in AccountTypes, CreateAccount(b, type)
          PROVE  account_type'[a] # NoType /\ events' = events
      BY <2>1, <2>4 DEF CreateAccount, PostingsInv, TypeOK
    <2>5. ASSUME NEW c \in Requests, Commits(c)
          PROVE  /\ account_type' = account_type
                 /\ \A e \in events' : a \notin UniqueAccountIds(e.payload)
      BY <2>1, <2>5, PostingAdds
    <2> QED
      BY <1>1, <2>1, <2>2, <2>3, <2>4, <2>5, TableStep
  <1>2. CASE [Next]_vars /\ BesideWriters
    BY <1>1, <1>2 DEF RetypedInv, BesideWriters, writerVars
  <1>3. CASE UNCHANGED databaseVars
    BY <1>3 DEF RetypedInv, databaseVars, vars, tables, writerVars
  <1>4. ASSUME NEW w \in Writers, WriterNext(w) PROVE RetypedInv'
    <2>1. CASE EndWriter(w) /\ UNCHANGED vars
      BY <2>1 DEF EndWriter, RetypedInv, WriterTypeOK, vars, tables
    <2>2. ASSUME NEW a \in Accounts, NEW type \in AccountTypes, Retypes(w, a, type)
          PROVE  RetypedInv'
      <3>1. ASSUME NEW e \in events PROVE a \notin UniqueAccountIds(e.payload)
        <4>1. /\ UniqueAccountIds(e.payload) = {e.payload.from, e.payload.to}
              /\ Legs(e.payload)[1].account_id = e.payload.from
              /\ Legs(e.payload)[2].account_id = e.payload.to
          BY SubmissionType, LegType DEF PostingsInv, TypeOK, Events
        <4>2. KeepsItsLegs(e)
          BY DEF LegsKeptInv
        <4>3. \A j \in journal_entries : j.account_id # a
          BY <2>2 DEF Retypes, HasEntries
        <4> QED
          BY <4>1, <4>2, <4>3 DEF KeepsItsLegs, IsLeg
      <3>2. lock[a] = {} /\ account_type[a] # NoType
        BY <2>2 DEF Retypes
      <3>3. UNCHANGED <<lock, account_type, events>>
        BY <2>2 DEF Retypes, vars, tables
      <3>4. \A v \in Writers, b \in Accounts :
                retyped'[v][b] # NoType => retyped[v][b] # NoType \/ b = a
        BY <2>2 DEF Retypes, WriterTypeOK
      <3> QED
        BY <3>1, <3>2, <3>3, <3>4 DEF RetypedInv
    <2>3. ASSUME NEW e \in Entries, Adds(w, e) PROVE RetypedInv'
      BY <2>3 DEF Adds, RetypedInv, vars, tables
    <2>4. ASSUME WriterCommits(w) PROVE RetypedInv'
      <3>1. \A a \in Accounts : account_type[a] # NoType => account_type'[a] # NoType
        BY <2>4, WriterCommitTypes DEF PostingsInv
      <3>2. \A v \in Writers, b \in Accounts : retyped'[v][b] # NoType => retyped[v][b] # NoType
        BY <2>4 DEF WriterCommits, EndWriter, WriterTypeOK
      <3> QED
        BY <2>4, <3>1, <3>2 DEF WriterCommits, RetypedInv
    <2> QED
      BY <1>4, <2>1, <2>2, <2>3, <2>4, WriterStep DEF PostingsInv
  <1> QED
    BY <1>2, <1>3, <1>4 DEF DatabaseNext

LEMMA OwnedStep == ASSUME DatabaseInv, [DatabaseNext]_databaseVars PROVE OwnedInv'
  <1> USE DEF DatabaseInv
  <1>1. ASSUME UNCHANGED added, events \subseteq events',
               \A j \in journal_entries' \ journal_entries : \E e \in events' : e.id = j.event_id
        PROVE  OwnedInv'
    BY <1>1 DEF OwnedInv
  <1>2. CASE [Next]_vars /\ UNCHANGED added
    <2>1. CASE UNCHANGED <<account_type, account_state, journal_entries, events, idempotency_keys>>
      BY <1>1, <1>2, <2>1
    <2>2. ASSUME NEW b \in Accounts, NEW type \in AccountTypes, CreateAccount(b, type)
          PROVE  OwnedInv'
      BY <1>1, <1>2, <2>2 DEF CreateAccount
    <2>3. ASSUME NEW c \in Requests, Commits(c) PROVE OwnedInv'
      BY <1>1, <1>2, <2>3, PostingAdds DEF IsLeg
    <2> QED
      BY <1>2, <2>1, <2>2, <2>3, TableStep
  <1>3. ASSUME NEW w \in Writers, WriterNext(w) PROVE OwnedInv'
    <2>1. CASE EndWriter(w) /\ UNCHANGED vars
      BY <2>1 DEF EndWriter, OwnedInv, WriterTypeOK, vars, tables
    <2>2. ASSUME NEW a \in Accounts, NEW type \in AccountTypes, Retypes(w, a, type)
          PROVE  OwnedInv'
      BY <2>2 DEF Retypes, OwnedInv, vars, tables
    <2>3. ASSUME NEW e \in Entries, Adds(w, e) PROVE OwnedInv'
      <3>1. \A v \in Writers : \A j \in added'[v] : j \in added[v] \/ j = e
        BY <2>3 DEF Adds, WriterTypeOK
      <3> QED
        BY <2>3, <3>1 DEF Adds, OwnedInv, vars, tables
    <2>4. ASSUME WriterCommits(w) PROVE OwnedInv'
      <3>1. \A v \in Writers : added'[v] \subseteq added[v]
        BY <2>4 DEF WriterCommits, EndWriter, WriterTypeOK
      <3> QED
        BY <2>4, <3>1 DEF WriterCommits, OwnedInv
    <2> QED
      BY <1>3, <2>1, <2>2, <2>3, <2>4, WriterStep DEF PostingsInv
  <1> QED
    BY <1>2, <1>3 DEF DatabaseNext, BesideWriters, writerVars, databaseVars

\* Legs stay where their accounts keep their types and no entry goes away.
LEMMA LegsStayKept ==
    ASSUME TypeOK, NEW e \in events, KeepsItsLegs(e), journal_entries \subseteq journal_entries',
           \A a \in UniqueAccountIds(e.payload) : account_type'[a] = account_type[a]
    PROVE  KeepsItsLegs(e)'
  <1>1. /\ Legs(e.payload)[1].account_id \in UniqueAccountIds(e.payload)
        /\ Legs(e.payload)[2].account_id \in UniqueAccountIds(e.payload)
    BY SubmissionType, LegType DEF TypeOK, Events
  <1>2. ASSUME NEW i \in 1..2, NEW j, IsLeg(j, e.payload, i, e.id)
        PROVE  IsLeg(j, e.payload, i, e.id)'
    <2>1. account_type'[Legs(e.payload)[i].account_id] = account_type[Legs(e.payload)[i].account_id]
      BY <1>1
    <2> QED
      BY <1>2, <2>1 DEF IsLeg, SignedAmount
  <1> QED
    BY <1>2 DEF KeepsItsLegs

LEMMA LegsKeptStep == ASSUME DatabaseInv, [DatabaseNext]_databaseVars PROVE LegsKeptInv'
  <1> USE DEF DatabaseInv
  <1>0. \A e \in events : UniqueAccountIds(e.payload) \subseteq Accounts
    BY SubmissionType DEF PostingsInv, TypeOK, Events
  <1>1. ASSUME NEW e \in events, journal_entries \subseteq journal_entries',
               \A a \in UniqueAccountIds(e.payload) : account_type'[a] = account_type[a]
        PROVE  /\ \A a \in UniqueAccountIds(e.payload) : account_type'[a] # NoType
               /\ KeepsItsLegs(e)'
    BY <1>1, LegsStayKept DEF LegsKeptInv, PostingsInv
  <1>2. CASE UNCHANGED <<account_type, journal_entries, events>>
    BY <1>1, <1>2 DEF LegsKeptInv
  <1>3. CASE [Next]_vars
    <2>1. ASSUME NEW b \in Accounts, NEW type \in AccountTypes, CreateAccount(b, type)
          PROVE  LegsKeptInv'
      <3>1. \A a \in Accounts : account_type[a] # NoType => account_type'[a] = account_type[a]
        BY <2>1 DEF CreateAccount, PostingsInv, TypeOK
      <3>2. \A e \in events : \A a \in UniqueAccountIds(e.payload) :
                account_type'[a] = account_type[a]
        BY <1>0, <3>1 DEF LegsKeptInv
      <3> QED
        BY <1>1, <2>1, <3>2 DEF CreateAccount, LegsKeptInv
    <2>2. ASSUME NEW c \in Requests, Commits(c) PROVE LegsKeptInv'
      <3>0. PICK n : n = NewEvent(c)
        OBVIOUS
      <3>1. /\ account_type' = account_type
            /\ events' = events \cup {n}
            /\ journal_entries' = journal_entries \cup staged[c]
            /\ n.id = txn[c].id /\ n.payload = submission[c]
            /\ \A a \in UniqueAccountIds(submission[c]) : account_type[a] # NoType
        BY <2>2, <3>0, PostingAdds
      <3>2. PICK first \in Entries, second \in Entries :
                /\ staged[c] = {first, second}
                /\ IsLeg(first, submission[c], 1, txn[c].id) /\ first.entry_hash # Unchained
                /\ IsLeg(second, submission[c], 2, txn[c].id) /\ second.entry_hash # Unchained
        BY <2>2, PostingAdds
      <3>3. IsLeg(first, n.payload, 1, n.id)' /\ IsLeg(second, n.payload, 2, n.id)'
        BY <3>1, <3>2 DEF IsLeg
      <3>4. KeepsItsLegs(n)'
        BY <3>1, <3>2, <3>3 DEF KeepsItsLegs
      <3>5. \A a \in UniqueAccountIds(n.payload) : account_type'[a] # NoType
        BY <3>1
      <3> QED
        BY <1>1, <3>1, <3>4, <3>5 DEF LegsKeptInv
    <2> QED
      BY <1>2, <1>3, <2>1, <2>2, TableStep
  <1>4. ASSUME NEW w \in Writers, WriterNext(w) PROVE LegsKeptInv'
    <2>1. ASSUME UNCHANGED vars PROVE LegsKeptInv'
      BY <1>2, <2>1 DEF vars, tables
    <2>2. ASSUME WriterCommits(w) PROVE LegsKeptInv'
      <3>1. \A e \in events : \A a \in UniqueAccountIds(e.payload) :
                account_type'[a] = account_type[a]
        BY <1>0, <2>2, WriterCommitTypes DEF PostingsInv
      <3> QED
        BY <1>1, <2>2, <3>1 DEF WriterCommits, LegsKeptInv
    <2> QED
      BY <1>4, <2>1, <2>2, WriterStep DEF PostingsInv, Retypes, Adds
  <1> QED
    BY <1>2, <1>3, <1>4 DEF DatabaseNext, databaseVars, vars, tables

LEMMA BalancesStep == ASSUME DatabaseInv, [DatabaseNext]_databaseVars PROVE EveryEventBalances'
  <1> USE DEF DatabaseInv
  <1> DEFINE Of(J, id) == {e \in J : e.event_id = id}
  <1>1. CASE UNCHANGED journal_entries
    BY <1>1 DEF EveryEventBalances
  <1>2. ASSUME NEW S, journal_entries' = journal_entries \cup S,
               \A id \in {e.event_id : e \in S} : EntrySum(Of(journal_entries \cup S, id)) = 0
        PROVE  EveryEventBalances'
    <2> SUFFICES ASSUME NEW id \in {e.event_id : e \in journal_entries'}
                 PROVE  EntrySum(Of(journal_entries', id)) = 0
      BY DEF EveryEventBalances
    <2>1. CASE id \in {e.event_id : e \in S}
      BY <1>2, <2>1
    <2>2. CASE id \notin {e.event_id : e \in S}
      <3>1. Of(journal_entries', id) = Of(journal_entries, id)
            /\ id \in {e.event_id : e \in journal_entries}
        BY <1>2, <2>2
      <3> QED
        BY <3>1 DEF EveryEventBalances
    <2> QED
      BY <2>1, <2>2
  <1>3. ASSUME NEW c \in Requests, Commits(c) PROVE EveryEventBalances'
    <2>1. /\ journal_entries' = journal_entries \cup staged[c]
          /\ EntrySum(staged[c]) = 0
          /\ \A e \in events : e.id # txn[c].id
          /\ \A e \in staged[c] : e.event_id = txn[c].id
      BY <1>3, PostingAdds DEF IsLeg
    <2>2. \A e \in journal_entries : e.event_id # txn[c].id
      BY <2>1 DEF OwnedInv
    <2>3. ASSUME NEW id \in {e.event_id : e \in staged[c]}
          PROVE  Of(journal_entries \cup staged[c], id) = staged[c]
      BY <2>1, <2>2
    <2> QED
      BY <1>2, <2>1, <2>3
  <1>4. CASE [Next]_vars
    BY <1>1, <1>3, <1>4, TableStep DEF CreateAccount
  <1>5. ASSUME NEW w \in Writers, WriterCommits(w) PROVE EveryEventBalances'
    BY <1>2, <1>5 DEF WriterCommits, Balances
  <1>6. ASSUME NEW w \in Writers, WriterNext(w) PROVE EveryEventBalances'
    BY <1>1, <1>5, <1>6, WriterStep DEF PostingsInv, Retypes, Adds, vars, tables
  <1> QED
    BY <1>1, <1>4, <1>6 DEF DatabaseNext, databaseVars, vars, tables

-----------------------------------------------------------------------------
LEMMA DatabaseInvHolds == DatabaseSpec => []DatabaseInv
  <1>1. WriterInit => DatabaseInv
    <2> SUFFICES ASSUME WriterInit PROVE DatabaseInv
      OBVIOUS
    <2>1. Init
      BY DEF WriterInit
    <2>2. StagedInv
      BY <2>1 DEF Init, StagedInv, Staging
    <2>3. PostingsInv
      BY <2>1, <2>2, TypeInit, LockInit, PostingInit, KeyInit DEF PostingsInv
    <2>4. events = {} /\ journal_entries = {}
      BY <2>1 DEF Init
    <2>5. WriterTypeOK /\ RetypedInv /\ OwnedInv
      BY <2>4 DEF WriterInit, WriterTypeOK, RetypedInv, OwnedInv
    <2>6. LegsKeptInv /\ EveryEventBalances
      BY <2>4 DEF LegsKeptInv, EveryEventBalances
    <2> QED
      BY <2>3, <2>5, <2>6 DEF DatabaseInv
  <1>2. DatabaseInv /\ [DatabaseNext]_databaseVars => DatabaseInv'
    <2> SUFFICES ASSUME DatabaseInv, [DatabaseNext]_databaseVars PROVE DatabaseInv'
      OBVIOUS
    <2>1. PostingsInv' /\ WriterTypeOK'
      BY PostingsStep, WriterTypeStep DEF DatabaseInv, PostingsInv
    <2>2. TypeOK'
      BY <2>1 DEF PostingsInv
    <2> QED
      BY <2>1, <2>2, RetypedStep, OwnedStep, LegsKeptStep, BalancesStep DEF DatabaseInv
  <1> QED
    BY <1>1, <1>2, PTL DEF DatabaseSpec

\* "Enforced at the database level, not just assumed by application code"
\* (README.md:34): whatever sessions insert beside the program, retype, delete and
\* commit, the committed entries of every event sum to zero
\* (0008_create_balance_trigger.ts).
THEOREM TriggersKeepBalance == DatabaseSpec => []EveryEventBalances
  BY DatabaseInvHolds, PTL DEF DatabaseInv

\* The entries of a posting keep their meaning (0007_create_invariant_triggers.ts:51-53):
\* no UPDATE of an account's type comes between the lock of a posting and its commit,
\* or after it, so each leg still has the sign its account's type gives it.
THEOREM TypesStayMeaningful == DatabaseSpec => []SignsKeepTheirMeaning
  <1>1. DatabaseInv => SignsKeepTheirMeaning
    <2> SUFFICES ASSUME LegsKeptInv PROVE SignsKeepTheirMeaning
      BY DEF DatabaseInv
    <2>1. ASSUME NEW ev \in events, NEW i \in 1..2
          PROVE  \E e \in journal_entries :
                    /\ e.event_id = ev.id
                    /\ e.entry_hash # Unchained
                    /\ e.account_id = Legs(ev.payload)[i].account_id
                    /\ e.signed_amount = SignedAmount(ev.payload, i, account_type)
      BY DEF LegsKeptInv, KeepsItsLegs, IsLeg
    <2> QED
      BY <2>1 DEF SignsKeepTheirMeaning
  <1> QED
    BY <1>1, DatabaseInvHolds, PTL

\* Sessions beside the program that write no balances cannot make the engine
\* overdraw an account: its row locks keep them out (transfer-funds.ts:25-34).
THEOREM NeverOverdrawnBesideWriters == DatabaseSpec => []NoOverdraft
  <1>1. DatabaseInv => NoOverdraft
    BY SolventIsNoOverdraft DEF DatabaseInv, PostingsInv
  <1> QED
    BY <1>1, DatabaseInvHolds, PTL
=============================================================================
