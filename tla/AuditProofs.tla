----------------------------- MODULE AuditProofs -----------------------------
(***************************************************************************)
(* Proofs about Audit and AuditDamage, for any ledger, any damage of the   *)
(* modelled kinds and any postings and checkpoints around and between the  *)
(* SELECTs of the audit: what the checks report, and that an audit beside  *)
(* which nothing was committed is exact.                                   *)
(*                                                                         *)
(* A damaged ledger has lost the invariants of the engine; what is left of *)
(* them, and what the damage left behind, are the invariants here.         *)
(***************************************************************************)
EXTENDS AuditDamage, CheckpointProofs, LedgerBalanceProofs

damagedVars == <<systemVars, damageVars>>

\* The ledger is as the engine left it.
Clean == symptoms = {} /\ drifted = {}

-----------------------------------------------------------------------------
(***************************************************************************)
(* The steps.                                                              *)
(***************************************************************************)
\* A step of the audit reads only.
LEMMA AuditReads ==
    ASSUME AuditStep, BesideDamage
    PROVE  /\ UNCHANGED <<allVars, drifted>>
           /\ symptoms' = symptoms
           /\ touched' <=> touched
  <1>1. UNCHANGED allVars
    BY Zenon DEF AuditStep, StartAudit, VerifyAccountChain, ListCheckpoints,
                 VerifyCheckpointChain, ReadEntries, CompareBalance, VerifyZeroSum
  <1>2. journal_entries' = journal_entries
    BY <1>1 DEF allVars, vars, tables
  <1> QED
    BY <1>1, <1>2 DEF BesideDamage

\* What is not a damage is a step of the engine and its checkpoints, or leaves them alone.
LEMMA StepIs ==
    ASSUME [DamageNext]_damagedVars
    PROVE  \/ Damage
           \/ LoseNewest
           \/ AuditStep /\ BesideDamage
           \/ CheckpointNext /\ BesideAudit /\ BesideDamage
           \/ UNCHANGED damagedVars
  BY DEF DamageNext, AuditNext

\* The loss of the newest checkpoint leaves all the rest as it is.
LEMMA NewestLost ==
    ASSUME LoseNewest
    PROVE  /\ Clean /\ phase = "none"
           /\ UNCHANGED <<auditVars, phase, accountIds, todo, expected, listed, failures, writes>>
           /\ UNCHANGED <<symptoms, drifted, touched, step, snapshot, inserted>>
           /\ UNCHANGED <<vars, journal_entries, account_state, account_type>>
  BY DEF LoseNewest, untouchedVars, auditVars, vars, tables, Clean

LEMMA StepOfTheLedger ==
    ASSUME [DamageNext]_damagedVars, ~Damage
    PROVE  /\ [CheckpointNext]_allVars \/ LoseNewest
           /\ [Next]_vars
  <1>1. [CheckpointNext]_allVars \/ LoseNewest
    BY StepIs, AuditReads DEF damagedVars, systemVars
  <1> QED
    BY <1>1, CheckpointsBesideEngine, NewestLost


-----------------------------------------------------------------------------
(***************************************************************************)
(* What no damage takes from the engine: the requests at work hold what    *)
(* they hold, and the entries they will insert belong to no event there is.*)
(***************************************************************************)
\* Each entry is of an account that exists and of an event no open transaction has.
OwnInv ==
    \A j \in journal_entries :
        /\ account_type[j.account_id] # NoType
        /\ j.event_id < nextId
        /\ \A r \in Requests : pc[r] \in InTransaction => j.event_id # txn[r].id

WorkInv ==
    TypeOK /\ LockInv /\ KeyInv /\ StagedInv /\ IsFiniteSet(journal_entries) /\ OwnInv

\* A commit adds entries of its own event to accounts that exist.
LEMMA CommitOwns ==
    ASSUME WorkInv, NEW r \in Requests, Commits(r)
    PROVE  \E first, second \in Entries :
              /\ journal_entries' = journal_entries \cup {first, second}
              /\ \A j \in journal_entries : j.event_id # txn[r].id
              /\ first \notin journal_entries /\ second \notin journal_entries
              /\ \A e \in {first, second} :
                    /\ e.event_id = txn[r].id
                    /\ account_type[e.account_id] # NoType
                    /\ account_type' = account_type
                    /\ e.sequence_number > account_state[e.account_id].latest_sequence
                    /\ e.sequence_number <= account_state'[e.account_id].latest_sequence
              /\ \A a \in Accounts :
                    account_state'[a].latest_sequence >= account_state[a].latest_sequence
              /\ Staged(r, first, second)
  <1>1. PICK first \in Entries, second \in Entries :
              /\ Staged(r, first, second)
              /\ journal_entries' = journal_entries \cup {first, second}
              /\ \A e \in {first, second} :
                    /\ e.event_id = txn[r].id
                    /\ e.account_id \in UniqueAccountIds(submission[r])
                    /\ e.sequence_number > account_state[e.account_id].latest_sequence
                    /\ e.sequence_number <= account_state'[e.account_id].latest_sequence
              /\ \A a \in Accounts :
                    account_state'[a].latest_sequence >= account_state[a].latest_sequence
    BY CommitPublishes DEF WorkInv
  <1>2. \A j \in journal_entries : j.event_id # txn[r].id
    BY DEF WorkInv, OwnInv, Commits, InTransaction
  <1>3. account_type' = account_type
    BY DEF Commits, Publish
  <1>4. pc[r] \in Staging /\ submission[r] \in Submissions
    BY DEF Commits, Staging, WorkInv, TypeOK
  <1>5. \A a \in UniqueAccountIds(submission[r]) : a \in Accounts /\ account_type[a] # NoType
    BY <1>4, SubmissionType DEF WorkInv, LockInv, HeldInv, LocksInv, Held
  <1>6. first \notin journal_entries /\ second \notin journal_entries
    BY <1>1, <1>2
  <1> QED
    BY <1>1, <1>2, <1>3, <1>5, <1>6, Zenon

LEMMA OwnStep == WorkInv /\ [Next]_vars => IsFiniteSet(journal_entries)' /\ OwnInv'
  <1> SUFFICES ASSUME WorkInv, [Next]_vars PROVE IsFiniteSet(journal_entries)' /\ OwnInv'
    OBVIOUS
  <1>0. /\ TypeOK /\ IdsInv /\ OwnInv
        /\ IsFiniteSet(journal_entries) /\ journal_entries \subseteq Entries
    BY DEF WorkInv, KeyInv, TypeOK
  <1>1. nextId \in Nat /\ nextId' \in Nat /\ nextId' >= nextId
        /\ \A j \in journal_entries : j.event_id \in Nat /\ j.account_id \in Accounts
    BY <1>0, TxnStep, TypeStep DEF TypeOK, Begin, Entries
  <1>2. ASSUME NEW r \in Requests, pc'[r] \in InTransaction
        PROVE  \/ txn'[r].id = nextId
               \/ pc[r] \in InTransaction /\ txn'[r].id = txn[r].id
    <2>1. ASSUME NEW b \in Requests, Begin(b)
          PROVE  \/ txn'[r].id = nextId
                 \/ pc[r] \in InTransaction /\ txn'[r].id = txn[r].id
      BY <1>0, <1>2, <2>1, BeginRows
    <2> QED
      BY <1>0, <1>2, <2>1, TxnStep
  <1>3. CASE UNCHANGED <<account_type, journal_entries>>
    BY <1>0, <1>1, <1>2, <1>3 DEF OwnInv
  <1>4. ASSUME NEW b \in Accounts, NEW type \in AccountTypes, CreateAccount(b, type)
        PROVE  IsFiniteSet(journal_entries)' /\ OwnInv'
    <2>1. /\ UNCHANGED <<journal_entries, nextId, pc, txn>>
          /\ account_type[b] = NoType
          /\ \A a \in Accounts \ {b} : account_type'[a] = account_type[a]
      BY <1>0, <1>4 DEF CreateAccount, TypeOK, workspace
    <2> QED
      BY <1>0, <1>1, <2>1 DEF OwnInv
  <1>5. ASSUME NEW r \in Requests, Commits(r) PROVE IsFiniteSet(journal_entries)' /\ OwnInv'
    <2>1. PICK first \in Entries, second \in Entries :
              /\ journal_entries' = journal_entries \cup {first, second}
              /\ \A e \in {first, second} :
                    /\ e.event_id = txn[r].id
                    /\ account_type[e.account_id] # NoType
                    /\ account_type' = account_type
      BY <1>5, CommitOwns
    <2>2. IsFiniteSet(journal_entries')
      <3>1. journal_entries' = (journal_entries \cup {first}) \cup {second}
        BY <2>1
      <3> QED
        BY <1>0, <3>1, FS_AddElement
    <2>3. /\ pc'[r] \notin InTransaction /\ pc[r] \in InTransaction
          /\ \A q \in Requests \ {r} : pc'[q] = pc[q] /\ txn'[q] = txn[q]
          /\ nextId' = nextId
      BY <1>0, <1>5 DEF Commits, GoTo, TypeOK, InTransaction, EndTransaction, Publish
    <2>4. \A e \in {first, second} :
            /\ e.event_id < nextId'
            /\ \A q \in Requests : pc'[q] \in InTransaction => e.event_id # txn'[q].id
      BY <1>0, <2>1, <2>3 DEF IdsInv
    <2>5. \A j \in journal_entries :
            /\ account_type'[j.account_id] # NoType
            /\ j.event_id < nextId'
            /\ \A q \in Requests : pc'[q] \in InTransaction => j.event_id # txn'[q].id
      BY <1>0, <2>1, <2>3 DEF OwnInv
    <2> QED
      BY <2>1, <2>2, <2>4, <2>5 DEF OwnInv
  <1> QED
    BY <1>0, <1>3, <1>4, <1>5, TableStep

LEMMA WorkStep == WorkInv /\ [Next]_vars => WorkInv'
  <1> SUFFICES ASSUME WorkInv, [Next]_vars PROVE WorkInv'
    OBVIOUS
  <1>1. TypeOK' /\ LockInv' /\ KeyInv'
    BY TypeStep, LockStep, KeyStep DEF WorkInv
  <1> QED
    BY <1>1, StagedStep, OwnStep DEF WorkInv


-----------------------------------------------------------------------------
\* The entry that AddImbalanced inserts.
ImbalancedEntry(a) ==
    JournalEntry(Leg(a, "increase", 1),
                 [latest_sequence |-> account_state[a].latest_sequence,
                  latest_hash |-> account_state[a].latest_hash,
                  account_type |-> account_type[a]],
                 [id |-> nextId, recorded_at |-> clock])

LEMMA ImbalancedIs ==
    ASSUME TypeOK, NEW a \in Accounts
    PROVE  /\ ImbalancedEntry(a) \in Entries
           /\ ImbalancedEntry(a).account_id = a
           /\ ImbalancedEntry(a).event_id = nextId
           /\ ImbalancedEntry(a).signed_amount
                = ToStoredSignedAmount("increase", NormalBalanceSide(account_type[a]), 1)
           /\ Follows(ImbalancedEntry(a), account_state[a].latest_hash,
                      account_state[a].latest_sequence)
  <1> DEFINE fields ==
                [sequence_number |-> account_state[a].latest_sequence + 1, account_id |-> a,
                 event_id |-> nextId,
                 signed_amount |-> ToStoredSignedAmount("increase",
                                        NormalBalanceSide(account_type[a]), 1),
                 recorded_at |-> clock]
             hash == account_state[a].latest_hash
  <1>0. PICK e : e = ImbalancedEntry(a)
    OBVIOUS
  <1>1. e = [account_id |-> a, event_id |-> nextId, signed_amount |-> fields.signed_amount,
             sequence_number |-> fields.sequence_number, recorded_at |-> clock,
             previous_hash |-> hash, entry_hash |-> ComputeEntryHash(hash, fields)]
    BY <1>0 DEF ImbalancedEntry, JournalEntry, Leg
  <1>2. fields.signed_amount \in Int /\ fields.sequence_number \in Nat
        /\ nextId \in Nat /\ clock \in Nat /\ hash \in Hashes
    BY DEF TypeOK, AccountStates, ToStoredSignedAmount
  <1>3. fields \in HashedFields
    BY <1>2 DEF HashedFields
  <1>4. ComputeEntryHash(hash, fields) \in Hashes
    BY <1>2, <1>3 DEF Hashes, ComputeEntryHash
  <1>5. FieldsOf(e) = fields
    BY <1>1 DEF FieldsOf
  <1>6. fields.sequence_number = account_state[a].latest_sequence + 1
    OBVIOUS
  <1>7. e \in Entries
    BY <1>1, <1>2, <1>4 DEF Entries
  <1> QED
    BY <1>0, <1>1, <1>5, <1>7 DEF Follows

\* What every damage leaves of the engine's state.
LEMMA DamageLeaves ==
    ASSUME TypeOK, IsFiniteSet(journal_entries), Damage
    PROVE  /\ UNCHANGED <<clock, account_type, events, idempotency_keys, lock, pc, submission,
                          txn, chain, staged, outcome, attempts, step, snapshot, inserted>>
           /\ nextId' \in Nat \ {0} /\ nextId' >= nextId
           /\ account_state' \in [Accounts -> AccountStates]
           /\ \A a \in Accounts :
                 /\ lock[a] # {} => account_state'[a] = account_state[a]
                 /\ account_state'[a].latest_sequence = account_state[a].latest_sequence
           /\ journal_entries' \subseteq Entries
           /\ IsFiniteSet(journal_entries')
           /\ \A j \in journal_entries' :
                  \/ \E i \in journal_entries :
                        i.account_id = j.account_id /\ i.event_id = j.event_id
                 \/ /\ account_type[j.account_id] # NoType
                    /\ j.event_id = nextId /\ nextId < nextId'
  <1>1. UNCHANGED <<clock, account_type, events, idempotency_keys, lock, pc, submission,
                    txn, chain, staged, outcome, attempts, step, snapshot, inserted>>
    BY DEF Damage, untouchedVars, workspace
  <1>2. /\ nextId \in Nat \ {0} /\ account_state \in [Accounts -> AccountStates]
        /\ journal_entries \subseteq Entries
        /\ nextId + 1 \in Nat \ {0} /\ nextId < nextId + 1
    BY DEF TypeOK
  <1>3. \A a \in Accounts : /\ account_state[a].current_balance \in Int
                            /\ account_state[a].latest_hash \in Hashes
                            /\ account_state[a].latest_sequence \in Nat
    BY <1>2 DEF AccountStates
  <1>4. ASSUME NEW e \in journal_entries, ChangeAmount(e)
        PROVE  /\ UNCHANGED <<nextId, account_state>>
               /\ \E new \in Entries :
                    /\ new.account_id = e.account_id /\ new.event_id = e.event_id
                    /\ journal_entries' = (journal_entries \ {e}) \cup {new}
    <2>1. PICK new : new = [e EXCEPT !.signed_amount = 2 * @]
      OBVIOUS
    <2>2. new \in Entries /\ new.account_id = e.account_id /\ new.event_id = e.event_id
      BY <1>2, <2>1 DEF Entries
    <2> QED
      BY <1>4, <2>1, <2>2 DEF ChangeAmount
  <1>5. ASSUME NEW a \in Existing, DriftBalance(a)
        PROVE  /\ UNCHANGED <<nextId, journal_entries>>
               /\ lock[a] = {}
               /\ \E new \in AccountStates :
                    /\ new.latest_sequence = account_state[a].latest_sequence
                    /\ account_state' = [account_state EXCEPT ![a] = new]
    <2>1. PICK new : new = [account_state[a] EXCEPT !.current_balance = @ + 1]
      OBVIOUS
    <2>2. new \in AccountStates /\ new.latest_sequence = account_state[a].latest_sequence
      BY <1>2, <1>3, <2>1 DEF AccountStates, Existing
    <2>3. account_state' = [account_state EXCEPT ![a] = new]
      BY <1>5, <2>1 DEF DriftBalance
    <2> QED
      BY <1>5, <2>2, <2>3 DEF DriftBalance
  <1>6. ASSUME NEW a \in Existing, DriftTip(a)
        PROVE  /\ UNCHANGED <<nextId, journal_entries>>
               /\ lock[a] = {}
               /\ \E new \in AccountStates :
                    /\ new.latest_sequence = account_state[a].latest_sequence
                    /\ account_state' = [account_state EXCEPT ![a] = new]
    <2>1. PICK new : new = [account_state[a] EXCEPT !.latest_hash = Genesis]
      OBVIOUS
    <2>2. new \in AccountStates /\ new.latest_sequence = account_state[a].latest_sequence
      BY <1>2, <1>3, <2>1, UnreadType DEF AccountStates, Existing, NewAccountState
    <2>3. account_state' = [account_state EXCEPT ![a] = new]
      BY <1>6, <2>1 DEF DriftTip
    <2> QED
      BY <1>6, <2>2, <2>3 DEF DriftTip
  <1>7. ASSUME NEW a \in Existing, AddImbalanced(a)
        PROVE  /\ nextId' = nextId + 1
               /\ journal_entries' = journal_entries \cup {ImbalancedEntry(a)}
               /\ account_state' = account_state
    BY <1>7 DEF AddImbalanced, ImbalancedEntry
  <1>8. \/ \E e \in journal_entries : ChangeAmount(e)
        \/ \E e \in journal_entries : LoseEntry(e)
        \/ \E a \in Existing : DriftBalance(a)
        \/ \E a \in Existing : DriftTip(a)
        \/ \E a \in Existing : AddImbalanced(a)
        \/ UNCHANGED <<nextId, account_state, journal_entries>>
    BY DEF Damage, ChangeMember, LoseCheckpoint
  <1>9. CASE \E e \in journal_entries : ChangeAmount(e)
    <2>1. PICK e \in journal_entries, new \in Entries :
            /\ UNCHANGED <<nextId, account_state>>
            /\ new.account_id = e.account_id /\ new.event_id = e.event_id
            /\ journal_entries' = (journal_entries \ {e}) \cup {new}
      BY <1>4, <1>9
    <2>2. IsFiniteSet(journal_entries')
      BY <2>1, FS_RemoveElement, FS_AddElement
    <2> QED
      BY <1>1, <1>2, <2>1, <2>2
  <1>10. CASE \E e \in journal_entries : LoseEntry(e)
    <2>1. PICK e \in journal_entries :
            /\ UNCHANGED <<nextId, account_state>>
            /\ journal_entries' = journal_entries \ {e}
      BY <1>10 DEF LoseEntry
    <2>2. IsFiniteSet(journal_entries')
      BY <2>1, FS_RemoveElement
    <2> QED
      BY <1>1, <1>2, <2>1, <2>2
  <1>11. CASE \E a \in Existing : DriftBalance(a) \/ DriftTip(a)
    <2>1. PICK a \in Existing, new \in AccountStates :
            /\ UNCHANGED <<nextId, journal_entries>>
            /\ lock[a] = {}
            /\ new.latest_sequence = account_state[a].latest_sequence
            /\ account_state' = [account_state EXCEPT ![a] = new]
      BY <1>5, <1>6, <1>11, Zenon
    <2>2. a \in Accounts
      BY DEF Existing
    <2> QED
      BY <1>1, <1>2, <2>1, <2>2
  <1>12. CASE \E a \in Existing : AddImbalanced(a)
    <2>1. PICK a \in Existing :
            /\ nextId' = nextId + 1
            /\ journal_entries' = journal_entries \cup {ImbalancedEntry(a)}
            /\ account_state' = account_state
      BY <1>7, <1>12
    <2>2. a \in Accounts /\ account_type[a] # NoType
      BY DEF Existing
    <2>3. IsFiniteSet(journal_entries')
      BY <2>1, FS_AddElement
    <2> QED
      BY <1>1, <1>2, <2>1, <2>2, <2>3, ImbalancedIs
  <1> QED
    BY <1>1, <1>2, <1>8, <1>9, <1>10, <1>11, <1>12


LEMMA DamageKeepsWork == WorkInv /\ Damage => WorkInv'
  <1> SUFFICES ASSUME WorkInv, Damage PROVE WorkInv'
    OBVIOUS
  <1>0. TypeOK /\ LockInv /\ KeyInv /\ StagedInv /\ IsFiniteSet(journal_entries) /\ OwnInv
    BY DEF WorkInv
  <1>1. /\ UNCHANGED <<clock, account_type, events, idempotency_keys, lock, pc, submission,
                       txn, chain, staged, outcome, attempts>>
        /\ nextId' \in Nat \ {0} /\ nextId' >= nextId
        /\ account_state' \in [Accounts -> AccountStates]
        /\ \A a \in Accounts : lock[a] # {} => account_state'[a] = account_state[a]
        /\ journal_entries' \subseteq Entries
        /\ IsFiniteSet(journal_entries')
    BY <1>0, DamageLeaves
  <1>2. TypeOK'
    BY <1>0, <1>1 DEF TypeOK
  <1>3. ASSUME NEW r \in Requests, NEW a \in Accounts, r \in lock[a]
        PROVE  account_state'[a] = account_state[a]
    BY <1>1, <1>3
  <1>4. LocksInv'
    BY <1>0, <1>1, <1>3 DEF LockInv, LocksInv, Held
  <1>5. HeldInv'
    BY <1>0, <1>1 DEF LockInv, HeldInv
  <1>6. KeyInv'
    <2>1. nextId \in Nat
          /\ (\A r \in Requests : txn[r].id \in Nat) /\ \A e \in events : e.id \in Nat
      BY <1>0 DEF TypeOK, Events
    <2>2. IdsInv'
      BY <1>0, <1>1, <2>1 DEF KeyInv, IdsInv
    <2>3. EventsInv' /\ InsertInv'
      BY <1>0, <1>1 DEF KeyInv, EventsInv, InsertInv, Bound, Inserting
    <2> QED
      BY <2>2, <2>3 DEF KeyInv
  <1>7. StagedInv'
    <2> SUFFICES ASSUME NEW r \in Requests, pc[r] \in Staging
                 PROVE  \E first, second \in Entries : Staged(r, first, second)'
      BY <1>1 DEF StagedInv
    <2>1. PICK first \in Entries, second \in Entries : Staged(r, first, second)
      BY <1>0 DEF StagedInv
    <2>2. submission[r] \in Submissions
      BY <1>0 DEF TypeOK
    <2>3. submission[r].from \in Accounts /\ submission[r].to \in Accounts
          /\ UniqueAccountIds(submission[r]) = {submission[r].from, submission[r].to}
      BY <2>2, SubmissionType
    <2>4. /\ account_state'[submission[r].from] = account_state[submission[r].from]
          /\ account_state'[submission[r].to] = account_state[submission[r].to]
      BY <1>0, <1>3, <2>3 DEF LockInv, HeldInv
    <2>5. Staged(r, first, second)'
      BY <1>1, <2>1, <2>4 DEF Staged, IsLeg, Follows
    <2> QED
      BY <2>5
  <1>8. OwnInv'
    <2>1. nextId \in Nat /\ nextId' \in Nat
          /\ (\A r \in Requests : txn[r].id \in Nat)
          /\ \A j \in journal_entries : j.event_id \in Nat
      BY <1>0, <1>1 DEF TypeOK, Entries
    <2>2. \A j \in journal_entries' :
             \/ \E i \in journal_entries : i.account_id = j.account_id /\ i.event_id = j.event_id
             \/ /\ account_type[j.account_id] # NoType
                /\ j.event_id = nextId /\ nextId < nextId'
      BY <1>0, DamageLeaves
    <2>3. \A r \in Requests : pc[r] \in InTransaction => txn[r].id < nextId
      BY <1>0 DEF KeyInv, IdsInv
    <2> QED
      BY <1>0, <1>1, <2>1, <2>2, <2>3 DEF OwnInv
  <1> QED
    BY <1>1, <1>2, <1>4, <1>5, <1>6, <1>7, <1>8 DEF WorkInv, LockInv

LEMMA WorkInit == Init => WorkInv
  <1> SUFFICES ASSUME Init PROVE WorkInv
    OBVIOUS
  <1>1. journal_entries = {} /\ \A r \in Requests : pc[r] = "idle"
    BY DEF Init
  <1>2. OwnInv /\ StagedInv /\ IsFiniteSet(journal_entries)
    BY <1>1, FS_EmptySet DEF OwnInv, StagedInv, Staging
  <1> QED
    BY <1>2, TypeInit, LockInit, KeyInit DEF WorkInv

LEMMA WorkInvStep == WorkInv /\ [DamageNext]_damagedVars => WorkInv'
  BY WorkStep, DamageKeepsWork, StepOfTheLedger


-----------------------------------------------------------------------------
(***************************************************************************)
(* What the checks see in a sound ledger.                                  *)
(***************************************************************************)
Before(J, e) == {f \in J : f.account_id = e.account_id /\ f.sequence_number < e.sequence_number}

IsLast(S, f) == f \in S /\ \A g \in S : g.sequence_number <= f.sequence_number

LastHash(S) ==
    IF S = {} THEN Genesis
    ELSE (CHOOSE f \in S : \A g \in S : g.sequence_number <= f.sequence_number).entry_hash

\* The walk over journal J finds nothing wrong with e.
EntryValid(J, e) ==
    /\ e.previous_hash = LastHash(Before(J, e))
    /\ e.entry_hash = ComputeEntryHash(e.previous_hash, FieldsOf(e))

LEMMA ChainValidIs ==
    ASSUME NEW a
     PROVE  ChainValid(a)
              <=> \A e \in journal_entries :
                    e.account_id = a => EntryValid(journal_entries, e)
  <1>1. ASSUME NEW e \in journal_entries, e.account_id = a
        PROVE  {f \in EntriesOf(a) : f.sequence_number < e.sequence_number}
                    = Before(journal_entries, e)
    BY <1>1 DEF EntriesOf, Before
  <1>2. ChainValid(a) <=>
            \A e \in EntriesOf(a) :
                LET before == {f \in EntriesOf(a) : f.sequence_number < e.sequence_number}
                IN  /\ e.previous_hash = LastHash(before)
                    /\ e.entry_hash = ComputeEntryHash(e.previous_hash, FieldsOf(e))
    BY Zenon DEF ChainValid, LastHash
  <1>3. \A e : e \in EntriesOf(a) <=> e \in journal_entries /\ e.account_id = a
    BY DEF EntriesOf
  <1> QED
    BY <1>1, <1>2, <1>3, Zenon DEF EntryValid

LEMMA LastHashIs ==
    ASSUME NEW S, \A f \in S : f.sequence_number \in Nat, NEW x, IsLast(S, x)
    PROVE  \E f \in S : f.sequence_number = x.sequence_number /\ LastHash(S) = f.entry_hash
  <1> DEFINE f == CHOOSE f \in S : \A g \in S : g.sequence_number <= f.sequence_number
  <1>1. f \in S /\ \A g \in S : g.sequence_number <= f.sequence_number
    BY DEF IsLast
  <1>2. LastHash(S) = f.entry_hash
    BY <1>1 DEF LastHash
  <1> HIDE DEF f
  <1>3. f.sequence_number = x.sequence_number
    BY <1>1 DEF IsLast
  <1> QED
    BY <1>1, <1>2, <1>3

LEMMA ChainedIsValid ==
    ASSUME NEW J, J \subseteq Entries, NEW a, NEW hash, NEW n \in Nat, Chained(J, a, hash, n),
           NEW e \in J, e.account_id = a
    PROVE  EntryValid(J, e)
  <1> DEFINE S == Before(J, e)
  <1>1. \A f \in J : f.account_id = a => f.sequence_number \in 1..n
    BY DEF Chained
  <1>2. e.sequence_number \in 1..n /\ e.entry_hash = ComputeEntryHash(e.previous_hash, FieldsOf(e))
    BY DEF Chained
  <1>3. CASE e.sequence_number = 1
    <2>1. S = {}
      BY <1>1, <1>3 DEF Before
    <2>2. e.previous_hash = Genesis
      BY <1>3 DEF Chained
    <2> QED
      BY <1>2, <2>1, <2>2 DEF EntryValid, LastHash
  <1>4. CASE e.sequence_number # 1
    <2>1. e.sequence_number - 1 \in 1..n
      BY <1>2, <1>4
    <2>2. PICK f \in J : f.account_id = a /\ f.sequence_number = e.sequence_number - 1
      BY <2>1 DEF Chained
    <2>3. e.sequence_number = f.sequence_number + 1
      BY <1>2, <2>2
    <2>4. e.previous_hash = f.entry_hash
      BY <2>2, <2>3 DEF Chained
    <2>5. /\ S \subseteq J
          /\ \A g \in S : g.account_id = a /\ g.sequence_number \in Nat
                          /\ g.sequence_number < e.sequence_number
      BY <1>1 DEF Before
    <2>6. f \in S
      BY <1>2, <2>2, <2>3 DEF Before
    <2>7. \A g \in S : g.sequence_number <= f.sequence_number
      BY <1>2, <2>2, <2>5
    <2>8. PICK g \in S : g.sequence_number = f.sequence_number /\ LastHash(S) = g.entry_hash
      <3> HIDE DEF S
      <3> QED BY <2>5, <2>6, <2>7, LastHashIs DEF IsLast
    <2>9. g = f
      BY <2>2, <2>5, <2>8 DEF Chained, SameSlot
    <2> QED
      BY <1>2, <2>4, <2>8, <2>9 DEF EntryValid
  <1> QED
    BY <1>3, <1>4

LEMMA IntactIsValid ==
    ASSUME TypeOK, ChainIntact, NEW a \in Accounts
    PROVE  ChainValid(a)
  <1>1. Chained(journal_entries, a, account_state[a].latest_hash, account_state[a].latest_sequence)
    BY ChainIntactIsChained
  <1>2. account_state[a].latest_sequence \in Nat /\ journal_entries \subseteq Entries
    BY DEF TypeOK, AccountStates
  <1> QED
    BY <1>1, <1>2, ChainedIsValid, ChainValidIs

\* The same for a list of checkpoints.
Earlier(K, k) == {j \in K : j.sequence_number < k.sequence_number}

LastCheckpointHash(K) ==
    IF K = {} THEN <<>>
    ELSE (CHOOSE j \in K : \A i \in K : i.sequence_number <= j.sequence_number).checkpoint_hash

CheckpointValid(K, k) ==
    /\ k.previous_checkpoint_hash = LastCheckpointHash(Earlier(K, k))
    /\ k.checkpoint_hash = ComputeCheckpointHash(k.previous_checkpoint_hash, k.members)

LEMMA CheckpointsValidIs == CheckpointsValid <=> \A k \in listed : CheckpointValid(listed, k)
  BY Zenon DEF CheckpointsValid, CheckpointValid, LastCheckpointHash, Earlier

LEMMA LastCheckpointHashIs ==
    ASSUME NEW K, \A k \in K : k.sequence_number \in Nat, NEW x, IsLast(K, x)
    PROVE  \E k \in K : /\ k.sequence_number = x.sequence_number
                        /\ LastCheckpointHash(K) = k.checkpoint_hash
  <1> DEFINE k == CHOOSE j \in K : \A i \in K : i.sequence_number <= j.sequence_number
  <1>1. k \in K /\ \A i \in K : i.sequence_number <= k.sequence_number
    BY DEF IsLast
  <1>2. LastCheckpointHash(K) = k.checkpoint_hash
    BY <1>1 DEF LastCheckpointHash
  <1> HIDE DEF k
  <1>3. k.sequence_number = x.sequence_number
    BY <1>1 DEF IsLast
  <1> QED
    BY <1>1, <1>2, <1>3

LEMMA LineIsValid ==
    ASSUME NEW K, NEW n \in Nat, Line(K, n), NEW k \in K
    PROVE  CheckpointValid(K, k)
  <1> DEFINE S == Earlier(K, k)
  <1>1. \A j \in K : j.sequence_number \in 1..n
    BY DEF Line
  <1>2. k.checkpoint_hash = ComputeCheckpointHash(k.previous_checkpoint_hash, k.members)
    BY DEF Line
  <1>3. CASE k.sequence_number = 1
    <2>1. S = {}
      BY <1>1, <1>3 DEF Earlier
    <2>2. k.previous_checkpoint_hash = <<>>
      BY <1>3 DEF Line
    <2> QED
      BY <1>2, <2>1, <2>2 DEF CheckpointValid, LastCheckpointHash
  <1>4. CASE k.sequence_number # 1
    <2>1. k.sequence_number \in 1..n /\ k.sequence_number - 1 \in 1..n
      BY <1>1, <1>4
    <2>2. PICK j \in K : j.sequence_number = k.sequence_number - 1
      BY <2>1 DEF Line
    <2>3. k.sequence_number = j.sequence_number + 1
      BY <2>1, <2>2
    <2>4. k.previous_checkpoint_hash = j.checkpoint_hash
      BY <2>3 DEF Line
    <2>5. /\ S \subseteq K
          /\ \A i \in S : i.sequence_number \in Nat /\ i.sequence_number < k.sequence_number
      BY <1>1 DEF Earlier
    <2>6. j \in S
      BY <2>1, <2>3, <1>1 DEF Earlier
    <2>7. \A i \in S : i.sequence_number <= j.sequence_number
      BY <1>1, <2>1, <2>2, <2>5
    <2>8. PICK i \in S : /\ i.sequence_number = j.sequence_number
                         /\ LastCheckpointHash(S) = i.checkpoint_hash
      <3> HIDE DEF S
      <3> QED BY <2>5, <2>6, <2>7, LastCheckpointHashIs DEF IsLast
    <2>9. i = j
      BY <2>5, <2>8 DEF Line
    <2> QED
      BY <1>2, <2>4, <2>8, <2>9 DEF CheckpointValid
  <1> QED
    BY <1>3, <1>4


-----------------------------------------------------------------------------
(***************************************************************************)
(* The ledger before it is damaged.                                        *)
(***************************************************************************)
\* Every entry moves money, and every event balances.
ZeroInv ==
    /\ \A e \in journal_entries : e.signed_amount # 0
    /\ EventsBalance

SoundInv == EngineInv /\ SumInv /\ ZeroInv

LEMMA LegMoves ==
    ASSUME NEW s \in Submissions, s.amount > 0, NEW i \in 1..2, NEW id, NEW e, IsLeg(e, s, i, id)
    PROVE  e.signed_amount # 0
  <1>1. Legs(s)[i].amount = s.amount /\ s.amount \in Int
    BY LegType, SubmissionType
  <1> QED
    BY <1>1 DEF IsLeg, SignedAmount, ToStoredSignedAmount

OfEvent(J, id) == {f \in J : f.event_id = id}

LEMMA EventsBalanceIs ==
    EventsBalance <=>
        \A e \in journal_entries : EntrySum(OfEvent(journal_entries, e.event_id)) = 0
  BY Zenon DEF EventsBalance, EntrySum, OfEvent

LEMMA ZeroStep == WorkInv /\ AmountInv /\ ZeroInv /\ [Next]_vars => ZeroInv'
  <1> SUFFICES ASSUME WorkInv, AmountInv, ZeroInv, [Next]_vars PROVE ZeroInv'
    OBVIOUS
  <1>0. EventsBalance
          <=> \A e \in journal_entries : EntrySum(OfEvent(journal_entries, e.event_id)) = 0
    BY EventsBalanceIs
  <1>00. EventsBalance' <=>
            (\A e \in journal_entries : EntrySum(OfEvent(journal_entries, e.event_id)) = 0)'
    BY EventsBalanceIs, PTL
  <1>1. CASE UNCHANGED journal_entries
    BY <1>0, <1>00, <1>1, Zenon DEF ZeroInv
  <1>2. ASSUME NEW r \in Requests, Commits(r) PROVE ZeroInv'
    <2>1. PICK first \in Entries, second \in Entries :
              /\ journal_entries' = journal_entries \cup {first, second}
              /\ \A j \in journal_entries : j.event_id # txn[r].id
              /\ \A e \in {first, second} : e.event_id = txn[r].id
              /\ Staged(r, first, second)
      BY <1>2, CommitOwns
    <2>2. submission[r] \in Submissions /\ submission[r].amount > 0
      BY <1>2 DEF WorkInv, TypeOK, AmountInv, Commits
    <2>3. first.signed_amount # 0 /\ second.signed_amount # 0
      BY <2>1, <2>2, LegMoves DEF Staged
    <2>4. EntrySum({first, second}) = 0
      BY <1>2, <2>1 DEF Commits, Staged
    <2>5. OfEvent(journal_entries', txn[r].id) = {first, second}
      BY <2>1 DEF OfEvent
    <2>6. \A j \in journal_entries :
            OfEvent(journal_entries', j.event_id) = OfEvent(journal_entries, j.event_id)
      BY <2>1 DEF OfEvent
    <2>7. \A j \in journal_entries : EntrySum(OfEvent(journal_entries', j.event_id)) = 0
      BY <1>0, <2>6, Zenon DEF ZeroInv
    <2>8. \A e \in {first, second} : EntrySum(OfEvent(journal_entries', e.event_id)) = 0
      BY <2>1, <2>4, <2>5, Zenon
    <2> QED
      BY <1>00, <2>1, <2>3, <2>7, <2>8, Zenon DEF ZeroInv
  <1> QED
    BY <1>1, <1>2, TableStep DEF CreateAccount

LEMMA SoundStep == WorkInv /\ SoundInv /\ [Next]_vars => SoundInv'
  <1> SUFFICES ASSUME WorkInv, SoundInv, [Next]_vars PROVE SoundInv'
    OBVIOUS
  <1>1. EngineInv'
    BY EngineStep DEF SoundInv
  <1>2. SumInv'
    BY SumInvStep DEF SoundInv
  <1>3. ZeroInv'
    BY ZeroStep DEF SoundInv, EngineInv, PostingInv
  <1> QED
    BY <1>1, <1>2, <1>3 DEF SoundInv

LEMMA SoundInit == Init => SoundInv
  <1> SUFFICES ASSUME Init PROVE SoundInv
    OBVIOUS
  <1>1. journal_entries = {}
    BY DEF Init
  <1>2. ZeroInv
    BY <1>1 DEF ZeroInv, EventsBalance
  <1> QED
    BY <1>2, EngineInit, SumInit DEF SoundInv

\* Every damage leaves a mark, and no step takes one away.
LEMMA CleanStays ==
    ASSUME [DamageNext]_damagedVars, Clean'
    PROVE  Clean /\ ~Damage
  <1>1. Damage => ~Clean'
    BY DEF Damage, Clean, ChangeAmount, LoseEntry, DriftBalance, DriftTip, AddImbalanced,
           ChangeMember, LoseCheckpoint
  <1>2. ASSUME BesideDamage PROVE Clean
    BY <1>2 DEF BesideDamage, Clean
  <1> QED
    BY <1>1, <1>2, StepIs, NewestLost DEF damagedVars, damageVars, Clean


-----------------------------------------------------------------------------
(***************************************************************************)
(* What no damage takes from the creators of checkpoints.                  *)
(***************************************************************************)
MemberRows == UNION {[S -> [latest_hash: Hashes, latest_sequence: Nat]] : S \in SUBSET Accounts}

CheckpointRows ==
    [sequence_number: Nat, checkpoint_hash: Seq(MemberRows),
     previous_checkpoint_hash: Seq(MemberRows), members: MemberRows]

HasLast(K) == K = {} \/ \E k \in K : IsLast(K, k)

\* Every snapshot and the table hold rows of checkpoints with a last one, and what is
\* inserted continues the last one of the snapshot.
CreatorWorkInv ==
    /\ step \in [Creators -> CreatorSteps]
    /\ snapshot = [c \in Creators |-> snapshot[c]]
    /\ inserted = [c \in Creators |-> inserted[c]]
    /\ checkpoints \subseteq CheckpointRows /\ HasLast(checkpoints)
    /\ \A c \in Creators :
          /\ step[c] # "idle" => /\ snapshot[c].checkpoints \subseteq CheckpointRows
                                 /\ HasLast(snapshot[c].checkpoints)
                                 /\ snapshot[c].members \in MemberRows
          /\ step[c] \in {"insert", "members"} =>
                inserted[c] = NextCheckpoint(snapshot[c].checkpoints, snapshot[c].members)

\* What a step does to the creators.
LEMMA CreatorMoves ==
    ASSUME CreatorWorkInv, [CheckpointNext]_allVars
    PROVE  /\ step' \in [Creators -> CreatorSteps]
           /\ snapshot' = [c \in Creators |-> snapshot'[c]]
           /\ inserted' = [c \in Creators |-> inserted'[c]]
           /\ \/ checkpoints' = checkpoints
              \/ \E c \in Creators : /\ step[c] = "members"
                                     /\ checkpoints' = checkpoints \cup {inserted[c]}
           /\ \A c \in Creators :
                 /\ step'[c] # "idle" =>
                       \/ step[c] # "idle" /\ snapshot'[c] = snapshot[c]
                       \/ snapshot'[c] = [members |-> [a \in Existing |-> MemberOf(a)],
                                          checkpoints |-> checkpoints]
                 /\ step'[c] \in {"insert", "members"} =>
                       /\ step[c] # "idle" /\ snapshot'[c] = snapshot[c]
                       /\ inserted'[c] = NextCheckpoint(snapshot[c].checkpoints,
                                                        snapshot[c].members)
  <1> DEFINE Taken == [members |-> [a \in Existing |-> MemberOf(a)], checkpoints |-> checkpoints]
             Inserted(c) == NextCheckpoint(snapshot[c].checkpoints, snapshot[c].members)
             Adds == \/ checkpoints' = checkpoints
                     \/ \E c \in Creators : /\ step[c] = "members"
                                            /\ checkpoints' = checkpoints \cup {inserted[c]}
             Shape == /\ step' \in [Creators -> CreatorSteps]
                      /\ snapshot' = [c \in Creators |-> snapshot'[c]]
                      /\ inserted' = [c \in Creators |-> inserted'[c]]
             Moved(c) ==
                 /\ step'[c] # "idle" => \/ step[c] # "idle" /\ snapshot'[c] = snapshot[c]
                                         \/ snapshot'[c] = Taken
                 /\ step'[c] \in {"insert", "members"} =>
                       /\ step[c] # "idle" /\ snapshot'[c] = snapshot[c]
                       /\ inserted'[c] = Inserted(c)
  <1>0. /\ step \in [Creators -> CreatorSteps]
        /\ snapshot = [c \in Creators |-> snapshot[c]]
        /\ inserted = [c \in Creators |-> inserted[c]]
        /\ \A c \in Creators : step[c] \in {"insert", "members"} => inserted[c] = Inserted(c)
    BY DEF CreatorWorkInv
  <1> HIDE DEF Taken, Inserted
  <1>1. ASSUME UNCHANGED <<checkpoints, step, snapshot, inserted>>
        PROVE  Shape /\ Adds /\ \A c \in Creators : Moved(c)
    BY <1>0, <1>1
  <1>2. ASSUME NEW c \in Creators, ReadStates(c) PROVE Shape /\ Adds /\ \A d \in Creators : Moved(d)
    <2>1. /\ step' = [step EXCEPT ![c] = "previous"]
          /\ snapshot' = [snapshot EXCEPT ![c] = Taken]
          /\ UNCHANGED <<checkpoints, inserted>>
      BY <1>2 DEF ReadStates, StepTo, Taken
    <2> QED
      BY <1>0, <2>1 DEF CreatorSteps
  <1>3. ASSUME NEW c \in Creators, ReadPrevious(c)
        PROVE  Shape /\ Adds /\ \A d \in Creators : Moved(d)
    <2>1. /\ step' = [step EXCEPT ![c] = "insert"] /\ step[c] = "previous"
          /\ inserted' = [inserted EXCEPT ![c] = Inserted(c)]
          /\ UNCHANGED <<checkpoints, snapshot>>
      BY <1>3 DEF ReadPrevious, StepTo, Inserted, VisibleCheckpoints
    <2> QED
      BY <1>0, <2>1 DEF CreatorSteps
  <1>4. ASSUME NEW c \in Creators, InsertCheckpoint(c)
        PROVE  Shape /\ Adds /\ \A d \in Creators : Moved(d)
    <2>1. /\ step' = [step EXCEPT ![c] = "members"] /\ step[c] = "insert"
          /\ UNCHANGED <<checkpoints, snapshot, inserted>>
      BY <1>4 DEF InsertCheckpoint, StepTo
    <2> QED
      BY <1>0, <2>1 DEF CreatorSteps
  <1>5. ASSUME NEW c \in Creators, EndCheckpoint(c), Adds
        PROVE  Shape /\ Adds /\ \A d \in Creators : Moved(d)
    <2>1. /\ step' = [step EXCEPT ![c] = "idle"]
          /\ snapshot' = [snapshot EXCEPT ![c] = NoSnapshot]
          /\ inserted' = [inserted EXCEPT ![c] = NoCheckpoint]
      BY <1>5 DEF EndCheckpoint, StepTo
    <2> HIDE DEF Adds
    <2> QED
      BY <1>0, <1>5, <2>1 DEF CreatorSteps
  <1>6. ASSUME NEW c \in Creators, \/ DuplicateSequence(c) \/ CheckpointFails(c)
                                   \/ CommitCheckpoint(c)
        PROVE  EndCheckpoint(c) /\ Adds
    BY <1>6 DEF DuplicateSequence, CheckpointFails, CommitCheckpoint
  <1>7. \/ UNCHANGED <<checkpoints, step, snapshot, inserted>>
        \/ \E c \in Creators : \/ ReadStates(c) \/ ReadPrevious(c) \/ InsertCheckpoint(c)
                               \/ DuplicateSequence(c) \/ CheckpointFails(c)
                               \/ CommitCheckpoint(c)
    <2>1. ASSUME NEW c \in Creators, ConnectFails(c) \/ ShareAccount(c)
          PROVE  UNCHANGED <<checkpoints, step, snapshot, inserted>>
      BY <2>1 DEF ConnectFails, ShareAccount
    <2>2. ASSUME BesideCheckpoints \/ UNCHANGED allVars
          PROVE  UNCHANGED <<checkpoints, step, snapshot, inserted>>
      BY <2>2 DEF BesideCheckpoints, allVars, checkpointVars
    <2>3. CASE CheckpointNext
      BY <2>1, <2>2, <2>3, Zenon DEF CheckpointNext, AdvanceCheckpoint
    <2> QED
      BY <2>2, <2>3
  <1> HIDE DEF Shape, Adds, Moved
  <1>8. Shape /\ Adds /\ \A c \in Creators : Moved(c)
    BY <1>1, <1>2, <1>3, <1>4, <1>5, <1>6, <1>7, Zenon
  <1> QED
    BY <1>8 DEF Shape, Adds, Moved, Taken, Inserted


LEMMA NextCheckpointIs ==
    ASSUME NEW K, K \subseteq CheckpointRows, HasLast(K), NEW members \in MemberRows
    PROVE  /\ NextCheckpoint(K, members) \in CheckpointRows
           /\ \A k \in K : NextCheckpoint(K, members).sequence_number > k.sequence_number
  <1> DEFINE last == IF K = {} THEN NoCheckpoint
                     ELSE CHOOSE k \in K : \A l \in K : l.sequence_number <= k.sequence_number
  <1>0. PICK new : new = NextCheckpoint(K, members)
    OBVIOUS
  <1>1. new = [sequence_number |-> last.sequence_number + 1,
               checkpoint_hash |-> ComputeCheckpointHash(last.checkpoint_hash, members),
               previous_checkpoint_hash |-> last.checkpoint_hash,
               members |-> members]
    BY <1>0 DEF NextCheckpoint
  <1>2. /\ last.sequence_number \in Nat /\ last.checkpoint_hash \in Seq(MemberRows)
        /\ \A k \in K : k.sequence_number <= last.sequence_number
    <2>1. CASE K = {}
      BY <2>1 DEF NoCheckpoint
    <2>2. CASE K # {}
      <3>1. \E k \in K : \A l \in K : l.sequence_number <= k.sequence_number
        BY <2>2 DEF HasLast, IsLast
      <3>2. last \in K /\ \A k \in K : k.sequence_number <= last.sequence_number
        BY <2>2, <3>1
      <3> QED
        BY <3>2 DEF CheckpointRows
    <2> QED
      BY <2>1, <2>2
  <1> HIDE DEF last
  <1>3. ComputeCheckpointHash(last.checkpoint_hash, members) \in Seq(MemberRows)
    BY <1>2 DEF ComputeCheckpointHash
  <1>4. new \in CheckpointRows
    BY <1>1, <1>2, <1>3 DEF CheckpointRows
  <1>5. \A k \in K : k.sequence_number \in Nat
    BY DEF CheckpointRows
  <1>6. new.sequence_number = last.sequence_number + 1
    BY <1>1
  <1>7. \A k \in K : new.sequence_number > k.sequence_number
    BY <1>2, <1>5, <1>6
  <1> QED
    BY <1>0, <1>4, <1>7

LEMMA LastWith ==
    ASSUME NEW K, K \subseteq CheckpointRows, HasLast(K), NEW x \in CheckpointRows
    PROVE  HasLast(K \cup {x})
  <1>0. \A k \in K \cup {x} : k.sequence_number \in Nat
    BY DEF CheckpointRows
  <1>1. CASE K = {}
    BY <1>0, <1>1 DEF HasLast, IsLast
  <1>2. CASE K # {}
    <2>1. PICK k \in K : \A l \in K : l.sequence_number <= k.sequence_number
      BY <1>2 DEF HasLast, IsLast
    <2>2. CASE x.sequence_number <= k.sequence_number
      BY <2>1, <2>2 DEF HasLast, IsLast
    <2>3. CASE ~(x.sequence_number <= k.sequence_number)
      <3>1. \A l \in K \cup {x} : l.sequence_number <= x.sequence_number
        BY <1>0, <2>1, <2>3
      <3> QED BY <3>1 DEF HasLast, IsLast
    <2> QED BY <2>2, <2>3
  <1> QED
    BY <1>1, <1>2

LEMMA SnapshotRow == ASSUME TypeOK PROVE [a \in Existing |-> MemberOf(a)] \in MemberRows
  <1>1. Existing \in SUBSET Accounts
    BY DEF Existing
  <1>2. \A a \in Existing : MemberOf(a) \in [latest_hash: Hashes, latest_sequence: Nat]
    BY <1>1 DEF MemberOf, TypeOK, AccountStates
  <1>3. [a \in Existing |-> MemberOf(a)]
          \in [Existing -> [latest_hash: Hashes, latest_sequence: Nat]]
    BY <1>2
  <1> QED
    BY <1>1, <1>3 DEF MemberRows

LEMMA CreatorWorkStep ==
    TypeOK /\ CreatorWorkInv /\ [CheckpointNext]_allVars => CreatorWorkInv'
  <1> SUFFICES ASSUME TypeOK, CreatorWorkInv, [CheckpointNext]_allVars PROVE CreatorWorkInv'
    OBVIOUS
  <1>1. \A c \in Creators : step[c] # "idle" =>
            /\ snapshot[c].checkpoints \subseteq CheckpointRows /\ HasLast(snapshot[c].checkpoints)
            /\ snapshot[c].members \in MemberRows
    BY DEF CreatorWorkInv
  <1>2. checkpoints' \subseteq CheckpointRows /\ HasLast(checkpoints')
    <2>1. CASE checkpoints' = checkpoints
      BY <2>1 DEF CreatorWorkInv
    <2>2. ASSUME NEW c \in Creators, step[c] = "members",
                 checkpoints' = checkpoints \cup {inserted[c]}
          PROVE  checkpoints' \subseteq CheckpointRows /\ HasLast(checkpoints')
      <3>1. inserted[c] = NextCheckpoint(snapshot[c].checkpoints, snapshot[c].members)
        BY <2>2 DEF CreatorWorkInv
      <3>2. inserted[c] \in CheckpointRows
        BY <1>1, <2>2, <3>1, NextCheckpointIs
      <3> QED
        BY <2>2, <3>2, LastWith DEF CreatorWorkInv
    <2> QED
      BY <2>1, <2>2, CreatorMoves
  <1>3. ASSUME NEW c \in Creators, step'[c] # "idle"
        PROVE  /\ snapshot'[c].checkpoints \subseteq CheckpointRows
               /\ HasLast(snapshot'[c].checkpoints)
               /\ snapshot'[c].members \in MemberRows
    <2>1. CASE step[c] # "idle" /\ snapshot'[c] = snapshot[c]
      BY <1>1, <2>1
    <2>2. CASE snapshot'[c] = [members |-> [a \in Existing |-> MemberOf(a)],
                               checkpoints |-> checkpoints]
      <3>1. snapshot'[c].checkpoints = checkpoints /\ snapshot'[c].members \in MemberRows
        BY <2>2, SnapshotRow
      <3> QED
        BY <3>1 DEF CreatorWorkInv
    <2> QED
      BY <1>3, <2>1, <2>2, CreatorMoves
  <1>4. ASSUME NEW c \in Creators, step'[c] \in {"insert", "members"}
        PROVE  inserted'[c] = NextCheckpoint(snapshot'[c].checkpoints, snapshot'[c].members)
    BY <1>4, CreatorMoves
  <1>5. /\ step' \in [Creators -> CreatorSteps]
        /\ snapshot' = [c \in Creators |-> snapshot'[c]]
        /\ inserted' = [c \in Creators |-> inserted'[c]]
    BY CreatorMoves
  <1> QED
    BY <1>2, <1>3, <1>4, <1>5, Zenon DEF CreatorWorkInv

\* What the damage of a checkpoint changes.
WithMember(k, a) == [k EXCEPT !.members[a].latest_sequence = @ + 1]

LEMMA ChangedMember ==
    ASSUME NEW k \in CheckpointRows, NEW a \in DOMAIN k.members,
           NEW new, new = WithMember(k, a)
    PROVE  /\ new \in CheckpointRows
           /\ new.sequence_number = k.sequence_number
           /\ new.checkpoint_hash = k.checkpoint_hash
           /\ new.previous_checkpoint_hash = k.previous_checkpoint_hash
           /\ new.members # k.members
  <1>1. k.members \in MemberRows
    BY DEF CheckpointRows
  <1>2. PICK S \in SUBSET Accounts :
            k.members \in [S -> [latest_hash: Hashes, latest_sequence: Nat]]
    BY <1>1 DEF MemberRows
  <1>3. PICK m : m = [k.members EXCEPT ![a].latest_sequence = @ + 1]
    OBVIOUS
  <1>4. new = [k EXCEPT !.members = m]
    BY <1>3 DEF WithMember
  <1>5. a \in S /\ k.members[a].latest_sequence \in Nat
    BY <1>2
  <1>6. m \in [S -> [latest_hash: Hashes, latest_sequence: Nat]]
    BY <1>2, <1>3
  <1>7. m[a].latest_sequence = k.members[a].latest_sequence + 1
    BY <1>2, <1>3
  <1>8. m # k.members
    BY <1>5, <1>7
  <1>9. m \in MemberRows
    BY <1>2, <1>6 DEF MemberRows
  <1> QED
    BY <1>4, <1>8, <1>9 DEF CheckpointRows

LEMMA DamageKeepsCreators == CreatorWorkInv /\ Damage => CreatorWorkInv'
  <1> SUFFICES ASSUME CreatorWorkInv, Damage PROVE CreatorWorkInv'
    OBVIOUS
  <1>1. UNCHANGED <<step, snapshot, inserted>>
    BY DEF Damage, untouchedVars
  <1>2. \A k \in checkpoints : k \in CheckpointRows /\ k.sequence_number \in Nat
    BY DEF CreatorWorkInv, CheckpointRows
  <1>3. \/ checkpoints' = checkpoints
        \/ \E k \in checkpoints : LoseCheckpoint(k)
        \/ \E k \in checkpoints : \E a \in DOMAIN k.members : ChangeMember(k, a)
    BY DEF Damage, ChangeAmount, LoseEntry, DriftBalance, DriftTip, AddImbalanced
  <1>4. ASSUME NEW k \in checkpoints, LoseCheckpoint(k)
        PROVE  checkpoints' \subseteq CheckpointRows /\ HasLast(checkpoints')
    <2>1. PICK j \in checkpoints : j.sequence_number > k.sequence_number
      BY <1>4 DEF LoseCheckpoint
    <2>2. PICK l \in checkpoints : \A i \in checkpoints : i.sequence_number <= l.sequence_number
      BY DEF CreatorWorkInv, HasLast, IsLast
    <2>3. l # k
      BY <1>2, <2>1, <2>2
    <2>4. checkpoints' = checkpoints \ {k}
      BY <1>4 DEF LoseCheckpoint
    <2> QED
      BY <1>2, <2>2, <2>3, <2>4 DEF HasLast, IsLast
  <1>5. ASSUME NEW k \in checkpoints, NEW a \in DOMAIN k.members, ChangeMember(k, a)
        PROVE  checkpoints' \subseteq CheckpointRows /\ HasLast(checkpoints')
    <2>1. PICK new \in CheckpointRows :
            /\ new.sequence_number = k.sequence_number
            /\ checkpoints' = (checkpoints \ {k}) \cup {new}
      <3>1. PICK new : new = WithMember(k, a)
        OBVIOUS
      <3>2. new \in CheckpointRows /\ new.sequence_number = k.sequence_number
        BY <1>2, <3>1, ChangedMember
      <3>3. checkpoints' = (checkpoints \ {k}) \cup {new}
        BY <1>5, <3>1 DEF ChangeMember, WithMember
      <3> QED
        BY <3>2, <3>3
    <2>2. PICK l \in checkpoints : \A i \in checkpoints : i.sequence_number <= l.sequence_number
      BY DEF CreatorWorkInv, HasLast, IsLast
    <2>3. CASE l = k
      BY <1>2, <2>1, <2>2, <2>3 DEF HasLast, IsLast
    <2>4. CASE l # k
      BY <1>2, <2>1, <2>2, <2>4 DEF HasLast, IsLast
    <2> QED
      BY <2>3, <2>4
  <1>6. checkpoints' \subseteq CheckpointRows /\ HasLast(checkpoints')
    BY <1>3, <1>4, <1>5 DEF CreatorWorkInv
  <1> QED
    BY <1>1, <1>6 DEF CreatorWorkInv


LEMMA CreatorWorkInit == CheckpointInit => CreatorWorkInv
  <1> SUFFICES ASSUME CheckpointInit PROVE CreatorWorkInv
    OBVIOUS
  <1>1. checkpoints = {} /\ \A c \in Creators : step[c] = "idle"
    BY DEF CheckpointInit
  <1>2. step \in [Creators -> CreatorSteps]
        /\ snapshot = [c \in Creators |-> snapshot[c]]
        /\ inserted = [c \in Creators |-> inserted[c]]
    BY DEF CheckpointInit, CreatorSteps
  <1> QED
    BY <1>1, <1>2 DEF CreatorWorkInv, HasLast

\* A chain of checkpoints without its newest one is a chain of checkpoints.
LEMMA LineWithoutNewest ==
    ASSUME NEW K, IsLine(K), NEW k \in K, \A j \in K : j.sequence_number <= k.sequence_number
    PROVE  IsLine(K \ {k}) /\ HasLast(K \ {k})
  <1>1. PICK n \in Nat : Line(K, n)
    BY DEF IsLine
  <1>2. /\ \A j \in K : j.sequence_number \in 1..n
        /\ \A m \in 1..n : \E j \in K : j.sequence_number = m
        /\ \A j \in K : j.sequence_number = k.sequence_number => j = k
    BY <1>1 DEF Line
  <1>3. k.sequence_number = n /\ n - 1 \in Nat
    <2>1. n \in 1..n
      BY <1>2
    <2>2. PICK j \in K : j.sequence_number = n
      BY <1>2, <2>1
    <2> QED
      BY <1>2, <2>2
  <1>4. \A j \in K \ {k} : j.sequence_number \in 1..(n - 1)
    BY <1>2, <1>3
  <1>5. \A m \in 1..(n - 1) : \E j \in K \ {k} : j.sequence_number = m
    BY <1>2, <1>3
  <1>6. Line(K \ {k}, n - 1)
    BY <1>1, <1>4, <1>5 DEF Line
  <1>7. HasLast(K \ {k})
    <2>1. CASE n - 1 = 0
      BY <1>4, <2>1 DEF HasLast
    <2>2. CASE n - 1 # 0
      <3>1. n - 1 \in 1..(n - 1)
        BY <1>3, <2>2
      <3>2. PICK j \in K \ {k} : j.sequence_number = n - 1
        BY <1>5, <3>1
      <3>3. IsLast(K \ {k}, j)
        BY <1>3, <1>4, <3>2 DEF IsLast
      <3> QED
        BY <3>3 DEF HasLast
    <2> QED
      BY <2>1, <2>2
  <1> QED
    BY <1>3, <1>6, <1>7 DEF IsLine

\* The creators at work have not seen the checkpoint that is lost.
LEMMA LostNewestLeaves ==
    ASSUME LoseNewest, ChainInv
    PROVE  ChainInv' /\ HasLast(checkpoints') /\ checkpoints' \subseteq checkpoints
  <1>1. PICK k \in checkpoints :
          /\ \A j \in checkpoints : j.sequence_number <= k.sequence_number
          /\ \A c \in Checkpointing : k \notin snapshot[c].checkpoints
          /\ checkpoints' = checkpoints \ {k}
    BY DEF LoseNewest
  <1>2. IsLine(checkpoints') /\ HasLast(checkpoints') /\ checkpoints' \subseteq checkpoints
    BY <1>1, LineWithoutNewest DEF ChainInv
  <1>3. step' = step /\ snapshot' = snapshot /\ inserted' = inserted
    BY NewestLost
  <1>4. ASSUME NEW c \in Creators, step[c] # "idle"
        PROVE  snapshot[c].checkpoints \subseteq checkpoints'
    BY <1>1, <1>4 DEF ChainInv, CreatorInv, Checkpointing
  <1>5. \A c \in Creators : /\ ~SequenceUsed(c) => ~SequenceUsed(c)'
                             /\ InsertingSame(c)' = InsertingSame(c)
    BY <1>2, <1>3 DEF SequenceUsed, InsertingSame
  <1>6. CreatorInv'
    BY <1>3, <1>4, <1>5 DEF ChainInv, CreatorInv
  <1> QED
    BY <1>2, <1>6 DEF ChainInv

LEMMA LostNewestKeepsCreators ==
    ASSUME LoseNewest, ChainInv, CreatorWorkInv
    PROVE  CreatorWorkInv'
  BY LostNewestLeaves, NewestLost DEF CreatorWorkInv

-----------------------------------------------------------------------------
(***************************************************************************)
(* The audit itself.                                                       *)
(***************************************************************************)
Phases == {"none", "chain", "checkpoints", "balance", "done"}

AuditInv ==
    /\ phase \in Phases
    /\ phase = "none" => failures = {}
    /\ expected # <<>> => phase = "balance" /\ todo # {}
    /\ todo \subseteq accountIds /\ accountIds \subseteq Existing
    /\ symptoms \subseteq Checks
    /\ drifted # {} => symptoms \subseteq {"chain"}

LEMMA ExistingStay ==
    ASSUME TypeOK, [DamageNext]_damagedVars
    PROVE  \A a \in Existing : a \in Existing' /\ account_type'[a] = account_type[a]
  <1>1. CASE UNCHANGED account_type
    BY <1>1 DEF Existing
  <1>2. ASSUME NEW b \in Accounts, NEW type \in AccountTypes, CreateAccount(b, type)
        PROVE  \A a \in Existing : a \in Existing' /\ account_type'[a] = account_type[a]
    BY <1>2 DEF CreateAccount, Existing, TypeOK
  <1>3. ASSUME Damage PROVE UNCHANGED account_type
    BY <1>3 DEF Damage, untouchedVars
  <1>4. ASSUME NEW r \in Requests, Commits(r) PROVE UNCHANGED account_type
    BY <1>4 DEF Commits, Publish
  <1> QED
    BY <1>1, <1>2, <1>3, <1>4, StepOfTheLedger, TableStep

\* One account after the other, and one check after the other.
LEMMA AuditInvStep == TypeOK /\ AuditInv /\ [DamageNext]_damagedVars => AuditInv'
  <1> SUFFICES ASSUME TypeOK, AuditInv, [DamageNext]_damagedVars PROVE AuditInv'
    OBVIOUS
  <1> USE DEF AuditInv
  <1>0. \A S : S \subseteq Existing => S \subseteq Existing'
    BY ExistingStay
  <1>1. CASE AuditStep /\ BesideDamage
    <2>0. symptoms' = symptoms /\ drifted' = drifted /\ Existing' = Existing
      BY <1>1, AuditReads DEF allVars, vars, tables, Existing
    <2>1. CASE StartAudit
      BY <2>0, <2>1 DEF StartAudit, Phases
    <2>2. CASE VerifyAccountChain
      BY <2>0, <2>2 DEF VerifyAccountChain
    <2>3. CASE ListCheckpoints
      BY <2>0, <2>3 DEF ListCheckpoints, Phases
    <2>4. CASE VerifyCheckpointChain
      BY <2>0, <2>4 DEF VerifyCheckpointChain, Phases
    <2>5. CASE ReadEntries
      BY <2>0, <2>5 DEF ReadEntries, NextAccount
    <2>6. CASE CompareBalance
      BY <2>0, <2>6 DEF CompareBalance
    <2>7. CASE VerifyZeroSum
      BY <2>0, <2>7 DEF VerifyZeroSum, Phases
    <2> QED
      BY <1>1, <2>1, <2>2, <2>3, <2>4, <2>5, <2>6, <2>7 DEF AuditStep
  <1>2. CASE CheckpointNext /\ BesideAudit /\ BesideDamage
    <2>1. UNCHANGED <<phase, accountIds, todo, expected, listed, failures>>
      BY <1>2 DEF BesideAudit
    <2>2. drifted' = drifted
          /\ (symptoms' = symptoms \/ symptoms' = {"chain"})
      BY <1>2 DEF BesideDamage
    <2> QED
      BY <1>0, <2>1, <2>2 DEF Checks
  <1>3. CASE Damage
    <2>1. UNCHANGED <<phase, accountIds, todo, expected, listed, failures>>
      BY <1>3 DEF Damage, untouchedVars, auditVars
    <2>2. symptoms' \subseteq Checks /\ (drifted' # {} => symptoms' \subseteq {"chain"})
      BY <1>3 DEF Damage, ChangeAmount, LoseEntry, DriftBalance, DriftTip, AddImbalanced,
                  ChangeMember, LoseCheckpoint, Checks
    <2> QED
      BY <1>0, <2>1, <2>2
  <1>4. CASE UNCHANGED damagedVars
    BY <1>0, <1>4 DEF damagedVars, systemVars, auditVars, damageVars
  <1>5. CASE LoseNewest
    BY <1>0, <1>5, NewestLost
  <1> QED
    BY <1>1, <1>2, <1>3, <1>4, <1>5, StepIs

-----------------------------------------------------------------------------
(***************************************************************************)
(* No sound ledger is accused.                                             *)
(***************************************************************************)
\* Until it is damaged the ledger is sound, and no check but the one of the balances
\* reports anything.
CleanInv == Clean => SoundInv /\ failures \subseteq {"balance"}

\* Until they are damaged the checkpoints, and those the audit listed, are one chain.
LineInv ==
    "checkpoints" \notin symptoms =>
        /\ ChainInv
        /\ phase = "checkpoints" => IsLine(listed)
        /\ "checkpoints" \notin failures

LEMMA LineStep ==
    AuditInv /\ LineInv /\ [DamageNext]_damagedVars => LineInv'
  <1> SUFFICES ASSUME AuditInv, LineInv, [DamageNext]_damagedVars, "checkpoints" \notin symptoms'
               PROVE  /\ ChainInv'
                      /\ phase' = "checkpoints" => IsLine(listed')
                      /\ "checkpoints" \notin failures'
    BY DEF LineInv
  <1>1. CASE AuditStep /\ BesideDamage
    <2>0. symptoms' = symptoms /\ UNCHANGED <<checkpoints, step, snapshot, inserted>>
      BY <1>1, AuditReads DEF allVars, checkpointVars
    <2>1. ChainInv /\ (phase = "checkpoints" => IsLine(listed)) /\ "checkpoints" \notin failures
      BY <2>0 DEF LineInv
    <2>2. ChainInv'
      BY <2>0, <2>1 DEF ChainInv, CreatorInv, SequenceUsed, InsertingSame
    <2>3. CASE StartAudit
      BY <2>1, <2>2, <2>3 DEF StartAudit
    <2>4. CASE VerifyAccountChain
      BY <2>1, <2>2, <2>4 DEF VerifyAccountChain, Report
    <2>5. CASE ListCheckpoints
      BY <2>1, <2>2, <2>5 DEF ListCheckpoints, ChainInv
    <2>6. CASE VerifyCheckpointChain
      <3>1. CheckpointsValid
        BY <2>1, <2>6, LineIsValid, CheckpointsValidIs DEF IsLine, VerifyCheckpointChain
      <3> QED
        BY <2>1, <2>2, <2>6, <3>1 DEF VerifyCheckpointChain, Report
    <2>7. CASE ReadEntries
      BY <2>1, <2>2, <2>7 DEF ReadEntries
    <2>8. CASE CompareBalance
      BY <2>1, <2>2, <2>8 DEF CompareBalance, Report
    <2>9. CASE VerifyZeroSum
      BY <2>1, <2>2, <2>9 DEF VerifyZeroSum, Report
    <2> QED
      BY <1>1, <2>3, <2>4, <2>5, <2>6, <2>7, <2>8, <2>9 DEF AuditStep
  <1>2. CASE CheckpointNext /\ BesideAudit /\ BesideDamage
    <2>1. UNCHANGED <<phase, listed, failures>>
      BY <1>2 DEF BesideAudit
    <2>2. "checkpoints" \notin symptoms
      <3>1. CASE symptoms' = symptoms
        BY <3>1
      <3>2. CASE drifted # {}
        BY <3>2 DEF AuditInv
      <3> QED
        BY <1>2, <3>1, <3>2 DEF BesideDamage
    <2> QED
      BY <1>2, <2>1, <2>2, ChainInvStep DEF LineInv
  <1>3. CASE Damage
    <2>1. /\ phase = "none" /\ symptoms = {}
          /\ UNCHANGED <<phase, listed, failures, step, snapshot, inserted>>
      BY <1>3 DEF Damage, untouchedVars, auditVars
    <2>2. checkpoints' = checkpoints
      BY <1>3 DEF Damage, ChangeAmount, LoseEntry, DriftBalance, DriftTip, AddImbalanced,
                  ChangeMember, LoseCheckpoint
    <2>3. ChainInv /\ "checkpoints" \notin failures
      BY <2>1 DEF LineInv
    <2> QED
      BY <2>1, <2>2, <2>3 DEF ChainInv, CreatorInv, SequenceUsed, InsertingSame
  <1>4. CASE UNCHANGED damagedVars
    <2>1. UNCHANGED <<symptoms, phase, listed, failures, checkpoints, step, snapshot, inserted>>
      BY <1>4 DEF damagedVars, systemVars, auditVars, damageVars, allVars, checkpointVars
    <2> QED
      BY <2>1 DEF LineInv, ChainInv, CreatorInv, SequenceUsed, InsertingSame
  <1>5. CASE LoseNewest
    <2>1. /\ UNCHANGED <<phase, listed, failures, symptoms>> /\ phase = "none"
      BY <1>5, NewestLost
    <2>2. ChainInv /\ "checkpoints" \notin failures
      BY <2>1 DEF LineInv
    <2> QED
      BY <1>5, <2>1, <2>2, LostNewestLeaves
  <1> QED
    BY <1>1, <1>2, <1>3, <1>4, <1>5, StepIs

LEMMA CleanStep ==
    WorkInv /\ AuditInv /\ CleanInv /\ LineInv /\ [DamageNext]_damagedVars => CleanInv'
  <1> SUFFICES ASSUME WorkInv, AuditInv, CleanInv, LineInv, [DamageNext]_damagedVars, Clean'
               PROVE  SoundInv' /\ failures' \subseteq {"balance"}
    BY DEF CleanInv
  <1>1. Clean /\ ~Damage
    BY CleanStays
  <1>2. SoundInv /\ failures \subseteq {"balance"} /\ "checkpoints" \notin symptoms
    BY <1>1 DEF CleanInv, Clean
  <1>3. SoundInv'
    BY <1>1, <1>2, StepOfTheLedger, SoundStep
  <1>4. ASSUME AuditStep PROVE failures' \subseteq {"balance"}
    <2>1. CASE StartAudit
      BY <1>2, <2>1 DEF StartAudit
    <2>2. CASE VerifyAccountChain
      <3>1. \A a \in Accounts : ChainValid(a)
        BY <1>2, IntactIsValid DEF SoundInv, EngineInv, EntryInv
      <3> QED
        BY <1>2, <2>2, <3>1 DEF VerifyAccountChain, Report
    <2>3. CASE ListCheckpoints
      BY <1>2, <2>3 DEF ListCheckpoints
    <2>4. CASE VerifyCheckpointChain
      <3>1. CheckpointsValid
        BY <1>2, <2>4, LineIsValid, CheckpointsValidIs DEF LineInv, IsLine, VerifyCheckpointChain
      <3> QED
        BY <1>2, <2>4, <3>1 DEF VerifyCheckpointChain, Report
    <2>5. CASE ReadEntries
      BY <1>2, <2>5 DEF ReadEntries
    <2>6. CASE CompareBalance
      BY <1>2, <2>6 DEF CompareBalance, Report
    <2>7. CASE VerifyZeroSum
      BY <1>2, <2>7 DEF VerifyZeroSum, Report, SoundInv, ZeroInv
    <2> QED
      BY <1>4, <2>1, <2>2, <2>3, <2>4, <2>5, <2>6, <2>7 DEF AuditStep
  <1>5. ASSUME failures' = failures PROVE failures' \subseteq {"balance"}
    BY <1>2, <1>5
  <1>6. AuditStep \/ failures' = failures
    BY <1>1, StepIs, NewestLost DEF BesideAudit, damagedVars, systemVars, auditVars
  <1> QED
    BY <1>3, <1>4, <1>5, <1>6


-----------------------------------------------------------------------------
(***************************************************************************)
(* The chain of an account: what a damage breaks stays broken, above it    *)
(* the engine goes on.                                                     *)
(***************************************************************************)
LEMMA FieldsType == ASSUME NEW e \in Entries PROVE FieldsOf(e) \in HashedFields
  BY DEF FieldsOf, Entries, HashedFields

LEMMA HashNamesFields ==
    ASSUME NEW e \in Entries, NEW f \in Entries,
           e.entry_hash = ComputeEntryHash(e.previous_hash, FieldsOf(e)),
           f.entry_hash = ComputeEntryHash(f.previous_hash, FieldsOf(f))
    PROVE  /\ e.entry_hash # Genesis
           /\ e.entry_hash = f.entry_hash => FieldsOf(e) = FieldsOf(f)
  <1>1. e.previous_hash \in Seq(HashedFields) /\ f.previous_hash \in Seq(HashedFields)
    BY DEF Entries, Hashes
  <1>2. FieldsOf(e) \in HashedFields /\ FieldsOf(f) \in HashedFields
    BY FieldsType
  <1>3. Append(e.previous_hash, FieldsOf(e)) # << >>
    BY <1>1, <1>2, AppendProperties
  <1>4. Append(e.previous_hash, FieldsOf(e)) = Append(f.previous_hash, FieldsOf(f))
            => FieldsOf(e) = FieldsOf(f)
    BY <1>1, <1>2, AppendInjective
  <1> QED
    BY <1>3, <1>4, Zenon DEF ComputeEntryHash, Genesis

\* What a step of the ledger adds to the journal lies above what was there.
LEMMA JournalGrows ==
    ASSUME WorkInv, [Next]_vars
    PROVE  \E N \in SUBSET Entries :
              /\ journal_entries' = journal_entries \cup N
              /\ \A f \in N :
                    /\ f \notin journal_entries
                    /\ f.sequence_number > account_state[f.account_id].latest_sequence
                    /\ f.sequence_number <= account_state'[f.account_id].latest_sequence
                    /\ \A j \in journal_entries : j.event_id # f.event_id
              /\ \A a \in Existing :
                    account_state'[a].latest_sequence >= account_state[a].latest_sequence
  <1>0. TypeOK
    BY DEF WorkInv
  <1>1. \A a \in Existing : a \in Accounts /\ account_state[a].latest_sequence \in Nat
    BY <1>0 DEF TypeOK, AccountStates, Existing
  <1>2. ASSUME journal_entries' = journal_entries,
               \A a \in Existing : account_state'[a] = account_state[a]
        PROVE  /\ journal_entries' = journal_entries \cup {} /\ {} \in SUBSET Entries
               /\ \A a \in Existing :
                    account_state'[a].latest_sequence >= account_state[a].latest_sequence
    <2>1. \A a \in Existing : account_state'[a].latest_sequence = account_state[a].latest_sequence
      BY <1>2
    <2>2. \A a \in Existing :
              account_state'[a].latest_sequence >= account_state[a].latest_sequence
      BY <1>1, <2>1
    <2> QED
      BY <1>2, <2>2
  <1>3. ASSUME NEW b \in Accounts, NEW type \in AccountTypes, CreateAccount(b, type)
        PROVE  /\ journal_entries' = journal_entries
               /\ \A a \in Existing : account_state'[a] = account_state[a]
    BY <1>0, <1>3 DEF CreateAccount, TypeOK, Existing
  <1>5. ASSUME NEW r \in Requests, Commits(r)
        PROVE  \E first, second \in Entries :
                  /\ journal_entries' = journal_entries \cup {first, second}
                  /\ \A f \in {first, second} :
                        /\ f \notin journal_entries
                        /\ f.sequence_number > account_state[f.account_id].latest_sequence
                        /\ f.sequence_number <= account_state'[f.account_id].latest_sequence
                        /\ \A j \in journal_entries : j.event_id # f.event_id
                  /\ \A a \in Accounts :
                        account_state'[a].latest_sequence >= account_state[a].latest_sequence
    <2>1. PICK first \in Entries, second \in Entries :
              /\ journal_entries' = journal_entries \cup {first, second}
              /\ \A j \in journal_entries : j.event_id # txn[r].id
              /\ first \notin journal_entries /\ second \notin journal_entries
              /\ \A e \in {first, second} :
                    /\ e.event_id = txn[r].id
                    /\ e.sequence_number > account_state[e.account_id].latest_sequence
                    /\ e.sequence_number <= account_state'[e.account_id].latest_sequence
              /\ \A a \in Accounts :
                    account_state'[a].latest_sequence >= account_state[a].latest_sequence
      BY <1>5, CommitOwns
    <2>2. \A f \in {first, second} : \A j \in journal_entries : j.event_id # f.event_id
      BY <2>1
    <2> QED
      BY <2>1, <2>2, Zenon
  <1>6. ASSUME NEW r \in Requests, Commits(r)
        PROVE  \E N \in SUBSET Entries :
                  /\ journal_entries' = journal_entries \cup N
                  /\ \A f \in N :
                        /\ f \notin journal_entries
                        /\ f.sequence_number > account_state[f.account_id].latest_sequence
                        /\ f.sequence_number <= account_state'[f.account_id].latest_sequence
                        /\ \A j \in journal_entries : j.event_id # f.event_id
                  /\ \A a \in Existing :
                        account_state'[a].latest_sequence >= account_state[a].latest_sequence
    <2>1. PICK first \in Entries, second \in Entries :
                  /\ journal_entries' = journal_entries \cup {first, second}
                  /\ \A f \in {first, second} :
                        /\ f \notin journal_entries
                        /\ f.sequence_number > account_state[f.account_id].latest_sequence
                        /\ f.sequence_number <= account_state'[f.account_id].latest_sequence
                        /\ \A j \in journal_entries : j.event_id # f.event_id
                  /\ \A a \in Accounts :
                        account_state'[a].latest_sequence >= account_state[a].latest_sequence
      BY <1>5, <1>6
    <2>2. {first, second} \in SUBSET Entries
      OBVIOUS
    <2> QED
      BY <1>1, <2>1, <2>2, Zenon
  <1>7. CASE \A r \in Requests : ~Commits(r)
    <2>1. /\ journal_entries' = journal_entries
          /\ \A a \in Existing : account_state'[a] = account_state[a]
      BY <1>3, <1>7, TableStep
    <2> QED
      BY <1>2, <2>1, Zenon
  <1> QED
    BY <1>6, <1>7

\* Where the row of an account moves, an entry of the account is added.
LEMMA TipMoves ==
    ASSUME WorkInv, [Next]_vars, NEW a \in Existing
    PROVE  \/ account_state'[a] = account_state[a]
           \/ \E f \in journal_entries' \ journal_entries :
                 /\ f.account_id = a
                 /\ f.sequence_number = account_state[a].latest_sequence + 1
                 /\ f.previous_hash = account_state[a].latest_hash
                 /\ f.sequence_number <= account_state'[a].latest_sequence
  <1>0. TypeOK /\ a \in Accounts
    BY DEF WorkInv, Existing
  <1>1. ASSUME NEW b \in Accounts, NEW type \in AccountTypes, CreateAccount(b, type)
        PROVE  account_state'[a] = account_state[a]
    BY <1>0, <1>1 DEF CreateAccount, TypeOK, Existing
  <1>2. ASSUME NEW r \in Requests, Commits(r), a \in UniqueAccountIds(submission[r])
        PROVE  \E f \in journal_entries' \ journal_entries :
                 /\ f.account_id = a
                 /\ f.sequence_number = account_state[a].latest_sequence + 1
                 /\ f.previous_hash = account_state[a].latest_hash
                 /\ f.sequence_number <= account_state'[a].latest_sequence
    <2>1. PICK first \in Entries, second \in Entries :
              /\ journal_entries' = journal_entries \cup {first, second}
              /\ first \notin journal_entries /\ second \notin journal_entries
              /\ \A e \in {first, second} :
                    e.sequence_number <= account_state'[e.account_id].latest_sequence
              /\ Staged(r, first, second)
      BY <1>2, CommitOwns
    <2>2. submission[r] \in Submissions
      BY <1>0 DEF TypeOK
    <2>3. /\ first.account_id = submission[r].from /\ second.account_id = submission[r].to
          /\ UniqueAccountIds(submission[r]) = {submission[r].from, submission[r].to}
      BY <2>1, <2>2, LegType, SubmissionType DEF Staged, IsLeg
    <2>4. CASE a = submission[r].from
      BY <2>1, <2>3, <2>4 DEF Staged, Follows
    <2>5. CASE a = submission[r].to /\ submission[r].from # submission[r].to
      BY <2>1, <2>3, <2>5 DEF Staged, Follows
    <2> QED
      BY <1>2, <2>3, <2>4, <2>5
  <1>3. ASSUME NEW r \in Requests, Commits(r), a \notin UniqueAccountIds(submission[r])
        PROVE  account_state'[a] = account_state[a]
    BY <1>0, <1>3 DEF Commits, Publish, WrittenState
  <1> QED
    BY <1>1, <1>2, <1>3, TableStep

LEMMA ValidBelow ==
    ASSUME NEW J, NEW N, NEW e,
           \A f \in N : ~(f.account_id = e.account_id /\ f.sequence_number < e.sequence_number)
    PROVE  EntryValid(J \cup N, e) <=> EntryValid(J, e)
  <1>1. Before(J \cup N, e) = Before(J, e)
    BY DEF Before
  <1> QED
    BY <1>1, Zenon DEF EntryValid

\* An entry the chain of its account is broken at, below the stored tip.
ChainEvidence(e) ==
    /\ e \in journal_entries
    /\ e.sequence_number <= account_state[e.account_id].latest_sequence
    /\ ~EntryValid(journal_entries, e)

LEMMA EvidenceStays ==
    ASSUME WorkInv, [Next]_vars, NEW e, ChainEvidence(e)
    PROVE  ChainEvidence(e)'
  <1>1. PICK N \in SUBSET Entries :
              /\ journal_entries' = journal_entries \cup N
              /\ \A f \in N : f.sequence_number > account_state[f.account_id].latest_sequence
              /\ \A a \in Existing :
                    account_state'[a].latest_sequence >= account_state[a].latest_sequence
    BY JournalGrows
  <1>2. e \in journal_entries /\ e \in Entries /\ e.account_id \in Existing /\ TypeOK /\ TypeOK'
    BY TypeStep DEF ChainEvidence, WorkInv, TypeOK, OwnInv, Existing, Entries
  <1>3. /\ e.sequence_number \in Nat
        /\ \A f \in N : f.sequence_number \in Nat
        /\ account_state[e.account_id].latest_sequence \in Nat
        /\ account_state'[e.account_id].latest_sequence \in Nat
    BY <1>2 DEF TypeOK, Entries, AccountStates, Existing
  <1>4. /\ e.sequence_number <= account_state[e.account_id].latest_sequence
        /\ ~EntryValid(journal_entries, e)
    BY DEF ChainEvidence
  <1>5. \A f \in N : ~(f.account_id = e.account_id /\ f.sequence_number < e.sequence_number)
    BY <1>1, <1>3, <1>4
  <1>6. ~EntryValid(journal_entries', e)
    BY <1>1, <1>4, <1>5, ValidBelow
  <1>7. e.sequence_number <= account_state'[e.account_id].latest_sequence
    BY <1>1, <1>2, <1>3, <1>4
  <1> QED
    BY <1>1, <1>2, <1>6, <1>7 DEF ChainEvidence


LEMMA ChangedAmountBreaks ==
    ASSUME WorkInv, SoundInv, NEW e \in journal_entries, ChangeAmount(e)
    PROVE  \E f : ChainEvidence(f)'
  <1>1. PICK new : new = [e EXCEPT !.signed_amount = 2 * @]
    OBVIOUS
  <1>2. journal_entries \subseteq Entries /\ e \in Entries /\ e.signed_amount # 0
    BY DEF WorkInv, TypeOK, SoundInv, ZeroInv
  <1>3. /\ new \in Entries
        /\ new.signed_amount # e.signed_amount
        /\ new.sequence_number = e.sequence_number /\ new.account_id = e.account_id
        /\ new.entry_hash = e.entry_hash
    BY <1>1, <1>2 DEF Entries
  <1>4. Chained(journal_entries, e.account_id, account_state[e.account_id].latest_hash,
                account_state[e.account_id].latest_sequence)
    BY <1>2, ChainIntactIsChained DEF SoundInv, EngineInv, EntryInv, Entries
  <1>5. /\ e.sequence_number \in 1..account_state[e.account_id].latest_sequence
        /\ e.entry_hash = ComputeEntryHash(e.previous_hash, FieldsOf(e))
    BY <1>4 DEF Chained
  <1>6. new.entry_hash # ComputeEntryHash(new.previous_hash, FieldsOf(new))
    <2>1. FieldsOf(new) # FieldsOf(e)
      BY <1>3 DEF FieldsOf
    <2> QED
      BY <1>2, <1>3, <1>5, <2>1, HashNamesFields
  <1>7. new \in journal_entries' /\ account_state' = account_state
    BY <1>1 DEF ChangeAmount
  <1>8. ~EntryValid(journal_entries', new)
    BY <1>6 DEF EntryValid
  <1>9. new.sequence_number <= account_state'[new.account_id].latest_sequence
    BY <1>3, <1>5, <1>7
  <1> QED
    BY <1>7, <1>8, <1>9 DEF ChainEvidence

\* The entry after a lost one names a hash that no entry before it has.
LEMMA LostEntryBreaks ==
    ASSUME WorkInv, SoundInv, NEW e \in journal_entries, LoseEntry(e), HasSuccessor(e)
    PROVE  \E f : ChainEvidence(f)'
  <1> DEFINE a == e.account_id
             L == account_state[e.account_id].latest_sequence
             J == journal_entries
  <1>1. J \subseteq Entries /\ e \in Entries /\ a \in Accounts /\ L \in Nat
    BY DEF WorkInv, TypeOK, Entries, AccountStates
  <1>2. Chained(J, a, account_state[a].latest_hash, L)
    BY <1>1, ChainIntactIsChained DEF SoundInv, EngineInv, EntryInv
  <1>3. journal_entries' = J \ {e} /\ account_state' = account_state
    BY DEF LoseEntry
  <1> HIDE DEF L
  <1>4. /\ \A f \in J : f.account_id = a =>
              /\ f.sequence_number \in 1..L
              /\ f.entry_hash = ComputeEntryHash(f.previous_hash, FieldsOf(f))
        /\ \A f, g \in J : f.account_id = a /\ g.account_id = a =>
              /\ f.sequence_number = g.sequence_number => f = g
              /\ g.sequence_number = f.sequence_number + 1 => g.previous_hash = f.entry_hash
        /\ \A m \in 1..L : \E f \in J : f.account_id = a /\ f.sequence_number = m
    BY <1>2 DEF Chained, SameSlot
  <1>5. PICK after \in J : after.account_id = a /\ after.sequence_number > e.sequence_number
    BY DEF HasSuccessor, EntriesOf
  <1>6. e.sequence_number \in 1..L /\ e.sequence_number + 1 \in 1..L
    BY <1>1, <1>4, <1>5
  <1>7. PICK g \in J : g.account_id = a /\ g.sequence_number = e.sequence_number + 1
    BY <1>4, <1>6
  <1>8. g.previous_hash = e.entry_hash /\ g # e
    BY <1>4, <1>6, <1>7
  <1>9. PICK S : S = Before(J \ {e}, g)
    OBVIOUS
  <1>10. \A f \in S : /\ f \in J /\ f \in Entries /\ f.account_id = a
                      /\ f.sequence_number \in 1..L
                      /\ f.sequence_number < e.sequence_number
    <2>1. ASSUME NEW f \in S PROVE f.sequence_number < e.sequence_number
      <3>1. f \in J /\ f # e /\ f.account_id = a /\ f.sequence_number < g.sequence_number
        BY <1>7, <1>9 DEF Before
      <3>2. f.sequence_number # e.sequence_number
        BY <1>4, <3>1
      <3> QED
        BY <1>4, <1>6, <1>7, <3>1, <3>2
    <2> QED
      BY <1>1, <1>4, <1>7, <1>9, <2>1 DEF Before
  <1>11. LastHash(S) # e.entry_hash
    <2>1. CASE S = {}
      <3>1. e.entry_hash # Genesis
        BY <1>1, <1>4, HashNamesFields
      <3> QED
        BY <2>1, <3>1 DEF LastHash
    <2>2. CASE S # {}
      <3>1. e.sequence_number - 1 \in 1..L
        BY <1>1, <1>6, <1>10, <2>2
      <3>2. PICK x \in J : x.account_id = a /\ x.sequence_number = e.sequence_number - 1
        BY <1>4, <3>1
      <3>3. x # e /\ x.sequence_number < g.sequence_number
        BY <1>6, <1>7, <3>2
      <3>4. x \in S
        BY <1>7, <1>9, <3>2, <3>3 DEF Before
      <3>5. IsLast(S, x) /\ \A f \in S : f.sequence_number \in Nat
        BY <1>6, <1>10, <3>2, <3>4 DEF IsLast
      <3>6. PICK f \in S : LastHash(S) = f.entry_hash
        BY <3>5, LastHashIs
      <3>7. f.entry_hash = ComputeEntryHash(f.previous_hash, FieldsOf(f))
            /\ e.entry_hash = ComputeEntryHash(e.previous_hash, FieldsOf(e))
        BY <1>4, <1>10
      <3>8. FieldsOf(f) # FieldsOf(e)
        BY <1>6, <1>10 DEF FieldsOf
      <3> QED
        BY <1>1, <1>10, <3>6, <3>7, <3>8, HashNamesFields
    <2> QED
      BY <2>1, <2>2
  <1>12. ~EntryValid(journal_entries', g)
    BY <1>3, <1>8, <1>9, <1>11 DEF EntryValid
  <1>13. g \in journal_entries'
    BY <1>3, <1>8
  <1>14. g.sequence_number <= account_state'[g.account_id].latest_sequence
    BY <1>1, <1>3, <1>6, <1>7 DEF L
  <1> QED
    BY <1>12, <1>13, <1>14 DEF ChainEvidence


\* A tip without the hash of the last entry, as DriftTip leaves it.
TornTip(a) ==
    /\ a \in Existing
    /\ account_state[a].latest_hash = Genesis
    /\ \E e \in journal_entries :
          e.account_id = a /\ e.sequence_number = account_state[a].latest_sequence
    /\ \A e \in journal_entries : e.account_id = a =>
          e.sequence_number <= account_state[a].latest_sequence /\ e.entry_hash # Genesis

LEMMA DriftTears ==
    ASSUME WorkInv, SoundInv, NEW a \in Existing, DriftTip(a), account_type' = account_type
    PROVE  TornTip(a)'
  <1>1. a \in Accounts /\ account_state \in [Accounts -> AccountStates]
        /\ journal_entries \subseteq Entries
    BY DEF Existing, WorkInv, TypeOK
  <1>2. account_state[a].latest_hash # Genesis /\ account_state[a].latest_sequence \in Nat
    BY <1>1 DEF DriftTip, AccountStates
  <1>3. Chained(journal_entries, a, account_state[a].latest_hash, account_state[a].latest_sequence)
    BY <1>1, ChainIntactIsChained DEF SoundInv, EngineInv, EntryInv
  <1>4. account_state[a].latest_sequence \in 1..account_state[a].latest_sequence
    BY <1>2, <1>3 DEF Chained
  <1>5. \E e \in journal_entries :
          e.account_id = a /\ e.sequence_number = account_state[a].latest_sequence
    BY <1>3, <1>4 DEF Chained
  <1>6. ASSUME NEW e \in journal_entries, e.account_id = a
        PROVE  e.sequence_number <= account_state[a].latest_sequence /\ e.entry_hash # Genesis
    <2>1. e.sequence_number \in 1..account_state[a].latest_sequence
          /\ e.entry_hash = ComputeEntryHash(e.previous_hash, FieldsOf(e))
      BY <1>3, <1>6 DEF Chained
    <2>2. e.entry_hash # Genesis
      BY <1>1, <2>1, HashNamesFields
    <2> QED
      BY <1>2, <2>1, <2>2
  <1>7. /\ journal_entries' = journal_entries
        /\ account_state'[a].latest_hash = Genesis
        /\ account_state'[a].latest_sequence = account_state[a].latest_sequence
    BY <1>1 DEF DriftTip, AccountStates
  <1>8. a \in Existing'
    BY DEF Existing
  <1> QED
    BY <1>5, <1>6, <1>7, <1>8 DEF TornTip

\* The next entry of the account is chained to the genesis, above others.
LEMMA TornTipBreaks ==
    ASSUME WorkInv, [Next]_vars, NEW a, TornTip(a),
           NEW f \in journal_entries' \ journal_entries, f.account_id = a
    PROVE  \E e : ChainEvidence(e)'
  <1>1. PICK N \in SUBSET Entries :
              /\ journal_entries' = journal_entries \cup N
              /\ \A e \in N :
                    /\ e.sequence_number > account_state[e.account_id].latest_sequence
                    /\ e.sequence_number <= account_state'[e.account_id].latest_sequence
    BY JournalGrows
  <1>2. a \in Existing /\ a \in Accounts /\ TypeOK /\ TypeOK'
    BY TypeStep DEF TornTip, WorkInv, Existing
  <1>3. account_state[a].latest_sequence \in Nat /\ account_state'[a].latest_sequence \in Nat
    BY <1>2 DEF TypeOK, AccountStates
  <1>4. account_state'[a] # account_state[a]
    <2>1. f.sequence_number \in Nat
      BY <1>2 DEF TypeOK, Entries
    <2> QED
      BY <1>1, <1>3, <2>1
  <1>5. PICK g \in journal_entries' \ journal_entries :
           /\ g.account_id = a
           /\ g.sequence_number = account_state[a].latest_sequence + 1
           /\ g.previous_hash = account_state[a].latest_hash
           /\ g.sequence_number <= account_state'[a].latest_sequence
    BY <1>2, <1>4, TipMoves
  <1>6. PICK S : S = Before(journal_entries', g)
    OBVIOUS
  <1>7. \A e \in journal_entries' : e.sequence_number \in Nat
    BY <1>2 DEF TypeOK, Entries
  <1>8. \A e \in S : e \in journal_entries /\ e.account_id = a
                     /\ e.sequence_number \in Nat
                     /\ e.sequence_number <= account_state[a].latest_sequence
                     /\ e.entry_hash # Genesis
    <2> SUFFICES ASSUME NEW e \in S PROVE e \in journal_entries /\ e.account_id = a
      BY <1>7, <1>6 DEF Before, TornTip
    <2>1. e \in journal_entries' /\ e.account_id = a /\ e.sequence_number < g.sequence_number
      BY <1>5, <1>6 DEF Before
    <2>2. e \notin N
      BY <1>1, <1>3, <1>5, <1>7, <2>1
    <2> QED
      BY <1>1, <2>1, <2>2
  <1>9. PICK last \in journal_entries :
          last.account_id = a /\ last.sequence_number = account_state[a].latest_sequence
    BY DEF TornTip
  <1>10. last \in S
    BY <1>1, <1>3, <1>5, <1>6, <1>9 DEF Before
  <1>11. IsLast(S, last)
    BY <1>8, <1>9, <1>10 DEF IsLast
  <1>12. LastHash(S) # Genesis
    BY <1>8, <1>11, LastHashIs
  <1>13. ~EntryValid(journal_entries', g)
    BY <1>5, <1>6, <1>12 DEF EntryValid, TornTip
  <1> QED
    BY <1>5, <1>13 DEF ChainEvidence

\* Without one the tip stays as it is.
LEMMA TornTipStays ==
    ASSUME WorkInv, [Next]_vars, NEW a, TornTip(a), Existing \subseteq Existing',
           \A f \in journal_entries' \ journal_entries : f.account_id # a
    PROVE  TornTip(a)'
  <1>1. a \in Existing /\ a \in Existing'
    BY DEF TornTip
  <1>2. account_state'[a] = account_state[a]
    BY <1>1, TipMoves
  <1>3. journal_entries \subseteq journal_entries'
    BY JournalGrows
  <1> QED
    BY <1>1, <1>2, <1>3 DEF TornTip


DriftInv == phase = "none" /\ symptoms = {} => \A a \in drifted : TornTip(a)

LEMMA AuditKeeps ==
    ASSUME AuditStep, BesideDamage
    PROVE  /\ symptoms' = symptoms /\ drifted' = drifted
           /\ journal_entries' = journal_entries /\ account_state' = account_state
           /\ account_type' = account_type /\ Existing' = Existing
           /\ checkpoints' = checkpoints
           /\ step' = step /\ snapshot' = snapshot /\ inserted' = inserted
           /\ failures \subseteq failures'
  <1>1. failures \subseteq failures'
    BY DEF AuditStep, StartAudit, VerifyAccountChain, ListCheckpoints, VerifyCheckpointChain,
           ReadEntries, CompareBalance, VerifyZeroSum, Report
  <1> QED
    BY <1>1, AuditReads DEF allVars, vars, tables, checkpointVars, Existing

LEMMA DriftStep ==
    ASSUME WorkInv, AuditInv, CleanInv, DriftInv, [DamageNext]_damagedVars
    PROVE  DriftInv'
  <1> SUFFICES ASSUME phase' = "none", symptoms' = {}, NEW a \in drifted' PROVE TornTip(a)'
    BY DEF DriftInv
  <1>1. CASE AuditStep /\ BesideDamage
    <2>1. phase' # "none"
      BY <1>1 DEF AuditStep, StartAudit, VerifyAccountChain, ListCheckpoints,
                  VerifyCheckpointChain, ReadEntries, CompareBalance, VerifyZeroSum
    <2> QED
      BY <2>1
  <1>2. CASE CheckpointNext /\ BesideAudit /\ BesideDamage
    <2>1. /\ phase = "none" /\ symptoms = {} /\ a \in drifted
          /\ \A f \in journal_entries' \ journal_entries : f.account_id # a
      BY <1>2 DEF BesideAudit, BesideDamage
    <2>2. [Next]_vars
      BY <1>2, CheckpointsBesideEngine
    <2>3. Existing \subseteq Existing'
      BY ExistingStay DEF WorkInv
    <2> QED
      BY <2>1, <2>2, <2>3, TornTipStays DEF DriftInv
  <1>3. CASE Damage
    <2>1. Clean /\ account_type' = account_type
      BY <1>3 DEF Damage, Clean, untouchedVars
    <2>2. a \in Existing /\ DriftTip(a)
      BY <1>3 DEF Damage, ChangeAmount, LoseEntry, DriftBalance, DriftTip, AddImbalanced,
                  ChangeMember, LoseCheckpoint
    <2> QED
      BY <2>1, <2>2, DriftTears DEF CleanInv
  <1>4. CASE UNCHANGED damagedVars
    <2>1. UNCHANGED <<phase, symptoms, drifted, account_type, account_state, journal_entries>>
      BY <1>4 DEF damagedVars, systemVars, auditVars, damageVars, allVars, vars, tables
    <2> QED
      BY <2>1 DEF DriftInv, TornTip, Existing
  <1>5. CASE LoseNewest
    <2>1. Clean /\ drifted' = drifted
      BY <1>5, NewestLost
    <2> QED
      BY <2>1 DEF Clean
  <1> QED
    BY <1>1, <1>2, <1>3, <1>4, <1>5, StepIs

\* A broken chain is found: the audit reported it, or will come to its account.
ChainFoundInv ==
    "chain" \in symptoms =>
        \/ "chain" \in failures
        \/ \E e : /\ ChainEvidence(e)
                  /\ phase = "none" \/ (phase = "chain" /\ e.account_id \in todo)

LEMMA ChainFoundStep ==
    ASSUME WorkInv, AuditInv, CleanInv, DriftInv, ChainFoundInv, [DamageNext]_damagedVars
    PROVE  ChainFoundInv'
  <1> SUFFICES ASSUME "chain" \in symptoms'
               PROVE  \/ "chain" \in failures'
                      \/ \E e : /\ ChainEvidence(e)'
                                /\ phase' = "none" \/ (phase' = "chain" /\ e.account_id \in todo')
    BY DEF ChainFoundInv
  <1>1. CASE AuditStep /\ BesideDamage
    <2>1. /\ "chain" \in symptoms /\ failures \subseteq failures' /\ Existing' = Existing
          /\ journal_entries' = journal_entries /\ account_state' = account_state
      BY <1>1, AuditKeeps
    <2>2. CASE "chain" \in failures
      BY <2>1, <2>2
    <2>3. CASE "chain" \notin failures
      <3>1. PICK e : /\ ChainEvidence(e)
                     /\ phase = "none" \/ (phase = "chain" /\ e.account_id \in todo)
        BY <2>1, <2>3 DEF ChainFoundInv
      <3>2. ChainEvidence(e)'
        BY <2>1, <3>1 DEF ChainEvidence
      <3>3. CASE StartAudit
        <4>1. e.account_id \in Existing
          BY <3>1 DEF ChainEvidence, WorkInv, OwnInv, Existing, TypeOK, Entries
        <4> QED
          BY <3>2, <3>3, <4>1 DEF StartAudit
      <3>4. CASE VerifyAccountChain
        <4>1. PICK b \in Accounts : /\ todo' = todo \ {b} /\ phase' = phase /\ phase = "chain"
                                    /\ Report("chain", ChainValid(b))
          BY <3>4 DEF VerifyAccountChain
        <4>2. CASE e.account_id = b
          <5>1. ~ChainValid(b)
            BY <3>1, <4>2, ChainValidIs DEF ChainEvidence
          <5> QED
            BY <4>1, <5>1 DEF Report
        <4>3. CASE e.account_id # b
          BY <3>1, <3>2, <4>1, <4>3
        <4> QED
          BY <4>2, <4>3
      <3>5. CASE ListCheckpoints
        BY <3>1, <3>5 DEF ListCheckpoints
      <3>6. phase # "checkpoints" /\ phase # "balance"
        BY <3>1
      <3> QED
        BY <1>1, <3>3, <3>4, <3>5, <3>6
           DEF AuditStep, VerifyCheckpointChain, ReadEntries, CompareBalance, VerifyZeroSum
    <2> QED
      BY <2>2, <2>3
  <1>2. CASE CheckpointNext /\ BesideAudit /\ BesideDamage
    <2>1. UNCHANGED <<phase, todo, failures>> /\ [Next]_vars
      BY <1>2, CheckpointsBesideEngine DEF BesideAudit
    <2>2. CASE "chain" \in symptoms
      BY <2>1, <2>2, EvidenceStays DEF ChainFoundInv
    <2>3. CASE "chain" \notin symptoms
      <3>1. PICK f \in journal_entries' \ journal_entries :
               phase = "none" /\ f.account_id \in drifted
        BY <1>2, <2>3 DEF BesideDamage
      <3>2. symptoms = {}
        BY <2>3, <3>1 DEF AuditInv
      <3>3. TornTip(f.account_id)
        BY <3>1, <3>2 DEF DriftInv
      <3>4. \E e : ChainEvidence(e)'
        BY <2>1, <3>1, <3>3, TornTipBreaks
      <3> QED
        BY <2>1, <3>1, <3>4
    <2> QED
      BY <2>2, <2>3
  <1>3. CASE Damage
    <2>1. Clean /\ phase' = "none"
      BY <1>3 DEF Damage, Clean, untouchedVars, auditVars
    <2>2. SoundInv
      BY <2>1 DEF CleanInv
    <2>3. \E e \in journal_entries : ChangeAmount(e) \/ (LoseEntry(e) /\ HasSuccessor(e))
      <3>1. ASSUME NEW e \in journal_entries, LoseEntry(e) PROVE HasSuccessor(e)
        BY <3>1 DEF LoseEntry
      <3>2. "chain" \notin symptoms
        BY <1>3 DEF Damage
      <3>3. \A a \in Existing : ~DriftBalance(a) /\ ~DriftTip(a) /\ ~AddImbalanced(a)
        BY <3>2 DEF DriftBalance, DriftTip, AddImbalanced
      <3>4. \A k \in checkpoints : /\ ~LoseCheckpoint(k)
                                    /\ \A a \in DOMAIN k.members : ~ChangeMember(k, a)
        BY DEF ChangeMember, LoseCheckpoint
      <3> QED
        BY <1>3, <3>1, <3>3, <3>4, Zenon DEF Damage
    <2>4. \E e : ChainEvidence(e)'
      BY <2>2, <2>3, ChangedAmountBreaks, LostEntryBreaks
    <2> QED
      BY <2>1, <2>4
  <1>4. CASE UNCHANGED damagedVars
    <2>1. UNCHANGED <<phase, todo, failures, symptoms, account_state, journal_entries>>
      BY <1>4 DEF damagedVars, systemVars, auditVars, damageVars, allVars, vars, tables
    <2> QED
      BY <2>1 DEF ChainFoundInv, ChainEvidence
  <1>5. CASE LoseNewest
    BY <1>5, NewestLost DEF Clean
  <1> QED
    BY <1>1, <1>2, <1>3, <1>4, <1>5, StepIs



-----------------------------------------------------------------------------
(***************************************************************************)
(* The entries of an event: one that does not balance never does again,    *)
(* for nothing is added to an event once it is committed.                  *)
(***************************************************************************)
Signed == [e \in Entries |-> e.signed_amount]

LEMMA SignedFold ==
    ASSUME NEW S, IsFiniteSet(S), S \subseteq Entries
    PROVE  EntrySum(S) = SetSum(Signed, S)
  <1> DEFINE Body(g) == [T \in SUBSET S |->
                IF T = {} THEN 0
                ELSE LET x == CHOOSE x \in T : TRUE IN  x.signed_amount + g[T \ {x}]]
  <1>1. \A x \in S : Signed[x] \in Int
    BY DEF Signed, Entries
  <1>2. ASSUME NEW g PROVE IsSumming(g, Signed, S) <=> g = Body(g)
    <2>1. \A T \in SUBSET S : T # {} => Signed[Pick(T)] = Pick(T).signed_amount
      BY PickIsMember DEF Signed
    <2>2. Body(g) = [T \in SUBSET S |-> IF T = {} THEN 0
                                        ELSE Signed[Pick(T)] + g[T \ {Pick(T)}]]
      BY <2>1 DEF Pick
    <2> HIDE DEF Body
    <2> QED
      BY Zenon, <2>2 DEF IsSumming
  <1>3. \E g : IsSumming(g, Signed, S)
    BY <1>1, SummingExists
  <1> DEFINE fold == CHOOSE g : g = Body(g)
  <1>4. IsSumming(fold, Signed, S)
    <2> HIDE DEF Body
    <2>1. \E g : g = Body(g)
      BY Zenon, <1>2, <1>3
    <2>2. fold = Body(fold)
      BY Zenon, <2>1
    <2> HIDE DEF fold
    <2> QED
      BY Zenon, <1>2, <2>2
  <1>5. fold[S] = SetSum(Signed, S)
    <2> HIDE DEF fold
    <2> QED BY <1>1, <1>4, FoldIsSum
  <1>6. EntrySum(S) = fold[S]
    BY Zenon DEF EntrySum, MapThenSumSet, MapThenFoldSet
  <1> QED
    BY Zenon, <1>5, <1>6

\* Sums of amounts, one entry more or less.
LEMMA EntrySumWithout ==
    ASSUME NEW S, IsFiniteSet(S), S \subseteq Entries, NEW e \in S
    PROVE  /\ EntrySum(S) = e.signed_amount + EntrySum(S \ {e})
           /\ EntrySum(S \ {e}) \in Int
  <1>1. \A x \in S : Signed[x] = x.signed_amount /\ Signed[x] \in Int
    BY DEF Signed, Entries
  <1>2. IsFiniteSet(S \ {e}) /\ S \ {e} \subseteq Entries
    BY FS_Subset
  <1>3. EntrySum(S) = SetSum(Signed, S) /\ EntrySum(S \ {e}) = SetSum(Signed, S \ {e})
    BY <1>2, SignedFold
  <1>4. SetSum(Signed, S) = Signed[e] + SetSum(Signed, S \ {e})
    BY <1>1, SumWithout
  <1>5. SetSum(Signed, S \ {e}) \in Int
    BY <1>1, <1>2, SumIsInt
  <1> QED
    BY <1>1, <1>3, <1>4, <1>5

LEMMA EntrySumEmpty == EntrySum({}) = 0
  BY SignedFold, SumOfEmpty, FS_EmptySet

\* An event the entries of which do not sum to zero.
Unbalanced(e) == e \in journal_entries /\ EntrySum(OfEvent(journal_entries, e.event_id)) # 0

LEMMA UnbalancedStays ==
    ASSUME WorkInv, [Next]_vars, NEW e, Unbalanced(e)
    PROVE  Unbalanced(e)'
  <1>1. PICK N \in SUBSET Entries :
              /\ journal_entries' = journal_entries \cup N
              /\ \A f \in N : \A j \in journal_entries : j.event_id # f.event_id
    BY JournalGrows
  <1>2. OfEvent(journal_entries', e.event_id) = OfEvent(journal_entries, e.event_id)
    BY <1>1 DEF OfEvent, Unbalanced
  <1> QED
    BY <1>1, <1>2, Zenon DEF Unbalanced

LEMMA ChangedAmountUnbalances ==
    ASSUME WorkInv, SoundInv, NEW e \in journal_entries, ChangeAmount(e)
    PROVE  \E f : Unbalanced(f)'
  <1> DEFINE S == OfEvent(journal_entries, e.event_id)
  <1>1. PICK new : new = [e EXCEPT !.signed_amount = 2 * @]
    OBVIOUS
  <1>2. journal_entries \subseteq Entries /\ e.signed_amount # 0 /\ IsFiniteSet(journal_entries)
    BY DEF WorkInv, TypeOK, SoundInv, ZeroInv
  <1>3. e.signed_amount \in Int
    BY <1>2 DEF Entries
  <1>4. /\ new \in Entries
        /\ new.signed_amount = 2 * e.signed_amount
        /\ new.event_id = e.event_id
    BY <1>1, <1>2, <1>3 DEF Entries
  <1>5. journal_entries' = (journal_entries \ {e}) \cup {new}
    BY <1>1 DEF ChangeAmount
  <1>6. OfEvent(journal_entries', new.event_id) = (S \ {e}) \cup {new}
    BY <1>4, <1>5 DEF OfEvent
  <1>7. IsFiniteSet(S) /\ S \subseteq Entries /\ e \in S
    BY <1>2, FS_Subset DEF OfEvent
  <1>8. EntrySum(S) = 0
    BY EventsBalanceIs DEF SoundInv, ZeroInv
  <1> HIDE DEF S
  <1>9. 0 = e.signed_amount + EntrySum(S \ {e}) /\ EntrySum(S \ {e}) \in Int
    BY <1>7, <1>8, EntrySumWithout
  <1>10. IsFiniteSet((S \ {e}) \cup {new}) /\ (S \ {e}) \cup {new} \subseteq Entries
    BY <1>4, <1>7, FS_AddElement, FS_RemoveElement
  <1>11. EntrySum((S \ {e}) \cup {new}) # 0
    <2>1. CASE new \in S \ {e}
      <3>1. (S \ {e}) \cup {new} = S \ {e}
        BY <2>1
      <3> QED
        BY <1>2, <1>3, <1>9, <3>1
    <2>2. CASE new \notin S \ {e}
      <3>1. ((S \ {e}) \cup {new}) \ {new} = S \ {e}
        BY <2>2
      <3>2. EntrySum((S \ {e}) \cup {new}) = new.signed_amount + EntrySum(S \ {e})
        BY <1>10, <3>1, EntrySumWithout
      <3> QED
        BY <1>2, <1>3, <1>4, <1>9, <3>2
    <2> QED
      BY <2>1, <2>2
  <1> QED
    BY <1>5, <1>6, <1>11, Zenon DEF Unbalanced

LEMMA LostEntryUnbalances ==
    ASSUME WorkInv, SoundInv, NEW e \in journal_entries, LoseEntry(e)
    PROVE  \E f : Unbalanced(f)'
  <1> DEFINE S == OfEvent(journal_entries, e.event_id)
  <1>1. journal_entries \subseteq Entries /\ e.signed_amount # 0 /\ IsFiniteSet(journal_entries)
    BY DEF WorkInv, TypeOK, SoundInv, ZeroInv
  <1>2. e.signed_amount \in Int
    BY <1>1 DEF Entries
  <1>3. journal_entries' = journal_entries \ {e}
    BY DEF LoseEntry
  <1>4. OfEvent(journal_entries', e.event_id) = S \ {e}
    BY <1>3 DEF OfEvent
  <1>5. IsFiniteSet(S) /\ S \subseteq Entries /\ e \in S
    BY <1>1, FS_Subset DEF OfEvent
  <1>6. EntrySum(S) = 0
    BY EventsBalanceIs DEF SoundInv, ZeroInv
  <1>7. \A f \in S \ {e} : f \in journal_entries' /\ f.event_id = e.event_id
    BY <1>3 DEF OfEvent
  <1> HIDE DEF S
  <1>8. 0 = e.signed_amount + EntrySum(S \ {e}) /\ EntrySum(S \ {e}) \in Int
    BY <1>5, <1>6, EntrySumWithout
  <1>9. EntrySum(S \ {e}) # 0
    BY <1>1, <1>2, <1>8
  <1>10. S \ {e} # {}
    BY <1>9, EntrySumEmpty
  <1>11. PICK f \in S \ {e} : TRUE
    BY <1>10
  <1> QED
    BY <1>4, <1>7, <1>9, <1>11, Zenon DEF Unbalanced

LEMMA SingleEntryUnbalances ==
    ASSUME WorkInv, NEW a \in Accounts, AddImbalanced(a)
    PROVE  \E f : Unbalanced(f)'
  <1>1. PICK new : new = ImbalancedEntry(a)
    OBVIOUS
  <1>2. TypeOK /\ OwnInv /\ journal_entries \subseteq Entries /\ nextId \in Nat
    BY DEF WorkInv, TypeOK
  <1>3. /\ new \in Entries
        /\ new.event_id = nextId
        /\ new.signed_amount \in {1, -1}
    BY <1>1, <1>2, ImbalancedIs DEF ToStoredSignedAmount
  <1>4. journal_entries' = journal_entries \cup {new}
    BY <1>1 DEF AddImbalanced, ImbalancedEntry
  <1>5. \A j \in journal_entries : j.event_id # nextId
    BY <1>2 DEF OwnInv, Entries
  <1>6. OfEvent(journal_entries', new.event_id) = {new}
    BY <1>3, <1>4, <1>5 DEF OfEvent
  <1>7. EntrySum({new}) = new.signed_amount + EntrySum({new} \ {new})
    BY <1>3, EntrySumWithout, FS_Singleton
  <1>8. EntrySum({new} \ {new}) = 0
    <2>1. {new} \ {new} = {}
      OBVIOUS
    <2> QED BY <2>1, EntrySumEmpty
  <1>9. EntrySum({new}) # 0
    BY <1>3, <1>7, <1>8
  <1> QED
    BY <1>4, <1>6, <1>9, Zenon DEF Unbalanced

\* An event that does not balance is found: the audit reported it, or will sum it.
SumFoundInv ==
    "zero_sum" \in symptoms =>
        \/ "zero_sum" \in failures
        \/ phase # "done" /\ \E e : Unbalanced(e)

LEMMA SumFoundStep ==
    ASSUME WorkInv, AuditInv, CleanInv, SumFoundInv, [DamageNext]_damagedVars
    PROVE  SumFoundInv'
  <1> SUFFICES ASSUME "zero_sum" \in symptoms'
               PROVE  \/ "zero_sum" \in failures'
                      \/ phase' # "done" /\ \E e : Unbalanced(e)'
    BY DEF SumFoundInv
  <1>1. CASE AuditStep /\ BesideDamage
    <2>1. /\ "zero_sum" \in symptoms /\ failures \subseteq failures'
          /\ journal_entries' = journal_entries
      BY <1>1, AuditKeeps
    <2>2. CASE "zero_sum" \in failures
      BY <2>1, <2>2
    <2>3. CASE "zero_sum" \notin failures
      <3>1. PICK e : Unbalanced(e)
        BY <2>1, <2>3 DEF SumFoundInv
      <3>2. Unbalanced(e)' /\ phase # "done"
        BY <2>1, <2>3, <3>1 DEF SumFoundInv, Unbalanced
      <3>3. CASE VerifyZeroSum
        <4>1. ~EventsBalance
          BY <3>1, EventsBalanceIs DEF Unbalanced
        <4> QED
          BY <3>3, <4>1 DEF VerifyZeroSum, Report
      <3>4. CASE ~VerifyZeroSum
        <4>1. phase' # "done"
          BY <1>1, <3>2, <3>4
             DEF AuditStep, StartAudit, VerifyAccountChain, ListCheckpoints,
                 VerifyCheckpointChain, ReadEntries, CompareBalance
        <4> QED
          BY <3>2, <4>1
      <3> QED
        BY <3>3, <3>4
    <2> QED
      BY <2>2, <2>3
  <1>2. CASE CheckpointNext /\ BesideAudit /\ BesideDamage
    <2>1. UNCHANGED <<phase, failures>> /\ "zero_sum" \in symptoms
      BY <1>2 DEF BesideAudit, BesideDamage
    <2>2. [Next]_vars
      BY <1>2, CheckpointsBesideEngine
    <2> QED
      BY <2>1, <2>2, UnbalancedStays DEF SumFoundInv
  <1>3. CASE Damage
    <2>1. Clean /\ phase' = "none" /\ "zero_sum" \notin symptoms
      BY <1>3 DEF Damage, Clean, untouchedVars, auditVars
    <2>2. SoundInv
      BY <2>1 DEF CleanInv
    <2>3. \A a \in Existing : ~DriftBalance(a) /\ ~DriftTip(a) /\ a \in Accounts
      BY <2>1 DEF DriftBalance, DriftTip, Existing
    <2>4. \A k \in checkpoints : /\ ~LoseCheckpoint(k)
                                  /\ \A a \in DOMAIN k.members : ~ChangeMember(k, a)
      BY DEF ChangeMember, LoseCheckpoint
    <2>5. \E f : Unbalanced(f)'
      BY <1>3, <2>2, <2>3, <2>4, ChangedAmountUnbalances, LostEntryUnbalances,
         SingleEntryUnbalances, Zenon DEF Damage
    <2> QED
      BY <2>1, <2>5
  <1>4. CASE UNCHANGED damagedVars
    <2>1. UNCHANGED <<phase, failures, symptoms, journal_entries>>
      BY <1>4 DEF damagedVars, systemVars, auditVars, damageVars, allVars, vars, tables
    <2> QED
      BY <2>1 DEF SumFoundInv, Unbalanced
  <1>5. CASE LoseNewest
    BY <1>5, NewestLost DEF Clean
  <1> QED
    BY <1>1, <1>2, <1>3, <1>4, <1>5, StepIs



-----------------------------------------------------------------------------
(***************************************************************************)
(* The chain of checkpoints: no creator at work mends what was broken.     *)
(***************************************************************************)
HashedRight(k) ==
    k.checkpoint_hash = ComputeCheckpointHash(k.previous_checkpoint_hash, k.members)

\* A checkpoint that was changed, or that lost the one it was built on and that every
\* creator at work will insert after.
Broken(k) ==
    /\ k \in checkpoints
    /\ \/ ~HashedRight(k)
       \/ /\ ~CheckpointValid(checkpoints, k)
          /\ \A c \in Creators : step[c] # "idle" =>
                \E i \in snapshot[c].checkpoints : i.sequence_number + 1 >= k.sequence_number

LEMMA BrokenIsInvalid == ASSUME NEW k, Broken(k) PROVE ~CheckpointValid(checkpoints, k)
  BY DEF Broken, CheckpointValid, HashedRight

LEMMA BrokenStays ==
    ASSUME CreatorWorkInv, [CheckpointNext]_allVars, NEW k, Broken(k)
    PROVE  Broken(k)'
  <1>1. k \in checkpoints /\ k \in CheckpointRows /\ k.sequence_number \in Nat
    BY DEF Broken, CreatorWorkInv, CheckpointRows
  <1>2. k \in checkpoints'
    BY <1>1, CreatorMoves
  <1>3. CASE ~HashedRight(k)
    BY <1>2, <1>3 DEF Broken, HashedRight
  <1>4. CASE HashedRight(k)
    <2>1. \A c \in Creators : step[c] # "idle" =>
                \E i \in snapshot[c].checkpoints : i.sequence_number + 1 >= k.sequence_number
      BY <1>4 DEF Broken
    <2>2. ASSUME NEW c \in Creators, step'[c] # "idle"
          PROVE  \E i \in snapshot'[c].checkpoints : i.sequence_number + 1 >= k.sequence_number
      <3>1. CASE step[c] # "idle" /\ snapshot'[c] = snapshot[c]
        BY <2>1, <3>1
      <3>2. CASE snapshot'[c] = [members |-> [a \in Existing |-> MemberOf(a)],
                                 checkpoints |-> checkpoints]
        <4>1. snapshot'[c].checkpoints = checkpoints
          BY <3>2
        <4>2. k.sequence_number + 1 >= k.sequence_number
          BY <1>1
        <4> QED
          BY <1>1, <4>1, <4>2
      <3> QED
        BY <2>2, <3>1, <3>2, CreatorMoves
    <2>3. ~CheckpointValid(checkpoints', k)
      <3>1. CASE checkpoints' = checkpoints
        BY <3>1, BrokenIsInvalid
      <3>2. ASSUME NEW c \in Creators, step[c] = "members",
                   checkpoints' = checkpoints \cup {inserted[c]}
            PROVE  ~CheckpointValid(checkpoints', k)
        <4>1. /\ snapshot[c].checkpoints \subseteq CheckpointRows
              /\ HasLast(snapshot[c].checkpoints) /\ snapshot[c].members \in MemberRows
              /\ inserted[c] = NextCheckpoint(snapshot[c].checkpoints, snapshot[c].members)
          BY <3>2 DEF CreatorWorkInv
        <4>2. PICK i \in snapshot[c].checkpoints : i.sequence_number + 1 >= k.sequence_number
          BY <2>1, <3>2
        <4>3. inserted[c].sequence_number > i.sequence_number
              /\ inserted[c].sequence_number \in Nat
          BY <4>1, NextCheckpointIs DEF CheckpointRows
        <4>4. i.sequence_number \in Nat
          BY <4>1 DEF CheckpointRows
        <4>5. ~(inserted[c].sequence_number < k.sequence_number)
          BY <1>1, <4>2, <4>3, <4>4
        <4>6. Earlier(checkpoints', k) = Earlier(checkpoints, k)
          BY <3>2, <4>5 DEF Earlier
        <4> QED
          BY <4>6, BrokenIsInvalid, Zenon DEF CheckpointValid
      <3> QED
        BY <3>1, <3>2, CreatorMoves
    <2> QED
      BY <1>2, <2>2, <2>3 DEF Broken
  <1> QED
    BY <1>3, <1>4

LEMMA ChangedMemberBreaks ==
    ASSUME CreatorWorkInv, IsLine(checkpoints), NEW k \in checkpoints,
           NEW a \in DOMAIN k.members, ChangeMember(k, a)
    PROVE  \E l : Broken(l)'
  <1>1. PICK new : new = WithMember(k, a)
    OBVIOUS
  <1>2. k \in CheckpointRows
    BY DEF CreatorWorkInv
  <1>3. /\ new \in CheckpointRows
        /\ new.checkpoint_hash = k.checkpoint_hash
        /\ new.previous_checkpoint_hash = k.previous_checkpoint_hash
        /\ new.members # k.members
    BY <1>1, <1>2, ChangedMember
  <1>4. k.checkpoint_hash = ComputeCheckpointHash(k.previous_checkpoint_hash, k.members)
    <2>1. PICK n \in Nat : Line(checkpoints, n)
      BY DEF IsLine
    <2> QED
      BY <2>1, Zenon DEF Line
  <1>5. /\ k.previous_checkpoint_hash \in Seq(MemberRows)
        /\ k.members \in MemberRows /\ new.members \in MemberRows
    BY <1>2, <1>3 DEF CheckpointRows
  <1>6. Append(k.previous_checkpoint_hash, k.members)
            # Append(k.previous_checkpoint_hash, new.members)
    BY <1>3, <1>5, AppendInjective
  <1>7. ~HashedRight(new)
    BY <1>3, <1>4, <1>6 DEF HashedRight, ComputeCheckpointHash
  <1>8. new \in checkpoints'
    BY <1>1 DEF ChangeMember, WithMember
  <1> QED
    BY <1>7, <1>8 DEF Broken, HashedRight

LEMMA LostCheckpointBreaks ==
    ASSUME CreatorWorkInv, IsLine(checkpoints), NEW k \in checkpoints, LoseCheckpoint(k),
           UNCHANGED <<step, snapshot>>
    PROVE  \E l : Broken(l)'
  <1>1. PICK n \in Nat : Line(checkpoints, n)
    BY DEF IsLine
  <1>2. \A j \in checkpoints : /\ j \in CheckpointRows /\ j.sequence_number \in 1..n
                               /\ j.previous_checkpoint_hash \in Seq(MemberRows)
                               /\ j.checkpoint_hash \in Seq(MemberRows)
                               /\ j.members \in MemberRows
                               /\ j.checkpoint_hash
                                    = Append(j.previous_checkpoint_hash, j.members)
    BY <1>1 DEF CreatorWorkInv, CheckpointRows, Line, ComputeCheckpointHash
  <1>3. PICK j \in checkpoints : j.sequence_number > k.sequence_number
    BY DEF LoseCheckpoint
  <1>4. k.sequence_number + 1 \in 1..n
    BY <1>2, <1>3
  <1>5. PICK l \in checkpoints : l.sequence_number = k.sequence_number + 1
    BY <1>1, <1>4 DEF Line
  <1>6. l.previous_checkpoint_hash = k.checkpoint_hash /\ l # k
    BY <1>1, <1>2, <1>5 DEF Line
  <1>7. checkpoints' = checkpoints \ {k}
    BY DEF LoseCheckpoint
  <1>8. PICK S : S = Earlier(checkpoints \ {k}, l)
    OBVIOUS
  <1>9. \A i \in S : /\ i \in checkpoints /\ i.sequence_number \in 1..n
                     /\ i.sequence_number < k.sequence_number
    <2>1. ASSUME NEW i \in S PROVE i.sequence_number < k.sequence_number
      <3>1. i \in checkpoints /\ i # k /\ i.sequence_number < l.sequence_number
        BY <1>8 DEF Earlier
      <3>2. i.sequence_number # k.sequence_number
        BY <1>1, <3>1 DEF Line
      <3> QED
        BY <1>2, <1>5, <3>1, <3>2
    <2> QED
      BY <1>2, <1>8, <2>1 DEF Earlier
  <1>10. k.checkpoint_hash # <<>> /\ k.checkpoint_hash # k.previous_checkpoint_hash
    <2>1. k.checkpoint_hash = Append(k.previous_checkpoint_hash, k.members)
          /\ k.previous_checkpoint_hash \in Seq(MemberRows) /\ k.members \in MemberRows
      BY <1>2
    <2>2. Len(k.checkpoint_hash) = Len(k.previous_checkpoint_hash) + 1
          /\ Len(k.previous_checkpoint_hash) \in Nat
      BY <2>1, AppendProperties, LenProperties
    <2>3. Len(k.checkpoint_hash) # 0 /\ Len(k.checkpoint_hash) # Len(k.previous_checkpoint_hash)
      BY <2>2
    <2>4. k.checkpoint_hash # k.previous_checkpoint_hash
      BY <2>3
    <2>5. k.checkpoint_hash # <<>>
      BY <2>1, AppendProperties
    <2> QED
      BY <2>4, <2>5
  <1>11. LastCheckpointHash(S) # k.checkpoint_hash
    <2>1. CASE S = {}
      BY <1>10, <2>1 DEF LastCheckpointHash
    <2>2. CASE S # {}
      <3>1. k.sequence_number - 1 \in 1..n
        BY <1>2, <1>9, <2>2
      <3>2. PICK x \in checkpoints : x.sequence_number = k.sequence_number - 1
        BY <1>1, <3>1 DEF Line
      <3>3. k.sequence_number = x.sequence_number + 1 /\ x # k
            /\ x.sequence_number < l.sequence_number
        BY <1>2, <1>5, <3>2
      <3>4. x \in S /\ k.previous_checkpoint_hash = x.checkpoint_hash
        BY <1>1, <1>8, <3>3 DEF Earlier, Line
      <3>5. \A i \in S : i.sequence_number \in Nat /\ i.sequence_number <= x.sequence_number
        BY <1>2, <1>9, <3>2
      <3>6. PICK i \in S : /\ i.sequence_number = x.sequence_number
                           /\ LastCheckpointHash(S) = i.checkpoint_hash
        BY <3>4, <3>5, LastCheckpointHashIs DEF IsLast
      <3>7. i = x
        BY <1>1, <1>9, <3>6 DEF Line
      <3> QED
        BY <1>10, <3>4, <3>6, <3>7
    <2> QED
      BY <2>1, <2>2
  <1>12. ~CheckpointValid(checkpoints', l)
    BY <1>6, <1>7, <1>8, <1>11 DEF CheckpointValid
  <1>13. ASSUME NEW c \in Creators, step'[c] # "idle"
         PROVE  \E i \in snapshot'[c].checkpoints : i.sequence_number + 1 >= l.sequence_number
    <2>1. k \in snapshot'[c].checkpoints
      BY <1>13 DEF LoseCheckpoint, Checkpointing
    <2>2. k.sequence_number + 1 >= l.sequence_number
      BY <1>2, <1>5
    <2> QED
      BY <2>1, <2>2
  <1>14. l \in checkpoints'
    BY <1>6, <1>7
  <1> QED
    BY <1>12, <1>13, <1>14 DEF Broken

\* A broken chain of checkpoints is found: the audit reported it, or has it listed, or
\* will list it.
CheckpointFoundInv ==
    "checkpoints" \in symptoms =>
        \/ "checkpoints" \in failures
        \/ phase \in {"none", "chain"} /\ \E k : Broken(k)
        \/ phase = "checkpoints" /\ ~CheckpointsValid

LEMMA CheckpointFoundStep ==
    ASSUME CreatorWorkInv, AuditInv, LineInv, CheckpointFoundInv, [DamageNext]_damagedVars
    PROVE  CheckpointFoundInv'
  <1>0. CheckpointsValid' <=> (\A k \in listed : CheckpointValid(listed, k))'
    BY CheckpointsValidIs, PTL
  <1> SUFFICES ASSUME "checkpoints" \in symptoms'
               PROVE  \/ "checkpoints" \in failures'
                      \/ phase' \in {"none", "chain"} /\ \E k : Broken(k)'
                      \/ phase' = "checkpoints" /\ ~CheckpointsValid'
    BY DEF CheckpointFoundInv
  <1>1. CASE AuditStep /\ BesideDamage
    <2>1. /\ "checkpoints" \in symptoms /\ failures \subseteq failures'
          /\ checkpoints' = checkpoints /\ step' = step /\ snapshot' = snapshot
      BY <1>1, AuditKeeps
    <2>2. \A k : Broken(k) => Broken(k)'
      BY <2>1 DEF Broken, HashedRight
    <2>3. CASE "checkpoints" \in failures
      BY <2>1, <2>3
    <2>4. CASE phase \in {"none", "chain"} /\ \E k : Broken(k)
      <3>1. CASE StartAudit
        BY <2>2, <2>4, <3>1 DEF StartAudit
      <3>2. CASE VerifyAccountChain
        BY <2>2, <2>4, <3>2 DEF VerifyAccountChain
      <3>3. CASE ListCheckpoints
        <4>1. phase' = "checkpoints" /\ listed' = checkpoints
          BY <3>3 DEF ListCheckpoints
        <4>2. PICK k : k \in checkpoints /\ ~CheckpointValid(checkpoints, k)
          BY <2>4, BrokenIsInvalid DEF Broken
        <4> QED
          BY <1>0, <4>1, <4>2, Zenon
      <3> QED
        BY <1>1, <2>4, <3>1, <3>2, <3>3
           DEF AuditStep, VerifyCheckpointChain, ReadEntries, CompareBalance, VerifyZeroSum
    <2>5. CASE phase = "checkpoints" /\ ~CheckpointsValid
      BY <1>1, <2>5 DEF AuditStep, StartAudit, VerifyAccountChain, ListCheckpoints,
                  VerifyCheckpointChain, ReadEntries, CompareBalance, VerifyZeroSum, Report
    <2> QED
      BY <2>1, <2>3, <2>4, <2>5 DEF CheckpointFoundInv
  <1>2. CASE CheckpointNext /\ BesideAudit /\ BesideDamage
    <2>1. UNCHANGED <<phase, listed, failures>> /\ "checkpoints" \in symptoms
      BY <1>2 DEF BesideAudit, BesideDamage
    <2>2. CheckpointsValid' <=> CheckpointsValid
      BY <1>0, <2>1, CheckpointsValidIs, Zenon
    <2> QED
      BY <1>2, <2>1, <2>2, BrokenStays, Zenon DEF CheckpointFoundInv
  <1>3. CASE Damage
    <2>1. /\ phase' = "none" /\ "checkpoints" \notin symptoms
          /\ UNCHANGED <<step, snapshot>>
      BY <1>3 DEF Damage, untouchedVars, auditVars
    <2>2. IsLine(checkpoints)
      BY <2>1 DEF LineInv, ChainInv
    <2>3. \A a \in Existing : ~DriftBalance(a) /\ ~DriftTip(a) /\ ~AddImbalanced(a)
      BY <2>1 DEF DriftBalance, DriftTip, AddImbalanced
    <2>4. \A e \in journal_entries : ~ChangeAmount(e) /\ ~LoseEntry(e)
      BY DEF ChangeAmount, LoseEntry
    <2>5. \E l : Broken(l)'
      BY <1>3, <2>1, <2>2, <2>3, <2>4, ChangedMemberBreaks, LostCheckpointBreaks, Zenon DEF Damage
    <2> QED
      BY <2>1, <2>5
  <1>4. CASE UNCHANGED damagedVars
    <2>1. UNCHANGED <<phase, listed, failures, symptoms, checkpoints, step, snapshot>>
      BY <1>4 DEF damagedVars, systemVars, auditVars, damageVars, allVars, checkpointVars
    <2>2. CheckpointsValid' <=> CheckpointsValid
      BY <1>0, <2>1, CheckpointsValidIs, Zenon
    <2>3. \A k : Broken(k)' <=> Broken(k)
      BY <2>1 DEF Broken, HashedRight
    <2> QED
      BY <2>1, <2>2, <2>3 DEF CheckpointFoundInv
  <1>5. CASE LoseNewest
    BY <1>5, NewestLost DEF Clean
  <1> QED
    BY <1>1, <1>2, <1>3, <1>4, <1>5, StepIs



-----------------------------------------------------------------------------
(***************************************************************************)
(* What the checks report, whatever the engine commits meanwhile.          *)
(***************************************************************************)
FoundInv == DriftInv /\ ChainFoundInv /\ SumFoundInv /\ CheckpointFoundInv

ReportInv == WorkInv /\ CreatorWorkInv /\ AuditInv /\ CleanInv /\ LineInv /\ FoundInv

LEMMA ReportInit == DamageInit => ReportInv
  <1> SUFFICES ASSUME DamageInit PROVE ReportInv
    OBVIOUS
  <1>1. /\ CheckpointInit /\ Init
        /\ phase = "none" /\ accountIds = {} /\ todo = {} /\ expected = <<>> /\ failures = {}
        /\ symptoms = {} /\ drifted = {}
    BY DEF DamageInit, AuditInit, CheckpointInit
  <1>2. WorkInv /\ CreatorWorkInv /\ SoundInv
    BY <1>1, WorkInit, CreatorWorkInit, SoundInit
  <1>3. AuditInv
    BY <1>1 DEF AuditInv, Phases
  <1>4. ChainInv
    BY <1>1, ChainInit
  <1> QED
    BY <1>1, <1>2, <1>3, <1>4
       DEF ReportInv, CleanInv, LineInv, FoundInv, DriftInv, ChainFoundInv, SumFoundInv,
           CheckpointFoundInv

LEMMA ReportStep == ReportInv /\ [DamageNext]_damagedVars => ReportInv'
  <1> SUFFICES ASSUME ReportInv, [DamageNext]_damagedVars PROVE ReportInv'
    OBVIOUS
  <1>1. /\ WorkInv /\ CreatorWorkInv /\ AuditInv /\ CleanInv /\ LineInv /\ TypeOK
        /\ DriftInv /\ ChainFoundInv /\ SumFoundInv /\ CheckpointFoundInv
    BY DEF ReportInv, FoundInv, WorkInv
  <1>2. WorkInv' /\ AuditInv' /\ CleanInv' /\ LineInv'
    BY <1>1, WorkInvStep, AuditInvStep, CleanStep, LineStep
  <1>3. CreatorWorkInv'
    <2>1. ASSUME LoseNewest PROVE ChainInv
      BY <1>1, <2>1, NewestLost DEF LineInv, Clean
    <2> QED
      BY <1>1, <2>1, StepOfTheLedger, CreatorWorkStep, DamageKeepsCreators,
         LostNewestKeepsCreators
  <1>4. DriftInv' /\ ChainFoundInv' /\ SumFoundInv' /\ CheckpointFoundInv'
    BY <1>1, DriftStep, ChainFoundStep, SumFoundStep, CheckpointFoundStep
  <1> QED
    BY <1>2, <1>3, <1>4 DEF ReportInv, FoundInv

LEMMA ReportInvHolds == DamageSpec => []ReportInv
  <1>1. ReportInv /\ [DamageNext]_<<systemVars, damageVars>> => ReportInv'
    BY ReportStep DEF damagedVars
  <1> QED
    BY ReportInit, <1>1, PTL DEF DamageSpec

LEMMA DoneReports == ReportInv /\ phase = "done" => symptoms \ {"balance"} \subseteq failures
  <1> SUFFICES ASSUME ReportInv, phase = "done", NEW s \in symptoms, s # "balance"
               PROVE  s \in failures
    OBVIOUS
  <1>1. /\ ChainFoundInv /\ SumFoundInv /\ CheckpointFoundInv /\ symptoms \subseteq Checks
    BY DEF ReportInv, FoundInv, AuditInv
  <1>2. s \in {"chain", "checkpoints", "zero_sum"}
    BY <1>1 DEF Checks
  <1> QED
    BY <1>1, <1>2 DEF ChainFoundInv, SumFoundInv, CheckpointFoundInv

\* Around and between the SELECTs of runFullAudit (run-audit.ts:24-49) postings and
\* checkpoints commit as they like: the checks of the hash chains, of the checkpoints and
\* of the zero sums still report every damage that is theirs, and accuse no sound ledger.
THEOREM SingleStatementChecksReportDamage == DamageSpec => []SingleStatementChecksAreRight
  <1>1. ReportInv => SingleStatementChecksAreRight
    <2> SUFFICES ASSUME ReportInv PROVE SingleStatementChecksAreRight
      OBVIOUS
    <2>1. Clean => failures \subseteq {"balance"}
      BY DEF ReportInv, CleanInv
    <2> QED
      BY <2>1, DoneReports DEF SingleStatementChecksAreRight, Clean
  <1> QED
    BY ReportInvHolds, <1>1, PTL



-----------------------------------------------------------------------------
(***************************************************************************)
(* A damaged ledger to which nothing was committed: each damage breaks     *)
(* what its checks look at, and nothing else.                              *)
(***************************************************************************)
AllValid == \A e \in journal_entries : EntryValid(journal_entries, e)

\* An account the stored balance of which is not what its entries give.
Off(a) == a \in Existing /\ ~Reconciles(a)

LEMMA AllValidIs == AllValid <=> \A e \in journal_entries : ChainValid(e.account_id)
  BY ChainValidIs, Zenon DEF AllValid

LEMMA SoundIsValid ==
    ASSUME WorkInv, SoundInv
    PROVE  AllValid /\ \A a \in Accounts : Chained(journal_entries, a,
                            account_state[a].latest_hash, account_state[a].latest_sequence)
  <1>1. /\ journal_entries \subseteq Entries
        /\ \A a \in Accounts : account_state[a].latest_sequence \in Nat
    BY DEF WorkInv, TypeOK, AccountStates
  <1>2. \A a \in Accounts : Chained(journal_entries, a,
                            account_state[a].latest_hash, account_state[a].latest_sequence)
    BY ChainIntactIsChained DEF SoundInv, EngineInv, EntryInv
  <1>3. \A e \in journal_entries : e.account_id \in Accounts
    BY <1>1 DEF Entries
  <1>4. ASSUME NEW e \in journal_entries PROVE EntryValid(journal_entries, e)
    BY <1>1, <1>2, <1>3, ChainedIsValid
  <1> QED
    BY <1>2, <1>4 DEF AllValid

\* The last entry of an account leaves a chain behind.
LEMMA LostLastLeavesValid ==
    ASSUME WorkInv, SoundInv, NEW e \in journal_entries, LoseEntry(e), ~HasSuccessor(e)
    PROVE  AllValid'
  <1>1. journal_entries' = journal_entries \ {e}
    BY DEF LoseEntry
  <1>2. ASSUME NEW f \in journal_entries', f.account_id = e.account_id
        PROVE  ~(e.sequence_number < f.sequence_number)
    <2>1. ~(f.sequence_number > e.sequence_number)
      BY <1>1, <1>2 DEF HasSuccessor, EntriesOf
    <2>2. f.sequence_number \in Int /\ e.sequence_number \in Int
      BY <1>1 DEF WorkInv, TypeOK, Entries
    <2> QED
      BY <2>1, <2>2
  <1>3. ASSUME NEW f \in journal_entries' PROVE EntryValid(journal_entries', f)
    <2>1. Before(journal_entries', f) = Before(journal_entries, f)
      BY <1>1, <1>2 DEF Before
    <2>2. EntryValid(journal_entries, f)
      BY <1>1, SoundIsValid DEF AllValid
    <2> QED
      BY <2>1, <2>2, Zenon DEF EntryValid
  <1> QED
    BY <1>3 DEF AllValid

LEMMA SingleEntryIsChained ==
    ASSUME WorkInv, SoundInv, NEW a \in Accounts, AddImbalanced(a)
    PROVE  AllValid'
  <1>1. PICK new : new = ImbalancedEntry(a)
    OBVIOUS
  <1>2. TypeOK /\ journal_entries \subseteq Entries
    BY DEF WorkInv, TypeOK
  <1>3. PICK n : n = account_state[a].latest_sequence
    OBVIOUS
  <1>4. n \in Nat /\ n + 1 \in Nat
    BY <1>2, <1>3 DEF TypeOK, AccountStates
  <1>5. /\ new \in Entries /\ new.account_id = a
        /\ Follows(new, account_state[a].latest_hash, n)
    BY <1>1, <1>2, <1>3, ImbalancedIs
  <1>6. journal_entries' = journal_entries \cup {new}
    BY <1>1 DEF AddImbalanced, ImbalancedEntry
  <1>7. Chained(journal_entries', a, new.entry_hash, n + 1)
    BY <1>2, <1>3, <1>4, <1>5, <1>6, SoundIsValid, AppendEntry
  <1>8. journal_entries' \subseteq Entries
    BY <1>2, <1>5, <1>6
  <1>9. ASSUME NEW f \in journal_entries' PROVE EntryValid(journal_entries', f)
    <2>1. CASE f.account_id = a
      BY <1>4, <1>7, <1>8, <2>1, ChainedIsValid
    <2>2. CASE f.account_id # a
      <3>1. EntryValid(journal_entries, f)
        BY <1>5, <1>6, <2>2, SoundIsValid DEF AllValid
      <3> QED
        BY <1>5, <1>6, <2>2, <3>1, ValidBelow
    <2> QED
      BY <2>1, <2>2
  <1> QED
    BY <1>9 DEF AllValid

\* A sum with and without one of its entries.
LEMMA RecoveredWithout ==
    ASSUME NEW side, NEW S, IsFiniteSet(S), S \subseteq Entries, NEW e \in S
    PROVE  /\ SetSum(Recovered(side), S)
                = ReconciledDelta(side, e.signed_amount) + SetSum(Recovered(side), S \ {e})
           /\ SetSum(Recovered(side), S \ {e}) \in Int
           /\ SetSum(Recovered(side), S) \in Int
           /\ ReconciledDelta(side, e.signed_amount) \in Int
           /\ e.signed_amount # 0 => ReconciledDelta(side, e.signed_amount) # 0
           /\ e.signed_amount \in Int
  <1>1. \A x \in S : Recovered(side)[x] \in Int
    BY RecoveredIsInt
  <1>2. IsFiniteSet(S \ {e})
    BY FS_Subset
  <1>3. Recovered(side)[e] = ReconciledDelta(side, e.signed_amount)
    BY DEF Recovered
  <1>4. e.signed_amount \in Int
    BY DEF Entries
  <1>5. SetSum(Recovered(side), S) = Recovered(side)[e] + SetSum(Recovered(side), S \ {e})
    BY <1>1, SumWithout
  <1>6. SetSum(Recovered(side), S \ {e}) \in Int /\ SetSum(Recovered(side), S) \in Int
    BY <1>1, <1>2, SumIsInt
  <1> QED
    BY <1>3, <1>4, <1>5, <1>6 DEF ReconciledDelta

\* What a balance is compared with, before a damage of the journal.
LEMMA SoundSums ==
    ASSUME WorkInv, SoundInv, NEW e \in journal_entries
    PROVE  /\ e.account_id \in Existing
           /\ e \in JournalOf(e.account_id)
           /\ JournalOf(e.account_id) \subseteq Entries /\ IsFiniteSet(JournalOf(e.account_id))
           /\ e.signed_amount # 0
           /\ Reconciles(e.account_id)
  <1>1. /\ e.account_id \in Accounts
        /\ journal_entries \subseteq Entries /\ IsFiniteSet(journal_entries)
    BY DEF WorkInv, TypeOK, Entries
  <1> QED
    BY <1>1, FS_Subset DEF WorkInv, OwnInv, Existing, JournalOf, SoundInv, SumInv, ZeroInv

LEMMA ChangedAmountUnreconciles ==
    ASSUME WorkInv, SoundInv, NEW e \in journal_entries, ChangeAmount(e),
           account_type' = account_type
    PROVE  \E a : Off(a)'
  <1> DEFINE a == e.account_id
             S == JournalOf(a)
             side == NormalBalanceSide(account_type[a])
             sum(T) == SetSum(Recovered(side), T)
  <1>1. PICK new : new = [e EXCEPT !.signed_amount = 2 * @]
    OBVIOUS
  <1>2. /\ a \in Existing /\ e \in S /\ S \subseteq Entries /\ IsFiniteSet(S)
        /\ e.signed_amount # 0 /\ e \in Entries
        /\ account_state[a].current_balance = sum(S)
    BY SoundSums DEF Reconciles
  <1>3. e.signed_amount \in Int
    BY <1>2 DEF Entries
  <1>4. /\ new \in Entries /\ new.account_id = a
        /\ new.signed_amount = 2 * e.signed_amount
    BY <1>1, <1>2, <1>3 DEF Entries
  <1>5. journal_entries' = (journal_entries \ {e}) \cup {new} /\ account_state' = account_state
    BY <1>1 DEF ChangeAmount
  <1>6. JournalOf(a)' = (S \ {e}) \cup {new}
    BY <1>4, <1>5 DEF JournalOf
  <1> HIDE DEF S, a
  <1>7. /\ sum(S) = ReconciledDelta(side, e.signed_amount) + sum(S \ {e})
        /\ sum(S \ {e}) \in Int
        /\ ReconciledDelta(side, e.signed_amount) \in Int
        /\ ReconciledDelta(side, e.signed_amount) # 0
    BY <1>2, RecoveredWithout
  <1>8. IsFiniteSet((S \ {e}) \cup {new}) /\ (S \ {e}) \cup {new} \subseteq Entries
    BY <1>2, <1>4, FS_AddElement, FS_RemoveElement
  <1>9. sum((S \ {e}) \cup {new}) # sum(S)
    <2>1. CASE new \in S \ {e}
      <3>1. (S \ {e}) \cup {new} = S \ {e}
        BY <2>1
      <3> HIDE DEF sum
      <3> QED
        BY <1>7, <3>1
    <2>2. CASE new \notin S \ {e}
      <3>1. ((S \ {e}) \cup {new}) \ {new} = S \ {e}
        BY <2>2
      <3>2. sum((S \ {e}) \cup {new})
                = ReconciledDelta(side, new.signed_amount) + sum(((S \ {e}) \cup {new}) \ {new})
        BY <1>8, RecoveredWithout
      <3>3. ReconciledDelta(side, new.signed_amount)
                = ReconciledDelta(side, e.signed_amount) + ReconciledDelta(side, e.signed_amount)
        BY <1>3, <1>4 DEF ReconciledDelta
      <3>4. sum((S \ {e}) \cup {new})
                = ReconciledDelta(side, e.signed_amount) + ReconciledDelta(side, e.signed_amount)
                    + sum(S \ {e})
        BY <3>1, <3>2, <3>3
      <3> HIDE DEF sum
      <3> QED
        BY <1>7, <3>4
    <2> QED
      BY <2>1, <2>2
  <1>10. account_state'[a].current_balance
            # SetSum(Recovered(NormalBalanceSide(account_type'[a])), JournalOf(a)')
    BY <1>2, <1>5, <1>6, <1>9, Zenon
  <1> QED
    BY <1>2, <1>10, Zenon DEF Off, Reconciles, Existing


LEMMA LostEntryUnreconciles ==
    ASSUME WorkInv, SoundInv, NEW e \in journal_entries, LoseEntry(e),
           account_type' = account_type
    PROVE  \E a : Off(a)'
  <1> DEFINE a == e.account_id
             S == JournalOf(a)
             side == NormalBalanceSide(account_type[a])
  <1>1. /\ a \in Existing /\ e \in S /\ S \subseteq Entries /\ IsFiniteSet(S)
        /\ e.signed_amount # 0
        /\ account_state[a].current_balance = SetSum(Recovered(side), S)
    BY SoundSums DEF Reconciles
  <1>2. journal_entries' = journal_entries \ {e} /\ account_state' = account_state
    BY DEF LoseEntry
  <1>3. JournalOf(a)' = S \ {e}
    BY <1>2 DEF JournalOf
  <1> HIDE DEF S, a
  <1>4. SetSum(Recovered(side), S \ {e}) # SetSum(Recovered(side), S)
    <2>1. /\ SetSum(Recovered(side), S)
                = ReconciledDelta(side, e.signed_amount) + SetSum(Recovered(side), S \ {e})
          /\ SetSum(Recovered(side), S \ {e}) \in Int
          /\ ReconciledDelta(side, e.signed_amount) \in Int
          /\ ReconciledDelta(side, e.signed_amount) # 0
      BY <1>1, RecoveredWithout
    <2> QED
      BY <2>1
  <1>5. account_state'[a].current_balance
            # SetSum(Recovered(NormalBalanceSide(account_type'[a])), JournalOf(a)')
    BY <1>1, <1>2, <1>3, <1>4, Zenon
  <1> QED
    BY <1>1, <1>5, Zenon DEF Off, Reconciles, Existing

LEMMA DriftUnreconciles ==
    ASSUME WorkInv, SoundInv, NEW a \in Existing, DriftBalance(a), account_type' = account_type
    PROVE  Off(a)'
  <1>1. a \in Accounts /\ account_state[a].current_balance \in Int
    BY DEF Existing, WorkInv, TypeOK, AccountStates
  <1>2. account_state'[a].current_balance = account_state[a].current_balance + 1
        /\ journal_entries' = journal_entries
    BY <1>1 DEF DriftBalance, WorkInv, TypeOK, AccountStates
  <1>3. account_state[a].current_balance
            = SetSum(Recovered(NormalBalanceSide(account_type[a])), JournalOf(a))
    BY <1>1 DEF SoundInv, SumInv, Reconciles
  <1>4. JournalOf(a)' = JournalOf(a)
    BY <1>2 DEF JournalOf
  <1>5. account_state'[a].current_balance # account_state[a].current_balance
    BY <1>1, <1>2
  <1>6. account_state'[a].current_balance
            # SetSum(Recovered(NormalBalanceSide(account_type'[a])), JournalOf(a)')
    BY <1>3, <1>4, <1>5, Zenon
  <1> QED
    BY <1>6, Zenon DEF Off, Reconciles, Existing

LEMMA SingleEntryUnreconciles ==
    ASSUME WorkInv, SoundInv, NEW a \in Existing, AddImbalanced(a), account_type' = account_type
    PROVE  Off(a)'
  <1> DEFINE S == JournalOf(a)
             side == NormalBalanceSide(account_type[a])
  <1>1. PICK new : new = ImbalancedEntry(a)
    OBVIOUS
  <1>2. /\ a \in Accounts /\ TypeOK /\ OwnInv
        /\ journal_entries \subseteq Entries /\ IsFiniteSet(journal_entries) /\ nextId \in Nat
    BY DEF WorkInv, TypeOK, Existing
  <1>3. /\ new \in Entries /\ new.account_id = a /\ new.event_id = nextId
        /\ new.signed_amount \in {1, -1}
    BY <1>1, <1>2, ImbalancedIs DEF ToStoredSignedAmount
  <1>4. journal_entries' = journal_entries \cup {new} /\ account_state' = account_state
    BY <1>1 DEF AddImbalanced, ImbalancedEntry
  <1>5. new \notin journal_entries
    BY <1>2, <1>3 DEF OwnInv, Entries
  <1>6. JournalOf(a)' = S \cup {new} /\ new \notin S
    BY <1>3, <1>4, <1>5 DEF JournalOf
  <1>7. S \subseteq Entries /\ IsFiniteSet(S)
    BY <1>2, FS_Subset DEF JournalOf
  <1>8. account_state[a].current_balance = SetSum(Recovered(side), S)
    BY <1>2 DEF SoundInv, SumInv, Reconciles
  <1> HIDE DEF S
  <1>9. SetSum(Recovered(side), S \cup {new}) # SetSum(Recovered(side), S)
    <2>1. PICK T : T = S \cup {new}
      OBVIOUS
    <2>2. T \subseteq Entries /\ IsFiniteSet(T) /\ new \in T /\ T \ {new} = S
      BY <1>3, <1>6, <1>7, <2>1, FS_AddElement
    <2>3. /\ SetSum(Recovered(side), T)
                = ReconciledDelta(side, new.signed_amount) + SetSum(Recovered(side), S)
          /\ SetSum(Recovered(side), S) \in Int
          /\ ReconciledDelta(side, new.signed_amount) \in Int
          /\ new.signed_amount # 0 => ReconciledDelta(side, new.signed_amount) # 0
      BY <2>2, RecoveredWithout
    <2>4. new.signed_amount # 0
      BY <1>3
    <2>5. SetSum(Recovered(side), T) # SetSum(Recovered(side), S)
      BY <2>3, <2>4
    <2> QED
      BY <2>1, <2>5
  <1>10. account_state'[a].current_balance
            # SetSum(Recovered(NormalBalanceSide(account_type'[a])), JournalOf(a)')
    BY <1>4, <1>6, <1>8, <1>9, Zenon
  <1> QED
    BY <1>10, Zenon DEF Off, Reconciles, Existing

\* Each damage breaks what its symptoms say, and nothing else.
ExactState ==
    /\ "chain" \notin symptoms => AllValid
    /\ "zero_sum" \notin symptoms => EventsBalance
    /\ "balance" \notin symptoms => \A a \in Existing : Reconciles(a)

LEMMA DamageIsExact ==
    ASSUME WorkInv, SoundInv, Damage
    PROVE  ExactState' /\ ("balance" \in symptoms' => \E a : Off(a)')
  <1>1. account_type' = account_type
    BY DEF Damage, untouchedVars
  <1>2. AllValid /\ EventsBalance /\ \A a \in Accounts : Reconciles(a)
    BY SoundIsValid DEF SoundInv, ZeroInv, SumInv
  <1>3. ASSUME journal_entries' = journal_entries PROVE AllValid' /\ EventsBalance'
    <2>1. EventsBalance' <=>
            (\A e \in journal_entries : EntrySum(OfEvent(journal_entries, e.event_id)) = 0)'
      BY EventsBalanceIs, PTL
    <2> QED
      BY <1>2, <1>3, <2>1, EventsBalanceIs, Zenon DEF AllValid
  <1>4. ASSUME journal_entries' = journal_entries,
               \A a \in Accounts :
                    account_state'[a].current_balance = account_state[a].current_balance
        PROVE  \A a \in Existing' : Reconciles(a)'
    BY <1>1, <1>2, <1>4 DEF Reconciles, JournalOf, Existing
  <1>5. ASSUME NEW e \in journal_entries, ChangeAmount(e)
        PROVE  ExactState' /\ \E a : Off(a)'
    <2>1. symptoms' = {"chain", "balance", "zero_sum"}
      BY <1>5 DEF ChangeAmount
    <2> QED
      BY <1>1, <1>5, <2>1, ChangedAmountUnreconciles DEF ExactState
  <1>6. ASSUME NEW e \in journal_entries, LoseEntry(e)
        PROVE  ExactState' /\ \E a : Off(a)'
    <2>1. {"balance", "zero_sum"} \subseteq symptoms' /\ (HasSuccessor(e) => "chain" \in symptoms')
      BY <1>6 DEF LoseEntry
    <2>2. "chain" \notin symptoms' => AllValid'
      BY <1>6, <2>1, LostLastLeavesValid
    <2> QED
      BY <1>1, <1>6, <2>1, <2>2, LostEntryUnreconciles DEF ExactState
  <1>7. ASSUME NEW a \in Existing, DriftBalance(a)
        PROVE  ExactState' /\ \E b : Off(b)'
    <2>1. symptoms' = {"balance"} /\ journal_entries' = journal_entries
      BY <1>7 DEF DriftBalance
    <2> QED
      BY <1>1, <1>3, <1>7, <2>1, DriftUnreconciles DEF ExactState
  <1>8. ASSUME NEW a \in Existing, AddImbalanced(a)
        PROVE  ExactState' /\ \E b : Off(b)'
    <2>1. symptoms' = {"balance", "zero_sum"} /\ a \in Accounts
      BY <1>8 DEF AddImbalanced, Existing
    <2> QED
      BY <1>1, <1>8, <2>1, SingleEntryUnreconciles, SingleEntryIsChained DEF ExactState
  <1>9. ASSUME NEW a \in Existing, DriftTip(a)
        PROVE  ExactState' /\ "balance" \notin symptoms'
    <2>1. /\ journal_entries' = journal_entries /\ "balance" \notin symptoms'
          /\ \A b \in Accounts :
                account_state'[b].current_balance = account_state[b].current_balance
      BY <1>9 DEF DriftTip, Damage, WorkInv, TypeOK, AccountStates, Existing
    <2> QED
      BY <1>3, <1>4, <2>1 DEF ExactState
  <1>10. ASSUME NEW k \in checkpoints,
                LoseCheckpoint(k) \/ \E a \in DOMAIN k.members : ChangeMember(k, a)
         PROVE  ExactState' /\ "balance" \notin symptoms'
    <2>1. journal_entries' = journal_entries /\ account_state' = account_state
          /\ symptoms' = {"checkpoints"}
      BY <1>10 DEF LoseCheckpoint, ChangeMember
    <2>2. "balance" \notin symptoms'
      BY <2>1
    <2> QED
      BY <1>3, <1>4, <2>1, <2>2 DEF ExactState
  <1> QED
    BY <1>5, <1>6, <1>7, <1>8, <1>9, <1>10, Zenon DEF Damage


\* What moves while nothing is added to the journal.
LEMMA QuietMoves ==
    ASSUME WorkInv, [DamageNext]_damagedVars, ~Damage, journal_entries' = journal_entries
    PROVE  /\ \A a \in Existing : /\ a \in Existing'
                                  /\ Off(a)' <=> Off(a)
                                  /\ Reconciles(a)' <=> Reconciles(a)
           /\ \A a \in Existing' \ Existing : Reconciles(a)'
  <1>0. TypeOK /\ [Next]_vars
    BY StepOfTheLedger DEF WorkInv
  <1>1. \A a \in Existing : a \in Existing' /\ account_type'[a] = account_type[a]
    BY <1>0, ExistingStay
  <1>2. \A a \in Existing : account_state'[a] = account_state[a]
    BY <1>0, TipMoves
  <1>3. \A a : JournalOf(a)' = JournalOf(a)
    BY DEF JournalOf
  <1>4. \A a \in Existing : Reconciles(a)' <=> Reconciles(a)
    BY <1>1, <1>2, <1>3, Zenon DEF Reconciles
  <1>5. ASSUME NEW a \in Existing', a \notin Existing PROVE Reconciles(a)'
    <2>1. account_type[a] = NoType /\ account_type'[a] # NoType /\ a \in Accounts
      BY <1>5 DEF Existing
    <2>2. account_state'[a] = NewAccountState
      <3>1. ASSUME NEW b \in Accounts, NEW type \in AccountTypes, CreateAccount(b, type)
            PROVE  account_state'[a] = NewAccountState
        BY <1>0, <2>1, <3>1 DEF CreateAccount, TypeOK
      <3>2. ASSUME NEW r \in Requests, Commits(r) PROVE account_type' = account_type
        BY <3>2 DEF Commits, Publish
      <3> QED
        BY <1>0, <2>1, <3>1, <3>2, TableStep
    <2>3. JournalOf(a)' = {}
      BY <2>1 DEF JournalOf, WorkInv, OwnInv
    <2> QED
      BY <2>2, <2>3, SumOfEmpty DEF Reconciles, NewAccountState
  <1> QED
    BY <1>1, <1>4, <1>5, Zenon DEF Off

\* A step of the engine that adds nothing to a damaged ledger.
LEMMA QuietStep ==
    ASSUME CheckpointNext, BesideAudit, BesideDamage, ~touched',
           Clean => ~writes'
    PROVE  /\ journal_entries' = journal_entries
           /\ symptoms' = symptoms /\ drifted' = drifted
           /\ ~touched /\ (Clean' <=> Clean) /\ (Clean => ~writes)
  <1>1. journal_entries' = journal_entries
    BY Zenon DEF BesideAudit, BesideDamage, Clean
  <1>2. symptoms' = symptoms /\ drifted' = drifted
    BY <1>1 DEF BesideDamage
  <1>3. ~touched /\ (Clean => ~writes)
    BY Zenon DEF BesideDamage, BesideAudit
  <1> QED
    BY <1>1, <1>2, <1>3 DEF Clean

\* Until something is committed to the damaged ledger, its checks see what was damaged.
ExactInv ==
    ~Clean /\ ~touched =>
        /\ ExactState
        /\ phase = "none" /\ "balance" \in symptoms => \E a : Off(a)
        /\ failures \ {"balance"} \subseteq symptoms

LEMMA ExactStep ==
    ASSUME WorkInv, AuditInv, CleanInv, LineInv, ExactInv, [DamageNext]_damagedVars
    PROVE  ExactInv'
  <1> SUFFICES ASSUME ~Clean', ~touched'
               PROVE  /\ ExactState'
                      /\ phase' = "none" /\ "balance" \in symptoms' => \E a : Off(a)'
                      /\ failures' \ {"balance"} \subseteq symptoms'
    BY DEF ExactInv
  <1>0. EventsBalance' <=>
            (\A e \in journal_entries : EntrySum(OfEvent(journal_entries, e.event_id)) = 0)'
    BY EventsBalanceIs, PTL
  <1>00. journal_entries' = journal_entries =>
            (AllValid' <=> AllValid) /\ (EventsBalance' <=> EventsBalance)
    BY <1>0, EventsBalanceIs, Zenon DEF AllValid
  <1>1. CASE AuditStep /\ BesideDamage
    <2>1. /\ symptoms' = symptoms /\ journal_entries' = journal_entries
          /\ account_state' = account_state /\ account_type' = account_type /\ Existing' = Existing
          /\ drifted' = drifted
      BY <1>1, AuditKeeps
    <2>2. ~Clean /\ ~touched
      BY <1>1, <2>1, AuditReads, Zenon DEF Clean
    <2>3. ExactState /\ failures \ {"balance"} \subseteq symptoms
      BY <2>2 DEF ExactInv
    <2>4. ExactState'
      BY <1>00, <2>1, <2>3 DEF ExactState, Reconciles, JournalOf
    <2>5. phase' # "none"
      BY <1>1 DEF AuditStep, StartAudit, VerifyAccountChain, ListCheckpoints,
                  VerifyCheckpointChain, ReadEntries, CompareBalance, VerifyZeroSum
    <2>6. failures' \ {"balance"} \subseteq symptoms
      <3>1. CASE VerifyAccountChain
        <4>1. PICK a \in Accounts : Report("chain", ChainValid(a))
          BY <3>1 DEF VerifyAccountChain
        <4>2. "chain" \notin symptoms => ChainValid(a)
          BY <2>3, ChainValidIs DEF ExactState, AllValid
        <4> QED
          BY <2>3, <4>1, <4>2 DEF Report
      <3>2. CASE VerifyCheckpointChain
        <4>1. "checkpoints" \notin symptoms => "checkpoints" \notin failures'
          BY <2>1, LineStep DEF LineInv
        <4> QED
          BY <2>3, <3>2, <4>1 DEF VerifyCheckpointChain, Report
      <3>3. CASE VerifyZeroSum
        BY <2>3, <3>3 DEF VerifyZeroSum, Report, ExactState
      <3>4. CASE CompareBalance
        BY <2>3, <3>4 DEF CompareBalance, Report
      <3>5. CASE StartAudit \/ ListCheckpoints \/ ReadEntries
        BY <2>3, <3>5 DEF StartAudit, ListCheckpoints, ReadEntries
      <3> QED
        BY <1>1, <3>1, <3>2, <3>3, <3>4, <3>5 DEF AuditStep
    <2> QED
      BY <2>1, <2>4, <2>5, <2>6
  <1>2. CASE CheckpointNext /\ BesideAudit /\ BesideDamage
    <2>1. ~Clean
      BY <1>2 DEF BesideDamage, Clean
    <2>2. /\ journal_entries' = journal_entries /\ symptoms' = symptoms /\ ~touched
      BY <1>2, <2>1, QuietStep
    <2>3. ~Damage
      BY <2>1 DEF Damage, Clean
    <2>4. /\ ExactState
          /\ phase = "none" /\ "balance" \in symptoms => \E a : Off(a)
          /\ failures \ {"balance"} \subseteq symptoms
      BY <2>1, <2>2 DEF ExactInv
    <2>5. UNCHANGED <<phase, failures>>
      BY <1>2 DEF BesideAudit
    <2>6. /\ \A a \in Existing : (Off(a)' <=> Off(a)) /\ (Reconciles(a)' <=> Reconciles(a))
          /\ \A a \in Existing' \ Existing : Reconciles(a)'
      BY <2>2, <2>3, QuietMoves
    <2>7. ExactState'
      BY <1>00, <2>2, <2>4, <2>6, Zenon DEF ExactState
    <2>8. \A a : Off(a) => Off(a)'
      BY <2>6, Zenon DEF Off
    <2> QED
      BY <2>2, <2>4, <2>5, <2>7, <2>8
  <1>3. CASE Damage
    <2>1. /\ Clean /\ phase = "none" /\ failures' = failures
      BY <1>3 DEF Damage, Clean, untouchedVars, auditVars
    <2>2. SoundInv /\ failures = {}
      BY <2>1 DEF CleanInv, AuditInv
    <2> QED
      BY <1>3, <2>1, <2>2, DamageIsExact
  <1>4. CASE UNCHANGED damagedVars
    <2>1. UNCHANGED <<phase, failures, symptoms, drifted, touched, journal_entries,
                      account_state, account_type>>
      BY <1>4 DEF damagedVars, systemVars, auditVars, damageVars, allVars, vars, tables
    <2>2. ~Clean /\ ~touched
      BY <2>1, Zenon DEF Clean
    <2> QED
      BY <1>00, <2>1, <2>2 DEF ExactInv, ExactState, Off, Reconciles, JournalOf, Existing
  <1>5. CASE LoseNewest
    BY <1>5, NewestLost DEF Clean
  <1> QED
    BY <1>1, <1>2, <1>3, <1>4, <1>5, StepIs



-----------------------------------------------------------------------------
(***************************************************************************)
(* An audit beside which nothing is committed.                             *)
(***************************************************************************)
\* The balance the audit recomputes is the sum of the entries of the account.
LEMMA RecomputedIs ==
    ASSUME TypeOK, IsFiniteSet(journal_entries), NEW a \in Accounts
    PROVE  RecomputedBalance(a)
              = SetSum(Recovered(NormalBalanceSide(account_type[a])), JournalOf(a))
  <1> DEFINE Fold(S, side) == (CHOOSE iter : iter = [T \in SUBSET S |->
                IF T = {} THEN 0
                ELSE LET x == CHOOSE x \in T : TRUE
                     IN  ReconciledDelta(side, x.signed_amount) + iter[T \ {x}]])[S]
  <1>1. RecomputedBalance(a)
            = Fold({e \in journal_entries : e.account_id = a}, NormalBalanceSide(account_type[a]))
    BY Zenon DEF RecomputedBalance, EntriesOf, MapThenSumSet, MapThenFoldSet
  <1>2. JournalOf(a) \subseteq Entries /\ IsFiniteSet(JournalOf(a))
    BY FS_Subset DEF TypeOK, JournalOf
  <1>3. \A side : Fold(JournalOf(a), side) = SetSum(Recovered(side), JournalOf(a))
    BY Zenon, <1>2, RecoveredFold
  <1> HIDE DEF Fold
  <1> QED
    BY <1>1, <1>3, Zenon DEF JournalOf

\* The damage was not built on, and nothing was committed since a sound ledger's audit began.
Settled == ~touched /\ (Clean => ~writes)

\* The comparison of the balances is as exact as the rows stand still.
QuietInv ==
    Settled /\ phase # "none" =>
        /\ "balance" \in failures => "balance" \in symptoms
        /\ "balance" \in symptoms =>
              \/ "balance" \in failures
              \/ \E a \in accountIds :
                    /\ Off(a)
                    /\ phase \in {"chain", "checkpoints"} \/ (phase = "balance" /\ a \in todo)
        /\ \A a \in Accounts : expected # <<>> /\ NextAccount(a) =>
              expected = <<SetSum(Recovered(NormalBalanceSide(account_type[a])), JournalOf(a))>>

LEMMA QuietInvStep ==
    ASSUME WorkInv, AuditInv, CleanInv, ExactInv, QuietInv, [DamageNext]_damagedVars
    PROVE  QuietInv'
  <1> DEFINE Sum(a) == SetSum(Recovered(NormalBalanceSide(account_type[a])), JournalOf(a))
  <1> SUFFICES ASSUME Settled', phase' # "none" PROVE
        /\ "balance" \in failures' => "balance" \in symptoms'
        /\ "balance" \in symptoms' =>
              \/ "balance" \in failures'
              \/ \E a \in accountIds' :
                    /\ Off(a)'
                    /\ phase' \in {"chain", "checkpoints"} \/ (phase' = "balance" /\ a \in todo')
        /\ \A a \in Accounts : expected' # <<>> /\ NextAccount(a)' => expected' = <<Sum(a)'>>
    BY DEF QuietInv
  <1>0. TypeOK /\ IsFiniteSet(journal_entries) /\ Accounts \subseteq Nat
    BY AccountsAssumption DEF WorkInv
  <1>1. CASE AuditStep /\ BesideDamage
    <2>1. /\ symptoms' = symptoms /\ drifted' = drifted /\ failures \subseteq failures'
          /\ \A a : Off(a)' <=> Off(a)
          /\ \A a : Sum(a)' = Sum(a)
      BY <1>1, AuditKeeps DEF Off, Reconciles, JournalOf
    <2>2. ~touched
      BY <1>1, AuditReads, Zenon DEF Settled
    <2>3. CASE StartAudit
      <3>1. failures' = {} /\ expected' = <<>> /\ phase' = "chain" /\ accountIds' = Existing
        BY <2>3 DEF StartAudit, AuditInv
      <3>2. "balance" \in symptoms => \E a : Off(a)
        BY <2>2, <2>3 DEF StartAudit, ExactInv, Clean
      <3> QED
        BY <2>1, <3>1, <3>2 DEF Off
    <2>4. CASE ~StartAudit
      <3>1. writes' = writes /\ phase # "none" /\ accountIds' = accountIds
        BY <1>1, <2>4 DEF AuditStep, VerifyAccountChain, ListCheckpoints, VerifyCheckpointChain,
                          ReadEntries, CompareBalance, VerifyZeroSum
      <3>2. Settled
        BY <2>1, <2>2, <3>1, Zenon DEF Settled, Clean
      <3>3. /\ "balance" \in failures => "balance" \in symptoms
            /\ "balance" \in symptoms =>
                  \/ "balance" \in failures
                  \/ \E a \in accountIds :
                        /\ Off(a)
                        /\ phase \in {"chain", "checkpoints"} \/ (phase = "balance" /\ a \in todo)
            /\ \A a \in Accounts : expected # <<>> /\ NextAccount(a) => expected = <<Sum(a)>>
        BY <3>1, <3>2 DEF QuietInv
      <3> HIDE DEF Sum
      <3>4. CASE VerifyAccountChain
        <4>1. /\ phase = "chain" /\ phase' = "chain" /\ expected' = expected
              /\ \E valid \in BOOLEAN : Report("chain", valid)
          BY <3>4 DEF VerifyAccountChain, Report
        <4>2. expected = <<>>
          BY <4>1 DEF AuditInv
        <4> QED
          BY <2>1, <3>1, <3>3, <4>1, <4>2 DEF Report
      <3>5. CASE ListCheckpoints
        <4>1. expected = <<>>
          BY <3>5 DEF AuditInv, ListCheckpoints
        <4> QED
          BY <2>1, <3>1, <3>3, <3>5, <4>1 DEF ListCheckpoints
      <3>6. CASE VerifyCheckpointChain
        <4>1. expected = <<>>
          BY <3>6 DEF AuditInv, VerifyCheckpointChain
        <4> QED
          BY <2>1, <3>1, <3>3, <3>6, <4>1 DEF VerifyCheckpointChain, Report
      <3>7. CASE ReadEntries
        <4>1. PICK a \in Accounts : NextAccount(a) /\ expected' = <<RecomputedBalance(a)>>
          BY <3>7 DEF ReadEntries
        <4>2. expected' = <<Sum(a)>>
          BY <1>0, <4>1, RecomputedIs DEF Sum
        <4>3. UNCHANGED <<phase, todo, failures>>
          BY <3>7 DEF ReadEntries
        <4>4. \A b \in Accounts : NextAccount(b)' => b = a
          BY <1>0, <4>1, <4>3 DEF NextAccount
        <4> QED
          BY <2>1, <3>1, <3>3, <4>2, <4>3, <4>4
      <3>8. CASE CompareBalance
        <4>1. PICK a \in Accounts :
                /\ NextAccount(a) /\ todo' = todo \ {a}
                /\ Report("balance", account_state[a].current_balance = expected[1])
          BY <3>8 DEF CompareBalance
        <4>2. phase = "balance" /\ phase' = phase /\ expected # <<>> /\ expected' = <<>>
          BY <3>8 DEF CompareBalance
        <4>3. a \in Existing
          BY <4>1 DEF NextAccount, AuditInv
        <4>4. account_state[a].current_balance = expected[1] <=> Reconciles(a)
          BY <3>3, <4>1, <4>2 DEF Reconciles, Sum
        <4>5. ~Reconciles(a) => "balance" \in symptoms
          <5>1. CASE Clean
            BY <4>3, <5>1 DEF CleanInv, SoundInv, SumInv, Existing
          <5>2. CASE ~Clean
            BY <2>2, <4>3, <5>2 DEF ExactInv, ExactState
          <5> QED
            BY <5>1, <5>2
        <4>6. failures' = IF Reconciles(a) THEN failures ELSE failures \cup {"balance"}
          BY <4>1, <4>4, Zenon DEF Report
        <4>7. CASE Reconciles(a)
          <5>1. ~Off(a)
            BY <4>7 DEF Off
          <5> QED
            BY <2>1, <3>1, <3>3, <4>1, <4>2, <4>6, <4>7, <5>1
        <4>8. CASE ~Reconciles(a)
          BY <2>1, <4>2, <4>5, <4>6, <4>8
        <4> QED
          BY <4>7, <4>8
      <3>9. CASE VerifyZeroSum
        <4>1. expected = <<>> /\ todo = {} /\ phase = "balance"
          BY <3>9 DEF AuditInv, VerifyZeroSum
        <4> QED
          BY <2>1, <3>1, <3>3, <3>9, <4>1 DEF VerifyZeroSum, Report
      <3> QED
        BY <1>1, <2>4, <3>4, <3>5, <3>6, <3>7, <3>8, <3>9 DEF AuditStep
    <2> QED
      BY <2>3, <2>4
  <1>2. CASE CheckpointNext /\ BesideAudit /\ BesideDamage
    <2>1. Clean => Clean'
      BY <1>2 DEF BesideDamage, Clean
    <2>2. /\ journal_entries' = journal_entries /\ symptoms' = symptoms /\ Settled
      BY <1>2, <2>1, QuietStep, Zenon DEF Settled
    <2>3. UNCHANGED <<phase, accountIds, todo, expected, failures>>
      BY <1>2 DEF BesideAudit
    <2>4. ~Damage
      BY <2>3 DEF Damage
    <2>5. \A a \in Existing : (Off(a)' <=> Off(a)) /\ account_type'[a] = account_type[a]
      BY <1>0, <2>2, <2>4, QuietMoves, ExistingStay
    <2>6. \A a \in Existing : Sum(a)' = Sum(a)
      BY <2>2, <2>5 DEF JournalOf
    <2>7. accountIds \subseteq Existing /\ todo \subseteq Existing
      BY DEF AuditInv
    <2>8. /\ "balance" \in failures => "balance" \in symptoms
          /\ "balance" \in symptoms =>
                \/ "balance" \in failures
                \/ \E a \in accountIds :
                      /\ Off(a)
                      /\ phase \in {"chain", "checkpoints"} \/ (phase = "balance" /\ a \in todo)
          /\ \A a \in Accounts : expected # <<>> /\ NextAccount(a) => expected = <<Sum(a)>>
      BY <2>2, <2>3 DEF QuietInv
    <2> HIDE DEF Sum
    <2>9. \A a \in Accounts : NextAccount(a)' => NextAccount(a) /\ a \in Existing
      BY <2>3, <2>7 DEF NextAccount
    <2> QED
      BY <2>2, <2>3, <2>5, <2>6, <2>7, <2>8, <2>9
  <1>3. CASE Damage
    BY <1>3 DEF Damage, untouchedVars, auditVars
  <1>4. CASE UNCHANGED damagedVars
    <2>1. UNCHANGED <<phase, accountIds, todo, expected, failures, writes, symptoms, drifted,
                      touched, journal_entries, account_state, account_type>>
      BY <1>4 DEF damagedVars, systemVars, auditVars, damageVars, allVars, vars, tables
    <2>2. Settled /\ phase # "none"
      BY <2>1, Zenon DEF Settled, Clean
    <2> QED
      BY <2>1, <2>2 DEF QuietInv, Off, Reconciles, JournalOf, Existing, NextAccount
  <1>5. CASE LoseNewest
    BY <1>5, NewestLost
  <1> QED
    BY <1>1, <1>2, <1>3, <1>4, <1>5, StepIs

\* An audit (run-audit.ts:24-49) beside which nothing was committed, of a sound ledger or
\* of one damaged in one of the ways of the integration tests, fails exactly the checks
\* the damage concerns (audit.integration.test.ts:62-208), for any journal and accounts.
THEOREM QuietAuditsAreExact == DamageSpec => []QuietAuditIsExact
  <1> DEFINE I == ReportInv /\ ExactInv /\ QuietInv
  <1>1. DamageInit => I
    <2> SUFFICES ASSUME DamageInit PROVE ExactInv /\ QuietInv
      BY ReportInit
    <2>1. phase = "none" /\ Clean
      BY DEF DamageInit, AuditInit, Clean
    <2> QED
      BY <2>1 DEF ExactInv, QuietInv
  <1>2. I /\ [DamageNext]_<<systemVars, damageVars>> => I'
    <2> SUFFICES ASSUME ReportInv, ExactInv, QuietInv, [DamageNext]_damagedVars PROVE I'
      BY DEF damagedVars
    <2>1. WorkInv /\ AuditInv /\ CleanInv /\ LineInv
      BY DEF ReportInv
    <2> QED
      BY <2>1, ReportStep, ExactStep, QuietInvStep
  <1>3. I => QuietAuditIsExact
    <2> SUFFICES ASSUME I, phase = "done", ~writes, ~touched PROVE failures = symptoms
      BY DEF QuietAuditIsExact
    <2>1. CleanInv
      BY DEF ReportInv
    <2>2. symptoms \ {"balance"} \subseteq failures
      BY DoneReports
    <2>3. "balance" \in failures <=> "balance" \in symptoms
      BY DEF QuietInv, Settled
    <2>4. failures \ {"balance"} \subseteq symptoms
      <3>1. CASE Clean
        BY <2>1, <3>1 DEF CleanInv
      <3>2. CASE ~Clean
        BY <3>2 DEF ExactInv
      <3> QED
        BY <3>1, <3>2
    <2> QED
      BY <2>2, <2>3, <2>4
  <1> QED
    BY <1>1, <1>2, <1>3, PTL DEF DamageSpec
=============================================================================
