---------------------------- MODULE DirectWriters ----------------------------
(***************************************************************************)
(* Sessions of the database that do not go through the program: an         *)
(* operator's psql, a migration, another service.  What they may do is     *)
(* decided by the triggers of 0007 and 0008, the foreign keys and the      *)
(* unique index; the engine runs beside them.                              *)
(*                                                                         *)
(* A writer runs statements in a READ COMMITTED transaction of its own.    *)
(* An UPDATE of accounts.account_type locks the row FOR NO KEY UPDATE, the *)
(* foreign key of an inserted entry locks it FOR KEY SHARE: both wait for  *)
(* the FOR UPDATE of a posting and make it wait, and neither waits for the *)
(* other.  A deadlock ends with the rollback of a writer.                  *)
(***************************************************************************)
EXTENDS LedgerEngine

CONSTANTS
    Writers,        \* sessions beside the program
    MaxSequence     \* BOUND: sequence numbers a writer uses

ASSUME MaxSequenceAssumption == MaxSequence \in Nat

VARIABLES
    retyped,        \* writer -> account -> the uncommitted new type, NoType for none
    added           \* writer -> the journal entries it inserted and has not committed

writerVars == <<retyped, added>>
databaseVars == <<vars, writerVars>>

WriterInit ==
    /\ Init
    /\ retyped = [w \in Writers |-> [a \in Accounts |-> NoType]]
    /\ added = [w \in Writers |-> {}]

-----------------------------------------------------------------------------
(***************************************************************************)
(* The transaction of a writer.                                            *)
(***************************************************************************)
EndWriter(w) ==
    /\ retyped' = [retyped EXCEPT ![w] = [a \in Accounts |-> NoType]]
    /\ added' = [added EXCEPT ![w] = {}]

Open(w) == added[w] # {} \/ \E a \in Accounts : retyped[w][a] # NoType

\* A statement or a trigger raises, the client gives up, or it is a deadlock's victim.
Abort(w) == EndWriter(w) /\ UNCHANGED vars

RollBackWriter(w) == Open(w) /\ Abort(w)

\* The postings that hold FOR UPDATE on the accounts row.
\* Faulty variant: FOR UPDATE OF account_state, the accounts row is not locked.
NobodyHolds(a) == {}

HoldsAccountRow(a) == lock[a]

\* check_account_identity_immutable: the entries of the account it can see.
HasEntries(w, a) == \E e \in journal_entries \cup added[w] : e.account_id = a

\* UPDATE accounts SET account_type.  The trigger runs once the row is locked.
UpdateType(w, a, type) ==
    /\ type \notin {account_type[a], NoType}
    /\ account_type[a] # NoType
    /\ \A v \in Writers : retyped[v][a] = NoType
    /\ HoldsAccountRow(a) = {}
    /\ IF HasEntries(w, a) THEN Abort(w)
       ELSE /\ retyped' = [retyped EXCEPT ![w][a] = type]
            /\ UNCHANGED <<vars, added>>

\* An entry as the writer made it up, not chained to anything.
Unchained == Genesis
BareEntry(id, a, amount, n) ==
    [account_id |-> a, event_id |-> id, signed_amount |-> amount, sequence_number |-> n,
     recorded_at |-> 0, previous_hash |-> Genesis, entry_hash |-> Unchained]

PendingBeside(w) ==
    UNION {staged[r] : r \in Requests} \cup UNION {added[v] : v \in Writers \ {w}}

\* INSERT INTO journal_entries, for an event that is committed.
InsertEntry(w, e) ==
    /\ account_type[e.account_id] # NoType
    /\ HoldsAccountRow(e.account_id) = {}
    /\ ~\E f \in PendingBeside(w) : SameSlot(e, f)
    /\ IF \E f \in journal_entries \cup added[w] : SameSlot(e, f) THEN Abort(w)
       ELSE /\ added' = [added EXCEPT ![w] = @ \cup {e}]
            /\ UNCHANGED <<vars, retyped>>

\* block_mutation.
\* Faulty variant: the trigger is missing on journal_entries.
NeverBlocked == FALSE

MutationBlocked == TRUE

\* DELETE FROM journal_entries, in a transaction of its own.
DeleteEntry(w, e) ==
    /\ ~Open(w)
    /\ IF MutationBlocked THEN Abort(w)
       ELSE /\ journal_entries' = journal_entries \ {e}
            /\ UNCHANGED <<clock, nextId, account_type, account_state, events,
                           idempotency_keys, lock, pc, submission, workspace, outcome,
                           attempts, writerVars>>

\* trg_check_journal_entries_balance at the commit, for every row that was inserted.
\* Faulty variant: it only raises on a surplus.
NoSurplus(w) ==
    \A id \in {e.event_id : e \in added[w]} :
        EntrySum({e \in journal_entries \cup added[w] : e.event_id = id}) <= 0

Balances(w) ==
    \A id \in {e.event_id : e \in added[w]} :
        EntrySum({e \in journal_entries \cup added[w] : e.event_id = id}) = 0

CommitWriter(w) ==
    /\ Open(w)
    /\ IF ~Balances(w) THEN Abort(w)
       ELSE /\ account_type' = [a \in Accounts |-> IF retyped[w][a] = NoType
                                                   THEN account_type[a] ELSE retyped[w][a]]
            /\ journal_entries' = journal_entries \cup added[w]
            /\ EndWriter(w)
            /\ UNCHANGED <<clock, nextId, account_state, events, idempotency_keys, lock, pc,
                           submission, workspace, outcome, attempts>>

-----------------------------------------------------------------------------
\* FOR UPDATE of a posting waits for the rows the writers hold, and its inserts for
\* their uncommitted rows with the same sequence number.
HeldByWriters(a) ==
    \E w \in Writers : retyped[w][a] # NoType \/ \E e \in added[w] : e.account_id = a

BesideWriters ==
    /\ \A a \in Accounts : lock'[a] \ lock[a] # {} => ~HeldByWriters(a)
    /\ \A r \in Requests, w \in Writers :
          \A e \in staged'[r] \ staged[r], f \in added[w] : ~SameSlot(e, f)
    /\ UNCHANGED writerVars

WriterNext(w) ==
    \/ \E a \in Accounts, type \in AccountTypes : UpdateType(w, a, type)
    \/ \E ev \in events, a \in Accounts, amount \in {-1, 1}, n \in 1..MaxSequence :
            InsertEntry(w, BareEntry(ev.id, a, amount, n))
    \/ \E e \in journal_entries : DeleteEntry(w, e)
    \/ CommitWriter(w)
    \/ RollBackWriter(w)

DatabaseNext ==
    \/ Next /\ BesideWriters
    \/ \E w \in Writers : WriterNext(w)

DatabaseSpec == WriterInit /\ [][DatabaseNext]_databaseVars

-----------------------------------------------------------------------------
(***************************************************************************)
(* Properties.                                                             *)
(***************************************************************************)
\* "Enforced at the database level, not just assumed by application code"
\* (README.md:34): whatever sessions insert into one event, in whatever order they
\* commit, and whatever they try to delete, the committed entries of every event sum to
\* zero.
EveryEventBalances ==
    \A id \in {e.event_id : e \in journal_entries} :
        EntrySum({e \in journal_entries : e.event_id = id}) = 0

\* The entries of a posting keep the meaning they had (0007:51-53): each still has
\* the sign that the current type of its account gives its leg, although an UPDATE of
\* the type may race the first posting of the account (ledger.service.ts:212-218).
SignsKeepTheirMeaning ==
    \A ev \in events : \A i \in 1..2 :
        \E e \in journal_entries :
            /\ e.event_id = ev.id
            /\ e.entry_hash # Unchained
            /\ e.account_id = Legs(ev.payload)[i].account_id
            /\ e.signed_amount = SignedAmount(ev.payload, i, account_type)

\* 0007_create_invariant_triggers.ts:45-47, "once an account has at least one
\* journal_entries row, account_type, account_code, and account_uuid are all locked".
IdentityIsLocked ==
    [][\A e \in journal_entries : account_type'[e.account_id] = account_type[e.account_id]]_databaseVars
=============================================================================
