----------------------------- MODULE AuditDamage -----------------------------
(***************************************************************************)
(* The audit of a ledger that was damaged beside the program, in the ways  *)
(* the integration tests damage it with the triggers disabled              *)
(* (audit.integration.test.ts, checkpoints.integration.test.ts): one step  *)
(* before the audit, between any two steps of postings and checkpoints.    *)
(* An UPDATE of account_state and the foreign key of an inserted entry     *)
(* wait for a posting that holds the account.                              *)
(***************************************************************************)
EXTENDS Audit

VARIABLES
    symptoms,    \* HISTORY: the checks that have to report the damage
    drifted,     \* HISTORY: the accounts whose tip was damaged
    touched      \* HISTORY: whether anything was committed since the damage

damageVars == <<symptoms, drifted, touched>>

DamageInit ==
    /\ AuditInit
    /\ symptoms = {}
    /\ drifted = {}
    /\ touched = FALSE

\* What every damage leaves alone.
untouchedVars == <<clock, account_type, events, idempotency_keys, lock, pc, submission,
                   workspace, outcome, attempts, step, snapshot, inserted, keyShare, rounds,
                   auditVars, touched>>

HasSuccessor(e) ==
    \E f \in EntriesOf(e.account_id) : f.sequence_number > e.sequence_number

\* A row of journal_entries with another amount.
ChangeAmount(e) ==
    /\ journal_entries' = (journal_entries \ {e})
                          \cup {[e EXCEPT !.signed_amount = 2 * @]}
    /\ symptoms' = {"chain", "balance", "zero_sum"}
    /\ UNCHANGED <<nextId, account_state, checkpoints, drifted>>

\* A row of journal_entries is gone.
LoseEntry(e) ==
    /\ journal_entries' = journal_entries \ {e}
    /\ symptoms' = {"balance", "zero_sum"} \cup (IF HasSuccessor(e) THEN {"chain"} ELSE {})
    /\ UNCHANGED <<nextId, account_state, checkpoints, drifted>>

\* A balance that drifted from the journal.
DriftBalance(a) ==
    /\ lock[a] = {}
    /\ account_state' = [account_state EXCEPT ![a].current_balance = @ + 1]
    /\ symptoms' = {"balance"}
    /\ UNCHANGED <<nextId, journal_entries, checkpoints, drifted>>

\* A tip that lost the hash of the last entry, which no check looks at.
DriftTip(a) ==
    /\ lock[a] = {}
    /\ account_state[a].latest_hash # Genesis
    /\ account_state' = [account_state EXCEPT ![a].latest_hash = Genesis]
    /\ drifted' = {a}
    /\ UNCHANGED <<nextId, journal_entries, checkpoints, symptoms>>

\* An event with one entry, chained and hashed as it should be.
AddImbalanced(a) ==
    /\ lock[a] = {}
    /\ nextId' = nextId + 1
    /\ LET row == [latest_sequence |-> account_state[a].latest_sequence,
                   latest_hash |-> account_state[a].latest_hash,
                   account_type |-> account_type[a]]
       IN  journal_entries' = journal_entries \cup
               {JournalEntry(Leg(a, "increase", 1), row, [id |-> nextId, recorded_at |-> clock])}
    /\ symptoms' = {"balance", "zero_sum"}
    /\ UNCHANGED <<account_state, checkpoints, drifted>>

\* A row of checkpoint_members names another sequence number.
ChangeMember(k, a) ==
    /\ checkpoints' = (checkpoints \ {k})
                      \cup {[k EXCEPT !.members[a].latest_sequence = @ + 1]}
    /\ symptoms' = {"checkpoints"}
    /\ UNCHANGED <<nextId, account_state, journal_entries, drifted>>

\* A checkpoint that another one was built on is gone, with its members. A creator that
\* has not seen it could put an equal one in its place; none is at work.
LoseCheckpoint(k) ==
    /\ \E j \in checkpoints : j.sequence_number > k.sequence_number
    /\ \A c \in Checkpointing : k \in snapshot[c].checkpoints
    /\ checkpoints' = checkpoints \ {k}
    /\ symptoms' = {"checkpoints"}
    /\ UNCHANGED <<nextId, account_state, journal_entries, drifted>>

Damage ==
    /\ phase = "none"
    /\ symptoms = {} /\ drifted = {}
    /\ \/ \E e \in journal_entries : ChangeAmount(e) \/ LoseEntry(e)
       \/ \E a \in Existing : DriftBalance(a) \/ DriftTip(a) \/ AddImbalanced(a)
       \/ \E k \in checkpoints :
            LoseCheckpoint(k) \/ \E a \in DOMAIN k.members : ChangeMember(k, a)
    /\ UNCHANGED untouchedVars

\* The newest checkpoint is gone, before a creator has seen it, and the next one takes
\* its sequence number.  No check looks at it, although verify-checkpoint.ts:64-66 says
\* that a deleted checkpoint is caught.
LoseNewest ==
    /\ phase = "none"
    /\ symptoms = {} /\ drifted = {}
    /\ \E k \in checkpoints :
          /\ \A j \in checkpoints : j.sequence_number <= k.sequence_number
          /\ \A c \in Checkpointing : k \notin snapshot[c].checkpoints
          /\ checkpoints' = checkpoints \ {k}
    /\ UNCHANGED <<nextId, account_state, journal_entries, symptoms, drifted, untouchedVars>>

\* An entry that was chained to a damaged tip before the audit is there to be found.
BesideDamage ==
    /\ touched' = \/ touched
                   \/ /\ symptoms # {} \/ drifted # {}
                      /\ journal_entries' # journal_entries
    /\ symptoms' = IF /\ phase = "none"
                      /\ \E e \in journal_entries' \ journal_entries : e.account_id \in drifted
                   THEN {"chain"} ELSE symptoms
    /\ UNCHANGED drifted

DamageNext ==
    \/ AuditNext /\ BesideDamage
    \/ Damage
    \/ LoseNewest

DamageSpec == DamageInit /\ [][DamageNext]_<<systemVars, damageVars>>

-----------------------------------------------------------------------------
(***************************************************************************)
(* Properties.                                                             *)
(***************************************************************************)
\* Whatever the engine commits around and between the SELECTs, the checks that read
\* with one SELECT, or rows that never change, report the damage that is theirs, and
\* no sound ledger (run-audit.ts:24-28).
SingleStatementChecksAreRight ==
    /\ phase = "done" => symptoms \ {"balance"} \subseteq failures
    /\ symptoms = {} /\ drifted = {} => failures \subseteq {"balance"}

\* An audit beside which nothing was committed reports exactly what is damaged: each
\* damage by the checks it concerns and by no other (audit.integration.test.ts:62-208);
\* a sound ledger passes, and so do one without its newest checkpoint and a tip that
\* drifted until something chains to it.
QuietAuditIsExact == phase = "done" /\ ~writes /\ ~touched => failures = symptoms

\* README.md:44, "can run ... as a scheduled integrity check": an audit of a ledger
\* that only the engine wrote passes.
AuditOfTheEnginePasses == phase = "done" /\ symptoms = {} /\ drifted = {} => failures = {}
=============================================================================
