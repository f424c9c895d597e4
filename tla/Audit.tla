-------------------------------- MODULE Audit --------------------------------
(***************************************************************************)
(* runFullAudit (run-audit.ts) while postings and checkpoints go on.  The  *)
(* audit has no transaction: each of its SELECTs sees what is committed    *)
(* when it runs, and the engine may commit between any two of them.        *)
(***************************************************************************)
EXTENDS Checkpoints

VARIABLES
    phase,          \* the check that runs: "none" before, "done" after the audit
    accountIds,     \* the accounts listed at the start
    todo,           \* the accounts the phase has still to check
    expected,       \* the balance recomputed for the account in work, per account
    listed,         \* the checkpoints the walk of the chain listed
    failures,       \* the checks that failed so far
    writes          \* HISTORY: whether anything was committed since the audit began

auditVars == <<phase, accountIds, todo, expected, listed, failures, writes>>
systemVars == <<allVars, auditVars>>

Checks == {"chain", "checkpoints", "balance", "zero_sum"}

AuditInit ==
    /\ CheckpointInit
    /\ phase = "none"
    /\ accountIds = {}
    /\ todo = {}
    /\ expected = <<>>
    /\ listed = {}
    /\ failures = {}
    /\ writes = FALSE

NextAccount(a) == a \in todo /\ \A b \in todo : a <= b

Report(check, valid) == failures' = IF valid THEN failures ELSE failures \cup {check}

StartAudit ==
    /\ phase = "none"
    /\ phase' = "chain"
    /\ accountIds' = Existing
    /\ todo' = Existing
    /\ writes' = FALSE
    /\ UNCHANGED <<allVars, expected, listed, failures>>

EntriesOf(a) == {e \in journal_entries : e.account_id = a}

\* Sorted by sequence number, each entry must name the hash before it and be
\* hashed as its fields say; the walk starts from null.
ChainValid(a) ==
    \A e \in EntriesOf(a) :
        LET before == {f \in EntriesOf(a) : f.sequence_number < e.sequence_number}
            previous == IF before = {} THEN Genesis
                        ELSE (CHOOSE f \in before : \A g \in before :
                                 g.sequence_number <= f.sequence_number).entry_hash
        IN  /\ e.previous_hash = previous
            /\ e.entry_hash = ComputeEntryHash(e.previous_hash, FieldsOf(e))

\* One SELECT reads all entries of the account.
VerifyAccountChain ==
    /\ phase = "chain"
    /\ \E a \in Accounts :
        /\ NextAccount(a)
        /\ todo' = todo \ {a}
        /\ Report("chain", ChainValid(a))
    /\ UNCHANGED <<allVars, phase, accountIds, expected, listed, writes>>

ListCheckpoints ==
    /\ phase = "chain"
    /\ todo = {}
    /\ phase' = "checkpoints"
    /\ listed' = checkpoints
    /\ UNCHANGED <<allVars, accountIds, todo, expected, failures, writes>>

\* verifyCheckpointChain: each must name the hash of the one before it and be hashed
\* as its members say; the walk starts from null.
\* Faulty variant: each checkpoint is verified by itself.
CheckpointsValidAlone ==
    \A k \in listed :
        k.checkpoint_hash = ComputeCheckpointHash(k.previous_checkpoint_hash, k.members)

CheckpointsValid ==
    \A k \in listed :
        LET before == {j \in listed : j.sequence_number < k.sequence_number}
            previous == IF before = {} THEN <<>>
                        ELSE (CHOOSE j \in before : \A i \in before :
                                 i.sequence_number <= j.sequence_number).checkpoint_hash
        IN  /\ k.previous_checkpoint_hash = previous
            /\ k.checkpoint_hash = ComputeCheckpointHash(k.previous_checkpoint_hash, k.members)

\* The rows of a listed checkpoint are read one checkpoint at a time; they are
\* append-only (0008_block_immutable_mutations.ts), so the walk is one step.
VerifyCheckpointChain ==
    /\ phase = "checkpoints"
    /\ phase' = "balance"
    /\ todo' = accountIds
    /\ Report("checkpoints", CheckpointsValid)
    /\ UNCHANGED <<allVars, accountIds, expected, listed, writes>>

RecomputedBalance(a) ==
    MapThenSumSet(LAMBDA e : ReconciledDelta(NormalBalanceSide(account_type[a]), e.signed_amount),
                  EntriesOf(a))

\* verifyBalanceReconciliation reads the entries with one SELECT ...
ReadEntries ==
    /\ phase = "balance"
    /\ expected = <<>>
    /\ \E a \in Accounts : NextAccount(a) /\ expected' = <<RecomputedBalance(a)>>
    /\ UNCHANGED <<allVars, phase, accountIds, todo, listed, failures, writes>>

\* ... and the stored balance with another one, later.
CompareBalance ==
    /\ phase = "balance"
    /\ expected # <<>>
    /\ \E a \in Accounts :
        /\ NextAccount(a)
        /\ todo' = todo \ {a}
        /\ Report("balance", account_state[a].current_balance = expected[1])
    /\ expected' = <<>>
    /\ UNCHANGED <<allVars, phase, accountIds, listed, writes>>

EventsBalance ==
    \A e \in journal_entries :
        MapThenSumSet(LAMBDA f : f.signed_amount,
                      {f \in journal_entries : f.event_id = e.event_id}) = 0

VerifyZeroSum ==
    /\ phase = "balance"
    /\ todo = {}
    /\ phase' = "done"
    /\ Report("zero_sum", EventsBalance)
    /\ UNCHANGED <<allVars, accountIds, todo, expected, listed, writes>>

AuditStep ==
    \/ StartAudit
    \/ VerifyAccountChain
    \/ ListCheckpoints
    \/ VerifyCheckpointChain
    \/ ReadEntries
    \/ CompareBalance
    \/ VerifyZeroSum

BesideAudit ==
    /\ writes' = (writes \/ journal_entries' # journal_entries)
    /\ UNCHANGED <<phase, accountIds, todo, expected, listed, failures>>

AuditNext == AuditStep \/ (CheckpointNext /\ BesideAudit)
=============================================================================
