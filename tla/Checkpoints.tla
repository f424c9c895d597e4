----------------------------- MODULE Checkpoints -----------------------------
(***************************************************************************)
(* createCheckpoint (create-checkpoint.ts) beside the postings of          *)
(* LedgerEngine.  A creator is a caller of it: a tick of the checkpoint    *)
(* job, whose ticks may overlap because none waits for the one before, or  *)
(* a POST /checkpoints.                                                    *)
(*                                                                         *)
(* The transaction is REPEATABLE READ: its first SELECT fixes what all its *)
(* reads see.  The foreign key of checkpoint_members makes PostgreSQL take *)
(* FOR KEY SHARE on the accounts row of every member, in the order of the  *)
(* rows; FOR UPDATE of a posting on that row excludes it and the other way *)
(* round.                                                                  *)
(***************************************************************************)
EXTENDS LedgerEngine

CONSTANTS
    Creators,     \* concurrent callers of createCheckpoint
    MaxRounds     \* BOUND: how often one creator calls it

ASSUME RoundsAssumption == MaxRounds \in Nat

VARIABLES
    checkpoints,    \* committed checkpoints, each with its checkpoint_members
    step,           \* where a creator is
    snapshot,       \* what its transaction sees: member rows and checkpoints
    inserted,       \* the checkpoint it computed and inserts
    keyShare,       \* account -> the creators that hold FOR KEY SHARE on its row
    rounds          \* how often it was called

checkpointVars == <<checkpoints, step, snapshot, inserted, keyShare, rounds>>
allVars == <<vars, checkpointVars>>

CreatorSteps == {"idle", "previous", "insert", "members"}

Existing == {a \in Accounts : account_type[a] # NoType}
MemberOf(a) == [latest_hash |-> account_state[a].latest_hash,
                latest_sequence |-> account_state[a].latest_sequence]

NoSnapshot == [members |-> <<>>, checkpoints |-> {}]
NoCheckpoint ==
    [sequence_number |-> 0, checkpoint_hash |-> <<>>, previous_checkpoint_hash |-> <<>>,
     members |-> <<>>]

CheckpointInit ==
    /\ Init
    /\ checkpoints = {}
    /\ step = [c \in Creators |-> "idle"]
    /\ snapshot = [c \in Creators |-> NoSnapshot]
    /\ inserted = [c \in Creators |-> NoCheckpoint]
    /\ keyShare = [a \in Accounts |-> {}]
    /\ rounds = [c \in Creators |-> 0]

-----------------------------------------------------------------------------
\* One pool serves the requests and the creators.
Checkpointing == {c \in Creators : step[c] # "idle"}
PoolHasRoom == Cardinality(Connected) + Cardinality(Checkpointing) < PoolMax

StepTo(c, s) == step' = [step EXCEPT ![c] = s]

EndCheckpoint(c) ==
    /\ StepTo(c, "idle")
    /\ snapshot' = [snapshot EXCEPT ![c] = NoSnapshot]
    /\ inserted' = [inserted EXCEPT ![c] = NoCheckpoint]
    /\ keyShare' = [a \in Accounts |-> keyShare[a] \ {c}]

\* BEGIN and the SELECT of account_state, which takes the snapshot.
ReadStates(c) ==
    /\ step[c] = "idle"
    /\ rounds[c] < MaxRounds
    /\ PoolHasRoom
    /\ StepTo(c, "previous")
    /\ snapshot' = [snapshot EXCEPT ![c] = [members |-> [a \in Existing |-> MemberOf(a)],
                                            checkpoints |-> checkpoints]]
    /\ rounds' = [rounds EXCEPT ![c] = @ + 1]
    /\ UNCHANGED <<vars, checkpoints, inserted, keyShare>>

\* The pool has no connection for the call: createCheckpoint throws before BEGIN.
ConnectFails(c) ==
    /\ ConnectionFails
    /\ step[c] = "idle"
    /\ rounds[c] < MaxRounds
    /\ rounds' = [rounds EXCEPT ![c] = @ + 1]
    /\ UNCHANGED <<vars, checkpoints, step, snapshot, inserted, keyShare>>

\* Faulty variant: READ COMMITTED, where each SELECT sees what is committed by then.
VisibleByNow(c) == checkpoints

VisibleCheckpoints(c) == snapshot[c].checkpoints

\* SHA-256 over the previous hash and all members, collision free; <<>> stands
\* for GENESIS_CHECKPOINT.
ComputeCheckpointHash(previous, members) == Append(previous, members)

\* The checkpoint after the last one of visible.
NextCheckpoint(visible, members) ==
    LET last == IF visible = {} THEN NoCheckpoint
                ELSE CHOOSE k \in visible :
                        \A l \in visible : l.sequence_number <= k.sequence_number
    IN  [sequence_number |-> last.sequence_number + 1,
         checkpoint_hash |-> ComputeCheckpointHash(last.checkpoint_hash, members),
         previous_checkpoint_hash |-> last.checkpoint_hash,
         members |-> members]

ReadPrevious(c) ==
    /\ step[c] = "previous"
    /\ StepTo(c, "insert")
    /\ inserted' = [inserted EXCEPT ![c] =
                        NextCheckpoint(VisibleCheckpoints(c), snapshot[c].members)]
    /\ UNCHANGED <<vars, checkpoints, snapshot, keyShare, rounds>>

\* The unique index on checkpoints.sequence_number: an insert waits for one that
\* is not committed yet and fails on one that is; nothing is retried.
InsertingSame(c) ==
    {d \in Creators \ {c} :
        step[d] = "members" /\ inserted[d].sequence_number = inserted[c].sequence_number}

\* Faulty variant: the index is not unique.
SequenceNeverUsed(c) == FALSE

SequenceUsed(c) ==
    \E k \in checkpoints : k.sequence_number = inserted[c].sequence_number

InsertCheckpoint(c) ==
    /\ step[c] = "insert"
    /\ InsertingSame(c) = {}
    /\ ~SequenceUsed(c)
    /\ StepTo(c, "members")
    /\ UNCHANGED <<vars, checkpoints, snapshot, inserted, keyShare, rounds>>

DuplicateSequence(c) ==
    /\ step[c] = "insert"
    /\ SequenceUsed(c)
    /\ EndCheckpoint(c)
    /\ UNCHANGED <<vars, checkpoints, rounds>>

\* The members whose accounts row c has still to share.
Unshared(c) == {a \in DOMAIN inserted[c].members : c \notin keyShare[a]}

\* Faulty variant: the members are inserted in descending order.
NextToShareDescending(c, a) == a \in Unshared(c) /\ \A b \in Unshared(c) : b <= a

NextToShare(c, a) == a \in Unshared(c) /\ \A b \in Unshared(c) : a <= b

\* The foreign key check of one row of checkpoint_members.
ShareAccount(c) ==
    /\ step[c] = "members"
    /\ \E a \in Accounts :
        /\ NextToShare(c, a)
        /\ lock[a] = {}
        /\ keyShare' = [keyShare EXCEPT ![a] = @ \cup {c}]
    /\ UNCHANGED <<vars, checkpoints, step, snapshot, inserted, rounds>>

CommitCheckpoint(c) ==
    /\ step[c] = "members"
    /\ Unshared(c) = {}
    /\ checkpoints' = checkpoints \cup {inserted[c]}
    /\ EndCheckpoint(c)
    /\ UNCHANGED <<vars, rounds>>

CheckpointFails(c) ==
    /\ ConnectionFails
    /\ step[c] # "idle"
    /\ EndCheckpoint(c)
    /\ UNCHANGED <<vars, checkpoints, rounds>>

-----------------------------------------------------------------------------
\* FOR UPDATE of a posting waits for the key shares of the row, and a statement
\* that starts on the pool needs room in it.
BesideCheckpoints ==
    /\ \A a \in Accounts : lock'[a] \ lock[a] # {} => keyShare[a] = {}
    /\ \A r \in Requests :
          /\ pc[r] \in {"lookup", "begin", "conflict"}
          /\ pc'[r] # pc[r]
          /\ outcome'[r].kind # "connection_lost"
          => PoolHasRoom
    /\ account_type' # account_type => PoolHasRoom
    /\ UNCHANGED checkpointVars

AdvanceCheckpoint(c) ==
    \/ ReadPrevious(c)
    \/ InsertCheckpoint(c)
    \/ DuplicateSequence(c)
    \/ ShareAccount(c)
    \/ CommitCheckpoint(c)

CheckpointNext ==
    \/ Next /\ BesideCheckpoints
    \/ \E c \in Creators :
        \/ ReadStates(c)
        \/ ConnectFails(c)
        \/ AdvanceCheckpoint(c)
        \/ CheckpointFails(c)

CheckpointSpec == CheckpointInit /\ [][CheckpointNext]_allVars

-----------------------------------------------------------------------------
(***************************************************************************)
(* Properties.                                                             *)
(***************************************************************************)
\* Committed checkpoints are one chain from the genesis, whatever creators
\* overlap: one per sequence number, none skipped, each hashed over the one before.
CheckpointChain ==
    /\ \A k \in checkpoints :
          /\ k.checkpoint_hash = ComputeCheckpointHash(k.previous_checkpoint_hash, k.members)
          /\ IF k.sequence_number = 1 THEN k.previous_checkpoint_hash = <<>>
             ELSE \E j \in checkpoints : /\ j.sequence_number = k.sequence_number - 1
                                         /\ j.checkpoint_hash = k.previous_checkpoint_hash
    /\ \A j, k \in checkpoints : j.sequence_number = k.sequence_number => j = k

\* A later checkpoint never commits to an earlier state of an account: the
\* snapshot of the states and the one of the previous checkpoint are the same.
CheckpointsAdvance ==
    \A j, k \in checkpoints : j.sequence_number < k.sequence_number =>
        \A a \in DOMAIN j.members :
            /\ a \in DOMAIN k.members
            /\ j.members[a].latest_sequence <= k.members[a].latest_sequence

\* "Every account's chain-tip state at one consistent moment" (create-checkpoint.ts:16):
\* a checkpoint covers all entries of an event or none, and each member is the
\* hash of an entry that is in the journal.
CheckpointIsACut ==
    \A k \in checkpoints :
        LET covers(e) == /\ e.account_id \in DOMAIN k.members
                         /\ e.sequence_number <= k.members[e.account_id].latest_sequence
        IN  /\ \A e, f \in journal_entries :
                  e.event_id = f.event_id => (covers(e) <=> covers(f))
            /\ \A a \in DOMAIN k.members : k.members[a].latest_sequence > 0 =>
                  \E e \in journal_entries :
                      /\ e.account_id = a
                      /\ e.sequence_number = k.members[a].latest_sequence
                      /\ e.entry_hash = k.members[a].latest_hash

\* Whether c can go on only after some request or creator of S does.
CreatorWaitsWithin(c, S) ==
    \/ step[c] = "insert" /\ ~SequenceUsed(c) /\ InsertingSame(c) \cap S # {}
    \/ step[c] = "members" /\ \E a \in Accounts : NextToShare(c, a) /\ lock[a] \cap S # {}

RequestWaitsWithin(r, S) ==
    \/ pc[r] = "locking" /\ \E a \in Accounts :
            NextToLock(r, a) /\ (lock[a] \cup keyShare[a]) \cap S # {}
    \/ pc[r] = "keying" /\ Inserting(submission[r].key) \cap S # {}
    \/ /\ pc[r] \in {"lookup", "begin", "conflict"}
       /\ ~PoolHasRoom
       /\ Connected \cup Checkpointing \subseteq S

\* Row locks of postings, key shares of checkpoints, the unique indexes and the
\* pool never make requests and creators wait for one another in a circle.
NoDeadlockWithCheckpoints ==
    \A S \in (SUBSET (Requests \cup Creators)) \ {{}} :
        \/ \E r \in S \cap Requests : ~RequestWaitsWithin(r, S)
        \/ \E c \in S \cap Creators : ~CreatorWaitsWithin(c, S)

\* create-checkpoint.ts:23-24 and README.md:68, "zero blocking of concurrent
\* writers": no posting waits for a row that only a checkpoint holds.
WritersNeverWaitForCheckpoints ==
    \A r \in Requests, a \in Accounts :
        pc[r] = "locking" /\ NextToLock(r, a) /\ lock[a] = {} => keyShare[a] = {}
=============================================================================
