--------------------------- MODULE CheckpointProofs ---------------------------
(***************************************************************************)
(* Proofs about Checkpoints, for any number of overlapping creators beside *)
(* any number of requests: one chain, each checkpoint a cut of the journal *)
(* and ahead of the ones before it, and no deadlock.  At the end those about *)
(* Server, which runs them.                                                *)
(***************************************************************************)
EXTENDS Server, LedgerEntryProofs

-----------------------------------------------------------------------------
\* Checkpoints K are one chain of n from the genesis.
Line(K, n) ==
    /\ \A k \in K :
          /\ k.sequence_number \in 1..n
          /\ k.checkpoint_hash = ComputeCheckpointHash(k.previous_checkpoint_hash, k.members)
          /\ k.sequence_number = 1 => k.previous_checkpoint_hash = <<>>
    /\ \A j, k \in K :
          /\ j.sequence_number = k.sequence_number => j = k
          /\ k.sequence_number = j.sequence_number + 1
                => k.previous_checkpoint_hash = j.checkpoint_hash
    /\ \A m \in 1..n : \E k \in K : k.sequence_number = m

IsLine(K) == \E n \in Nat : Line(K, n)

\* A creator works on what its snapshot holds, and the number it inserted is its
\* own until it commits.
CreatorInv ==
    /\ step \in [Creators -> CreatorSteps]
    /\ snapshot = [c \in Creators |-> snapshot[c]]
    /\ inserted = [c \in Creators |-> inserted[c]]
    /\ \A c \in Creators :
          /\ step[c] # "idle" => /\ IsLine(snapshot[c].checkpoints)
                                 /\ snapshot[c].checkpoints \subseteq checkpoints
                                 /\ DOMAIN snapshot[c].members \subseteq Accounts
          /\ step[c] \in {"insert", "members"} =>
                inserted[c] = NextCheckpoint(snapshot[c].checkpoints, snapshot[c].members)
          /\ step[c] = "members" => ~SequenceUsed(c) /\ InsertingSame(c) = {}

ChainInv == CreatorInv /\ IsLine(checkpoints)

-----------------------------------------------------------------------------
(***************************************************************************)
(* The chain of checkpoints.                                               *)
(***************************************************************************)
LEMMA CheckpointsBesideEngine == [CheckpointNext]_allVars => [Next]_vars
  <1> SUFFICES ASSUME [CheckpointNext]_allVars PROVE Next \/ UNCHANGED vars
    OBVIOUS
  <1>1. ASSUME NEW c \in Creators, \/ ReadStates(c) \/ ConnectFails(c)
                                   \/ AdvanceCheckpoint(c) \/ CheckpointFails(c)
        PROVE  UNCHANGED vars
    BY <1>1 DEF ReadStates, ConnectFails, AdvanceCheckpoint, ReadPrevious, InsertCheckpoint,
                DuplicateSequence, ShareAccount, CommitCheckpoint, CheckpointFails
  <1>2. ASSUME UNCHANGED allVars PROVE UNCHANGED vars
    BY <1>2 DEF allVars
  <1> QED
    BY <1>1, <1>2 DEF CheckpointNext

LEMMA CheckpointsRunEngine == CheckpointSpec => Spec
  <1>1. CheckpointInit => Init
    BY DEF CheckpointInit
  <1> QED
    BY <1>1, CheckpointsBesideEngine, PTL DEF CheckpointSpec, Spec

LEMMA LineIsChain == IsLine(checkpoints) => CheckpointChain
  <1> SUFFICES ASSUME NEW n \in Nat, Line(checkpoints, n) PROVE CheckpointChain
    BY DEF IsLine
  <1>1. ASSUME NEW k \in checkpoints, k.sequence_number # 1
        PROVE  \E j \in checkpoints : /\ j.sequence_number = k.sequence_number - 1
                                      /\ j.checkpoint_hash = k.previous_checkpoint_hash
    <2>1. k.sequence_number \in 1..n /\ k.sequence_number - 1 \in 1..n
      BY <1>1 DEF Line
    <2>2. PICK j \in checkpoints : j.sequence_number = k.sequence_number - 1
      BY <2>1 DEF Line
    <2>3. k.sequence_number = j.sequence_number + 1
      BY <2>1, <2>2
    <2> QED
      BY <2>2, <2>3 DEF Line
  <1> QED
    BY <1>1 DEF Line, CheckpointChain

\* NextCheckpoint continues a chain by one.
LEMMA NextContinues ==
    ASSUME NEW K, NEW n \in Nat, Line(K, n), NEW members
    PROVE  /\ NextCheckpoint(K, members).sequence_number = n + 1
           /\ NextCheckpoint(K, members).members = members
           /\ Line(K \cup {NextCheckpoint(K, members)}, n + 1)
  <1> DEFINE last == IF K = {} THEN NoCheckpoint
                     ELSE CHOOSE k \in K : \A l \in K : l.sequence_number <= k.sequence_number
  <1>0. PICK new : new = NextCheckpoint(K, members)
    OBVIOUS
  <1>1. /\ new.sequence_number = last.sequence_number + 1
        /\ new.checkpoint_hash = ComputeCheckpointHash(last.checkpoint_hash, members)
        /\ new.previous_checkpoint_hash = last.checkpoint_hash
        /\ new.members = members
    BY <1>0 DEF NextCheckpoint
  <1>2. /\ last.sequence_number = n
        /\ n = 0 => last.checkpoint_hash = <<>>
        /\ n > 0 => last \in K
    <2>1. CASE K = {}
      <3>1. n = 0
        BY <2>1 DEF Line
      <3> QED BY <2>1, <3>1 DEF NoCheckpoint
    <2>2. CASE K # {}
      <3>1. n > 0 /\ \A k \in K : k.sequence_number \in 1..n
        BY <2>2 DEF Line
      <3>2. PICK k \in K : k.sequence_number = n
        BY <3>1 DEF Line
      <3>3. \A l \in K : l.sequence_number <= k.sequence_number
        BY <3>1, <3>2
      <3>4. last \in K /\ \A l \in K : l.sequence_number <= last.sequence_number
        BY <2>2, <3>3
      <3> HIDE DEF last
      <3>5. last.sequence_number = n
        BY <3>1, <3>2, <3>4
      <3> QED BY <3>1, <3>4, <3>5
    <2> QED BY <2>1, <2>2
  <1> HIDE DEF last
  <1>3. \A k \in K : /\ k.sequence_number \in 1..n
                     /\ k.checkpoint_hash
                            = ComputeCheckpointHash(k.previous_checkpoint_hash, k.members)
                     /\ k.sequence_number = 1 => k.previous_checkpoint_hash = <<>>
    BY DEF Line
  <1>4. \A j, k \in K : /\ j.sequence_number = k.sequence_number => j = k
                        /\ k.sequence_number = j.sequence_number + 1
                              => k.previous_checkpoint_hash = j.checkpoint_hash
    BY DEF Line
  <1>5. \A m \in 1..n : \E k \in K : k.sequence_number = m
    BY DEF Line
  <1>6. /\ new.sequence_number = n + 1
        /\ new.checkpoint_hash = ComputeCheckpointHash(new.previous_checkpoint_hash, new.members)
        /\ new.sequence_number = 1 => new.previous_checkpoint_hash = <<>>
    BY <1>1, <1>2
  <1>7. ASSUME NEW j \in K
        PROVE  /\ j.sequence_number # new.sequence_number
               /\ j.sequence_number # new.sequence_number + 1
               /\ new.sequence_number = j.sequence_number + 1
                     => new.previous_checkpoint_hash = j.checkpoint_hash
    <2>1. j.sequence_number \in 1..n
      BY <1>3
    <2>2. ASSUME new.sequence_number = j.sequence_number + 1
          PROVE  new.previous_checkpoint_hash = j.checkpoint_hash
      <3>1. j.sequence_number = last.sequence_number /\ last \in K
        BY <1>2, <1>6, <2>1, <2>2
      <3>2. j = last
        BY <1>4, <3>1
      <3> QED BY <1>1, <3>2
    <2> QED BY <1>6, <2>1, <2>2
  <1>8. new.sequence_number # new.sequence_number + 1
    BY <1>6
  <1>9. Line(K \cup {new}, n + 1)
    <2>1. \A k \in K \cup {new} :
              /\ k.sequence_number \in 1..(n + 1)
              /\ k.checkpoint_hash = ComputeCheckpointHash(k.previous_checkpoint_hash, k.members)
              /\ k.sequence_number = 1 => k.previous_checkpoint_hash = <<>>
      BY <1>3, <1>6
    <2>2. \A j, k \in K \cup {new} :
              /\ j.sequence_number = k.sequence_number => j = k
              /\ k.sequence_number = j.sequence_number + 1
                    => k.previous_checkpoint_hash = j.checkpoint_hash
      BY <1>4, <1>7, <1>8
    <2>3. \A m \in 1..(n + 1) : \E k \in K \cup {new} : k.sequence_number = m
      <3> SUFFICES ASSUME NEW m \in 1..(n + 1)
                   PROVE  \E k \in K \cup {new} : k.sequence_number = m
        OBVIOUS
      <3>1. m = n + 1 \/ m \in 1..n
        OBVIOUS
      <3> QED BY <1>5, <1>6, <3>1
    <2> QED
      BY <2>1, <2>2, <2>3 DEF Line
  <1> QED
    BY <1>0, <1>1, <1>6, <1>9

\* A creator whose number is still free inserts the next checkpoint of all that
\* are committed: its snapshot missed none.
LEMMA NoneMissed ==
    ASSUME NEW K, NEW n \in Nat, Line(K, n), NEW L, NEW m \in Nat, Line(L, m), L \subseteq K,
           \A k \in K : k.sequence_number # m + 1
    PROVE  L = K
  <1>1. m <= n
    <2> SUFFICES ASSUME m > 0 PROVE m <= n
      OBVIOUS
    <2>1. PICK l \in L : l.sequence_number = m
      BY DEF Line
    <2> QED BY <2>1 DEF Line
  <1>2. m + 1 \notin 1..n
    BY DEF Line
  <1>3. m = n
    BY <1>1, <1>2
  <1>4. ASSUME NEW k \in K PROVE k \in L
    <2>1. k.sequence_number \in 1..m
      BY <1>3 DEF Line
    <2>2. PICK l \in L : l.sequence_number = k.sequence_number
      BY <2>1 DEF Line
    <2> QED BY <2>2 DEF Line
  <1> QED BY <1>4

\* What the creator of a commit inserts.
LEMMA CommitContinues ==
    ASSUME ChainInv, NEW c \in Creators, step[c] = "members"
    PROVE  /\ snapshot[c].checkpoints = checkpoints
           /\ inserted[c] = NextCheckpoint(checkpoints, snapshot[c].members)
  <1>1. PICK n \in Nat : Line(checkpoints, n)
    BY DEF ChainInv, IsLine
  <1>2. PICK m \in Nat : Line(snapshot[c].checkpoints, m)
    BY DEF ChainInv, CreatorInv, IsLine
  <1>3. /\ snapshot[c].checkpoints \subseteq checkpoints
        /\ inserted[c] = NextCheckpoint(snapshot[c].checkpoints, snapshot[c].members)
        /\ ~SequenceUsed(c)
    BY DEF ChainInv, CreatorInv
  <1>4. inserted[c].sequence_number = m + 1
    <2>1. PICK K, members : K = snapshot[c].checkpoints /\ members = snapshot[c].members
      OBVIOUS
    <2>2. Line(K, m)
      BY <1>2, <2>1
    <2>3. NextCheckpoint(K, members).sequence_number = m + 1
      BY <2>2, NextContinues
    <2> QED BY <1>3, <2>1, <2>3
  <1> QED
    BY <1>1, <1>2, <1>3, <1>4, NoneMissed DEF SequenceUsed

\* What a creator that goes on from a step to another needs for CreatorInv.
LEMMA CreatorKeeps ==
    ASSUME CreatorInv, NEW c \in Creators, NEW s \in CreatorSteps, StepTo(c, s),
           s # "members",
           \A d \in Creators \ {c} : snapshot'[d] = snapshot[d] /\ inserted'[d] = inserted[d],
           snapshot' = [d \in Creators |-> snapshot'[d]],
           inserted' = [d \in Creators |-> inserted'[d]],
           checkpoints' = checkpoints,
           s # "idle" => /\ IsLine(snapshot'[c].checkpoints)
                         /\ snapshot'[c].checkpoints \subseteq checkpoints
                         /\ DOMAIN snapshot'[c].members \subseteq Accounts,
           s = "insert" =>
                inserted'[c] = NextCheckpoint(snapshot'[c].checkpoints, snapshot'[c].members)
    PROVE  CreatorInv'
  <1>1. /\ step' \in [Creators -> CreatorSteps] /\ step'[c] = s
        /\ \A d \in Creators \ {c} : step'[d] = step[d]
    BY DEF CreatorInv, StepTo
  <1>2. ASSUME NEW d \in Creators, step'[d] = "members"
        PROVE  ~SequenceUsed(d)' /\ InsertingSame(d)' = {}
    <2>1. d # c /\ step[d] = "members"
      BY <1>1, <1>2
    <2>2. ~SequenceUsed(d) /\ InsertingSame(d) = {}
      BY <2>1 DEF CreatorInv
    <2>3. ~SequenceUsed(d)'
      BY <2>1, <2>2 DEF SequenceUsed
    <2>4. InsertingSame(d)' \subseteq InsertingSame(d)
      <3> SUFFICES ASSUME NEW e \in Creators \ {d}, step'[e] = "members",
                          inserted'[e].sequence_number = inserted'[d].sequence_number
                   PROVE  step[e] = "members"
                          /\ inserted[e].sequence_number = inserted[d].sequence_number
        BY DEF InsertingSame
      <3>1. e # c
        BY <1>1
      <3> QED BY <1>1, <2>1, <3>1
    <2> QED BY <2>2, <2>3, <2>4
  <1>3. \A d \in Creators :
          /\ step'[d] # "idle" => /\ IsLine(snapshot'[d].checkpoints)
                                  /\ snapshot'[d].checkpoints \subseteq checkpoints'
                                  /\ DOMAIN snapshot'[d].members \subseteq Accounts
          /\ step'[d] \in {"insert", "members"} =>
                inserted'[d] = NextCheckpoint(snapshot'[d].checkpoints, snapshot'[d].members)
    <2> SUFFICES ASSUME NEW d \in Creators
                 PROVE  /\ step'[d] # "idle" => /\ IsLine(snapshot'[d].checkpoints)
                                                /\ snapshot'[d].checkpoints \subseteq checkpoints'
                                                /\ DOMAIN snapshot'[d].members \subseteq Accounts
                        /\ step'[d] \in {"insert", "members"} =>
                              inserted'[d] = NextCheckpoint(snapshot'[d].checkpoints,
                                                            snapshot'[d].members)
      OBVIOUS
    <2>1. CASE d = c
      BY <1>1, <2>1
    <2>2. CASE d # c
      BY <1>1, <2>2 DEF CreatorInv
    <2> QED BY <2>1, <2>2
  <1> QED
    BY <1>1, <1>2, <1>3 DEF CreatorInv

LEMMA EndKeeps ==
    ASSUME CreatorInv, NEW c \in Creators, EndCheckpoint(c), checkpoints' = checkpoints
    PROVE  CreatorInv'
  <1>1. /\ snapshot = [d \in Creators |-> snapshot[d]]
        /\ inserted = [d \in Creators |-> inserted[d]]
        /\ StepTo(c, "idle")
        /\ snapshot' = [snapshot EXCEPT ![c] = NoSnapshot]
        /\ inserted' = [inserted EXCEPT ![c] = NoCheckpoint]
    BY DEF CreatorInv, EndCheckpoint
  <1>2. /\ \A d \in Creators \ {c} : snapshot'[d] = snapshot[d] /\ inserted'[d] = inserted[d]
        /\ snapshot' = [d \in Creators |-> snapshot'[d]]
        /\ inserted' = [d \in Creators |-> inserted'[d]]
    BY <1>1
  <1> QED
    BY <1>1, <1>2, CreatorKeeps DEF CreatorSteps

LEMMA ChainInvStep == ChainInv /\ [CheckpointNext]_allVars => ChainInv'
  <1> SUFFICES ASSUME ChainInv, [CheckpointNext]_allVars PROVE ChainInv'
    OBVIOUS
  <1> USE DEF ChainInv
  <1>0. /\ step \in [Creators -> CreatorSteps]
        /\ snapshot = [d \in Creators |-> snapshot[d]]
        /\ inserted = [d \in Creators |-> inserted[d]]
    BY DEF CreatorInv
  <1>1. CASE UNCHANGED <<checkpoints, step, snapshot, inserted, keyShare>>
    BY <1>1 DEF CreatorInv, SequenceUsed, InsertingSame
  <1>2. ASSUME NEW c \in Creators, ReadStates(c) PROVE ChainInv'
    <2>1. /\ StepTo(c, "previous")
          /\ snapshot' = [snapshot EXCEPT ![c] = [members |-> [a \in Existing |-> MemberOf(a)],
                                                  checkpoints |-> checkpoints]]
          /\ UNCHANGED <<checkpoints, inserted>>
      BY <1>2 DEF ReadStates
    <2>2. /\ snapshot'[c].checkpoints = checkpoints
          /\ DOMAIN snapshot'[c].members \subseteq Accounts
          /\ \A d \in Creators \ {c} : snapshot'[d] = snapshot[d]
          /\ snapshot' = [d \in Creators |-> snapshot'[d]]
      BY <1>0, <2>1 DEF Existing
    <2>3. inserted' = [d \in Creators |-> inserted'[d]]
      BY <1>0, <2>1
    <2> QED
      BY <2>1, <2>2, <2>3, CreatorKeeps DEF CreatorSteps
  <1>3. ASSUME NEW c \in Creators, ReadPrevious(c) PROVE ChainInv'
    <2>1. /\ step[c] = "previous" /\ StepTo(c, "insert")
          /\ inserted' = [inserted EXCEPT ![c] =
                              NextCheckpoint(snapshot[c].checkpoints, snapshot[c].members)]
          /\ UNCHANGED <<checkpoints, snapshot>>
      BY <1>3 DEF ReadPrevious, VisibleCheckpoints
    <2>2. /\ \A d \in Creators \ {c} : inserted'[d] = inserted[d]
          /\ inserted' = [d \in Creators |-> inserted'[d]]
          /\ inserted'[c] = NextCheckpoint(snapshot'[c].checkpoints, snapshot'[c].members)
      BY <1>0, <2>1
    <2>3. snapshot' = [d \in Creators |-> snapshot'[d]]
      BY <1>0, <2>1
    <2>4. /\ IsLine(snapshot[c].checkpoints)
          /\ snapshot[c].checkpoints \subseteq checkpoints
          /\ DOMAIN snapshot[c].members \subseteq Accounts
      BY <2>1 DEF CreatorInv
    <2> QED
      BY <2>1, <2>2, <2>3, <2>4, CreatorKeeps DEF CreatorSteps
  <1>4. ASSUME NEW c \in Creators, InsertCheckpoint(c) PROVE ChainInv'
    <2>1. /\ step[c] = "insert" /\ step' = [step EXCEPT ![c] = "members"]
          /\ InsertingSame(c) = {} /\ ~SequenceUsed(c)
          /\ UNCHANGED <<checkpoints, snapshot, inserted>>
      BY <1>4 DEF InsertCheckpoint, StepTo
    <2>2. step' \in [Creators -> CreatorSteps]
      BY <1>0, <2>1 DEF CreatorSteps
    <2>3. \A d \in Creators : step'[d] = "members" => ~SequenceUsed(d)' /\ InsertingSame(d)' = {}
      <3> SUFFICES ASSUME NEW d \in Creators, step'[d] = "members"
                   PROVE  ~SequenceUsed(d)' /\ InsertingSame(d)' = {}
        OBVIOUS
      <3>1. (~SequenceUsed(d) /\ InsertingSame(d) = {}) \/ d = c
        BY <1>0, <2>1 DEF CreatorInv
      <3>2. ~SequenceUsed(d)'
        BY <2>1, <3>1 DEF SequenceUsed
      <3>3. InsertingSame(d)' = {}
        <4> SUFFICES ASSUME NEW e \in Creators \ {d}, step'[e] = "members",
                            inserted[e].sequence_number = inserted[d].sequence_number
                     PROVE  FALSE
          BY <2>1 DEF InsertingSame
        <4>1. CASE d = c
          BY <1>0, <2>1, <4>1 DEF InsertingSame
        <4>2. CASE e = c
          BY <1>0, <2>1, <4>2 DEF InsertingSame
        <4>3. CASE d # c /\ e # c
          BY <1>0, <2>1, <3>1, <4>3 DEF InsertingSame
        <4> QED BY <4>1, <4>2, <4>3
      <3> QED BY <3>2, <3>3
    <2>4. \A d \in Creators : /\ step'[d] # "idle" => step[d] # "idle"
                              /\ step'[d] \in {"insert", "members"} => step[d] \in {"insert", "members"}
      BY <1>0, <2>1
    <2> QED
      BY <1>0, <2>1, <2>2, <2>3, <2>4 DEF CreatorInv
  <1>5. ASSUME NEW c \in Creators, DuplicateSequence(c) \/ CheckpointFails(c) PROVE ChainInv'
    BY <1>5, EndKeeps DEF DuplicateSequence, CheckpointFails
  <1>6. ASSUME NEW c \in Creators, ShareAccount(c) PROVE ChainInv'
    BY <1>6 DEF ShareAccount, CreatorInv, SequenceUsed, InsertingSame
  <1>7. ASSUME NEW c \in Creators, CommitCheckpoint(c) PROVE ChainInv'
    <2>1. /\ step[c] = "members"
          /\ checkpoints' = checkpoints \cup {inserted[c]}
          /\ step' = [step EXCEPT ![c] = "idle"]
          /\ snapshot' = [snapshot EXCEPT ![c] = NoSnapshot]
          /\ inserted' = [inserted EXCEPT ![c] = NoCheckpoint]
      BY <1>7 DEF CommitCheckpoint, EndCheckpoint, StepTo
    <2>2. IsLine(checkpoints)'
      <3>1. PICK n \in Nat : Line(checkpoints, n)
        BY DEF IsLine
      <3>2. Line(checkpoints', n + 1)
        BY <2>1, <3>1, CommitContinues, NextContinues
      <3> QED BY <3>2 DEF IsLine
    <2>3. /\ step' \in [Creators -> CreatorSteps] /\ step'[c] = "idle"
          /\ \A d \in Creators \ {c} : /\ step'[d] = step[d]
                                       /\ snapshot'[d] = snapshot[d]
                                       /\ inserted'[d] = inserted[d]
          /\ snapshot' = [d \in Creators |-> snapshot'[d]]
          /\ inserted' = [d \in Creators |-> inserted'[d]]
      BY <1>0, <2>1 DEF CreatorSteps
    <2>4. ASSUME NEW d \in Creators, step'[d] = "members"
          PROVE  ~SequenceUsed(d)' /\ InsertingSame(d)' = {}
      <3>1. d # c /\ step[d] = "members" /\ ~SequenceUsed(d) /\ InsertingSame(d) = {}
        BY <2>3, <2>4 DEF CreatorInv
      <3>2. inserted[c].sequence_number # inserted[d].sequence_number
        BY <2>1, <3>1 DEF InsertingSame
      <3>3. ~SequenceUsed(d)'
        BY <2>1, <2>3, <3>1, <3>2 DEF SequenceUsed
      <3>4. InsertingSame(d)' \subseteq InsertingSame(d)
        <4> SUFFICES ASSUME NEW e \in Creators \ {d}, step'[e] = "members",
                            inserted'[e].sequence_number = inserted'[d].sequence_number
                     PROVE  step[e] = "members"
                            /\ inserted[e].sequence_number = inserted[d].sequence_number
          BY DEF InsertingSame
        <4>1. e # c
          BY <2>3
        <4> QED BY <2>3, <3>1, <4>1
      <3> QED BY <3>1, <3>3, <3>4
    <2>5. ASSUME NEW d \in Creators
          PROVE  /\ step'[d] # "idle" => /\ IsLine(snapshot'[d].checkpoints)
                                         /\ snapshot'[d].checkpoints \subseteq checkpoints'
                                         /\ DOMAIN snapshot'[d].members \subseteq Accounts
                 /\ step'[d] \in {"insert", "members"} =>
                       inserted'[d] = NextCheckpoint(snapshot'[d].checkpoints, snapshot'[d].members)
      <3>1. CASE d = c
        BY <2>3, <3>1
      <3>2. CASE d # c
        BY <2>1, <2>3, <3>2 DEF CreatorInv
      <3> QED BY <3>1, <3>2
    <2> QED
      BY <2>2, <2>3, <2>4, <2>5 DEF CreatorInv
  <1> QED
    BY <1>1, <1>2, <1>3, <1>4, <1>5, <1>6, <1>7
    DEF CheckpointNext, AdvanceCheckpoint, ConnectFails, BesideCheckpoints, allVars, checkpointVars

LEMMA ChainInit == CheckpointInit => ChainInv
  <1> SUFFICES ASSUME CheckpointInit PROVE ChainInv
    OBVIOUS
  <1>1. Line(checkpoints, 0)
    BY DEF CheckpointInit, Line
  <1>2. CreatorInv
    BY DEF CheckpointInit, CreatorInv, CreatorSteps
  <1> QED
    BY <1>1, <1>2 DEF ChainInv, IsLine

LEMMA ChainInvHolds == CheckpointSpec => []ChainInv
  BY ChainInit, ChainInvStep, PTL DEF CheckpointSpec

\* Overlapping creators leave one chain from the genesis, without a gap or a fork:
\* the unique sequence number lets only the creator through whose snapshot holds
\* every checkpoint (0006_create_checkpoints.ts:8-19, create-checkpoint.ts:48-73).
THEOREM CheckpointsAreChained == CheckpointSpec => []CheckpointChain
  <1>1. ChainInv => CheckpointChain
    BY LineIsChain DEF ChainInv
  <1> QED
    BY <1>1, ChainInvHolds, PTL

-----------------------------------------------------------------------------
(***************************************************************************)
(* Waiting.                                                                *)
(***************************************************************************)
\* Only a creator that inserts its members holds key shares, of its members, and
\* it took them in ascending order.
ShareInv ==
    /\ keyShare \in [Accounts -> SUBSET Creators]
    /\ \A a \in Accounts : \A c \in keyShare[a] :
          step[c] = "members" /\ a \in DOMAIN inserted[c].members
    /\ \A c \in Creators : \A a, b \in Accounts \cap DOMAIN inserted[c].members :
          c \in keyShare[a] /\ c \notin keyShare[b] => a < b

LEMMA MembersAreAccounts ==
    ASSUME ChainInv, NEW c \in Creators, step[c] = "members"
    PROVE  /\ inserted[c].members = snapshot[c].members
           /\ DOMAIN inserted[c].members \subseteq Accounts
  <1>1. inserted[c] = NextCheckpoint(snapshot[c].checkpoints, snapshot[c].members)
    BY DEF ChainInv, CreatorInv
  <1>2. inserted[c].members = snapshot[c].members
    BY <1>1 DEF NextCheckpoint
  <1> QED
    BY <1>2 DEF ChainInv, CreatorInv

LEMMA ShareStep == ChainInv /\ ShareInv /\ [CheckpointNext]_allVars => ShareInv'
  <1> SUFFICES ASSUME ChainInv, ShareInv, [CheckpointNext]_allVars PROVE ShareInv'
    OBVIOUS
  <1>0. /\ step \in [Creators -> CreatorSteps]
        /\ snapshot = [d \in Creators |-> snapshot[d]]
        /\ inserted = [d \in Creators |-> inserted[d]]
        /\ keyShare \in [Accounts -> SUBSET Creators]
        /\ Accounts \subseteq Nat
    BY AccountsAssumption DEF ChainInv, CreatorInv, ShareInv
  <1>1. CASE UNCHANGED <<step, inserted, keyShare>>
    BY <1>1 DEF ShareInv
  <1>2. ASSUME NEW c \in Creators, step[c] # "members", UNCHANGED keyShare,
               \A d \in Creators \ {c} : step'[d] = step[d] /\ inserted'[d] = inserted[d]
        PROVE  ShareInv'
    <2>1. \A a \in Accounts : c \notin keyShare[a]
      BY <1>2 DEF ShareInv
    <2>2. \A a \in Accounts : \A d \in keyShare[a] :
              step'[d] = "members" /\ a \in DOMAIN inserted'[d].members
      BY <1>0, <1>2, <2>1 DEF ShareInv
    <2>3. \A d \in Creators : \A a, b \in Accounts \cap DOMAIN inserted'[d].members :
              d \in keyShare[a] /\ d \notin keyShare[b] => a < b
      BY <1>2, <2>1 DEF ShareInv
    <2> QED
      BY <1>0, <1>2, <2>2, <2>3 DEF ShareInv
  <1>3. ASSUME NEW c \in Creators, EndCheckpoint(c) PROVE ShareInv'
    <2>1. /\ keyShare' = [a \in Accounts |-> keyShare[a] \ {c}]
          /\ \A d \in Creators \ {c} : step'[d] = step[d] /\ inserted'[d] = inserted[d]
      BY <1>0, <1>3 DEF EndCheckpoint, StepTo
    <2>2. \A a \in Accounts : \A d \in keyShare'[a] : d \in keyShare[a] /\ d # c
      BY <2>1
    <2>3. \A a \in Accounts : \A d \in keyShare'[a] :
              step'[d] = "members" /\ a \in DOMAIN inserted'[d].members
      BY <1>0, <2>1, <2>2 DEF ShareInv
    <2>4. \A d \in Creators : \A a, b \in Accounts \cap DOMAIN inserted'[d].members :
              d \in keyShare'[a] /\ d \notin keyShare'[b] => a < b
      BY <2>1, <2>2 DEF ShareInv
    <2>5. keyShare' \in [Accounts -> SUBSET Creators]
      BY <1>0, <2>1
    <2> QED
      BY <2>3, <2>4, <2>5 DEF ShareInv
  <1>4. ASSUME NEW c \in Creators, ReadStates(c) \/ ReadPrevious(c) \/ InsertCheckpoint(c)
        PROVE  ShareInv'
    BY <1>0, <1>2, <1>4 DEF ReadStates, ReadPrevious, InsertCheckpoint, StepTo
  <1>5. ASSUME NEW c \in Creators, ShareAccount(c) PROVE ShareInv'
    <2>1. PICK x \in Accounts : NextToShare(c, x) /\ keyShare' = [keyShare EXCEPT ![x] = @ \cup {c}]
      BY <1>5 DEF ShareAccount
    <2>2. step[c] = "members" /\ UNCHANGED <<step, inserted>>
      BY <1>5 DEF ShareAccount
    <2>3. /\ x \in DOMAIN inserted[c].members
          /\ \A b \in DOMAIN inserted[c].members : c \notin keyShare[b] => x <= b
      BY <2>1 DEF NextToShare, Unshared
    <2>4. /\ keyShare' \in [Accounts -> SUBSET Creators]
          /\ keyShare'[x] = keyShare[x] \cup {c}
          /\ \A a \in Accounts \ {x} : keyShare'[a] = keyShare[a]
      BY <1>0, <2>1
    <2>5. \A a \in Accounts : \A d \in keyShare'[a] :
              step'[d] = "members" /\ a \in DOMAIN inserted'[d].members
      BY <2>2, <2>3, <2>4 DEF ShareInv
    <2>6. ASSUME NEW d \in Creators, NEW a \in Accounts \cap DOMAIN inserted[d].members,
                 NEW b \in Accounts \cap DOMAIN inserted[d].members,
                 d \in keyShare'[a], d \notin keyShare'[b]
          PROVE  a < b
      <3>1. d \notin keyShare[b]
        BY <2>4, <2>6
      <3>2. CASE d \in keyShare[a]
        BY <3>1, <3>2 DEF ShareInv
      <3>3. CASE d \notin keyShare[a]
        <4>1. d = c /\ a = x
          BY <2>4, <2>6, <3>3
        <4>2. x <= b /\ x # b
          BY <2>3, <2>4, <2>6, <3>1, <4>1
        <4> QED BY <1>0, <4>1, <4>2
      <3> QED BY <3>2, <3>3
    <2> QED
      BY <2>2, <2>4, <2>5, <2>6 DEF ShareInv
  <1>6. ASSUME NEW c \in Creators,
               DuplicateSequence(c) \/ CommitCheckpoint(c) \/ CheckpointFails(c)
        PROVE  ShareInv'
    BY <1>3, <1>6 DEF DuplicateSequence, CommitCheckpoint, CheckpointFails
  <1> QED
    BY <1>1, <1>4, <1>5, <1>6
    DEF CheckpointNext, AdvanceCheckpoint, ConnectFails, BesideCheckpoints, allVars, checkpointVars

\* A holder waits for an account above the ones it holds, so in a circle of waits
\* no account would be the largest.
LEMMA NoCircleWithCheckpoints ==
    ASSUME TypeOK, LockInv, OrderInv, ChainInv, ShareInv,
           NEW n \in Nat, Accounts \subseteq 0..n
    PROVE  NoDeadlockWithCheckpoints
  <1> SUFFICES ASSUME NEW S, S \subseteq Requests \cup Creators, S # {},
                      \A r \in S \cap Requests : RequestWaitsWithin(r, S),
                      \A c \in S \cap Creators : CreatorWaitsWithin(c, S)
               PROVE  FALSE
    BY Zenon DEF NoDeadlockWithCheckpoints
  <1>1. \A r \in S \cap Requests : pc[r] # "committing"
    BY DEF RequestWaitsWithin
  <1>2. \A r \in S \cap Requests : pc[r] # "keying"
    BY <1>1 DEF RequestWaitsWithin, Inserting
  <1>3. \A r \in S \cap Requests : pc[r] \in InTransaction => pc[r] = "locking"
    BY <1>1, <1>2 DEF InTransaction
  <1> DEFINE RequestAt(r, a) ==
                 pc[r] = "locking" /\ NextToLock(r, a) /\ (lock[a] \cup keyShare[a]) \cap S # {}
             CreatorAt(c, a) ==
                 step[c] = "members" /\ NextToShare(c, a) /\ lock[a] \cap S # {}
             T == {a \in Accounts : \/ \E r \in S \cap Requests : RequestAt(r, a)
                                    \/ \E c \in S \cap Creators : CreatorAt(c, a)}
  <1>4. \A r \in S \cap Requests : pc[r] = "locking" => \E a \in T : NextToLock(r, a)
    BY DEF RequestWaitsWithin
  <1>5. \A c \in S \cap Creators : step[c] = "members" => \E a \in T : NextToShare(c, a)
    BY DEF CreatorWaitsWithin
  <1>6. \A c \in S \cap Creators : step[c] # "idle" => T # {}
    <2> SUFFICES ASSUME NEW c \in S \cap Creators PROVE T # {}
      OBVIOUS
    <2>1. CASE step[c] = "members"
      BY <1>5, <2>1
    <2>2. CASE step[c] # "members"
      <3>1. InsertingSame(c) \cap S # {}
        BY <2>2 DEF CreatorWaitsWithin
      <3>2. PICK d \in S \cap Creators : step[d] = "members"
        BY <3>1 DEF InsertingSame
      <3> QED BY <1>5, <3>2
    <2> QED BY <2>1, <2>2
  <1>7. T # {}
    <2>1. CASE S \cap Creators # {}
      <3>1. PICK c \in S \cap Creators : TRUE
        BY <2>1
      <3>2. step[c] # "idle"
        BY <3>1 DEF CreatorWaitsWithin
      <3> QED BY <1>6, <3>1, <3>2
    <2>2. CASE \E r \in S \cap Requests : pc[r] = "locking"
      BY <1>4, <2>2
    <2>3. CASE S \cap Creators = {} /\ \A r \in S \cap Requests : pc[r] # "locking"
      <3>1. PICK r \in S \cap Requests : TRUE
        BY <2>3
      <3>2. ~PoolHasRoom /\ Connected \cup Checkpointing \subseteq S
        BY <1>2, <2>3, <3>1 DEF RequestWaitsWithin
      <3>3. Connected = {}
        BY <1>3, <2>3, <3>2 DEF Connected
      <3>4. Checkpointing = {}
        BY <2>3, <3>2 DEF Checkpointing
      <3> QED
        BY <3>2, <3>3, <3>4, FS_EmptySet, BoundsAssumption DEF PoolHasRoom
    <2> QED BY <2>1, <2>2, <2>3
  <1>8. ASSUME NEW a \in T PROVE \E b \in T : a < b
    <2>1. PICK x \in S : x \in lock[a] \/ x \in keyShare[a]
      BY <1>8
    <2>2. CASE x \in lock[a]
      <3>1. Held(a, x) /\ x \in Requests
        BY <2>2 DEF LockInv, LocksInv, TypeOK
      <3>2. pc[x] = "locking" /\ a \in UniqueAccountIds(submission[x])
        BY <1>3, <3>1 DEF Held
      <3>3. PICK b \in T : NextToLock(x, b)
        BY <1>4, <3>1, <3>2
      <3>4. b \in UniqueAccountIds(submission[x]) /\ x \notin lock[b]
        BY <3>3 DEF NextToLock, Unlocked
      <3>5. a < b
        BY <2>2, <3>1, <3>2, <3>4 DEF OrderInv
      <3> QED BY <3>5
    <2>3. CASE x \in keyShare[a]
      <3>1. /\ x \in Creators /\ step[x] = "members"
            /\ a \in DOMAIN inserted[x].members
        BY <2>3 DEF ShareInv
      <3>2. PICK b \in T : NextToShare(x, b)
        BY <1>5, <3>1
      <3>3. b \in DOMAIN inserted[x].members /\ x \notin keyShare[b]
        BY <3>2 DEF NextToShare, Unshared
      <3>4. a < b
        BY <2>3, <3>1, <3>3 DEF ShareInv
      <3> QED BY <3>4
    <2> QED BY <2>1, <2>2, <2>3
  <1>9. T \subseteq 0..n
    OBVIOUS
  <1> HIDE DEF T
  <1> QED
    BY <1>7, <1>8, <1>9, NoLargest

\* With ids of accounts up to any largest one, no set of requests and creators waits
\* for itself over row locks, key shares, sequence numbers, keys and the pool
\* (README.md:43; create-checkpoint.ts:75 beside ledger.service.ts:222).
THEOREM DeadlockFreeWithCheckpoints ==
    ASSUME NEW n \in Nat, Accounts \subseteq 0..n
    PROVE  CheckpointSpec => []NoDeadlockWithCheckpoints
  <1>1. Init => OrderInv
    BY DEF Init, OrderInv
  <1>2. Spec => [](TypeOK /\ LockInv /\ OrderInv)
    BY <1>1, OrderStep, LockInvHolds, PTL DEF Spec
  <1>3. CheckpointInit => ShareInv
    BY DEF CheckpointInit, ShareInv, NoCheckpoint
  <1>4. CheckpointSpec => []ShareInv
    BY <1>3, ShareStep, ChainInvHolds, PTL DEF CheckpointSpec
  <1>5. TypeOK /\ LockInv /\ OrderInv /\ ChainInv /\ ShareInv => NoDeadlockWithCheckpoints
    BY NoCircleWithCheckpoints
  <1> QED
    BY <1>2, <1>4, <1>5, CheckpointsRunEngine, ChainInvHolds, PTL

-----------------------------------------------------------------------------
(***************************************************************************)
(* What the members of a checkpoint commit to.                             *)
(***************************************************************************)
\* Members that were current once: their accounts exist and have at least as many
\* entries now.
Past(members) ==
    \A a \in DOMAIN members :
        /\ a \in Accounts
        /\ account_type[a] # NoType
        /\ members[a].latest_sequence \in Nat
        /\ members[a].latest_sequence <= account_state[a].latest_sequence

\* Entry e is one of those the members commit to.
Covers(members, e) ==
    /\ e.account_id \in DOMAIN members
    /\ e.sequence_number <= members[e.account_id].latest_sequence

\* The members commit to whole events, and name entries of the journal.
Cut(members) ==
    /\ \A e, f \in journal_entries :
          e.event_id = f.event_id => (Covers(members, e) <=> Covers(members, f))
    /\ \A a \in DOMAIN members : members[a].latest_sequence > 0 =>
          \E e \in journal_entries : /\ e.account_id = a
                                     /\ e.sequence_number = members[a].latest_sequence
                                     /\ e.entry_hash = members[a].latest_hash

Sound(members) == Past(members) /\ Cut(members)

MembersInv ==
    /\ \A k \in checkpoints : Sound(k.members)
    /\ \A c \in Creators : step[c] # "idle" => Sound(snapshot[c].members)

\* The members now have no account of before left behind.
Ahead(later, earlier) ==
    \A a \in DOMAIN earlier :
        /\ a \in DOMAIN later
        /\ earlier[a].latest_sequence <= later[a].latest_sequence

AdvanceInv ==
    /\ CheckpointsAdvance
    /\ \A c \in Creators : step[c] # "idle" =>
          \A k \in snapshot[c].checkpoints : Ahead(snapshot[c].members, k.members)

\* The two entries a commit publishes lie above the stored tips of their accounts, and no
\* tip falls back.
LEMMA CommitPublishes ==
    ASSUME TypeOK, StagedInv, NEW r \in Requests, Commits(r)
    PROVE  \E first, second \in Entries :
              /\ Staged(r, first, second)
              /\ journal_entries' = journal_entries \cup {first, second}
              /\ \A e \in {first, second} :
                    /\ e.event_id = txn[r].id
                    /\ e.account_id \in UniqueAccountIds(submission[r])
                    /\ e.sequence_number > account_state[e.account_id].latest_sequence
                    /\ e.sequence_number <= account_state'[e.account_id].latest_sequence
              /\ \A a \in Accounts :
                    account_state'[a].latest_sequence >= account_state[a].latest_sequence
  <1> DEFINE s == submission[r]
             tip(a) == account_state[a].latest_sequence
             tipNow(a) == account_state'[a].latest_sequence
  <1>1. PICK first \in Entries, second \in Entries : Staged(r, first, second)
    BY DEF StagedInv, Commits, Staging
  <1>2. /\ s \in Submissions /\ s.from \in Accounts /\ s.to \in Accounts
        /\ UniqueAccountIds(s) = {s.from, s.to}
        /\ first.account_id = s.from /\ second.account_id = s.to
        /\ first.event_id = txn[r].id /\ second.event_id = txn[r].id
    BY <1>1, SubmissionType, LegType DEF TypeOK, Staged, IsLeg
  <1>3. \A a \in Accounts : tip(a) \in Nat
    BY DEF TypeOK, AccountStates
  <1>4. journal_entries' = journal_entries \cup {first, second}
    BY <1>1 DEF Commits, Publish, Staged
  <1>5. \A a \in Accounts :
            /\ a \notin {s.from, s.to} => tipNow(a) = tip(a)
            /\ a \in {s.from, s.to} => tipNow(a) = chain[r][a].latest_sequence
    BY <1>2 DEF Commits, Publish, WrittenState
  <1>6. /\ first.sequence_number = tip(s.from) + 1
        /\ s.from = s.to => second.sequence_number = first.sequence_number + 1
        /\ s.from # s.to => /\ second.sequence_number = tip(s.to) + 1
                            /\ chain[r][s.from].latest_sequence = first.sequence_number
        /\ chain[r][s.to].latest_sequence = second.sequence_number
    BY <1>1 DEF Staged, Follows
  <1>7. \A e \in {first, second} :
            /\ e.event_id = txn[r].id
            /\ e.account_id \in UniqueAccountIds(s)
    BY <1>2
  <1> HIDE DEF s, tip, tipNow
  <1>8. tipNow(s.to) = second.sequence_number
    BY <1>2, <1>5, <1>6
  <1>9. s.from # s.to => tipNow(s.from) = first.sequence_number
    BY <1>2, <1>5, <1>6
  <1>10. /\ first.sequence_number > tip(s.from) /\ second.sequence_number > tip(s.to)
         /\ first.sequence_number <= tipNow(s.from) /\ second.sequence_number <= tipNow(s.to)
    <2>1. tip(s.from) \in Nat /\ tip(s.to) \in Nat
      BY <1>2, <1>3
    <2>2. CASE s.from = s.to
      BY <1>6, <1>8, <2>1, <2>2
    <2>3. CASE s.from # s.to
      BY <1>6, <1>8, <1>9, <2>1, <2>3
    <2> QED BY <2>2, <2>3
  <1>11. \A e \in {first, second} : /\ e.sequence_number > tip(e.account_id)
                                    /\ e.sequence_number <= tipNow(e.account_id)
    BY <1>2, <1>10
  <1>12. ASSUME NEW a \in Accounts PROVE tipNow(a) >= tip(a)
    <2>0. first.sequence_number \in Nat /\ second.sequence_number \in Nat /\ tip(a) \in Nat
      BY <1>3 DEF Entries
    <2>1. CASE a \notin {s.from, s.to}
      BY <2>0, <1>5, <2>1
    <2>2. CASE a = s.to
      BY <2>0, <1>8, <1>10, <2>2
    <2>3. CASE a = s.from /\ s.from # s.to
      BY <2>0, <1>9, <1>10, <2>3
    <2> QED BY <2>1, <2>2, <2>3
  <1> QED
    BY <1>1, <1>4, <1>7, <1>11, <1>12, Zenon DEF s, tip, tipNow

\* No entry of before belongs to the event of a commit.
LEMMA CommitExtends ==
    ASSUME EngineInv, NEW r \in Requests, Commits(r)
    PROVE  \E new \in SUBSET Entries :
              /\ journal_entries' = journal_entries \cup new
              /\ \A e \in new : /\ e.sequence_number > account_state[e.account_id].latest_sequence
                                /\ \A f \in journal_entries : f.event_id # e.event_id
              /\ \A a \in Accounts :
                    account_state'[a].latest_sequence >= account_state[a].latest_sequence
  <1>1. PICK first \in Entries, second \in Entries :
              /\ journal_entries' = journal_entries \cup {first, second}
              /\ \A e \in {first, second} :
                    /\ e.event_id = txn[r].id
                    /\ e.sequence_number > account_state[e.account_id].latest_sequence
              /\ \A a \in Accounts :
                    account_state'[a].latest_sequence >= account_state[a].latest_sequence
    BY CommitPublishes DEF EngineInv, EntryInv
  <1>2. \A f \in journal_entries : f.event_id # txn[r].id
    BY DEF EngineInv, KeyInv, LegsInv, IdsInv, Commits, InTransaction
  <1>3. {first, second} \in SUBSET Entries
    OBVIOUS
  <1> QED
    BY <1>1, <1>2, <1>3, Zenon

LEMMA SoundStays ==
    ASSUME EngineInv, [Next]_vars, NEW members, Sound(members)
    PROVE  Sound(members)'
  <1>0. TypeOK /\ FreshInv
    BY DEF EngineInv, PostingInv
  <1>1. CASE UNCHANGED <<account_type, account_state, journal_entries>>
    BY <1>1 DEF Sound, Past, Cut, Covers
  <1>2. ASSUME NEW b \in Accounts, NEW type \in AccountTypes, CreateAccount(b, type)
        PROVE  Sound(members)'
    <2>1. /\ account_type[b] = NoType /\ journal_entries' = journal_entries
          /\ \A a \in Accounts \ {b} : /\ account_type'[a] = account_type[a]
                                       /\ account_state'[a] = account_state[a]
      BY <1>0, <1>2 DEF CreateAccount, TypeOK
    <2> QED
      BY <2>1 DEF Sound, Past, Cut, Covers
  <1>3. ASSUME NEW r \in Requests, Commits(r) PROVE Sound(members)'
    <2>1. PICK new \in SUBSET Entries :
              /\ journal_entries' = journal_entries \cup new
              /\ \A e \in new : /\ e.sequence_number > account_state[e.account_id].latest_sequence
                                /\ \A f \in journal_entries : f.event_id # e.event_id
              /\ \A a \in Accounts :
                    account_state'[a].latest_sequence >= account_state[a].latest_sequence
      BY <1>3, CommitExtends
    <2>2. account_type' = account_type
      BY <1>3 DEF Commits, Publish
    <2>3. TypeOK'
      BY <1>0, TypeStep
    <2>4. \A a \in Accounts : /\ account_state[a].latest_sequence \in Nat
                              /\ account_state'[a].latest_sequence \in Nat
      BY <1>0, <2>3 DEF TypeOK, AccountStates
    <2>5. Past(members)'
      BY <2>1, <2>2, <2>4 DEF Sound, Past
    <2>6. \A e \in new : ~Covers(members, e)
      <3> SUFFICES ASSUME NEW e \in new, e.account_id \in DOMAIN members
                   PROVE  ~(e.sequence_number <= members[e.account_id].latest_sequence)
        BY DEF Covers
      <3>1. e.account_id \in Accounts /\ e.sequence_number \in Nat
        BY DEF Entries
      <3> QED
        BY <2>1, <2>4, <3>1 DEF Sound, Past
    <2>7. \A e, f \in journal_entries :
              e.event_id = f.event_id => (Covers(members, e) <=> Covers(members, f))
      BY DEF Sound, Cut
    <2>8. \A e, f \in journal_entries' :
              e.event_id = f.event_id => (Covers(members, e) <=> Covers(members, f))
      BY <2>1, <2>6, <2>7, Zenon
    <2>9. \A a \in DOMAIN members : members[a].latest_sequence > 0 =>
              \E e \in journal_entries' : /\ e.account_id = a
                                          /\ e.sequence_number = members[a].latest_sequence
                                          /\ e.entry_hash = members[a].latest_hash
      BY <2>1 DEF Sound, Cut
    <2> QED
      BY <2>5, <2>8, <2>9 DEF Sound, Cut, Covers
  <1> QED
    BY <1>1, <1>2, <1>3, TableStep

\* The rows a snapshot takes: every entry of the journal lies under a stored tip.
LEMMA SnapshotIsSound ==
    ASSUME EngineInv, NEW members, members = [a \in Existing |-> MemberOf(a)]
    PROVE  Sound(members)
  <1>0. TypeOK /\ FreshInv /\ ChainIntact
    BY DEF EngineInv, PostingInv, EntryInv
  <1>1. DOMAIN members = {a \in Accounts : account_type[a] # NoType}
    BY DEF Existing
  <1>2. \A a \in DOMAIN members :
            /\ members[a].latest_sequence = account_state[a].latest_sequence
            /\ members[a].latest_hash = account_state[a].latest_hash
    BY DEF MemberOf
  <1>3. \A a \in Accounts : account_state[a].latest_sequence \in Nat
    BY <1>0 DEF TypeOK, AccountStates
  <1>4. Past(members)
    BY <1>1, <1>2, <1>3 DEF Past
  <1>5. ASSUME NEW e \in journal_entries PROVE Covers(members, e)
    <2>1. e.account_id \in Accounts /\ e.sequence_number \in Nat
      BY <1>0 DEF TypeOK, Entries
    <2>2. e.sequence_number \in 1..account_state[e.account_id].latest_sequence
      BY <1>0, <2>1 DEF ChainIntact
    <2>3. account_type[e.account_id] # NoType
      BY <1>0, <2>1, <2>2 DEF FreshInv, NewAccountState
    <2> QED
      BY <1>1, <1>2, <1>3, <2>1, <2>2, <2>3 DEF Covers
  <1>6. ASSUME NEW a \in DOMAIN members, members[a].latest_sequence > 0
        PROVE  \E e \in journal_entries : /\ e.account_id = a
                                          /\ e.sequence_number = members[a].latest_sequence
                                          /\ e.entry_hash = members[a].latest_hash
    <2> DEFINE last == account_state[a].latest_sequence
    <2>1. a \in Accounts /\ last \in 1..last
      BY <1>1, <1>2, <1>3, <1>6
    <2>2. PICK e \in {f \in journal_entries : f.account_id = a} : e.sequence_number = last
      BY <1>0, <2>1 DEF ChainIntact
    <2>3. e.entry_hash = account_state[a].latest_hash
      BY <1>0, <2>1, <2>2 DEF ChainIntact
    <2> QED
      BY <1>2, <2>2, <2>3
  <1>7. Cut(members)
    BY <1>5, <1>6 DEF Cut
  <1> QED
    BY <1>4, <1>7 DEF Sound

\* Members come from a snapshot, and a snapshot from the current rows.
LEMMA MembersSource ==
    ASSUME ChainInv, [CheckpointNext]_allVars
    PROVE  /\ \A k \in checkpoints' :
                 \/ k \in checkpoints
                 \/ \E c \in Creators : step[c] # "idle" /\ k.members = snapshot[c].members
           /\ \A c \in Creators : step'[c] # "idle" =>
                 \/ step[c] # "idle" /\ snapshot'[c] = snapshot[c]
                 \/ ReadStates(c) /\ snapshot'[c] =
                        [members |-> [a \in Existing |-> MemberOf(a)], checkpoints |-> checkpoints]
  <1> DEFINE FromSnapshots ==
                 \A k \in checkpoints' :
                    \/ k \in checkpoints
                    \/ \E c \in Creators : step[c] # "idle" /\ k.members = snapshot[c].members
             Kept == \A c \in Creators : step'[c] # "idle" =>
                        step[c] # "idle" /\ snapshot'[c] = snapshot[c]
             Taken == \A c \in Creators : step'[c] # "idle" =>
                 \/ step[c] # "idle" /\ snapshot'[c] = snapshot[c]
                 \/ ReadStates(c) /\ snapshot'[c] =
                        [members |-> [a \in Existing |-> MemberOf(a)], checkpoints |-> checkpoints]
  <1>0. /\ step \in [Creators -> CreatorSteps]
        /\ snapshot = [d \in Creators |-> snapshot[d]]
    BY DEF ChainInv, CreatorInv
  <1>1. ASSUME NEW c \in Creators, EndCheckpoint(c) PROVE Kept
    BY <1>0, <1>1 DEF EndCheckpoint, StepTo
  <1>2. ASSUME NEW c \in Creators, ReadStates(c) PROVE FromSnapshots /\ Taken
    <2>1. /\ step' = [step EXCEPT ![c] = "previous"]
          /\ snapshot' = [snapshot EXCEPT ![c] = [members |-> [a \in Existing |-> MemberOf(a)],
                                                  checkpoints |-> checkpoints]]
          /\ checkpoints' = checkpoints
      BY <1>2 DEF ReadStates, StepTo
    <2>2. snapshot'[c] = [members |-> [a \in Existing |-> MemberOf(a)], checkpoints |-> checkpoints]
      BY <1>0, <2>1
    <2>3. \A d \in Creators \ {c} : step'[d] = step[d] /\ snapshot'[d] = snapshot[d]
      BY <1>0, <2>1
    <2> QED
      BY <1>2, <2>1, <2>2, <2>3, Zenon
  <1>3. ASSUME NEW c \in Creators, ReadPrevious(c) \/ InsertCheckpoint(c) \/ ShareAccount(c)
        PROVE  FromSnapshots /\ Kept
    BY <1>0, <1>3 DEF ReadPrevious, InsertCheckpoint, ShareAccount, StepTo
  <1>4. ASSUME NEW c \in Creators, DuplicateSequence(c) \/ CheckpointFails(c)
        PROVE  FromSnapshots /\ Kept
    BY <1>1, <1>4 DEF DuplicateSequence, CheckpointFails
  <1>5. ASSUME NEW c \in Creators, CommitCheckpoint(c) PROVE FromSnapshots /\ Kept
    <2>1. step[c] = "members" /\ checkpoints' = checkpoints \cup {inserted[c]} /\ Kept
      BY <1>1, <1>5 DEF CommitCheckpoint
    <2>2. inserted[c].members = snapshot[c].members
      BY <2>1, MembersAreAccounts
    <2> QED
      BY <2>1, <2>2
  <1>6. ASSUME UNCHANGED <<checkpoints, step, snapshot>> PROVE FromSnapshots /\ Kept
    BY <1>6
  <1>7. Kept => Taken
    OBVIOUS
  <1> HIDE DEF FromSnapshots, Kept, Taken
  <1>8. \/ UNCHANGED <<checkpoints, step, snapshot>>
        \/ \E c \in Creators : ReadStates(c) \/ AdvanceCheckpoint(c) \/ CheckpointFails(c)
    BY DEF CheckpointNext, ConnectFails, BesideCheckpoints, allVars, checkpointVars
  <1>9. FromSnapshots /\ Taken
    BY <1>2, <1>3, <1>4, <1>5, <1>6, <1>7, <1>8 DEF AdvanceCheckpoint
  <1> QED
    BY <1>9 DEF FromSnapshots, Taken

LEMMA MembersStep ==
    EngineInv /\ ChainInv /\ MembersInv /\ [CheckpointNext]_allVars => MembersInv'
  <1> SUFFICES ASSUME EngineInv, ChainInv, MembersInv, [CheckpointNext]_allVars
               PROVE  MembersInv'
    OBVIOUS
  <1>1. ASSUME NEW members, Sound(members) PROVE Sound(members)'
    BY <1>1, CheckpointsBesideEngine, SoundStays
  <1>2. ASSUME NEW k \in checkpoints' PROVE Sound(k.members)'
    <2>1. CASE k \in checkpoints
      BY <1>1, <2>1 DEF MembersInv
    <2>2. ASSUME NEW c \in Creators, step[c] # "idle", k.members = snapshot[c].members
          PROVE  Sound(k.members)'
      <3>1. Sound(k.members)
        BY <2>2 DEF MembersInv
      <3> QED BY <1>1, <3>1
    <2> QED BY <2>1, <2>2, MembersSource
  <1>3. ASSUME NEW c \in Creators, step'[c] # "idle" PROVE Sound(snapshot[c].members)'
    <2>1. PICK members : members = snapshot'[c].members
      OBVIOUS
    <2>2. Sound(members)
      <3>1. CASE step[c] # "idle" /\ snapshot'[c] = snapshot[c]
        BY <2>1, <3>1 DEF MembersInv
      <3>2. CASE snapshot'[c] = [members |-> [a \in Existing |-> MemberOf(a)],
                                 checkpoints |-> checkpoints]
        BY <2>1, <3>2, SnapshotIsSound
      <3> QED BY <1>3, <3>1, <3>2, MembersSource
    <2>3. Sound(members)'
      BY <1>1, <2>2
    <2> QED
      BY <2>1, <2>3 DEF Sound, Past, Cut, Covers
  <1> QED
    BY <1>2, <1>3 DEF MembersInv

LEMMA MembersInvHolds == CheckpointSpec => [](EngineInv /\ ChainInv /\ MembersInv)
  <1>1. CheckpointInit => MembersInv
    BY DEF CheckpointInit, MembersInv
  <1>2. CheckpointSpec => []EngineInv
    BY CheckpointsRunEngine, EngineInvHolds, PTL
  <1> QED
    BY <1>1, <1>2, ChainInvHolds, MembersStep, PTL DEF CheckpointSpec

\* "Every account's chain-tip state at one consistent moment" (create-checkpoint.ts:16):
\* a checkpoint commits to whole postings, and its members are entries that are in
\* the journal for good.
THEOREM CheckpointsAreCuts == CheckpointSpec => []CheckpointIsACut
  <1>1. MembersInv => CheckpointIsACut
    BY DEF MembersInv, Sound, Cut, Covers, CheckpointIsACut
  <1> QED
    BY <1>1, MembersInvHolds, PTL

LEMMA AdvanceStep ==
    ChainInv /\ MembersInv /\ AdvanceInv /\ [CheckpointNext]_allVars => AdvanceInv'
  <1> SUFFICES ASSUME ChainInv, MembersInv, AdvanceInv, [CheckpointNext]_allVars
               PROVE  AdvanceInv'
    OBVIOUS
  <1>1. ASSUME NEW c \in Creators, step'[c] # "idle", NEW k \in snapshot'[c].checkpoints
        PROVE  Ahead(snapshot'[c].members, k.members)
    <2>1. CASE step[c] # "idle" /\ snapshot'[c] = snapshot[c]
      BY <1>1, <2>1 DEF AdvanceInv
    <2>2. CASE snapshot'[c] = [members |-> [a \in Existing |-> MemberOf(a)],
                               checkpoints |-> checkpoints]
      <3>1. Past(k.members)
        BY <1>1, <2>2 DEF MembersInv, Sound
      <3> QED
        BY <2>2, <3>1 DEF Past, Ahead, Existing, MemberOf
    <2> QED BY <1>1, <2>1, <2>2, MembersSource
  <1>2. CheckpointsAdvance'
    <2>1. CASE checkpoints' = checkpoints
      BY <2>1 DEF AdvanceInv, CheckpointsAdvance
    <2>2. ASSUME NEW c \in Creators, CommitCheckpoint(c) PROVE CheckpointsAdvance'
      <3>0. PICK new : new = inserted[c]
        OBVIOUS
      <3>1. /\ step[c] = "members" /\ checkpoints' = checkpoints \cup {new}
            /\ snapshot[c].checkpoints = checkpoints
            /\ new = NextCheckpoint(checkpoints, snapshot[c].members)
        BY <2>2, <3>0, CommitContinues DEF CommitCheckpoint
      <3>2. PICK n \in Nat : Line(checkpoints, n)
        BY DEF ChainInv, IsLine
      <3>3. new.sequence_number = n + 1 /\ new.members = snapshot[c].members
        BY <3>1, <3>2, NextContinues
      <3>4. \A j \in checkpoints : /\ j.sequence_number \in 1..n
                                   /\ Ahead(new.members, j.members)
        BY <3>1, <3>2, <3>3 DEF Line, AdvanceInv
      <3>5. \A j \in checkpoints : ~(new.sequence_number < j.sequence_number)
        BY <3>3, <3>4
      <3>6. ~(new.sequence_number < new.sequence_number)
        BY <3>3
      <3> SUFFICES ASSUME NEW j \in checkpoints', NEW k \in checkpoints',
                          j.sequence_number < k.sequence_number
                   PROVE  Ahead(k.members, j.members)
        BY DEF CheckpointsAdvance, Ahead
      <3>7. CASE j \in checkpoints /\ k \in checkpoints
        BY <3>7 DEF AdvanceInv, CheckpointsAdvance, Ahead
      <3>8. CASE j \in checkpoints /\ k = new
        BY <3>4, <3>8
      <3>9. j # new
        BY <3>1, <3>5, <3>6
      <3> QED BY <3>1, <3>7, <3>8, <3>9
    <2>3. checkpoints' = checkpoints \/ \E c \in Creators : CommitCheckpoint(c)
      BY DEF CheckpointNext, AdvanceCheckpoint, BesideCheckpoints, ReadStates, ConnectFails, ReadPrevious,
             InsertCheckpoint, DuplicateSequence, ShareAccount, CheckpointFails,
             allVars, checkpointVars
    <2> QED BY <2>1, <2>2, <2>3
  <1> QED
    BY <1>1, <1>2 DEF AdvanceInv, Ahead

\* No checkpoint falls behind one before it, although its states and the previous
\* checkpoint are read by two statements (create-checkpoint.ts:36-57).
THEOREM CheckpointsNeverFallBehind == CheckpointSpec => []CheckpointsAdvance
  <1>1. CheckpointInit => AdvanceInv
    BY DEF CheckpointInit, AdvanceInv, CheckpointsAdvance
  <1>2. AdvanceInv => CheckpointsAdvance
    BY DEF AdvanceInv
  <1> QED
    BY <1>1, <1>2, AdvanceStep, MembersInvHolds, PTL DEF CheckpointSpec

-----------------------------------------------------------------------------
(***************************************************************************)
(* Proofs about Server, for all requests, creators, rounds and pools: the  *)
(* server runs Checkpoints, and with it the engine, and its shutdown cuts  *)
(* nothing off.                                                            *)
(***************************************************************************)
\* A step of a creator or of the process leaves the engine alone.
LEMMA CreatorStep ==
    ASSUME NEW c \in Creators, AdvanceCheckpoint(c) \/ CheckpointFails(c)
    PROVE  UNCHANGED vars /\ step[c] # "idle"
  BY DEF AdvanceCheckpoint, ReadPrevious, InsertCheckpoint, DuplicateSequence, ShareAccount,
         CommitCheckpoint, CheckpointFails

LEMMA CheckpointStep == [ServerNext]_processVars => [CheckpointNext]_allVars
  <1> SUFFICES ASSUME [ServerNext]_processVars PROVE CheckpointNext \/ UNCHANGED allVars
    OBVIOUS
  <1>1. ASSUME NEW c \in Creators, TickFires(c) \/ PostCheckpoint(c) PROVE UNCHANGED allVars
    BY <1>1 DEF TickFires, PostCheckpoint
  <1>2. ASSUME NEW c \in Creators, Acquire(c) \/ AcquireFails(c)
        PROVE  ReadStates(c) \/ ConnectFails(c)
    BY <1>2 DEF Acquire, AcquireFails
  <1>3. ASSUME \/ Signal \/ CloseDone \/ PoolDrained
               \/ \E r \in Requests : RequestAbandoned(r)
               \/ \E c \in Creators : PostAbandoned(c)
        PROVE  UNCHANGED allVars
    BY <1>3 DEF Signal, CloseDone, PoolDrained, RequestAbandoned, PostAbandoned
  <1>4. ASSUME Next /\ BesideServer PROVE Next /\ BesideCheckpoints
    BY <1>4 DEF BesideServer
  <1>5. ASSUME UNCHANGED processVars PROVE UNCHANGED allVars
    BY <1>5 DEF processVars
  <1> QED
    BY <1>1, <1>2, <1>3, <1>4, <1>5 DEF ServerNext, CheckpointNext

\* Ticks that overlap, calls of POST /checkpoints, the queue of the pool and the
\* shutdown only choose when createCheckpoint runs (checkpoint.job.ts, index.ts):
\* every theorem about Checkpoints is one about the server.
THEOREM ServerRunsCheckpoints == ServerSpec => CheckpointSpec
  <1>1. ServerInit => CheckpointInit
    BY DEF ServerInit
  <1> QED
    BY <1>1, CheckpointStep, PTL DEF ServerSpec, CheckpointSpec

\* And its requests behave as LedgerEngine says (index.ts, ledger.service.ts).
THEOREM ServerRunsEngine == ServerSpec => Spec
  BY ServerRunsCheckpoints, CheckpointsRunEngine, PTL

-----------------------------------------------------------------------------
(***************************************************************************)
(* Shutdown.                                                               *)
(***************************************************************************)
Quiet(r) == pc[r] \in {"idle", "done"}

ProcessInv ==
    /\ lifecycle \in {"running", "closing", "draining", "exited"}
    /\ caller \in [Creators -> {"none", "tick", "post", "left"}]
    /\ step \in [Creators -> CreatorSteps]
    /\ NothingCutOff

\* Without a new attempt a request that is not in flight stays so.
LEMMA QuietStays ==
    ASSUME TypeOK, Next, attempts' = attempts, NEW r \in Requests, Quiet(r)
    PROVE  Quiet(r)'
  <1>1. ASSUME NEW q \in Requests, Submit(q) \/ RejectAmount(q) PROVE FALSE
    <2>1. attempts \in [Requests -> Nat] /\ attempts' = [attempts EXCEPT ![q] = @ + 1]
      BY <1>1 DEF TypeOK, Submit, RejectAmount
    <2>2. attempts'[q] = attempts[q] + 1 /\ attempts[q] \in Nat
      BY <2>1
    <2> QED
      BY <2>2
  <1>2. ASSUME NEW q \in Requests, NEW s, GoTo(q, s), pc[q] \notin {"idle", "done"}
        PROVE  Quiet(r)'
    BY <1>2 DEF GoTo, TypeOK, Quiet
  <1>3. ASSUME NEW q \in Requests, Advance(q) PROVE Quiet(r)'
    <2>1. CASE LookupKey(q)
      BY <2>1, <1>2 DEF LookupKey, Replay, Answer
    <2>2. CASE Begin(q)
      BY <2>2, <1>2 DEF Begin
    <2>3. CASE LockAccount(q)
      BY <2>3 DEF LockAccount, Quiet
    <2>4. CASE AccountMissing(q)
      BY <2>4, <1>2 DEF AccountMissing, RollBackWith, Answer
    <2>5. CASE RejectPosting(q) \/ RejectBalance(q)
      BY <2>5, <1>2 DEF RejectPosting, RejectBalance, ReadyToPost, RollBackWith, Answer
    <2>6. CASE PostEntries(q)
      BY <2>6, <1>2 DEF PostEntries, ReadyToPost, UniqueViolation
    <2>7. CASE InsertKey(q)
      BY <2>7, <1>2 DEF InsertKey
    <2>8. CASE KeyTaken(q)
      BY <2>8, <1>2 DEF KeyTaken, UniqueViolation
    <2>9. CASE FetchWinner(q)
      BY <2>9, <1>2 DEF FetchWinner, Replay, Answer
    <2>10. CASE Commit(q)
      BY <2>10, <1>2 DEF Commit, RollBackWith, Answer
    <2> QED
      BY <1>3, <2>1, <2>2, <2>3, <2>4, <2>5, <2>6, <2>7, <2>8, <2>9, <2>10 DEF Advance
  <1>4. ASSUME NEW q \in Requests, ConnectionLost(q) PROVE Quiet(r)'
    BY <1>4, <1>2 DEF ConnectionLost, RollBackWith, Answer
  <1>5. ASSUME NEW q \in Requests, CommitAnswerLost(q) PROVE Quiet(r)'
    BY <1>5, <1>2 DEF CommitAnswerLost, Answer
  <1>6. ASSUME NEW a \in Accounts, NEW type \in AccountTypes, CreateAccount(a, type)
        PROVE  Quiet(r)'
    BY <1>6 DEF CreateAccount, Quiet
  <1>7. ASSUME Tick \/ Terminated PROVE Quiet(r)'
    BY <1>7 DEF Tick, Terminated, vars, Quiet
  <1> QED
    BY <1>1, <1>3, <1>4, <1>5, <1>6, <1>7 DEF Next

LEMMA ProcessStep == TypeOK /\ ProcessInv /\ [ServerNext]_processVars => ProcessInv'
  <1> SUFFICES ASSUME TypeOK, ProcessInv, [ServerNext]_processVars PROVE ProcessInv'
    OBVIOUS
  <1> USE DEF ProcessInv
  \* Engine: past "running" nothing new is sent, and what is not in flight stays so.
  <1>1. CASE Next /\ BesideServer
    <2>1. UNCHANGED <<lifecycle, caller, step>>
      BY <1>1 DEF BesideServer, BesideCheckpoints, checkpointVars
    <2>2. ASSUME lifecycle \in {"draining", "exited"} PROVE InFlight' = {}
      <3>1. attempts' = attempts
        BY <1>1, <2>2 DEF BesideServer
      <3>2. \A r \in Requests : Quiet(r) \/ r \in abandoned
        BY <2>2 DEF NothingCutOff, InFlight, Unanswered, Quiet
      <3>3. \A r \in Requests : Quiet(r)' \/ r \in abandoned'
        BY <1>1, <3>1, <3>2, QuietStays DEF BesideServer, Unanswered, Quiet
      <3>4. \A c \in Creators : caller'[c] # "post"
        BY <2>1, <2>2 DEF NothingCutOff, InFlight
      <3> QED
        BY <3>3, <3>4 DEF InFlight, Unanswered, Quiet
    <2>3. ASSUME lifecycle = "exited" PROVE Connected' = {} /\ Checkpointing' = {}
      BY <1>1, <2>1, <2>3 DEF NothingCutOff, BesideServer, Connected, Checkpointing
    <2> QED
      BY <2>1, <2>2, <2>3 DEF NothingCutOff
  \* New calls and connections: only before the pool ends.
  <1>2. ASSUME NEW c \in Creators, TickFires(c) \/ PostCheckpoint(c) PROVE ProcessInv'
    BY <1>2 DEF TickFires, PostCheckpoint, MayCall, NothingCutOff, allVars, checkpointVars
  <1>3. ASSUME NEW c \in Creators, Acquire(c) \/ AcquireFails(c) PROVE ProcessInv'
    <2>1. lifecycle \in {"running", "closing"} /\ lifecycle' = lifecycle
      BY <1>3 DEF Acquire, AcquireFails, PoolServes, serverVars
    <2>2. caller' \in [Creators -> {"none", "tick", "post", "left"}]
      BY <1>3 DEF Acquire, AcquireFails, serverVars
    <2>3. step' \in [Creators -> CreatorSteps]
      BY <1>3 DEF Acquire, AcquireFails, ReadStates, ConnectFails, StepTo, CreatorSteps
    <2> QED
      BY <2>1, <2>2, <2>3 DEF NothingCutOff
  \* A checkpoint goes on or ends: its caller is told, and nobody else is.
  <1>4. ASSUME NEW c \in Creators, AdvanceCheckpoint(c) \/ CheckpointFails(c), Returns(c)
        PROVE  ProcessInv'
    <2>1. UNCHANGED vars /\ step[c] # "idle"
      BY <1>4, CreatorStep
    <2>2. lifecycle' = lifecycle /\ lifecycle # "exited"
      BY <1>4, <2>1 DEF Returns, NothingCutOff, Checkpointing
    <2>3. /\ caller' \in [Creators -> {"none", "tick", "post", "left"}]
          /\ \A d \in Creators : caller'[d] = "post" => caller[d] = "post"
      BY <1>4 DEF Returns
    <2>4. step' \in [Creators -> CreatorSteps]
      BY <1>4 DEF AdvanceCheckpoint, ReadPrevious, InsertCheckpoint, DuplicateSequence,
                  ShareAccount, CommitCheckpoint, CheckpointFails, EndCheckpoint, StepTo, CreatorSteps
    <2>5. InFlight' \subseteq InFlight
      BY <1>4, <2>1, <2>3 DEF InFlight, Unanswered, Returns, vars
    <2> QED
      BY <2>2, <2>3, <2>4, <2>5 DEF NothingCutOff
  <1>5. CASE Signal
    BY <1>5 DEF Signal, NothingCutOff, allVars, checkpointVars
  \* Clients leave before the pool ends.
  <1>6. ASSUME (\E r \in Requests : RequestAbandoned(r)) \/ \E c \in Creators : PostAbandoned(c)
        PROVE  ProcessInv'
    <2>1. lifecycle = "closing" /\ lifecycle' = lifecycle /\ step' = step
      BY <1>6 DEF RequestAbandoned, PostAbandoned, allVars, checkpointVars
    <2>2. caller' \in [Creators -> {"none", "tick", "post", "left"}]
      BY <1>6 DEF RequestAbandoned, PostAbandoned
    <2> QED
      BY <2>1, <2>2 DEF NothingCutOff
  <1>7. CASE CloseDone
    <2>1. InFlight' = InFlight
      BY <1>7 DEF CloseDone, InFlight, Unanswered, allVars, vars
    <2> QED
      BY <1>7, <2>1 DEF CloseDone, NothingCutOff, allVars, checkpointVars
  <1>8. CASE PoolDrained
    <2>1. InFlight' \subseteq InFlight /\ Connected' = {} /\ Checkpointing' = {}
      BY <1>8 DEF PoolDrained, InFlight, Unanswered, Connected, Checkpointing, allVars,
                  checkpointVars, vars
    <2> QED
      BY <1>8, <2>1 DEF PoolDrained, NothingCutOff, allVars, checkpointVars
  <1>9. CASE UNCHANGED processVars
    BY <1>9 DEF processVars, serverVars, allVars, checkpointVars, vars, NothingCutOff,
                InFlight, Unanswered, Connected, Checkpointing
  <1> QED
    BY <1>1, <1>2, <1>3, <1>4, <1>5, <1>6, <1>7, <1>8, <1>9 DEF ServerNext

\* The order of shutdown cuts nothing off (index.ts:21-26), for any number of requests
\* and checkpoints, whatever fails and whichever clients leave.
THEOREM ShutdownCutsNothingOff == ServerSpec => []NothingCutOff
  <1>1. ServerInit => ProcessInv
    BY DEF ServerInit, CheckpointInit, ProcessInv, NothingCutOff, CreatorSteps
  <1>2. ServerSpec => []TypeOK
    BY ServerRunsEngine, TypeCorrect, PTL
  <1>3. ProcessInv => NothingCutOff
    BY DEF ProcessInv
  <1> QED
    BY <1>1, <1>2, <1>3, ProcessStep, PTL DEF ServerSpec
=============================================================================
