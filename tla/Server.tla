------------------------------- MODULE Server -------------------------------
(***************************************************************************)
(* The server process (index.ts): it starts listening and the checkpoint   *)
(* job, and on SIGTERM or SIGINT stops the timer, closes the HTTP server,  *)
(* destroys the pool and exits.  Requests and checkpoints are those of     *)
(* LedgerEngine and Checkpoints; here they have callers, and the pool ends *)
(* under them.                                                             *)
(*                                                                         *)
(* app.close() of Fastify takes no new requests and waits for the sockets  *)
(* of the ones in flight: a client may leave before its answer, and then   *)
(* the handler goes on with nobody waiting for it.  pool.end() of          *)
(* node-postgres closes each connection when it is given back, hands none  *)
(* out any more, also not to a caller that is already queued, and is done  *)
(* when the last connection is closed.                                     *)
(***************************************************************************)
EXTENDS Checkpoints

CONSTANT Ticks      \* the creators that are ticks; the others are POST /checkpoints

ASSUME TicksAssumption == Ticks \subseteq Creators

VARIABLES
    lifecycle,  \* "running", "closing", "draining" or "exited"
    caller,     \* who called a creator's createCheckpoint: "none", "tick", "post",
                \* or "left", a POST whose client is gone
    abandoned   \* the requests in flight whose client is gone

serverVars == <<lifecycle, caller, abandoned>>
processVars == <<allVars, serverVars>>

ServerInit ==
    /\ CheckpointInit
    /\ lifecycle = "running"
    /\ caller = [c \in Creators |-> "none"]
    /\ abandoned = {}

PoolServes == lifecycle \in {"running", "closing"}

-----------------------------------------------------------------------------
(***************************************************************************)
(* The callers of createCheckpoint.                                        *)
(***************************************************************************)
MayCall(c) ==
    /\ lifecycle = "running"
    /\ caller[c] = "none"
    /\ rounds[c] < MaxRounds

\* The interval ends, whether or not the checkpoint of the one before is done.
TickFires(c) ==
    /\ MayCall(c)
    /\ c \in Ticks
    /\ caller' = [caller EXCEPT ![c] = "tick"]
    /\ UNCHANGED <<allVars, lifecycle, abandoned>>

PostCheckpoint(c) ==
    /\ MayCall(c)
    /\ c \notin Ticks
    /\ caller' = [caller EXCEPT ![c] = "post"]
    /\ UNCHANGED <<allVars, lifecycle, abandoned>>

Queued == {c \in Creators : caller[c] # "none" /\ step[c] = "idle"}

\* The pool has a connection for the transaction of c.
Acquire(c) ==
    /\ c \in Queued
    /\ PoolServes
    /\ ReadStates(c)
    /\ UNCHANGED serverVars

AcquireFails(c) ==
    /\ c \in Queued
    /\ PoolServes
    /\ ConnectFails(c)
    /\ caller' = [caller EXCEPT ![c] = "none"]
    /\ UNCHANGED <<lifecycle, abandoned>>

\* The caller has its result or its error, which a tick only logs.
Returns(c) ==
    /\ caller' = [caller EXCEPT ![c] = IF step'[c] = "idle" THEN "none" ELSE @]
    /\ UNCHANGED <<lifecycle, abandoned>>

-----------------------------------------------------------------------------
(***************************************************************************)
(* The clients that wait for an answer, and those that do not.             *)
(***************************************************************************)
Unanswered(r) == pc[r] \notin {"idle", "done"}

\* What app.close() waits for: the calls whose client is still there.
InFlight ==
    {r \in Requests \ abandoned : Unanswered(r)} \cup {c \in Creators : caller[c] = "post"}

\* The client closes its connection and the handler does not notice.  Only app.close()
\* does: a client that left before it counts as one that leaves now.
RequestAbandoned(r) ==
    /\ lifecycle = "closing"
    /\ Unanswered(r)
    /\ r \notin abandoned
    /\ abandoned' = abandoned \cup {r}
    /\ UNCHANGED <<allVars, lifecycle, caller>>

PostAbandoned(c) ==
    /\ lifecycle = "closing"
    /\ caller[c] = "post"
    /\ caller' = [caller EXCEPT ![c] = "left"]
    /\ UNCHANGED <<allVars, lifecycle, abandoned>>

-----------------------------------------------------------------------------
(***************************************************************************)
(* shutdown().                                                             *)
(***************************************************************************)
\* checkpointJob.stop(), and app.close() begins.
Signal ==
    /\ lifecycle = "running"
    /\ lifecycle' = "closing"
    /\ UNCHANGED <<allVars, caller, abandoned>>

\* app.close() resolves, and db.destroy() begins.
\* Faulty variant: shutdown does not await app.close().
DestroyAtOnce ==
    /\ lifecycle = "closing"
    /\ lifecycle' = "draining"
    /\ UNCHANGED <<allVars, caller, abandoned>>

CloseDone ==
    /\ lifecycle = "closing"
    /\ InFlight = {}
    /\ lifecycle' = "draining"
    /\ UNCHANGED <<allVars, caller, abandoned>>

\* pool.end() resolves, and process.exit(0) drops what is still queued.
\* Faulty variant: the pool also waits for the callers in its queue.
DrainQueueFirst ==
    /\ lifecycle = "draining"
    /\ Connected = {} /\ Checkpointing = {} /\ Queued = {}
    /\ lifecycle' = "exited"
    /\ caller' = [c \in Creators |-> "none"]
    /\ UNCHANGED <<allVars, abandoned>>

PoolDrained ==
    /\ lifecycle = "draining"
    /\ Connected = {} /\ Checkpointing = {}
    /\ lifecycle' = "exited"
    /\ caller' = [c \in Creators |-> "none"]
    /\ UNCHANGED <<allVars, abandoned>>

-----------------------------------------------------------------------------
\* The engine takes requests while the server runs, gets connections while the
\* pool serves, and is gone with the process.
BesideServer ==
    /\ BesideCheckpoints
    /\ lifecycle # "running" => attempts' = attempts
    /\ account_type' # account_type => PoolServes
    /\ \A r \in Requests :
          /\ pc[r] \in {"lookup", "begin", "conflict"}
          /\ pc'[r] # pc[r]
          /\ outcome'[r].kind # "connection_lost"
          => PoolServes
    /\ lifecycle = "exited" => pc' = pc
    /\ abandoned' = {r \in abandoned : Unanswered(r)'}
    /\ UNCHANGED <<lifecycle, caller>>

ServerNext ==
    \/ Next /\ BesideServer
    \/ \E c \in Creators :
        \/ TickFires(c)
        \/ PostCheckpoint(c)
        \/ Acquire(c)
        \/ AcquireFails(c)
        \/ AdvanceCheckpoint(c) /\ Returns(c)
        \/ CheckpointFails(c) /\ Returns(c)
        \/ PostAbandoned(c)
    \/ \E r \in Requests : RequestAbandoned(r)
    \/ Signal
    \/ CloseDone
    \/ PoolDrained

ServerSpec == ServerInit /\ [][ServerNext]_processVars

\* What was accepted or begun goes on, the pool serves its queue while it has
\* connections, and shutdown() goes on after each of its awaits.  Clients need not come
\* or leave, and ticks, signals and failures need not come either.
FairServerSpec ==
    /\ ServerSpec
    /\ \A r \in Requests : WF_processVars(Advance(r) /\ BesideServer)
    /\ \A c \in Creators : WF_processVars(Acquire(c) \/ (AdvanceCheckpoint(c) /\ Returns(c)))
    /\ WF_processVars(CloseDone \/ PoolDrained)

-----------------------------------------------------------------------------
(***************************************************************************)
(* Properties.                                                             *)
(***************************************************************************)
\* The order of shutdown (index.ts:21-26) cuts nothing off: the pool ends when every
\* client that is still there has its answer, and when the process exits no
\* transaction is in the middle, also not one of a tick or of a request whose client
\* is gone, of which app.close() knows nothing.
NothingCutOff ==
    /\ lifecycle \in {"draining", "exited"} => InFlight = {}
    /\ lifecycle = "exited" => Connected = {} /\ Checkpointing = {}

\* A shutdown that began ends, whatever holds or waits for connections.
ShutdownEnds == lifecycle = "closing" ~> lifecycle = "exited"

\* Every call of createCheckpoint ends: committed, refused, or dropped at the exit.
EveryCallEnds == \A c \in Creators : caller[c] # "none" ~> caller[c] = "none"

\* A request the server accepted is answered, through failures and the shutdown; only
\* one whose client is gone may be dropped, at the exit and outside a transaction.
EveryRequestAnswered ==
    \A r \in Requests :
        pc[r] = "lookup" ~> \/ pc[r] = "done"
                            \/ lifecycle = "exited" /\ r \in abandoned
=============================================================================
