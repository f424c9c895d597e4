----------------------------- MODULE LedgerEngine -----------------------------
(***************************************************************************)
(* The write path of the ledger: the POST /transfers and POST /deposits    *)
(* requests that run postLedgerEntries (ledger.service.ts) concurrently    *)
(* against one PostgreSQL database, and POST /accounts.                    *)
(*                                                                         *)
(* A request is a process.  It runs the statements of postLedgerEntries    *)
(* one after the other; what its open transaction has read under lock and  *)
(* written so far is its own workspace (txn, chain, staged), and nobody    *)
(* sees it before the commit (READ COMMITTED).  Rows of the tables are the *)
(* committed ones.  The connection of a request may fail at any point of   *)
(* its transaction, also after the commit and before the answer, and a     *)
(* client may send the same request again.                                 *)
(*                                                                         *)
(* SHA-256 is taken as collision free: the hash of an entry is the         *)
(* sequence of everything that was hashed, <<>> for the genesis.           *)
(***************************************************************************)
EXTENDS Accounting, FiniteSets, Sequences, FiniteSetsExt

CONSTANTS
    Accounts,         \* ids of accounts, ordered as the identity column orders them
    Requests,         \* concurrent HTTP requests
    Keys,             \* values of the Idempotency-Key header
    Submissions,      \* the bodies clients send, each with its key
    InitialType,      \* the accounts that exist already, NoType for the others
    PoolMax,          \* connections in the pool
    MaxBalance,       \* the largest value of NUMERIC(19, 4), in minor units
    MaxAttempts,      \* BOUND: how often a client sends one request
    MaxClock,         \* BOUND: the last reading of the database clock
    ConnectionFails   \* whether connections are lost

Kinds == {"transfer", "deposit"}

ASSUME AccountsAssumption == Accounts \subseteq Nat
ASSUME SubmissionsAssumption ==
    Submissions \subseteq [key: Keys, kind: Kinds, from: Accounts, to: Accounts, amount: Int]
ASSUME InitialTypeAssumption == InitialType \in [Accounts -> AccountTypes \cup {NoType}]
ASSUME BoundsAssumption ==
    /\ PoolMax \in Nat \ {0}
    /\ MaxBalance \in Nat
    /\ MaxAttempts \in Nat \ {0}
    /\ MaxClock \in Nat
    /\ ConnectionFails \in BOOLEAN

VARIABLES
    clock,              \* now() of the database
    nextId,             \* identity column of transactions (and of events)
    account_type,       \* accounts
    account_state,      \* account_state: balance and tip of the chain
    journal_entries,    \* journal_entries
    events,             \* events, each with its transaction
    idempotency_keys,   \* key -> transaction, 0 when there is no row
    lock,               \* account -> the transactions that hold FOR UPDATE on its rows
    pc,                 \* where a request is
    submission,         \* what its client sends
    txn,                \* its open transaction: id and now() at its start
    chain,              \* chainState, the locked rows in the request's memory
    staged,             \* journal entries it inserted and has not committed
    outcome,            \* what it answered
    attempts            \* how often it was sent

tables == <<nextId, account_type, account_state, journal_entries, events, idempotency_keys>>
workspace == <<txn, chain, staged>>
vars == <<clock, tables, lock, pc, submission, workspace, outcome, attempts>>

-----------------------------------------------------------------------------
(***************************************************************************)
(* The records.                                                            *)
(***************************************************************************)
HashedFields ==
    [sequence_number: Nat, account_id: Accounts, event_id: Nat,
     signed_amount: Int, recorded_at: Nat]

Hashes == Seq(HashedFields)
Genesis == <<>>

AccountStates == [current_balance: Int, latest_hash: Hashes, latest_sequence: Nat]

ChainStates ==
    [account_type: AccountTypes \cup {NoType}, current_balance: Int,
     latest_hash: Hashes, latest_sequence: Nat]

Entries ==
    [account_id: Accounts, event_id: Nat, signed_amount: Int, sequence_number: Nat,
     recorded_at: Nat, previous_hash: Hashes, entry_hash: Hashes]

Events == [id: Nat, recorded_at: Nat, payload: Submissions]

Steps == {"idle", "lookup", "begin", "locking", "keying", "committing", "conflict", "done"}

DomainErrors ==
    {"invalid_amount", "account_missing", "imbalanced", "insufficient_funds",
     "invalid_account_type", "out_of_range"}

Outcomes ==
    DomainErrors \cup {"none", "posted", "replayed", "connection_lost",
                       "winner_missing", "trigger_raised"}

\* Faulty variant: the sequence of an account starts at -1, for a first entry 0.
NewAccountStateFromZero ==
    [current_balance |-> 0, latest_hash |-> Genesis, latest_sequence |-> -1]

NewAccountState == [current_balance |-> 0, latest_hash |-> Genesis, latest_sequence |-> 0]
Unread == [account_type |-> NoType, current_balance |-> 0,
           latest_hash |-> Genesis, latest_sequence |-> 0]
NoTxn == [id |-> 0, recorded_at |-> 0]
NoOutcome == [kind |-> "none", transaction_id |-> 0]

Init ==
    /\ clock = 0
    /\ nextId = 1
    /\ account_type = InitialType
    /\ account_state = [a \in Accounts |-> NewAccountState]
    /\ journal_entries = {}
    /\ events = {}
    /\ idempotency_keys = [k \in Keys |-> 0]
    /\ lock = [a \in Accounts |-> {}]
    /\ pc = [r \in Requests |-> "idle"]
    /\ submission \in [Requests -> Submissions]
    /\ txn = [r \in Requests |-> NoTxn]
    /\ chain = [r \in Requests |-> [a \in Accounts |-> Unread]]
    /\ staged = [r \in Requests |-> {}]
    /\ outcome = [r \in Requests |-> NoOutcome]
    /\ attempts = [r \in Requests |-> 0]

-----------------------------------------------------------------------------
(***************************************************************************)
(* The connection pool and the end of an attempt.                          *)
(***************************************************************************)
InTransaction == {"locking", "keying", "committing"}
Connected == {r \in Requests : pc[r] \in InTransaction}
ConnectionFree == Cardinality(Connected) < PoolMax

GoTo(r, step) == pc' = [pc EXCEPT ![r] = step]

Answer(r, kind, id) ==
    /\ GoTo(r, "done")
    /\ outcome' = [outcome EXCEPT ![r] = [kind |-> kind, transaction_id |-> id]]

\* The transaction is over: PostgreSQL releases its row locks and the request
\* drops what it had in memory.
EndTransaction(r) ==
    /\ lock' = [a \in Accounts |-> lock[a] \ {r}]
    /\ txn' = [txn EXCEPT ![r] = NoTxn]
    /\ chain' = [chain EXCEPT ![r] = [a \in Accounts |-> Unread]]
    /\ staged' = [staged EXCEPT ![r] = {}]

\* The statement, the hook or the commit throws: nothing of the transaction stays.
RollBackWith(r, kind) ==
    /\ EndTransaction(r)
    /\ Answer(r, kind, 0)
    /\ UNCHANGED <<clock, tables, submission, attempts>>

-----------------------------------------------------------------------------
(***************************************************************************)
(* Clients, the clock and POST /accounts.                                  *)
(***************************************************************************)
MaySend(r) == pc[r] \in {"idle", "done"} /\ attempts[r] < MaxAttempts

\* The client sends the request, for the first time or again.
Submit(r) ==
    /\ MaySend(r)
    /\ submission[r].amount > 0
    /\ GoTo(r, "lookup")
    /\ outcome' = [outcome EXCEPT ![r] = NoOutcome]
    /\ attempts' = [attempts EXCEPT ![r] = @ + 1]
    /\ UNCHANGED <<clock, tables, lock, submission, workspace>>

\* The commands refuse an amount that is not positive before anything else.
RejectAmount(r) ==
    /\ MaySend(r)
    /\ submission[r].amount <= 0
    /\ Answer(r, "invalid_amount", 0)
    /\ attempts' = [attempts EXCEPT ![r] = @ + 1]
    /\ UNCHANGED <<clock, tables, lock, submission, workspace>>

Tick ==
    /\ clock < MaxClock
    /\ clock' = clock + 1
    /\ UNCHANGED <<tables, lock, pc, submission, workspace, outcome, attempts>>

\* One transaction inserts the account and its state row.  An id stands for the
\* account_code it is created under: a code in use is refused with 23505 and, like a
\* creation that fails, leaves the tables as they are.
CreateAccount(a, type) ==
    /\ ConnectionFree
    /\ account_type[a] = NoType
    /\ account_type' = [account_type EXCEPT ![a] = type]
    /\ account_state' = [account_state EXCEPT ![a] = NewAccountState]
    /\ UNCHANGED <<clock, nextId, journal_entries, events, idempotency_keys, lock, pc,
                   submission, workspace, outcome, attempts>>

-----------------------------------------------------------------------------
(***************************************************************************)
(* postLedgerEntries, before the transaction.                              *)
(***************************************************************************)
Bound(k) == idempotency_keys[k] # 0

\* Faulty variant: the answer names the transaction the request has itself.
ReplayOwnTransaction(r) == Answer(r, "replayed", txn[r].id)

Replay(r) == Answer(r, "replayed", idempotency_keys[submission[r].key])

\* The key is looked up on a connection of its own; the event it leads to is read
\* with a second SELECT, of rows that are never changed.
LookupKey(r) ==
    /\ pc[r] = "lookup"
    /\ ConnectionFree
    /\ IF Bound(submission[r].key)
       THEN Replay(r)
       ELSE GoTo(r, "begin") /\ UNCHANGED outcome
    /\ UNCHANGED <<clock, tables, lock, submission, workspace, attempts>>

\* BEGIN and the inserts into transactions and events.  Identity values are
\* drawn here and are not given back by a rollback; recorded_at is now(), the
\* start of the transaction.
Begin(r) ==
    /\ pc[r] = "begin"
    /\ ConnectionFree
    /\ GoTo(r, "locking")
    /\ txn' = [txn EXCEPT ![r] = [id |-> nextId, recorded_at |-> clock]]
    /\ nextId' = nextId + 1
    /\ UNCHANGED <<clock, account_type, account_state, journal_entries, events,
                   idempotency_keys, lock, submission, chain, staged, outcome, attempts>>

-----------------------------------------------------------------------------
(***************************************************************************)
(* The row locks, taken one account after the other in ascending order.    *)
(* The FOR UPDATE of the join locks the account_state row and the accounts *)
(* row of one account; both are locked by nobody without the other here.   *)
(***************************************************************************)
Unlocked(r) == {a \in UniqueAccountIds(submission[r]) : r \notin lock[a]}

\* Faulty variant: the accounts are locked in the order of the legs.
NextInLegOrder(r, a) ==
    /\ a \in Unlocked(r)
    /\ a = submission[r].from \/ submission[r].from \notin Unlocked(r)

NextToLock(r, a) ==
    /\ a \in Unlocked(r)
    /\ \A b \in Unlocked(r) : a <= b

HoldsAll(r) == Unlocked(r) = {}

\* Faulty variant: the SELECT has no FOR UPDATE.
GrantedToAnyone(a) == TRUE

Grantable(a) == lock[a] = {}

LockAccount(r) ==
    /\ pc[r] = "locking"
    /\ \E a \in Accounts :
        /\ NextToLock(r, a)
        /\ account_type[a] # NoType
        /\ Grantable(a)
        /\ lock' = [lock EXCEPT ![a] = @ \cup {r}]
        /\ chain' = [chain EXCEPT ![r][a] =
                        [account_type |-> account_type[a],
                         current_balance |-> account_state[a].current_balance,
                         latest_hash |-> account_state[a].latest_hash,
                         latest_sequence |-> account_state[a].latest_sequence]]
    /\ UNCHANGED <<clock, tables, pc, submission, txn, staged, outcome, attempts>>

\* executeTakeFirstOrThrow finds no row.
AccountMissing(r) ==
    /\ pc[r] = "locking"
    /\ \E a \in Accounts : NextToLock(r, a) /\ account_type[a] = NoType
    /\ RollBackWith(r, "account_missing")

-----------------------------------------------------------------------------
(***************************************************************************)
(* The checks between the locks and the inserts, on the locked rows.       *)
(***************************************************************************)
\* Faulty variant: the hook of the transfer only asks that there is no debt yet.
SufficientForAny(available, requested) == available >= 0

SufficientFunds(available, requested) == available >= requested

\* validateBeforePosting of the two commands.
\* Faulty variant: the deposit does not look at the types of its accounts.
PolicyOfTransfersOnly(s, rows) ==
    IF s.kind = "transfer" /\ ~SufficientFunds(rows[s.from].current_balance, s.amount)
    THEN "insufficient_funds" ELSE "ok"

PolicyVerdict(s, rows) ==
    CASE s.kind = "transfer" ->
            IF SufficientFunds(rows[s.from].current_balance, s.amount)
            THEN "ok" ELSE "insufficient_funds"
      [] s.kind = "deposit" ->
            IF rows[s.from].account_type = "asset" /\ rows[s.to].account_type = "liability"
            THEN "ok" ELSE "invalid_account_type"

InRange(x) == -MaxBalance <= x /\ x <= MaxBalance

TypesOf(rows) == [a \in Accounts |-> rows[a].account_type]

\* The zero-sum check, the hook and the type of signed_amount, in the order of the
\* code.  PostgreSQL refuses a value that NUMERIC(19, 4) cannot hold.
PostingVerdict(s, rows) ==
    IF BalanceSum(s, TypesOf(rows)) # 0 THEN "imbalanced"
    ELSE IF PolicyVerdict(s, rows) # "ok" THEN PolicyVerdict(s, rows)
    ELSE IF ~InRange(s.amount) THEN "out_of_range"
    ELSE "ok"

\* Faulty variant: the column has no limit.
BalancesAlwaysFit(s) == TRUE

\* The UPDATEs of current_balance stay within its type.
BalancesFit(s) ==
    \A a \in UniqueAccountIds(s) :
        InRange(account_state[a].current_balance + AccountDelta(s, a))

ReadyToPost(r) == pc[r] = "locking" /\ HoldsAll(r)

RejectPosting(r) ==
    /\ ReadyToPost(r)
    /\ LET verdict == PostingVerdict(submission[r], chain[r])
       IN  verdict # "ok" /\ RollBackWith(r, verdict)

-----------------------------------------------------------------------------
(***************************************************************************)
(* The inserts into journal_entries and the new tips of the chains.        *)
(***************************************************************************)
ComputeEntryHash(previous, fields) == Append(previous, fields)

FieldsOf(e) ==
    [sequence_number |-> e.sequence_number, account_id |-> e.account_id,
     event_id |-> e.event_id, signed_amount |-> e.signed_amount,
     recorded_at |-> e.recorded_at]

\* The entry of one leg, chained to the tip of row, in transaction t.
JournalEntry(leg, row, t) ==
    LET fields ==
            [sequence_number |-> row.latest_sequence + 1, account_id |-> leg.account_id,
             event_id |-> t.id,
             signed_amount |-> ToStoredSignedAmount(leg.direction,
                                   NormalBalanceSide(row.account_type), leg.amount),
             recorded_at |-> t.recorded_at]
    IN  [account_id |-> fields.account_id, event_id |-> fields.event_id,
         signed_amount |-> fields.signed_amount, sequence_number |-> fields.sequence_number,
         recorded_at |-> fields.recorded_at, previous_hash |-> row.latest_hash,
         entry_hash |-> ComputeEntryHash(row.latest_hash, fields)]

\* Faulty variant: the sequence advances and the hash stays.
AdvanceSequenceOnly(rows, e) ==
    [rows EXCEPT ![e.account_id] = [@ EXCEPT !.latest_sequence = e.sequence_number]]

AdvanceTip(rows, e) ==
    [rows EXCEPT ![e.account_id] = [@ EXCEPT !.latest_hash = e.entry_hash,
                                             !.latest_sequence = e.sequence_number]]

FirstEntry(s, rows, t) == JournalEntry(Legs(s)[1], rows[s.from], t)

\* The second leg chains to what the first one left, also on the same account.
\* Faulty variant: it chains to the tip that was locked.
SecondEntryOnLockedTip(s, rows, first, t) == JournalEntry(Legs(s)[2], rows[s.to], t)

SecondEntry(s, rows, first, t) == JournalEntry(Legs(s)[2], AdvanceTip(rows, first)[s.to], t)

SameSlot(e, f) == e.account_id = f.account_id /\ e.sequence_number = f.sequence_number

\* The unique index on (account_id, sequence_number): an insert fails on a row
\* of the table or of its own transaction, and waits for one that is not
\* committed yet.
SlotTaken(entries) ==
    \E e \in entries : \E f \in journal_entries \cup (entries \ {e}) : SameSlot(e, f)

SlotPending(r, entries) ==
    \E q \in Requests \ {r} : \E e \in entries, f \in staged[q] : SameSlot(e, f)

\* Any 23505 rolls the transaction back and enters the catch block.
UniqueViolation(r) ==
    /\ EndTransaction(r)
    /\ GoTo(r, "conflict")
    /\ UNCHANGED <<clock, tables, submission, outcome, attempts>>

\* The inserts into journal_entries, and after them the updates of account_state.
PostEntries(r) ==
    /\ ReadyToPost(r)
    /\ PostingVerdict(submission[r], chain[r]) = "ok"
    /\ \E first \in {FirstEntry(submission[r], chain[r], txn[r])} :
       \E second \in {SecondEntry(submission[r], chain[r], first, txn[r])} :
          /\ ~SlotPending(r, {first, second})
          /\ IF SlotTaken({first, second})
             THEN UniqueViolation(r)
             ELSE /\ BalancesFit(submission[r])
                  /\ staged' = [staged EXCEPT ![r] = {first, second}]
                  /\ chain' = [chain EXCEPT ![r] = AdvanceTip(AdvanceTip(@, first), second)]
                  /\ GoTo(r, "keying")
                  /\ UNCHANGED <<clock, tables, lock, submission, txn, outcome, attempts>>

\* The entries go in, and one of the updates after them exceeds its type.
RejectBalance(r) ==
    /\ ReadyToPost(r)
    /\ PostingVerdict(submission[r], chain[r]) = "ok"
    /\ ~BalancesFit(submission[r])
    /\ \E first \in {FirstEntry(submission[r], chain[r], txn[r])} :
       \E second \in {SecondEntry(submission[r], chain[r], first, txn[r])} :
          ~SlotPending(r, {first, second}) /\ ~SlotTaken({first, second})
    /\ RollBackWith(r, "out_of_range")

-----------------------------------------------------------------------------
(***************************************************************************)
(* The idempotency key, the commit and the catch block.                    *)
(***************************************************************************)
\* The requests whose uncommitted insert of key k makes another insert wait.
Inserting(k) == {q \in Requests : pc[q] = "committing" /\ submission[q].key = k}

\* Faulty variant: the key column is not unique.
InsertKeyTwice(r) ==
    /\ pc[r] = "keying"
    /\ GoTo(r, "committing")
    /\ UNCHANGED <<clock, tables, lock, submission, workspace, outcome, attempts>>

InsertKey(r) ==
    /\ pc[r] = "keying"
    /\ ~Bound(submission[r].key)
    /\ Inserting(submission[r].key) = {}
    /\ GoTo(r, "committing")
    /\ UNCHANGED <<clock, tables, lock, submission, workspace, outcome, attempts>>

KeyTaken(r) ==
    /\ pc[r] = "keying"
    /\ Bound(submission[r].key)
    /\ UniqueViolation(r)

\* The catch block answers with the transaction the key belongs to.
FetchWinner(r) ==
    /\ pc[r] = "conflict"
    /\ ConnectionFree
    /\ IF Bound(submission[r].key) THEN Replay(r) ELSE Answer(r, "winner_missing", 0)
    /\ UNCHANGED <<clock, tables, lock, submission, workspace, attempts>>

\* trg_check_journal_entries_balance, deferred to the commit.
EntrySum(entries) == MapThenSumSet(LAMBDA e : e.signed_amount, entries)

\* current_balance + delta is computed by the database, the tip by the request.
\* Faulty variant: only the first account's state is written back.
WrittenStateOfSender(r, a) ==
    IF a # submission[r].from THEN account_state[a]
    ELSE [current_balance |-> account_state[a].current_balance + AccountDelta(submission[r], a),
          latest_hash |-> chain[r][a].latest_hash,
          latest_sequence |-> chain[r][a].latest_sequence]

WrittenState(r, a) ==
    IF a \notin UniqueAccountIds(submission[r]) THEN account_state[a]
    ELSE [current_balance |-> account_state[a].current_balance + AccountDelta(submission[r], a),
          latest_hash |-> chain[r][a].latest_hash,
          latest_sequence |-> chain[r][a].latest_sequence]

\* Everything the transaction wrote becomes visible at once.
Publish(r) ==
    /\ account_state' = [a \in Accounts |-> WrittenState(r, a)]
    /\ journal_entries' = journal_entries \cup staged[r]
    /\ events' = events \cup {[id |-> txn[r].id, recorded_at |-> txn[r].recorded_at,
                               payload |-> submission[r]]}
    /\ idempotency_keys' = [idempotency_keys EXCEPT ![submission[r].key] = txn[r].id]
    /\ UNCHANGED <<nextId, account_type>>

Commit(r) ==
    /\ pc[r] = "committing"
    /\ IF EntrySum(staged[r]) # 0
       THEN RollBackWith(r, "trigger_raised")
       ELSE /\ Publish(r)
            /\ EndTransaction(r)
            /\ Answer(r, "posted", txn[r].id)
            /\ UNCHANGED <<clock, submission, attempts>>

-----------------------------------------------------------------------------
(***************************************************************************)
(* Failures of the connection or of the server process: before the commit  *)
(* the database rolls back, after it the answer is lost.                   *)
(***************************************************************************)
ConnectionLost(r) ==
    /\ ConnectionFails
    /\ pc[r] \notin {"idle", "done"}
    /\ RollBackWith(r, "connection_lost")

CommitAnswerLost(r) ==
    /\ ConnectionFails
    /\ pc[r] = "committing"
    /\ EntrySum(staged[r]) = 0
    /\ Publish(r)
    /\ EndTransaction(r)
    /\ Answer(r, "connection_lost", 0)
    /\ UNCHANGED <<clock, submission, attempts>>

-----------------------------------------------------------------------------
\* What postLedgerEntries does for r by itself.
Advance(r) ==
    \/ LookupKey(r)
    \/ Begin(r)
    \/ LockAccount(r)
    \/ AccountMissing(r)
    \/ RejectPosting(r)
    \/ PostEntries(r)
    \/ RejectBalance(r)
    \/ InsertKey(r)
    \/ KeyTaken(r)
    \/ FetchWinner(r)
    \/ Commit(r)

\* Every client has its answer and does not send again.
Terminated ==
    /\ \A r \in Requests : pc[r] = "done"
    /\ UNCHANGED vars

Next ==
    \/ \E r \in Requests :
        \/ Submit(r)
        \/ RejectAmount(r)
        \/ Advance(r)
        \/ ConnectionLost(r)
        \/ CommitAnswerLost(r)
    \/ \E a \in Accounts, type \in AccountTypes : CreateAccount(a, type)
    \/ Tick
    \/ Terminated

Spec == Init /\ [][Next]_vars

-----------------------------------------------------------------------------
(***************************************************************************)
(* Properties.                                                             *)
(***************************************************************************)
\* Every variable holds rows and workspaces of the shapes the schema and the
\* types of ledger.service.ts give them.
TypeOK ==
    /\ clock \in Nat
    /\ nextId \in Nat \ {0}
    /\ account_type \in [Accounts -> AccountTypes \cup {NoType}]
    /\ account_state \in [Accounts -> AccountStates]
    /\ journal_entries \subseteq Entries
    /\ events \subseteq Events
    /\ idempotency_keys \in [Keys -> Nat]
    /\ lock \in [Accounts -> SUBSET Requests]
    /\ pc \in [Requests -> Steps]
    /\ submission \in [Requests -> Submissions]
    /\ txn \in [Requests -> [id: Nat, recorded_at: Nat]]
    /\ chain \in [Requests -> [Accounts -> ChainStates]]
    /\ staged \in [Requests -> SUBSET Entries]
    /\ outcome \in [Requests -> [kind: Outcomes, transaction_id: Nat]]
    /\ attempts \in [Requests -> Nat]

\* What a posting decides on is true until it commits (ledger.service.ts:275-281,
\* "there is no gap"): a locked account has one holder, and the type, the balance
\* and, until it stages entries, the tip the holder read are those of the tables.
LockedRowsAreCurrent ==
    \A a \in Accounts : \A r \in lock[a] :
        /\ lock[a] = {r}
        /\ chain[r][a].account_type = account_type[a]
        /\ chain[r][a].current_balance = account_state[a].current_balance
        /\ pc[r] = "locking" =>
              /\ chain[r][a].latest_hash = account_state[a].latest_hash
              /\ chain[r][a].latest_sequence = account_state[a].latest_sequence

\* The committed journal of an account is one chain (0003_create_journal_entries.ts:35,
\* "never reused, never skipped"): sequence numbers 1..latest_sequence, each once,
\* each entry hashed over the hash of the one before, the last one the stored tip.
ChainIntact ==
    \A a \in Accounts :
        LET entries == {e \in journal_entries : e.account_id = a}
            last == account_state[a].latest_sequence
        IN  /\ \A e \in entries :
                  /\ e.sequence_number \in 1..last
                  /\ e.entry_hash = ComputeEntryHash(e.previous_hash, FieldsOf(e))
                  /\ e.sequence_number = 1 => e.previous_hash = Genesis
                  /\ e.sequence_number = last => e.entry_hash = account_state[a].latest_hash
            /\ \A e, f \in entries :
                  /\ SameSlot(e, f) => e = f
                  /\ f.sequence_number = e.sequence_number + 1 => f.previous_hash = e.entry_hash
            /\ \A n \in 1..last : \E e \in entries : e.sequence_number = n
            /\ last = 0 => account_state[a].latest_hash = Genesis

\* The stored balance is the one the journal gives (verify-balance-reconciliation.ts):
\* the balance is moved by the direction of the legs and the entries by the side of
\* the account, on two paths of the code.
BalanceReconciles ==
    \A a \in {b \in Accounts : account_type[b] # NoType} :
        account_state[a].current_balance =
            MapThenSumSet(LAMBDA e : ReconciledDelta(NormalBalanceSide(account_type[a]),
                                                     e.signed_amount),
                          {e \in journal_entries : e.account_id = a})

\* The accounting equation over the stored balances: what the debit-normal
\* accounts hold is what the credit-normal ones hold, in every committed state.
BooksBalance ==
    LET total(side) == MapThenSumSet(LAMBDA a : account_state[a].current_balance,
                                     {a \in Accounts : NormalBalanceSide(account_type[a]) = side})
    IN  total("debit") = total("credit")

\* Hard-block overdraft (transfer-funds.ts:25-34): no sequence of concurrent
\* deposits and transfers leaves an account below zero.
NoOverdraft == \A a \in Accounts : account_state[a].current_balance >= 0

\* A key posts once (README.md:42): its row, if any, names the one event that
\* carries it, and that event has the entries of its legs and no others.
PostedOnce ==
    /\ \A e, f \in events : e.payload.key = f.payload.key \/ e.id = f.id => e = f
    /\ \A e \in events : idempotency_keys[e.payload.key] = e.id
    /\ \A k \in Keys : Bound(k) => \E e \in events : e.payload.key = k
    /\ \A j \in journal_entries : \E e \in events : e.id = j.event_id
    /\ \A e \in events :
          LET posted == {j \in journal_entries : j.event_id = e.id}
          IN  /\ Cardinality(posted) = 2
              /\ \A i \in 1..2 : \E j \in posted :
                    /\ j.account_id = Legs(e.payload)[i].account_id
                    /\ j.signed_amount = SignedAmount(e.payload, i, account_type)

\* A success names the event that carries the key of the request, whichever of
\* the concurrent or repeated requests posted it.
SuccessNamesTheEvent ==
    \A r \in Requests : outcome[r].kind \in {"posted", "replayed"} =>
        \E e \in events : /\ e.id = outcome[r].transaction_id
                          /\ e.payload.key = submission[r].key

\* The catch block takes every unique violation for a lost race of keys
\* (ledger.service.ts:412): there is a winner whenever it looks for one.
WinnerFound == \A r \in Requests : outcome[r].kind # "winner_missing"

\* Whether r can go on only after some request of S does.
WaitsWithin(r, S) ==
    \/ pc[r] = "locking" /\ \E a \in Accounts : NextToLock(r, a) /\ lock[a] \cap S # {}
    \/ pc[r] = "keying" /\ Inserting(submission[r].key) \cap S # {}
    \/ pc[r] \in {"lookup", "begin", "conflict"} /\ ~ConnectionFree /\ Connected \subseteq S

\* "Deadlock-safe under concurrency" (README.md:43): in every set of requests one
\* waits for none of the set, over row locks, the index of keys and the pool.
NoDeadlock ==
    \A S \in (SUBSET Requests) \ {{}} : \E r \in S : ~WaitsWithin(r, S)
=============================================================================
