# Formal models of Akashic

TLA+ models of the Akashic ledger (`src/`), the TLC configurations that check
them on small instances, and theorems that TLAPS proves for every instance.
Paths below are relative to the repository (`src/modules/...` and so on).

## 1. Inventory of the system

All state is in one PostgreSQL database; the server is a Fastify process that
keeps nothing between two requests but its connection pool and one timer.

| Component | State | Operations | What makes it correct |
|---|---|---|---|
| Accounting rules (`shared/domain/normal-balance.ts`, `toStoredSignedAmount`, the commands) | none | side of an account type, signed amount, balance delta, legs | the audit undoes what the engine stores; a command balances exactly on the accounts it is meant for |
| Ledger engine (`modules/ledger/ledger.service.ts`) and commands (`transfer-funds.ts`, `deposit-funds.ts`) | `transactions`, `events`, `journal_entries`, `account_state`, `idempotency_keys`; in memory `chainState` of one call | `postLedgerEntries` | a key posts once; books balance; no overdraft; chains without gap or fork; no deadlock; every request is answered |
| Accounts (`modules/accounts`) | `accounts`, `account_state` | create, read | an account is never visible without its state row |
| Tables (`db/migrations`) | constraints, deferred zero-sum trigger, trigger on identity fields, append-only triggers | fire on statements and at commit | hold against writers other than the engine |
| Checkpoints (`modules/checkpoints`) | `checkpoints`, `checkpoint_members` | create, verify one, verify the chain | one chain; each a consistent cut; never behind an earlier one |
| Checkpoint job and shutdown (`jobs/checkpoint.job.ts`, `index.ts`) | a timer; how far the shutdown is | tick, stop, shutdown | ticks that overlap do no harm; a shutdown ends and cuts nothing off |
| Audit (`modules/audit`) | none | four checks, read only | no false alarm, no missed damage |
| HTTP layer (`app`, `*.routes.ts`, `shared/errors`) | none | validate, dispatch, map errors | the status says what happened |
| Connection pool (`db/client.ts`) | at most `dbPoolMax` connections | acquire, release | nobody starves |
| Entry and checkpoint hashes (`shared/crypto`) | none | canonical string, SHA-256 | different fields, different hash |
| Decimals (`shared/utils/decimal.ts`) | none | string to minor units and back | exact, mutually inverse |

**How they interact.** A request calls a command, the command calls
`postLedgerEntries` with its legs and a hook. The engine looks the key up on a
connection of its own, then opens a transaction (READ COMMITTED), draws the
identities, locks each account in ascending order, checks, inserts, updates and
inserts the key; the commit fires the deferred trigger. A unique violation
leads to the catch block, which reads the winner on another connection. Timer
ticks and `POST /checkpoints` call `createCheckpoint` (REPEATABLE READ), which
shares rows of `accounts` with the engine through its foreign key. The audit
reads everything, one statement at a time, outside of any transaction. The
components meet only in the tables, the row locks, the indexes and the pool.

**What is hard.** Requests interleave between any two statements; values read
before a lock are used after it; two deliveries of a request run at once; a
connection fails before or after a commit; checkpoints overlap; the audit reads
a moving ledger; locks, indexes and the pool are waited for at the same time.
`PROJECT.json` lists the hazards with the line each one bites at.

## 2. Modules

```
Accounting -- LedgerEngine -- Checkpoints -- Server -- MCServer
                 |   |            |  \------ MCCheckpoints
                 |   |            \--------- Audit -- AuditDamage -- MCAudit
                 |   |---- DirectWriters ----------- MCDirectWriters
                 |   \---- LedgerClaims --\
                 |-------- LedgerRefinement -------- MCLedger
                 |             |   \---- HttpLayer - MCHttp
                 |       AbstractLedger       |
                 |       (instantiated)    Decimal
                 |
LedgerEngineProofs - LedgerEntryProofs - LedgerBalanceProofs (with SetSums)
                          |  |  |------- CheckpointProofs (Checkpoints, Server)
                          |  |  \------- AuditProofs (AuditDamage; with CheckpointProofs
                          |  |                        and LedgerBalanceProofs)
                          |  \---------- DirectWritersProofs
                          \------------- HttpProofs (HttpLayer, Decimal)
```

**Accounting** is the arithmetic of the ledger: `NormalBalanceSide`,
`ToStoredSignedAmount`, `BalanceDelta` (the engine's), `ReconciledDelta` (the
audit's) and the legs of a transfer and of a deposit.

**Decimal** is `shared/utils/decimal.ts`: `ToMinorUnits` and `FromMinorUnits` on
texts that were taken apart into a sign, a whole part and digits, with the sign
handling, the padding and the refusal of a fifth digit; and a reference
(`Denotes`, `Canonical`) that says which number a text is, by reading it digit by
digit whatever its length.

**LedgerEngine** is the write path. A request is a process; `pc[r]` says where
it is in `postLedgerEntries`:

| `pc` | Action | Code |
|---|---|---|
| `idle`, `done` | `Submit`, `RejectAmount` | the route and the first check of the command |
| `lookup` | `LookupKey` | ledger.service.ts:155-173 |
| `begin` | `Begin` | 183-209, BEGIN and the first two inserts |
| `locking` | `LockAccount`, `AccountMissing` | 219-241, one account per step |
| `locking`, all held | `RejectPosting`, `PostEntries`, `RejectBalance` | 243-302; 304-395; 304-395 when a balance exceeds its column |
| `keying` | `InsertKey`, `KeyTaken` | 397-408 |
| `committing` | `Commit` | 410-411 and the deferred trigger |
| `conflict` | `FetchWinner` | 412-433 |
| in any of them | `ConnectionLost`, `CommitAnswerLost` | the connection or the process fails, before or after the commit |

The committed rows are `account_type`, `account_state`, `journal_entries`,
`events` and `idempotency_keys`; `lock` holds who has FOR UPDATE on an account;
`txn`, `chain` and `staged` are the transaction of a request, its `chainState`
and its uncommitted entries. `Commit` publishes all of it at once. An account
that does not exist has the type `NoType`; `CreateAccount` is one step of a
transaction that needs a connection of the pool and locks only the rows it
inserts. An `account_code` that is taken (0001_create_accounts.ts:23) is an
account that exists: that transaction fails, after a wait for the other creation
if that is still open, and changes nothing, so it has no action.

`LookupKey` stands for two SELECTs, of the key and of its event. Both rows are
append-only and committed together, so what the second one reads does not depend
on when it runs. The same goes for `FetchWinner`.

An amount or a balance that its column cannot hold fails the posting at different
places: the amount at the insert of the entry, before the unique index is looked
at (`PostingVerdict`), the balance at the UPDATE after the inserts
(`RejectBalance`), which may have to wait for the unique index first.

**AbstractLedger** is what clients are promised: accounts, balances and
postings, one at a time, at most once per key, each admissible in the state it
meets. **LedgerRefinement** maps the engine onto it (`AtomicPosting`): the
commit is the posting, everything else is invisible.

**LedgerClaims** holds two sentences of the README that the engine does not
keep (section 4).

**HttpLayer** puts `POST /transfers` and `POST /deposits` in front of the
engine. A call either is refused before a command runs (`RefuseCall`: schema,
`Idempotency-Key`, an amount that is no decimal or has five places) or becomes
the submission `Parsed(c)`, whose amount goes through `ToMinorUnits`; `Respond`
gives every outcome the status of the handlers and of `httpStatusForError`.

**Checkpoints** adds the callers of `createCheckpoint`: `ReadStates` takes the
snapshot, `ReadPrevious` computes the checkpoint from it, `InsertCheckpoint`
meets the unique sequence number (`DuplicateSequence` when it is taken),
`ShareAccount` takes FOR KEY SHARE on one account for the foreign key of
`checkpoint_members`, `CommitCheckpoint` publishes; `ConnectFails` and
`CheckpointFails` are failures before and in the transaction.
`BesideCheckpoints` is what the engine's steps have to respect.

**Server** is the process around both (`index.ts`, `checkpoint.job.ts`). A
creator is a call of `createCheckpoint`, by a tick (`TickFires`) or by
`POST /checkpoints` (`PostCheckpoint`), which waits in the queue of the pool
until `Acquire`; `Ticks` says which creators are ticks. `Signal` is a SIGTERM or SIGINT: the timer stops and
`app.close()` begins; `CloseDone` is its end, which waits for the requests in
flight and so for a `POST /checkpoints`, not for a tick, and only for those whose
client is still there: `RequestAbandoned` and `PostAbandoned` are clients that
leave, and their handlers go on unnoticed. `db.destroy()` then
lets the connections in use come back and serves nothing that is queued
(`PoolServes`); `PoolDrained` is its end and the exit.

**Audit** adds `runFullAudit`, one action per SELECT, with the engine and the
checkpoints free to commit in between. **AuditDamage** lets one row be damaged
before the audit, at any moment of the postings and checkpoints, in the ways
the integration tests damage a ledger after they disabled the triggers
(`tests/integration/audit.integration.test.ts`, `checkpoints.integration.test.ts`):
an amount, a missing entry, a drifted balance, a drifted tip, an entry without
a counterpart, a member row, a missing checkpoint. `symptoms` says which checks
have to report it. `LoseNewest` is the loss of the newest checkpoint, which no
check can see (section 4).

**DirectWriters** adds database sessions that do not go through the program.
Each runs statements in a transaction of its own: `UpdateType` (an UPDATE of
`account_type` against `check_account_identity_immutable`), `InsertEntry`,
`DeleteEntry` (against `block_mutation`), `CommitWriter` (with the deferred
zero-sum trigger) and `RollBackWriter`. `BesideWriters` makes postings wait for
the rows the sessions hold.

### What is abstracted

- SHA-256 is collision free: the hash of an entry is the sequence of everything
  hashed before it and with it. The format of the hashed string is left out;
  that equal amounts are written as equal texts, and different ones as different
  texts, is proved of `Decimal`.
- Amounts in the engine are integers of minor units. A value `NUMERIC(19, 4)`
  cannot hold is one above `MaxBalance`. Whether a text matches the decimal
  pattern is a distinction of inputs (`Unreadable`).
- Ids of transactions and of their events are the same number: the engine
  inserts one event per transaction. Ids lost to a rollback stay lost.
- `effective_at` is stored and hashed and nothing decides on it; it is left
  out. `recorded_at` is the reading of the clock at BEGIN.
- The joined FOR UPDATE locks the two rows of one account in one step; every
  transaction of the program takes both together. `DirectWriters`, whose
  sessions lock only the `accounts` row, tells the lock modes apart.
- The inserts of all entries and the updates of all states are one step: the
  rows are locked, and the only thing another transaction can see of them
  before the commit, the unique index, is in the step (`SlotPending`,
  `SlotTaken`). `CatchFindsWinner` shows that it never bites.
- The loss of a connection covers the crash of the server: in both the database
  rolls back and frees the locks. A loss may come at any moment, so it also
  covers a statement timeout and the choice of a request as a deadlock's victim.
- A client that had an answer, or none, may send the same body with the same
  key again. Clients that reuse a key with another body are different requests
  with equal keys.
- The audit visits accounts in ascending order. Its SELECT has no order, and no
  check depends on it.
- In `Server` a second signal changes nothing, and a call that arrives while the
  server closes gets the 503 of Fastify and reaches nothing; both are left out.
  Calls that are queued at the exit are dropped with the process.
- `UpdateType` stands for all identity fields, `DeleteEntry` for all blocked
  mutations: one trigger function serves them.

## 3. Runs

All runs use one house account (1, an asset) and one or two wallets
(liabilities, or of any type where they are created on the way); two accounts are what a posting touches, a third lets a transfer
leave the contended pair. Amounts are 1 and 2, so that one deposit funds one of
two transfers and not the other. Symmetry is over requests, creators and
writers, only in runs without a liveness property.

| Run | Question | Instance | States |
|---|---|---|---|
| `competing` | Do concurrent postings keep locks, chains, balances and books right, without deadlock, and is each commit one atomic posting? | four requests out of a deposit, transfers both ways, a transfer to the sender itself and one of nothing, two of them with one key; two connections, so that there are more requests than connections | 269,000 |
| `redelivered` | Does a key post once, and does every success name it? | three requests, sent up to twice, equal keys with different bodies, connections lost at every step, the wallet created on the way with any type, a column so narrow that two deposits do not fit | 745,000 |
| `http` | Is there one 201 per key, for exactly the amount that was written, and does nothing inadmissible commit? | eleven calls, of which five reach the engine and six are refused before it; three requests over one connection; an amount at the limit of the column; the wallet created on the way | 211,000 |
| `checkpoints` | Are checkpoints one chain of consistent, advancing cuts, and can nobody deadlock? | two creators, two checkpoints each, connections lost, beside two postings; the wallet is created on the way, with any type | 803,000 |
| `server` | Does everything accepted end, also under a shutdown, and is nothing cut off? | a deposit delivered twice at once, a tick and a `POST /checkpoints`, two connections, connections lost, a signal at any moment, clients that leave while the server closes; fairness | 69,000 |
| `audit` | Which damage does which check report, and what may a check say of a sound ledger? | an audit beside two postings and two checkpoints, one damage or none, the newest checkpoint lost or not | 758,000 |
| `direct_writers` | Do the triggers hold against sessions beside the program? | two sessions beside two postings | 62,000 |
| `retry_claim`, `as_of_claim`, `writers_claim`, `audit_claim`, `identity_claim` | section 4 | | |

Each run takes seconds to about four minutes with two workers.

**Bounds.** `MaxAttempts` bounds how often a request is sent, `MaxClock` the
clock (0 where nothing depends on the time), `MaxRounds` the checkpoints of one
creator, `MaxSequence` the sequence numbers a writer makes up. Two requests are
enough for every race on one resource; the third and the fourth let a cycle of
waits close over two accounts, a key and the pool, and let a request start on
the balance that two others left. Two overlapping checkpoints and two more
after them let a stale snapshot meet a newer one. The second checkpoint of
`audit` is what makes the loss of the first one visible. What the theorems of
section 5 cover does not depend on these bounds.

**Fairness.** `FairServerSpec` assumes weak fairness of each request's own
progress (`Advance`), of each call of `createCheckpoint` (its connection from the
queue, `Acquire`, and its own steps), and of the continuations of the two awaits
in `shutdown()` (`CloseDone`, `PoolDrained`); nothing of clients, ticks, signals,
the clock or failures. The code justifies it: Node runs every continuation,
PostgreSQL runs every statement, and a lock or a connection is granted once it
stays free. Weak fairness is enough because in the bounded instance a contended
lock or connection is taken a finite number of times; PostgreSQL and the pool
queue waiters in order, which is stronger. The liveness run has no crossing
transfers; that they cannot block each other is `NoDeadlock`, in `competing`
and as a theorem.

**What some properties say.**

- `WinnerFound`: the catch block takes any unique violation for a lost key. The
  tables have other unique indexes, so this is right only because the chain
  positions a posting inserts are never taken (and it fails when the second leg
  of a transfer to oneself does not chain to the first).
- `SingleStatementChecksAreRight`: the chain, checkpoint and zero-sum checks
  neither miss their damage nor report a sound ledger, whatever commits around
  them. The balance check is the exception: it reads with two SELECTs, so a
  posting in between can raise a false alarm, and can also hide a drift of the
  same size.
- `QuietAuditIsExact`: an audit beside which nothing commits reports each damage
  by the checks it concerns and by no other. It also records what the checks do
  not look at: no check compares `latest_hash` and `latest_sequence` of
  `account_state` with the last entry, so a drifted tip goes unreported until a
  posting has chained an entry to it; and the loss of the newest checkpoint leaves
  no trace in the walk of their chain (`LoseNewest` adds nothing to `symptoms`),
  so `LoseCheckpoint` only takes earlier ones;
  and one of those leaves none either if a creator that began before
  it was committed puts an equal one in its place, so `LoseCheckpoint` waits for
  such creators.
- `NothingCutOff` says of a handler whose client is gone what holds of it: nobody
  waits for it, the pool may end under it, and then it is dropped at the exit if
  it still needs a connection, and finished first if it has one.
  `EveryRequestAnswered` excepts those that are dropped. A client that left
  before the signal counts as leaving right after it; nothing tells the two apart.
- `AtomicPosting` in `redelivered` covers balances that do not fit their column
  (`RejectBalance`): the posting is refused there, or with a smaller balance
  admitted, and never half written.
- `CreatedIsExact`: behind a 201 stand two entries whose magnitude is the number
  the text of the body denotes, through both conversions.

## 4. Where the code and its documentation differ

1. **A retry can be refused** (`retry_claim`, README.md:42 "retried requests
   return the original result"). A second delivery that looks its key up while
   the first one is open goes on to the balance check, on the balance the first
   one left, and is answered with insufficient funds although its transfer was
   posted. It posts nothing twice (`PostedOnce` holds). A lookup of the key
   under the row locks, before the hook, would close it.
2. **"As of" answers change** (`as_of_claim`, README.md:41). `recorded_at` is the
   start of the transaction; entries appear at its commit, in the past.
3. **Checkpoints make writers wait** (`writers_claim`, create-checkpoint.ts:23-24,
   README.md:68). The foreign key of `checkpoint_members` takes FOR KEY SHARE on
   the accounts rows, which the engine's FOR UPDATE waits for, until the
   checkpoint commits. No deadlock follows, because both go in ascending order.
4. **The audit can raise a false alarm** (`audit_claim`, README.md:44). It reads
   entries and balance of an account with two statements.
5. **The identity of an account with entries can change** (`identity_claim`,
   0007_create_invariant_triggers.ts:45-47). The trigger looks for entries when
   the UPDATE runs; a session beside the program that inserts the first entries
   of the account afterwards does not wait for it. Postings of the engine do:
   they lock the accounts row FOR UPDATE (`SignsKeepTheirMeaning` holds).
6. **A deleted checkpoint can go unnoticed** (shown by `audit`,
   verify-checkpoint.ts:64-66 "catches a deleted or substituted checkpoint even if
   the deleted one's own row is gone entirely", checkpoint-hash.ts:8-10). The walk
   compares each checkpoint with the one before it, and nothing says how many
   there should be: without the newest one the rest is a valid chain, and the
   next checkpoint takes its sequence number. `LoseNewest` is this loss, and
   `QuietAuditIsExact` says that an audit beside which nothing commits passes then.

Also met while reading, and not a property of the system:
`scripts/verify-e2e.ts:38-43` seeds a wallet by `transferFunds` from an asset to
a liability account, which the engine refuses as imbalanced (`TransferBalances`
below). The commands and `toMinorUnits` throw a plain `Error` for an amount that
is not positive, no decimal or too precise, which `httpStatusForError` answers
with 500; they run before the engine, so its own check of the legs
(`InvalidLegAmountError`, mapped to 400) is not reached from the routes.

## 5. Proofs

All constants are arbitrary: any set of account ids in `Nat`, any requests,
keys and submissions, any initial types, any limits, any creators and rounds,
any sessions and calls, connections that fail or not. The assumptions are those
the modules declare by name (`AccountsAssumption`, `SubmissionsAssumption`,
`InitialTypeAssumption`, `BoundsAssumption`, `RoundsAssumption`, and those of
`DirectWriters`, `HttpLayer` and `Server`). Two kinds of theorems assume more, which any
finite table has: those about deadlocks that the account ids have a largest one,
`BooksAlwaysBalance` that there are finitely many. No other fact is assumed of
the database than what the actions say.

| Theorem | Module | Statement |
|---|---|---|
| `ReconciledIsDelta` | LedgerEngineProofs | the audit's change is the engine's change, for every direction, side and amount |
| `TransferBalances`, `DepositBalances` | | which pairs of accounts a command balances on |
| `TypeCorrect` | | `Spec => []TypeOK` |
| `LocksHold` | | `Spec => []LockedRowsAreCurrent` |
| `DeadlockFree` | | `Spec => []NoDeadlock` |
| `NeverOverdrawn` | | `Spec => []NoOverdraft` |
| `SuccessIsTheEvent` | LedgerEntryProofs | `Spec => []SuccessNamesTheEvent` |
| `EngineRefinesLedger` | | `Spec => AtomicPosting`: the engine implements `AbstractLedger` |
| `JournalIsChained` | | `Spec => []ChainIntact` |
| `CatchFindsWinner` | | `Spec => []WinnerFound` |
| `KeyPostsOnce` | | `Spec => []PostedOnce` |
| `BalancesReconcile` | LedgerBalanceProofs | `Spec => []BalanceReconciles` |
| `BooksAlwaysBalance` | | `Spec => []BooksBalance` |
| `CheckpointsAreChained` | CheckpointProofs | `CheckpointSpec => []CheckpointChain` |
| `CheckpointsAreCuts` | | `CheckpointSpec => []CheckpointIsACut` |
| `CheckpointsNeverFallBehind` | | `CheckpointSpec => []CheckpointsAdvance` |
| `DeadlockFreeWithCheckpoints` | | `CheckpointSpec => []NoDeadlockWithCheckpoints` |
| `ServerRunsCheckpoints`, `ServerRunsEngine` | | `ServerSpec => CheckpointSpec`, `ServerSpec => Spec` |
| `ShutdownCutsNothingOff` | | `ServerSpec => []NothingCutOff` |
| `TriggersKeepBalance` | DirectWritersProofs | `DatabaseSpec => []EveryEventBalances` |
| `TypesStayMeaningful` | | `DatabaseSpec => []SignsKeepTheirMeaning` |
| `NeverOverdrawnBesideWriters` | | `DatabaseSpec => []NoOverdraft` |
| `CreatedOnce` | HttpProofs | `HttpSpec => []CreatedOncePerKey` |
| `CreatedExactly` | | `HttpSpec => []CreatedIsExact` |
| `CallsArePostings` | | `HttpSpec => AtomicPosting` |
| `ToMinorUnitsIsExact`, `FromMinorUnitsIsExact` | | a conversion gives exactly the number its text denotes |
| `RoundTrip`, `TextsDistinguish` | | reading the text of an amount gives it back; different amounts have different texts |
| `SingleStatementChecksReportDamage` | AuditProofs | `DamageSpec => []SingleStatementChecksAreRight` |
| `QuietAuditsAreExact` | | `DamageSpec => []QuietAuditIsExact` |

`CheckpointSpec => Spec` and `ServerSpec => CheckpointSpec` carry every theorem
about the engine and the checkpoints to the server process: its timer, queue,
failures and shutdown only choose when their steps happen.

The argument goes in layers, each an inductive invariant over the one before.

1. **Types** (`LedgerEngineProofs`).
2. **Locks** (`LedgerEngineProofs`). `LockedRowsAreCurrent` is not inductive: to
   know that a commit does not change a row somebody else holds, one has to
   know that the committing request holds all it writes. `LockInv` adds that a
   holder is in its transaction and has the account among its legs, that a held
   account exists (so `CreateAccount` cannot reset it), and that a request that
   has staged entries holds all of its accounts.
3. **Waiting** (`LedgerEngineProofs`). `OrderInv`: what a request holds lies below
   what it has still to lock. In a set of requests that all wait within the set
   nobody commits, so nobody waits for a key; if one waits for the pool, the
   holders of its connections are in the set, so some request waits for a lock;
   and for every account waited for, its holder waits for a larger one, which
   no set of ids with a largest one allows.
4. **Decisions** (`LedgerEngineProofs`). `HeldRowsStay`: no step changes rows
   somebody holds before and after it. So what `PostingVerdict` decided on the
   rows in memory is true of the tables until the commit (`DecidedInv`), where
   `TransferBalances` turns the zero sum into a statement about sides. With it
   balances stay between zero and the limit of the column (`SolventInv`), and an
   account that does not exist has none (`FreshInv`).
5. **Keys** (`LedgerEntryProofs`). Identities of open transactions and of events
   are all different and below the next one (`IdsInv`), keys and events are one
   to one (`EventsInv`), and a request whose key is inserted is the only one
   with it and the key is free (`InsertInv`).
6. **Refinement** (`LedgerEntryProofs`). A commit is `Post` of its submission: the
   key is new by layer 5, the posting admissible, funded and in range by layer
   4; creation of an account maps to `Create`; every other step is a stutter.
7. **Entries** (`LedgerEntryProofs`). `StagedInv`: what a request has staged
   continues the stored tips of its accounts, also when both legs name one
   account, and its `chainState` is what that leads to. A commit then appends to
   every chain (`AppendEntry`). A posting that holds its accounts meets no taken
   position (`SlotsFree`), so a request in the catch block lost its key, and
   finds it bound (`ConflictInv`). `LegsInv`: an event has exactly the entries
   of its two legs, with the signs of account types that never change again.
   `EngineInv` is all of this together.
8. **Sums** (`SetSums`, `LedgerBalanceProofs`). The sum that a fold over a
   finite set computes exists, does not depend on the order of the fold, and
   grows by what is added; each by a minimal counterexample in the well-founded
   order of the finite subsets, since a theorem of induction cannot be
   instantiated here. With `EngineInv` a commit changes a balance by
   `AccountDelta` and the sum of the journal by the reconciled entries of the
   legs, which is the same by `ReconciledIsDelta` (`SumInv`); and the two sides
   of the books by the same amount, because a decided posting sums to zero.
9. **Checkpoints** (`CheckpointProofs`). `ChainInv`: a creator works on what its
   snapshot holds, and its number is its own until it commits; with it the
   snapshot of a creator that can commit missed no checkpoint (`NoneMissed`).
   `MembersInv`: the members of every snapshot and checkpoint are sound, which
   holds of the current rows because the journal is chained, and stays because
   a commit adds entries of a fresh event above every stored tip.
   `AdvanceInv`: a snapshot is ahead of all it saw. `ShareInv`: key shares are
   taken upwards, so the circle of layer 3 cannot close through them either.
10. **Shutdown** (`CheckpointProofs`). Past `app.close()` no request is in flight
    whose client waits, and none begins; a transaction of any other request or of
    a checkpoint keeps the pool from draining.
11. **Direct writers** (`DirectWritersProofs`). An entry that a session makes up
    is chained to nothing, so `ChainIntact` and the exact legs of an event do not
    survive; `DatabaseInv` keeps what does (locks, decisions, keys, staged
    entries) and adds that an account is retyped only while no posting holds it
    and before its first posting (`RetypedInv`), and that an event keeps the
    entries of its legs among whatever was added to it. `EveryEventBalances` is
    then inductive: the trigger of a session sums committed and own entries, and
    a commit of the engine adds the balanced entries of a fresh event.
12. **HTTP** (`HttpProofs`). `HttpInv` adds to `EngineInv` that the submission of
    a call that is at work is what its body parses to, that a status is the one
    of the outcome, and that an outcome `posted` names an event nobody else is
    told of; so a second 201 for one key would need a second event with it. The
    amount comes from `ToMinorUnitsIsExact`: a text has at most four decimals, so
    its reading is unrolled for each length instead of proved by induction.
13. **Audit** (`AuditProofs`). A damaged ledger has lost the chains, the sums and the
    balances, so none of layers 7 to 9 can be used as it stands.
    - `WorkInv` is what no damage takes: types, locks, keys, what the requests have
      staged, and that an entry belongs to an account that exists and to no event
      still open. `CreatorWorkInv` is the same for the creators.
    - `CleanInv`: until the damage the ledger has all of `EngineInv`, the sums and
      the zero sums (`SoundInv`), so no check but the one of the balances, which
      reads twice, can have reported anything. `LineInv`: until a checkpoint is
      damaged the checkpoints are a chain, whatever else was.
    - `FoundInv`: per damage the evidence that no later commit takes away, or the
      report. For a chain (`ChainFoundInv`) an entry at or below the tip whose
      own hash is wrong, or whose predecessor is gone; a commit adds entries above
      the tip only, so nobody fills the gap. For a tip that drifted (`DriftInv`)
      the tip itself, which the next entry of the account turns into a broken link. For the zero sum (`SumFoundInv`) an event with a
      wrong sum, to which no posting adds, because its own event is fresh. For the
      checkpoints (`CheckpointFoundInv`) a row whose hash is wrong or whose
      predecessor is gone; no creator at work puts one in its place. Before that,
      the loss of the newest one leaves a chain (`LineWithoutNewest`). Each conjunct
      also says that the audit has not passed the evidence without reporting it.
    - `ExactInv`, for the second theorem: until something is committed to the
      damaged ledger, a check other than the one of the balances reports only what
      was damaged, and if that concerns the balances some account does not reconcile.
      `QuietInv` follows the comparison of the balances from SELECT to SELECT while
      the rows stand still: an account it has passed, or whose expected balance it
      has in memory, is right or reported.

The invariants were checked with TLC on small instances before they were proved.
One attempt corrected the model: `LoseCheckpoint` let a creator that had not seen
the lost row put an equal one in its place, after which nothing is wrong and
nothing can be found; the damage now happens where no such creator is at work.

**Only model-checked.** The liveness properties (`EveryRequestAnswered`,
`EveryCallEnds`, `ShutdownEnds`), which are out of the prover's reach as ENABLED
is. Every invariant and the refinement that the passing runs check are theorems.
The claims of section 4 are refuted by TLC.

## 6. Plan

Done: the modules and proofs above. What is left, in order of weight:

1. A bitemporal reading of the journal over `effective_at` and `recorded_at`.
2. Liveness of the server with crossing transfers, on an instance with fewer
   failures.

## 7. Not modelled, and why

- The GET routes (`accounts.routes.ts`, `ledger.routes.ts`, `checkpoints.routes.ts`)
  read committed rows and change nothing.
- `audit-cli.ts` prints one audit and turns its result into an exit status.
- `config/env.ts` parses the environment before the server starts.
- `migrate.ts` applies the migrations once; `schema.ts` declares types. The
  constraints, indexes and triggers the migrations create are modelled where
  they bite.
- The canonical string of the hashed fields beyond its amount, and SHA-256.
- Two statements of damage at once, and damage during an audit: `AuditDamage`
  has one damage before the audit, as the tests do (and losses of the newest
  checkpoint before it).
- Benchmarks, scripts, tests and build files are clients of the system or
  packaging; they were read for how the system is driven and what it promises.

## 8. Running

```
tlc -workers 2 -config MCCompeting.cfg MCLedger
tlapm CheckpointProofs.tla
```

`PROJECT.json` names the module and the configuration of every run, the lines
each definition models, and for every property a faulty variant of a definition
that the property catches.
