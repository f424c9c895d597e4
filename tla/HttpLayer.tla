------------------------------ MODULE HttpLayer ------------------------------
(***************************************************************************)
(* POST /transfers and POST /deposits in front of the engine: what the     *)
(* schema and the handlers of ledger.routes.ts refuse before a command is  *)
(* called, how the text of an amount becomes the number the engine posts,  *)
(* and the status every outcome is answered with (app.ts, http-status.ts). *)
(***************************************************************************)
EXTENDS LedgerRefinement, Decimal

CONSTANTS
    Calls,        \* the HTTP requests clients make
    NoKey,        \* no Idempotency-Key header, or an empty one
    Unreadable    \* an amount that does not match the decimal pattern

ASSUME CallsAssumption ==
    Calls \subseteq [conforms: BOOLEAN, key: Keys \cup {NoKey}, kind: Kinds,
                     from: Accounts, to: Accounts, amount: Texts \cup {Unreadable}]
ASSUME HeaderAssumption == NoKey \notin Keys

VARIABLES
    call,      \* what the client of a request sends
    status     \* the status code it was answered with, 0 before

httpVars == <<vars, call, status>>

NoStatus == 0

\* toMinorUnits throws: no decimal, or one that would have to be truncated.
Throws(amount) == amount = Unreadable \/ TooPrecise(amount)

\* The status of a call that never reaches postLedgerEntries, in the order of the
\* code: the schema of the body, the header, the command's toMinorUnits.  The
\* errors of the first two carry a statusCode, the last one is a plain Error.
Refusal(c) ==
    CASE ~c.conforms -> 400
      [] c.conforms /\ c.key = NoKey -> 400
      [] c.conforms /\ c.key # NoKey /\ Throws(c.amount) -> 500
      [] OTHER -> NoStatus

Reaches(c) == Refusal(c) = NoStatus

\* What the command of an accepted call asks of the engine.
Parsed(c) ==
    [key |-> c.key, kind |-> c.kind, from |-> c.from, to |-> c.to,
     amount |-> ToMinorUnits(c.amount)]

\* reply.status of the handlers, and httpStatusForError for what is thrown.
\* Faulty variant: a replay is answered as if something had been created.
StatusAlways201(kind) ==
    CASE kind \in {"posted", "replayed"} -> 201
      [] kind = "insufficient_funds" -> 409
      [] kind \in {"invalid_account_type", "imbalanced"} -> 400
      [] OTHER -> 500

StatusOf(kind) ==
    CASE kind = "posted" -> 201
      [] kind = "replayed" -> 200
      [] kind = "insufficient_funds" -> 409
      [] kind \in {"invalid_account_type", "imbalanced"} -> 400
      [] OTHER -> 500

\* A request whose call never reaches the engine has an arbitrary submission,
\* which it never submits.
HttpInit ==
    /\ call \in [Requests -> Calls]
    /\ Init
    /\ \A r \in Requests :
          submission[r] = IF Reaches(call[r]) THEN Parsed(call[r])
                          ELSE CHOOSE s \in Submissions : TRUE
    /\ status = [r \in Requests |-> NoStatus]

RefuseCall(r) ==
    /\ MaySend(r)
    /\ ~Reaches(call[r])
    /\ GoTo(r, "done")
    /\ attempts' = [attempts EXCEPT ![r] = @ + 1]
    /\ status' = [status EXCEPT ![r] = Refusal(call[r])]
    /\ UNCHANGED <<clock, tables, lock, submission, workspace, outcome, call>>

\* The engine runs for the calls that reach it; its answer gets its status.
Respond ==
    /\ \A r \in Requests : attempts'[r] # attempts[r] => Reaches(call[r])
    /\ status' = [r \in Requests |->
                     IF pc'[r] # "done" THEN NoStatus
                     ELSE IF outcome'[r] = outcome[r] THEN status[r]
                     ELSE StatusOf(outcome'[r].kind)]
    /\ UNCHANGED call

HttpNext ==
    \/ Next /\ Respond
    \/ \E r \in Requests : RefuseCall(r)

HttpSpec == HttpInit /\ [][HttpNext]_httpVars

-----------------------------------------------------------------------------
(***************************************************************************)
(* Properties.                                                             *)
(***************************************************************************)
\* "200 on replay (nothing new was created), 201 on a genuine first-time post"
\* (ledger.routes.ts:55-57): of all calls with one key at most one is told that it
\* created something, and a call told that nothing was has a successful posting.
CreatedOncePerKey ==
    /\ \A q, r \in Requests :
          status[q] = 201 /\ status[r] = 201 /\ call[q].key = call[r].key => q = r
    /\ \A r \in Requests : status[r] = 200 => \E e \in events : e.payload.key = call[r].key

\* Money is posted exactly as it was written: behind a 201 stand two entries whose
\* magnitude is the number the text of the body denotes, which is positive, whatever
\* its sign, its missing digits and the sides of the accounts (decimal.ts:1-9), and
\* the text that is stored and hashed for an entry is the one NUMERIC(19, 4) gives back.
CreatedIsExact ==
    \A r \in Requests : status[r] = 201 =>
        LET entries == {j \in journal_entries : j.event_id = outcome[r].transaction_id}
            magnitude(j) == IF j.signed_amount < 0 THEN -j.signed_amount ELSE j.signed_amount
            stored(j) == FromMinorUnits(j.signed_amount)
        IN  /\ {j.account_id : j \in entries} = {call[r].from, call[r].to}
            /\ Cardinality(entries) = 2
            /\ \A j \in entries :
                  /\ magnitude(j) > 0
                  /\ Denotes(call[r].amount, magnitude(j))
                  /\ Canonical(stored(j)) /\ Denotes(stored(j), j.signed_amount)
=============================================================================
