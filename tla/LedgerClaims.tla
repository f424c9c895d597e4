----------------------------- MODULE LedgerClaims -----------------------------
(***************************************************************************)
(* What the README says of the write path and LedgerEngine does not keep.  *)
(* Each of these is checked by a run that expects a counterexample.        *)
(***************************************************************************)
EXTENDS LedgerEngine

\* README.md:42, "retried requests return the original result": a request that was
\* posted already is not answered with an error of the domain.  The unlocked lookup
\* (ledger.service.ts:155) comes before the commit of the first delivery, the hook
\* (ledger.service.ts:282) of the second one after it.
RetryReplays ==
    [][\A r \in Requests :
          /\ outcome'[r] # outcome[r]
          /\ outcome'[r].kind \in DomainErrors
          => \A e \in events : e.payload # submission[r]]_vars

AsOf(t) == {e \in journal_entries : e.recorded_at <= t}

\* README.md:41, "what did we believe was true as of last Tuesday": once a moment
\* has passed, the entries recorded up to it stay the same.  recorded_at is the start
\* of the transaction (ledger.service.ts:197-209), visible only after its commit.
AsOfIsStable == [][\A t \in 0..MaxClock : t < clock => AsOf(t)' = AsOf(t)]_vars
=============================================================================
