--------------------------- MODULE LedgerRefinement ---------------------------
(***************************************************************************)
(* LedgerEngine implements AbstractLedger: the commit of a transaction is  *)
(* the posting, and no other step of a request shows.                      *)
(***************************************************************************)
EXTENDS LedgerEngine

Abstract == INSTANCE AbstractLedger WITH
    balance <- [a \in Accounts |-> account_state[a].current_balance],
    posted <- {e.payload : e \in events}

\* Every step of the concurrent, failing and retried requests is one posting of
\* AbstractLedger, valid in the state in which it commits, or invisible
\* (README.md:38-43: balanced, idempotent, safe under concurrency).
AtomicPosting == Abstract!Spec
=============================================================================
