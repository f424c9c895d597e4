-------------------------- MODULE LedgerBalanceProofs --------------------------
(***************************************************************************)
(* Balances: the stored balance of an account is what its entries sum to,  *)
(* and the two sides of the books are equal.  The sums are folds over sets *)
(* of rows; SetSums has the facts about them.                              *)
(***************************************************************************)
EXTENDS LedgerEntryProofs, SetSums

\* The change of a balance the audit recovers from each entry.
Recovered(side) == [e \in Entries |-> ReconciledDelta(side, e.signed_amount)]

JournalOf(a) == {e \in journal_entries : e.account_id = a}

\* BalanceReconciles over SetSum, for all accounts.
Reconciles(a) ==
    account_state[a].current_balance
        = SetSum(Recovered(NormalBalanceSide(account_type[a])), JournalOf(a))

OnSide(side) == {a \in Accounts : NormalBalanceSide(account_type[a]) = side}

-----------------------------------------------------------------------------
(***************************************************************************)
(* The folds of the model are such sums.                                   *)
(***************************************************************************)
LEMMA RecoveredIsInt ==
    ASSUME NEW side, NEW S, S \subseteq Entries
    PROVE  \A e \in S : Recovered(side)[e] \in Int
  BY DEF Recovered, ReconciledDelta, Entries

\* What a fold whose recursion is that of v computes.
LEMMA FoldIsSum ==
    ASSUME NEW S, IsFiniteSet(S), NEW v, \A x \in S : v[x] \in Int,
           NEW fold, IsSumming(fold, v, S)
    PROVE  fold[S] = SetSum(v, S)
  BY SummingIsSumming, SummingAgrees DEF SetSum

LEMMA RecoveredFold ==
    ASSUME NEW S, IsFiniteSet(S), S \subseteq Entries, NEW side
    PROVE  (CHOOSE iter : iter = [T \in SUBSET S |->
                IF T = {} THEN 0
                ELSE LET x == CHOOSE x \in T : TRUE
                     IN  ReconciledDelta(side, x.signed_amount) + iter[T \ {x}]])[S]
              = SetSum(Recovered(side), S)
  <1> DEFINE Body(g) == [T \in SUBSET S |->
                IF T = {} THEN 0
                ELSE LET x == CHOOSE x \in T : TRUE
                     IN  ReconciledDelta(side, x.signed_amount) + g[T \ {x}]]
             v == Recovered(side)
  <1>1. \A x \in S : v[x] \in Int
    BY RecoveredIsInt
  <1>2. ASSUME NEW g PROVE IsSumming(g, v, S) <=> g = Body(g)
    <2>1. \A T \in SUBSET S : T # {} => v[Pick(T)] = ReconciledDelta(side, Pick(T).signed_amount)
      BY PickIsMember DEF Recovered
    <2>2. Body(g) = [T \in SUBSET S |-> IF T = {} THEN 0 ELSE v[Pick(T)] + g[T \ {Pick(T)}]]
      <3> HIDE DEF v
      <3> QED BY <2>1 DEF Pick
    <2> HIDE DEF v, Body
    <2> QED
      BY Zenon, <2>2 DEF IsSumming
  <1>3. \E g : IsSumming(g, v, S)
    BY <1>1, SummingExists
  <1> DEFINE fold == CHOOSE g : g = Body(g)
  <1>4. IsSumming(fold, v, S)
    <2> HIDE DEF v, Body
    <2>1. \E g : g = Body(g)
      BY Zenon, <1>2, <1>3
    <2>2. fold = Body(fold)
      BY Zenon, <2>1
    <2> HIDE DEF fold
    <2> QED
      BY Zenon, <1>2, <2>2
  <1>5. fold[S] = SetSum(v, S)
    <2> HIDE DEF v, fold
    <2> QED BY <1>1, <1>4, FoldIsSum
  <1> QED
    BY Zenon, <1>5

LEMMA ReconcilesIs ==
    ASSUME TypeOK, IsFiniteSet(journal_entries)
    PROVE  BalanceReconciles <=> \A a \in Accounts : account_type[a] # NoType => Reconciles(a)
  <1> DEFINE Fold(S, side) == (CHOOSE iter : iter = [T \in SUBSET S |->
                IF T = {} THEN 0
                ELSE LET x == CHOOSE x \in T : TRUE
                     IN  ReconciledDelta(side, x.signed_amount) + iter[T \ {x}]])[S]
  <1>1. BalanceReconciles <=> \A a \in {b \in Accounts : account_type[b] # NoType} :
            account_state[a].current_balance
                = Fold({e \in journal_entries : e.account_id = a},
                       NormalBalanceSide(account_type[a]))
    BY Zenon DEF BalanceReconciles, MapThenSumSet, MapThenFoldSet
  <1>2. \A a \in Accounts : JournalOf(a) \subseteq Entries /\ IsFiniteSet(JournalOf(a))
    BY FS_Subset DEF TypeOK, JournalOf
  <1>3. \A side : \A a \in Accounts : Fold(JournalOf(a), side) = SetSum(Recovered(side), JournalOf(a))
    BY Zenon, <1>2, RecoveredFold
  <1> HIDE DEF Fold
  <1> QED
    BY <1>1, <1>3 DEF Reconciles, JournalOf


-----------------------------------------------------------------------------
(***************************************************************************)
(* Each account's balance is the sum of its entries.                       *)
(***************************************************************************)
\* What the audit recovers from the entry of a leg is the change of the balance.
LEMMA LegRecovered ==
    ASSUME TypeOK, NEW s \in Submissions, NEW i \in 1..2, NEW id, NEW e \in Entries,
           IsLeg(e, s, i, id)
    PROVE  Recovered(NormalBalanceSide(account_type[e.account_id]))[e]
              = BalanceDelta(Legs(s)[i].direction, s.amount)
  <1> DEFINE leg == Legs(s)[i]
             side == NormalBalanceSide(account_type[e.account_id])
  <1>1. leg.direction \in Directions /\ leg.amount = s.amount /\ s.amount \in Int
    BY LegType, SubmissionType DEF Directions
  <1>2. side \in Sides
    BY SideOfAType
  <1>3. e.account_id = leg.account_id
        /\ e.signed_amount = ToStoredSignedAmount(leg.direction, side, leg.amount)
    BY DEF IsLeg, SignedAmount
  <1> HIDE DEF leg, side
  <1>4. ReconciledDelta(side, e.signed_amount) = BalanceDelta(leg.direction, s.amount)
    BY <1>1, <1>2, <1>3, ReconciledIsDelta
  <1> QED
    BY <1>4 DEF Recovered, leg, side

LEMMA CommitReconciles ==
    ASSUME EngineInv, IsFiniteSet(journal_entries), NEW r \in Requests, Commits(r),
           NEW a \in Accounts, Reconciles(a)
    PROVE  Reconciles(a)'
  <1> DEFINE s == submission[r]
             v == Recovered(NormalBalanceSide(account_type[a]))
             old == JournalOf(a)
             balance == account_state[a].current_balance
             part(i) == BalanceDelta(Legs(s)[i].direction, s.amount)
  <1> USE DEF EngineInv
  <1>1. PICK first \in Entries, second \in Entries :
              /\ journal_entries' = journal_entries \cup {first, second}
              /\ first # second
              /\ \A j \in journal_entries : j.event_id # txn[r].id
              /\ IsLeg(first, s, 1, txn[r].id)
              /\ IsLeg(second, s, 2, txn[r].id)
              /\ first.account_id = s.from
              /\ second.account_id = s.to
    BY CommitAdds DEF EntryInv
  <1>2. /\ s \in Submissions /\ UniqueAccountIds(s) = {s.from, s.to}
        /\ Legs(s)[1].account_id = s.from /\ Legs(s)[2].account_id = s.to
        /\ Legs(s)[1].amount = s.amount /\ Legs(s)[2].amount = s.amount
        /\ s.amount \in Int
    BY SubmissionType, LegType DEF TypeOK
  <1>3. first \notin journal_entries /\ second \notin journal_entries
    BY <1>1 DEF IsLeg
  <1>4. /\ IsFiniteSet(old) /\ old \subseteq Entries
        /\ first \notin old /\ second \notin old /\ first \notin (old \cup {second})
    BY <1>1, <1>3, FS_Subset DEF JournalOf, TypeOK
  <1>5. \A e \in Entries : v[e] \in Int
    BY RecoveredIsInt
  <1>6. balance = SetSum(v, old) /\ balance \in Int
    BY DEF Reconciles, TypeOK, AccountStates
  <1>7. part(1) \in Int /\ part(2) \in Int
    BY <1>2 DEF BalanceDelta
  <1>8. account_type' = account_type
    BY DEF Commits, Publish
  <1>9. account_state'[a].current_balance =
            IF a \in {s.from, s.to} THEN balance + AccountDelta(s, a) ELSE balance
    BY <1>2 DEF Commits, Publish, WrittenState
  <1>10. AccountDelta(s, a) =
            (IF a = s.from THEN part(1) ELSE 0) + (IF a = s.to THEN part(2) ELSE 0)
    BY <1>2 DEF AccountDelta
  <1>11. /\ a = s.from => v[first] = part(1)
         /\ a = s.to => v[second] = part(2)
    BY <1>1, <1>2, LegRecovered
  <1>12. Reconciles(a)' <=> account_state'[a].current_balance = SetSum(v, JournalOf(a)')
    BY <1>8 DEF Reconciles
  <1>13. JournalOf(a)' = {e \in journal_entries \cup {first, second} : e.account_id = a}
    BY <1>1 DEF JournalOf
  <1> HIDE DEF s, v, balance, part
  <1>14. CASE a \notin {s.from, s.to}
    <2>1. JournalOf(a)' = old
      BY <1>1, <1>13, <1>14 DEF JournalOf
    <2> QED
      BY <1>6, <1>9, <1>12, <1>14, <2>1
  <1>15. CASE a = s.from /\ a # s.to
    <2>1. JournalOf(a)' = old \cup {first}
      BY <1>1, <1>13, <1>15 DEF JournalOf
    <2>2. SetSum(v, old \cup {first}) = v[first] + SetSum(v, old)
      BY <1>4, <1>5, SumWith
    <2> HIDE DEF old
    <2> QED
      BY <1>6, <1>7, <1>9, <1>10, <1>11, <1>12, <1>15, <2>1, <2>2
  <1>16. CASE a # s.from /\ a = s.to
    <2>1. JournalOf(a)' = old \cup {second}
      BY <1>1, <1>13, <1>16 DEF JournalOf
    <2>2. SetSum(v, old \cup {second}) = v[second] + SetSum(v, old)
      BY <1>4, <1>5, SumWith
    <2> HIDE DEF old
    <2> QED
      BY <1>6, <1>7, <1>9, <1>10, <1>11, <1>12, <1>16, <2>1, <2>2
  <1>17. CASE a = s.from /\ a = s.to
    <2>1. JournalOf(a)' = (old \cup {second}) \cup {first}
      BY <1>1, <1>13, <1>17 DEF JournalOf
    <2>2. SetSum(v, old \cup {second}) = v[second] + SetSum(v, old)
      BY <1>4, <1>5, SumWith
    <2>3. IsFiniteSet(old \cup {second}) /\ old \cup {second} \subseteq Entries
      BY <1>4, FS_AddElement
    <2>4. SetSum(v, (old \cup {second}) \cup {first}) = v[first] + SetSum(v, old \cup {second})
      <3> DEFINE more == old \cup {second}
      <3>1. first \notin more /\ IsFiniteSet(more) /\ more \subseteq Entries
        BY <1>4, <2>3
      <3> HIDE DEF more, old
      <3>2. SetSum(v, more \cup {first}) = v[first] + SetSum(v, more)
        BY <1>5, <3>1, SumWith
      <3> QED
        BY <3>2 DEF more
    <2> HIDE DEF old
    <2> QED
      BY <1>6, <1>7, <1>9, <1>10, <1>11, <1>12, <1>17, <2>1, <2>2, <2>4
  <1> QED
    BY <1>14, <1>15, <1>16, <1>17

\* The journal is finite, and the balances of the accounts are its sums.
SumInv ==
    /\ IsFiniteSet(journal_entries)
    /\ \A a \in Accounts : Reconciles(a)

LEMMA SumInvStep == EngineInv /\ SumInv /\ [Next]_vars => SumInv'
  <1> SUFFICES ASSUME EngineInv, SumInv, [Next]_vars PROVE SumInv'
    OBVIOUS
  <1>1. CASE UNCHANGED <<account_type, account_state, journal_entries, events, idempotency_keys>>
    BY <1>1 DEF SumInv, Reconciles, JournalOf
  <1>2. ASSUME NEW b \in Accounts, NEW type \in AccountTypes, CreateAccount(b, type) PROVE SumInv'
    <2>1. account_state[b] = NewAccountState /\ account_state' = account_state
      BY <1>2 DEF CreateAccount, EngineInv, PostingInv, FreshInv, TypeOK
    <2>2. JournalOf(b) = {}
      BY <2>1 DEF EngineInv, EntryInv, ChainIntact, NewAccountState, JournalOf
    <2>3. journal_entries' = journal_entries
          /\ \A a \in Accounts \ {b} : account_type'[a] = account_type[a]
      BY <1>2 DEF CreateAccount, EngineInv, TypeOK
    <2>4. ASSUME NEW a \in Accounts PROVE Reconciles(a)'
      <3>1. CASE a = b
        <4>1. JournalOf(b)' = {}
          BY <2>2, <2>3 DEF JournalOf
        <4>2. account_state'[b].current_balance = 0
          BY <2>1 DEF NewAccountState
        <4> QED
          BY <3>1, <4>1, <4>2, SumOfEmpty DEF Reconciles
      <3>2. CASE a # b
        BY <2>1, <2>3, <3>2 DEF SumInv, Reconciles, JournalOf
      <3> QED
        BY <3>1, <3>2
    <2> QED
      BY <2>3, <2>4 DEF SumInv
  <1>3. ASSUME NEW r \in Requests, Commits(r) PROVE SumInv'
    <2>1. \A a \in Accounts : Reconciles(a)'
      BY <1>3, CommitReconciles DEF SumInv
    <2>2. IsFiniteSet(journal_entries')
      <3>1. PICK first \in Entries, second \in Entries :
                journal_entries' = (journal_entries \cup {first}) \cup {second}
        BY <1>3, CommitAdds DEF EngineInv, EntryInv
      <3> QED
        BY <3>1, FS_AddElement DEF SumInv
    <2> QED
      BY <2>1, <2>2 DEF SumInv
  <1> QED
    BY <1>1, <1>2, <1>3, TableStep

LEMMA SumInit == Init => SumInv
  <1> SUFFICES ASSUME Init PROVE SumInv
    OBVIOUS
  <1>1. journal_entries = {} /\ \A a \in Accounts : account_state[a].current_balance = 0
    BY DEF Init, NewAccountState
  <1>2. \A a \in Accounts : JournalOf(a) = {}
    BY <1>1 DEF JournalOf
  <1> QED
    BY <1>1, <1>2, SumOfEmpty, FS_EmptySet DEF SumInv, Reconciles

LEMMA SumInvHolds == Spec => [](EngineInv /\ SumInv)
  BY SumInit, SumInvStep, EngineInvHolds, PTL DEF Spec

\* Moving a balance by the direction of each leg and storing entries by the side of
\* the account are two paths that never diverge: after any postings the balance of
\* an account is the sum the audit recovers from its entries
\* (verify-balance-reconciliation.ts:37-60).
THEOREM BalancesReconcile == Spec => []BalanceReconciles
  <1>1. EngineInv /\ SumInv => BalanceReconciles
    BY ReconcilesIs DEF EngineInv, SumInv
  <1> QED
    BY <1>1, SumInvHolds, PTL


-----------------------------------------------------------------------------
(***************************************************************************)
(* The two sides of the books.                                             *)
(***************************************************************************)
BooksInv == SetSum(Stored, OnSide("debit")) = SetSum(Stored, OnSide("credit"))

LEMMA StoredFold ==
    ASSUME TypeOK, NEW S, IsFiniteSet(S), S \subseteq Accounts
    PROVE  (CHOOSE iter : iter = [T \in SUBSET S |->
                IF T = {} THEN 0
                ELSE LET x == CHOOSE x \in T : TRUE
                     IN  account_state[x].current_balance + iter[T \ {x}]])[S]
              = SetSum(Stored, S)
  <1> DEFINE Body(g) == [T \in SUBSET S |->
                IF T = {} THEN 0
                ELSE LET x == CHOOSE x \in T : TRUE
                     IN  account_state[x].current_balance + g[T \ {x}]]
             v == Stored
  <1>1. \A x \in S : v[x] \in Int
    BY DEF Stored, TypeOK, AccountStates
  <1>2. ASSUME NEW g PROVE IsSumming(g, v, S) <=> g = Body(g)
    <2>1. \A T \in SUBSET S : T # {} => v[Pick(T)] = account_state[Pick(T)].current_balance
      BY PickIsMember DEF Stored
    <2>2. Body(g) = [T \in SUBSET S |-> IF T = {} THEN 0 ELSE v[Pick(T)] + g[T \ {Pick(T)}]]
      <3> HIDE DEF v
      <3> QED BY <2>1 DEF Pick
    <2> HIDE DEF v, Body
    <2> QED
      BY Zenon, <2>2 DEF IsSumming
  <1>3. \E g : IsSumming(g, v, S)
    BY <1>1, SummingExists
  <1> DEFINE fold == CHOOSE g : g = Body(g)
  <1>4. IsSumming(fold, v, S)
    <2> HIDE DEF v, Body
    <2>1. \E g : g = Body(g)
      BY Zenon, <1>2, <1>3
    <2>2. fold = Body(fold)
      BY Zenon, <2>1
    <2> HIDE DEF fold
    <2> QED
      BY Zenon, <1>2, <2>2
  <1>5. fold[S] = SetSum(v, S)
    <2> HIDE DEF v, fold
    <2> QED BY <1>1, <1>4, FoldIsSum
  <1> QED
    BY Zenon, <1>5

LEMMA BooksBalanceIs == ASSUME TypeOK, IsFiniteSet(Accounts) PROVE BooksBalance <=> BooksInv
  <1> DEFINE Fold(S) == (CHOOSE iter : iter = [T \in SUBSET S |->
                IF T = {} THEN 0
                ELSE LET x == CHOOSE x \in T : TRUE
                     IN  account_state[x].current_balance + iter[T \ {x}]])[S]
  <1>1. BooksBalance <=> Fold({a \in Accounts : NormalBalanceSide(account_type[a]) = "debit"})
                            = Fold({a \in Accounts : NormalBalanceSide(account_type[a]) = "credit"})
    BY Zenon DEF BooksBalance, MapThenSumSet, MapThenFoldSet
  <1>2. \A side : OnSide(side) \subseteq Accounts /\ IsFiniteSet(OnSide(side))
    BY FS_Subset DEF OnSide
  <1>3. \A side : Fold(OnSide(side)) = SetSum(Stored, OnSide(side))
    BY Zenon, <1>2, StoredFold
  <1> HIDE DEF Fold
  <1> QED
    BY <1>1, <1>3 DEF BooksInv, OnSide

\* A transfer moves money within a side, a deposit adds to both.
LEMMA CommitBooks ==
    ASSUME EngineInv, IsFiniteSet(Accounts), BooksInv, NEW r \in Requests, Commits(r)
    PROVE  BooksInv'
  <1> DEFINE s == submission[r]
             v == Stored
             w == Stored'
             D == OnSide("debit")
             C == OnSide("credit")
  <1> USE DEF EngineInv
  <1>1. /\ s \in Submissions /\ UniqueAccountIds(s) = {s.from, s.to}
        /\ s.from \in Accounts /\ s.to \in Accounts
        /\ Legs(s)[1].account_id = s.from /\ Legs(s)[2].account_id = s.to
        /\ Legs(s)[1].amount = s.amount /\ Legs(s)[2].amount = s.amount
        /\ Legs(s)[1].direction = IF s.kind = "transfer" THEN "decrease" ELSE "increase"
        /\ Legs(s)[2].direction = "increase"
        /\ s.amount \in Int /\ s.kind \in {"transfer", "deposit"}
    BY SubmissionType, LegType DEF TypeOK, Kinds
  <1>2. Decided(s)
    BY DEF PostingInv, DecidedInv, Commits, Staging
  <1>3. /\ s.kind = "transfer" =>
              NormalBalanceSide(account_type[s.from]) = NormalBalanceSide(account_type[s.to])
        /\ s.kind = "deposit" => s.from \in D /\ s.to \in C
    BY <1>1, <1>2 DEF Decided, Funded, FromHouse, NormalBalanceSide, OnSide
  <1>5. account_type' = account_type
    BY DEF Commits, Publish
  <1>6. OnSide("debit")' = D /\ OnSide("credit")' = C
    BY <1>5 DEF OnSide
  <1>7. /\ D \subseteq Accounts /\ IsFiniteSet(D)
        /\ C \subseteq Accounts /\ IsFiniteSet(C)
        /\ D \cup C = Accounts /\ D \cap C = {}
    BY FS_Subset DEF OnSide, NormalBalanceSide
  <1>8. \A a \in Accounts :
            w[a] = IF a \in {s.from, s.to} THEN v[a] + AccountDelta(s, a) ELSE v[a]
    BY <1>1 DEF Stored, Commits, Publish, WrittenState
  <1>9. \A a : AccountDelta(s, a) =
            (IF a = s.from THEN IF s.kind = "transfer" THEN -s.amount ELSE s.amount ELSE 0)
             + (IF a = s.to THEN s.amount ELSE 0)
    BY <1>1 DEF AccountDelta, BalanceDelta
  <1>4. \A a \in Accounts : v[a] \in Int /\ w[a] \in Int
    <2>1. \A a \in Accounts : v[a] \in Int
      BY DEF Stored, TypeOK, AccountStates
    <2>2. \A a \in Accounts : AccountDelta(s, a) \in Int
      BY <1>1, <1>9
    <2> HIDE DEF v, w, s
    <2> QED
      BY <1>8, <2>1, <2>2
  <1>10. SetSum(v, D) = SetSum(v, C) /\ SetSum(v, D) \in Int /\ SetSum(v, C) \in Int
    <2> HIDE DEF D, C, v
    <2>1. SetSum(v, D) \in Int /\ SetSum(v, C) \in Int
      BY <1>4, <1>7, SumIsInt
    <2> QED
      BY <2>1 DEF BooksInv, v, D, C
  <1>11. BooksInv' <=> SetSum(w, D) = SetSum(w, C)
    BY <1>6 DEF BooksInv
  <1> HIDE DEF s, v, w, D, C
  <1>12. CASE s.from = s.to
    <2>1. s.kind = "transfer"
      BY <1>1, <1>3, <1>7, <1>12
    <2>2. \A a \in Accounts : w[a] = v[a]
      BY <1>1, <1>4, <1>8, <1>9, <1>12, <2>1
    <2>3. SetSum(v, D) = SetSum(w, D) /\ SetSum(v, C) = SetSum(w, C)
      BY <1>4, <1>7, <2>2, SumOfEqual
    <2> QED
      BY <1>10, <1>11, <2>3
  <1>13. ASSUME s.from # s.to, s.kind = "transfer", NEW X, NEW Y, X \cup Y = Accounts, X \cap Y = {},
                IsFiniteSet(X), IsFiniteSet(Y), s.from \in X, s.to \in X
         PROVE  SetSum(w, X) = SetSum(v, X) /\ SetSum(w, Y) = SetSum(v, Y)
    <2>1. \A a \in Y : v[a] \in Int /\ v[a] = w[a]
      BY <1>4, <1>8, <1>13
    <2>2. SetSum(w, Y) = SetSum(v, Y)
      BY <1>13, <2>1, SumOfEqual
    <2>3. SetSum(w, X) = SetSum(v, X) + (w[s.from] - v[s.from]) + (w[s.to] - v[s.to])
      <3>1. /\ \A a \in X : v[a] \in Int /\ w[a] \in Int
            /\ \A a \in X \ {s.from, s.to} : w[a] = v[a]
        BY <1>4, <1>8, <1>13
      <3>2. IsFiniteSet(X) /\ s.from \in X /\ s.to \in X /\ s.from # s.to
        BY <1>13
      <3>3. \A z \in X : v[z] \in Int /\ w[z] \in Int
        BY <3>1
      <3>4. \A z \in X \ {s.from, s.to} : w[z] = v[z]
        BY <3>1
      <3> DEFINE x == s.from
                 y == s.to
      <3>5. IsFiniteSet(X) /\ x \in X /\ y \in X /\ x # y
        BY <3>2
      <3>6. \A z \in X \ {x, y} : w[z] = v[z]
        BY <3>4
      <3> HIDE DEF EngineInv, x, y
      <3>7. SetSum(w, X) = SetSum(v, X) + (w[x] - v[x]) + (w[y] - v[y])
        <4>1. SetSum(v, X) \in Int /\ SetSum(w, X) \in Int
          BY <3>3, <3>5, SumIsInt
        <4> QED
          BY <3>3, <3>5, <3>6, <4>1, SumAfterTwoChanges
      <3> QED
        BY Zenon, <3>7 DEF x, y
    <2>4. w[s.from] - v[s.from] = -s.amount /\ w[s.to] - v[s.to] = s.amount
      BY <1>1, <1>4, <1>8, <1>9, <1>13
    <2>5. SetSum(v, X) \in Int
      BY <1>4, <1>13, SumIsInt
    <2> QED
      BY <1>1, <2>2, <2>3, <2>4, <2>5
  <1>14. CASE s.from # s.to /\ s.kind = "transfer"
    <2>1. (s.from \in D /\ s.to \in D) \/ (s.from \in C /\ s.to \in C)
      BY <1>1, <1>3, <1>14 DEF D, C, OnSide, NormalBalanceSide
    <2>2. SetSum(w, D) = SetSum(v, D) /\ SetSum(w, C) = SetSum(v, C)
      BY <1>7, <1>13, <1>14, <2>1
    <2> QED
      BY <1>10, <1>11, <2>2
  <1>15. CASE s.from # s.to /\ s.kind = "deposit"
    <2>1. s.from \in D /\ s.to \in C /\ s.from \notin C /\ s.to \notin D
      BY <1>3, <1>7, <1>15
    <2>2. SetSum(w, D) = SetSum(v, D) + w[s.from] - v[s.from]
      <3>1. /\ \A a \in D : v[a] \in Int /\ w[a] \in Int
            /\ \A a \in D \ {s.from} : w[a] = v[a]
        BY <1>4, <1>7, <1>8, <2>1
      <3> QED
        BY <1>7, <2>1, <3>1, SumAfterChange
    <2>3. SetSum(w, C) = SetSum(v, C) + w[s.to] - v[s.to]
      <3>1. /\ \A a \in C : v[a] \in Int /\ w[a] \in Int
            /\ \A a \in C \ {s.to} : w[a] = v[a]
        BY <1>4, <1>7, <1>8, <2>1
      <3> QED
        BY <1>7, <2>1, <3>1, SumAfterChange
    <2>4. w[s.from] = v[s.from] + s.amount /\ w[s.to] = v[s.to] + s.amount
      BY <1>1, <1>4, <1>8, <1>9, <1>15
    <2> QED
      BY <1>1, <1>4, <1>10, <1>11, <2>2, <2>3, <2>4
  <1> QED
    BY <1>1, <1>12, <1>14, <1>15

LEMMA BooksStep ==
    ASSUME IsFiniteSet(Accounts)
    PROVE  EngineInv /\ BooksInv /\ [Next]_vars => BooksInv'
  <1> SUFFICES ASSUME EngineInv, BooksInv, [Next]_vars PROVE BooksInv'
    OBVIOUS
  <1>1. CASE UNCHANGED <<account_type, account_state, journal_entries, events, idempotency_keys>>
    BY <1>1 DEF BooksInv, Stored, OnSide
  <1>2. ASSUME NEW b \in Accounts, NEW type \in AccountTypes, CreateAccount(b, type) PROVE BooksInv'
    <2> DEFINE D == OnSide("debit")
               C == OnSide("credit")
    <2>1. account_state[b] = NewAccountState /\ account_state' = account_state
      BY <1>2 DEF CreateAccount, EngineInv, PostingInv, FreshInv, TypeOK
    <2>2. Stored' = Stored /\ Stored[b] = 0
      BY <2>1 DEF Stored, NewAccountState
    <2>3. /\ \A a \in Accounts \ {b} : account_type'[a] = account_type[a]
          /\ NormalBalanceSide(account_type[b]) = "credit"
          /\ NormalBalanceSide(account_type'[b]) \in {"debit", "credit"}
      BY <1>2 DEF CreateAccount, EngineInv, TypeOK, NormalBalanceSide, NoType
    <2>4. \A a \in Accounts : Stored[a] \in Int
      BY DEF EngineInv, TypeOK, Stored, AccountStates
    <2>5. IsFiniteSet(D) /\ D \subseteq Accounts /\ IsFiniteSet(C) /\ C \subseteq Accounts
      BY FS_Subset DEF OnSide
    <2>6. b \in C /\ b \notin D
      BY <2>3 DEF OnSide
    <2>7. CASE NormalBalanceSide(account_type'[b]) = "credit"
      <3>1. OnSide("debit")' = D /\ OnSide("credit")' = C
        BY <2>3, <2>7 DEF OnSide
      <3> QED
        BY <2>2, <3>1 DEF BooksInv
    <2>8. CASE NormalBalanceSide(account_type'[b]) = "debit"
      <3>1. OnSide("debit")' = D \cup {b} /\ OnSide("credit")' = C \ {b}
        BY <2>3, <2>8 DEF OnSide
      <3> HIDE DEF D, C
      <3>2. SetSum(Stored, D \cup {b}) = Stored[b] + SetSum(Stored, D)
        BY <2>2, <2>4, <2>5, <2>6, SumWith
      <3>3. SetSum(Stored, C) = Stored[b] + SetSum(Stored, C \ {b})
        BY <2>4, <2>5, <2>6, SumWithout
      <3>4. SetSum(Stored, D) \in Int /\ SetSum(Stored, C \ {b}) \in Int
        <4>1. IsFiniteSet(C \ {b})
          BY <2>5, FS_Subset
        <4> QED
          BY <2>4, <2>5, <4>1, SumIsInt
      <3>5. SetSum(Stored, D \cup {b}) = SetSum(Stored, C \ {b})
        BY <2>2, <3>2, <3>3, <3>4 DEF BooksInv, D, C
      <3> QED
        BY <2>2, <3>1, <3>5 DEF BooksInv
    <2> QED
      BY <2>3, <2>7, <2>8
  <1>3. ASSUME NEW r \in Requests, Commits(r) PROVE BooksInv'
    BY <1>3, CommitBooks
  <1> QED
    BY <1>1, <1>2, <1>3, TableStep

\* The accounting equation: whatever posts, in every committed state the debit-normal
\* accounts hold together what the credit-normal ones hold.  The table of accounts
\* is finite.
THEOREM BooksAlwaysBalance == ASSUME IsFiniteSet(Accounts) PROVE Spec => []BooksBalance
  <1>1. Init => BooksInv
    <2> SUFFICES ASSUME Init PROVE BooksInv
      OBVIOUS
    <2>1. \A a \in Accounts : Stored[a] = 0
      BY DEF Init, Stored, NewAccountState
    <2>2. \A side : OnSide(side) \subseteq Accounts /\ IsFiniteSet(OnSide(side))
      BY FS_Subset DEF OnSide
    <2>3. \A side : SetSum(Stored, OnSide(side)) = 0
      BY <2>1, <2>2, SumOfZeros
    <2> QED
      BY <2>3 DEF BooksInv
  <1>2. EngineInv /\ BooksInv => BooksBalance
    BY BooksBalanceIs DEF EngineInv
  <1> QED
    BY <1>1, <1>2, BooksStep, EngineInvHolds, PTL DEF Spec
=============================================================================
