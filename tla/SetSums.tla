------------------------------- MODULE SetSums -------------------------------
(***************************************************************************)
(* Sums over finite sets: that the sum a fold over a set computes does not *)
(* depend on the order of the fold, and how it changes when an element is  *)
(* added or a value changes.                                               *)
(*                                                                         *)
(* Induction over finite sets is by a minimal counterexample: the strict   *)
(* subset ordering is well founded on the subsets of a finite set.         *)
(***************************************************************************)
EXTENDS Integers, FiniteSetTheorems, TLAPS

\* The element that MapThenSumSet of FiniteSetsExt takes next.
Pick(S) == CHOOSE x \in S : TRUE

\* g[T] is the sum of the values v of T, for every subset T of S.
IsSumming(g, v, S) ==
    g = [T \in SUBSET S |-> IF T = {} THEN 0 ELSE v[Pick(T)] + g[T \ {Pick(T)}]]

Summing(v, S) == CHOOSE g : IsSumming(g, v, S)

SetSum(v, S) == Summing(v, S)[S]

-----------------------------------------------------------------------------
\* A nonempty collection of subsets of a finite set has a minimal member.
LEMMA MinimalSubset ==
    ASSUME NEW S, IsFiniteSet(S), NEW C, C \subseteq SUBSET S, C # {}
    PROVE  \E X \in C : \A Y \in C : Y \subseteq X => Y = X
<1>1. IsWellFoundedOn(StrictSubsetOrdering(S), FiniteSubsetsOf(S))
  BY FS_StrictSubsetOrderingWellFounded
<1>2. FiniteSubsetsOf(S) = SUBSET S
  BY FS_FiniteSubsetsOfFinite
<1>3. \E X \in C : \A Y \in C : ~(<<Y, X>> \in StrictSubsetOrdering(S))
  BY <1>1, <1>2, WFMin
<1> QED
  BY <1>3 DEF StrictSubsetOrdering

LEMMA PickIsMember == ASSUME NEW S, S # {} PROVE Pick(S) \in S
  BY DEF Pick

\* Two summing functions agree wherever both are defined.
LEMMA SummingAgrees ==
    ASSUME NEW S, IsFiniteSet(S), NEW v, NEW g, NEW h, NEW T, NEW U,
           IsSumming(g, v, T), IsSumming(h, v, U), S \subseteq T, S \subseteq U
    PROVE  g[S] = h[S]
<1> DEFINE C == {X \in SUBSET S : g[X] # h[X]}
<1> SUFFICES ASSUME C # {} PROVE FALSE
  OBVIOUS
<1>0. C \subseteq SUBSET S
  OBVIOUS
<1>1. PICK X \in C : \A Y \in C : Y \subseteq X => Y = X
  <2> HIDE DEF C
  <2> QED BY <1>0, MinimalSubset
<1>2. X \in SUBSET T /\ X \in SUBSET U
  OBVIOUS
<1>3. g[X] = IF X = {} THEN 0 ELSE v[Pick(X)] + g[X \ {Pick(X)}]
  BY <1>2 DEF IsSumming
<1>4. h[X] = IF X = {} THEN 0 ELSE v[Pick(X)] + h[X \ {Pick(X)}]
  BY <1>2 DEF IsSumming
<1>5. X # {}
  BY <1>1, <1>3, <1>4
<1>6. X \ {Pick(X)} \notin C
  BY <1>1, <1>5, PickIsMember
<1> QED
  BY <1>1, <1>3, <1>4, <1>6

\* The fold is defined for every finite set of integer values.
LEMMA SummingExists ==
    ASSUME NEW S, IsFiniteSet(S), NEW v, \A x \in S : v[x] \in Int
    PROVE  \E g : IsSumming(g, v, S) /\ g[S] \in Int
<1> DEFINE Good(T) == \E g : IsSumming(g, v, T) /\ g[T] \in Int
           C == {T \in SUBSET S : ~Good(T)}
<1> SUFFICES ASSUME C # {} PROVE FALSE
  OBVIOUS
<1>0. C \subseteq SUBSET S
  OBVIOUS
<1>1. PICK X \in C : \A Y \in C : Y \subseteq X => Y = X
  <2> HIDE DEF C
  <2> QED BY <1>0, MinimalSubset
<1> DEFINE rest(T) == T \ {Pick(T)}
           part(T) == CHOOSE g : IsSumming(g, v, T) /\ g[T] \in Int
           sum(T) == IF T = {} THEN 0 ELSE v[Pick(T)] + part(rest(T))[rest(T)]
           G == [T \in SUBSET X |-> sum(T)]
<1>2. \A T \in SUBSET X : T # X => IsSumming(part(T), v, T) /\ part(T)[T] \in Int
  <2> SUFFICES ASSUME NEW T \in SUBSET X, T # X PROVE Good(T)
    BY Zenon
  <2> QED
    BY <1>1
<1>3. ASSUME NEW T \in SUBSET X, T # {}
      PROVE  /\ rest(T) \in SUBSET X
             /\ rest(T) # X
             /\ v[Pick(T)] \in Int
             /\ IsFiniteSet(rest(T))
  <2>1. Pick(T) \in T
    BY <1>3, PickIsMember
  <2> QED
    BY <2>1, FS_Subset
<1>4. \A T \in SUBSET X : T # X => G[T] = part(T)[T]
  <2> SUFFICES ASSUME NEW T \in SUBSET X, T # X PROVE sum(T) = part(T)[T]
    OBVIOUS
  <2>1. IsSumming(part(T), v, T)
    BY <1>2
  <2>2. part(T)[T] = IF T = {} THEN 0 ELSE v[Pick(T)] + part(T)[rest(T)]
    <3> HIDE DEF part
    <3> QED BY <2>1 DEF IsSumming
  <2>3. CASE T = {}
    BY <2>2, <2>3
  <2>4. CASE T # {}
    <3>1. IsSumming(part(rest(T)), v, rest(T)) /\ IsFiniteSet(rest(T))
      BY <1>2, <1>3, <2>4
    <3>2. part(rest(T))[rest(T)] = part(T)[rest(T)]
      <4> HIDE DEF part
      <4> QED BY <2>1, <3>1, SummingAgrees
    <3> QED
      BY <2>2, <2>4, <3>2
  <2> QED
    BY <2>3, <2>4
<1>5. IsSumming(G, v, X)
  <2>1. ASSUME NEW T \in SUBSET X
        PROVE  sum(T) = IF T = {} THEN 0 ELSE v[Pick(T)] + G[T \ {Pick(T)}]
    <3>1. CASE T = {}
      BY <3>1
    <3>2. CASE T # {}
      <4>1. G[rest(T)] = part(rest(T))[rest(T)]
        <5> HIDE DEF G, part
        <5> QED BY <1>3, <1>4, <2>1, <3>2
      <4> QED
        <5> HIDE DEF G, part
        <5> QED BY <3>2, <4>1
    <3> QED
      BY <3>1, <3>2
  <2>2. G = [T \in SUBSET X |-> IF T = {} THEN 0 ELSE v[Pick(T)] + G[T \ {Pick(T)}]]
    <3> HIDE DEF sum
    <3>1. \A T \in SUBSET X : sum(T) = IF T = {} THEN 0 ELSE v[Pick(T)] + G[T \ {Pick(T)}]
      <4> HIDE DEF G
      <4> QED BY <2>1
    <3>2. G = [T \in SUBSET X |-> sum(T)]
      OBVIOUS
    <3> HIDE DEF G
    <3> QED
      BY Zenon, <3>1, <3>2
  <2> QED
    <3> HIDE DEF G
    <3> QED BY <2>2 DEF IsSumming
<1>6. G[X] \in Int
  <2>1. CASE X = {}
    BY <2>1
  <2>2. CASE X # {}
    <3>1. v[Pick(X)] \in Int /\ part(rest(X))[rest(X)] \in Int
      BY <1>2, <1>3, <2>2
    <3> QED
      BY <2>2, <3>1
  <2> QED
    BY <2>1, <2>2
<1>7. Good(X)
  <2> HIDE DEF G
  <2> QED BY <1>5, <1>6
<1> QED
  BY <1>1, <1>7


\* Summing(v, S) is the fold over S.
LEMMA SummingIsSumming ==
    ASSUME NEW S, IsFiniteSet(S), NEW v, \A x \in S : v[x] \in Int
    PROVE  IsSumming(Summing(v, S), v, S)
<1>1. \E g : IsSumming(g, v, S)
  BY SummingExists
<1> QED
  BY Zenon, <1>1 DEF Summing

LEMMA SumIsInt ==
    ASSUME NEW S, IsFiniteSet(S), NEW v, \A x \in S : v[x] \in Int
    PROVE  SetSum(v, S) \in Int
<1>1. PICK g : IsSumming(g, v, S) /\ g[S] \in Int
  BY SummingExists
<1>2. Summing(v, S)[S] = g[S]
  BY <1>1, SummingIsSumming, SummingAgrees
<1> QED
  BY <1>1, <1>2 DEF SetSum

LEMMA SumOfEmpty == ASSUME NEW v PROVE SetSum(v, {}) = 0
<1>1. IsSumming(Summing(v, {}), v, {})
  BY SummingIsSumming, FS_EmptySet
<1> QED
  BY <1>1 DEF SetSum, IsSumming

\* The sum is what is picked and the sum of the rest.
LEMMA SumStep ==
    ASSUME NEW S, IsFiniteSet(S), NEW v, \A x \in S : v[x] \in Int, S # {}
    PROVE  SetSum(v, S) = v[Pick(S)] + SetSum(v, S \ {Pick(S)})
<1> DEFINE R == S \ {Pick(S)}
<1>1. R \subseteq S /\ IsFiniteSet(R)
  BY FS_Subset
<1>2. IsSumming(Summing(v, S), v, S) /\ IsSumming(Summing(v, R), v, R)
  BY <1>1, SummingIsSumming
<1>3. Summing(v, S)[R] = Summing(v, R)[R]
  BY <1>1, <1>2, SummingAgrees
<1>4. Summing(v, S)[S] = v[Pick(S)] + Summing(v, S)[R]
  BY <1>2 DEF IsSumming
<1> QED
  BY <1>3, <1>4 DEF SetSum

\* The order does not matter: any element can be taken first.
LEMMA SumWithout ==
    ASSUME NEW S, IsFiniteSet(S), NEW v, \A x \in S : v[x] \in Int, NEW x \in S
    PROVE  SetSum(v, S) = v[x] + SetSum(v, S \ {x})
<1> DEFINE Good(T) == \A y \in T : SetSum(v, T) = v[y] + SetSum(v, T \ {y})
           C == {T \in SUBSET S : ~Good(T)}
<1> SUFFICES ASSUME C # {} PROVE FALSE
  OBVIOUS
<1>0. C \subseteq SUBSET S
  OBVIOUS
<1>1. PICK X \in C : \A Y \in C : Y \subseteq X => Y = X
  <2> HIDE DEF C
  <2> QED BY <1>0, MinimalSubset
<1>2. \A Y \in SUBSET X : Y # X => Good(Y)
  BY <1>1
<1>3. \A Y \in SUBSET X : IsFiniteSet(Y) /\ \A y \in Y : v[y] \in Int
  BY FS_Subset
<1>4. \A Y \in SUBSET X : SetSum(v, Y) \in Int
  BY <1>3, SumIsInt
<1>5. PICK y \in X : SetSum(v, X) # v[y] + SetSum(v, X \ {y})
  BY <1>1
<1> DEFINE p == Pick(X)
<1>6. p \in X
  BY <1>5, PickIsMember
<1>7. SetSum(v, X) = v[p] + SetSum(v, X \ {p})
  BY <1>3, <1>5, SumStep
<1>8. p # y
  BY <1>5, <1>7
<1>9. SetSum(v, X \ {p}) = v[y] + SetSum(v, (X \ {p}) \ {y})
  BY <1>2, <1>6, <1>8
<1>10. SetSum(v, X \ {y}) = v[p] + SetSum(v, (X \ {y}) \ {p})
  BY <1>2, <1>6, <1>8
<1>11. (X \ {y}) \ {p} = (X \ {p}) \ {y}
  OBVIOUS
<1> DEFINE rest == SetSum(v, (X \ {p}) \ {y})
<1>12. v[p] \in Int /\ v[y] \in Int /\ rest \in Int
  BY <1>3, <1>4, <1>6
<1>13. SetSum(v, X \ {p}) = v[y] + rest /\ SetSum(v, X \ {y}) = v[p] + rest
  BY <1>9, <1>10, <1>11
<1> HIDE DEF p, rest
<1>14. SetSum(v, X) = v[p] + (v[y] + rest) /\ v[y] + SetSum(v, X \ {y}) = v[y] + (v[p] + rest)
  BY <1>7, <1>13
<1>15. v[p] + (v[y] + rest) = v[y] + (v[p] + rest)
  BY <1>12
<1> QED
  BY <1>5, <1>14, <1>15

LEMMA SumWith ==
    ASSUME NEW S, IsFiniteSet(S), NEW v, \A y \in S : v[y] \in Int,
           NEW x, x \notin S, v[x] \in Int
    PROVE  SetSum(v, S \cup {x}) = v[x] + SetSum(v, S)
<1>1. IsFiniteSet(S \cup {x})
  BY FS_AddElement
<1>2. (S \cup {x}) \ {x} = S
  OBVIOUS
<1> QED
  BY <1>1, <1>2, SumWithout

\* Equal values have equal sums.
LEMMA SumOfEqual ==
    ASSUME NEW S, IsFiniteSet(S), NEW v, NEW w, \A x \in S : v[x] \in Int /\ v[x] = w[x]
    PROVE  SetSum(v, S) = SetSum(w, S)
<1> DEFINE C == {T \in SUBSET S : SetSum(v, T) # SetSum(w, T)}
<1> SUFFICES ASSUME C # {} PROVE FALSE
  OBVIOUS
<1>0. C \subseteq SUBSET S
  OBVIOUS
<1>1. PICK X \in C : \A Y \in C : Y \subseteq X => Y = X
  <2> HIDE DEF C
  <2> QED BY <1>0, MinimalSubset
<1>2. IsFiniteSet(X)
  BY FS_Subset
<1>3. X # {}
  BY <1>1, SumOfEmpty
<1>4. Pick(X) \in X
  BY <1>3, PickIsMember
<1>5. SetSum(v, X) = v[Pick(X)] + SetSum(v, X \ {Pick(X)})
  BY <1>2, <1>3, SumStep
<1>6. SetSum(w, X) = w[Pick(X)] + SetSum(w, X \ {Pick(X)})
  BY <1>2, <1>3, SumStep
<1>7. SetSum(v, X \ {Pick(X)}) = SetSum(w, X \ {Pick(X)})
  BY <1>1, <1>4
<1> QED
  BY <1>1, <1>4, <1>5, <1>6, <1>7

LEMMA SumOfZeros ==
    ASSUME NEW S, IsFiniteSet(S), NEW v, \A x \in S : v[x] = 0
    PROVE  SetSum(v, S) = 0
<1> DEFINE C == {T \in SUBSET S : SetSum(v, T) # 0}
<1> SUFFICES ASSUME C # {} PROVE FALSE
  OBVIOUS
<1>0. C \subseteq SUBSET S
  OBVIOUS
<1>1. PICK X \in C : \A Y \in C : Y \subseteq X => Y = X
  <2> HIDE DEF C
  <2> QED BY <1>0, MinimalSubset
<1>2. X # {} /\ IsFiniteSet(X)
  BY <1>1, SumOfEmpty, FS_Subset
<1>3. \A x \in X : v[x] = 0 /\ v[x] \in Int
  BY <1>1
<1>4. Pick(X) \in X
  BY <1>2, PickIsMember
<1>5. SetSum(v, X) = v[Pick(X)] + SetSum(v, X \ {Pick(X)})
  <2> HIDE DEF C
  <2> QED BY <1>2, <1>3, SumStep
<1>6. SetSum(v, X \ {Pick(X)}) = 0
  BY <1>1, <1>4
<1> QED
  BY <1>1, <1>3, <1>4, <1>5, <1>6

\* A change of one value changes the sum by as much.
LEMMA SumAfterChange ==
    ASSUME NEW S, IsFiniteSet(S), NEW v, NEW w, NEW x \in S,
           \A y \in S : v[y] \in Int /\ w[y] \in Int,
           \A y \in S \ {x} : w[y] = v[y]
    PROVE  SetSum(w, S) = SetSum(v, S) + w[x] - v[x]
<1>1. IsFiniteSet(S \ {x})
  BY FS_Subset
<1>2. SetSum(v, S \ {x}) = SetSum(w, S \ {x})
  BY <1>1, SumOfEqual
<1>3. SetSum(v, S) = v[x] + SetSum(v, S \ {x})
  BY SumWithout
<1>4. SetSum(w, S) = w[x] + SetSum(w, S \ {x})
  BY SumWithout
<1>5. SetSum(v, S \ {x}) \in Int
  BY <1>1, SumIsInt
<1> QED
  BY <1>2, <1>3, <1>4, <1>5

\* Two different changes.
LEMMA SumAfterTwoChanges ==
    ASSUME NEW S, IsFiniteSet(S), NEW v, NEW w, NEW x \in S, NEW y \in S, x # y,
           \A z \in S : v[z] \in Int /\ w[z] \in Int,
           \A z \in S \ {x, y} : w[z] = v[z]
    PROVE  SetSum(w, S) = SetSum(v, S) + (w[x] - v[x]) + (w[y] - v[y])
<1> DEFINE u == [z \in S |-> IF z = x THEN w[z] ELSE v[z]]
<1>1. SetSum(u, S) = SetSum(v, S) + u[x] - v[x]
  BY SumAfterChange
<1>2. SetSum(w, S) = SetSum(u, S) + w[y] - u[y]
  BY SumAfterChange
<1>3. u[x] = w[x] /\ u[y] = v[y]
  OBVIOUS
<1>4. SetSum(v, S) \in Int
  BY SumIsInt
<1> QED
  <2> HIDE DEF u
  <2> QED BY <1>1, <1>2, <1>3, <1>4
=============================================================================
