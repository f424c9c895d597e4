-------------------------------- MODULE MCHttp --------------------------------
(***************************************************************************)
(* A small instance of HttpLayer: the house account (1) exists, account 2  *)
(* is created while calls already name it.                                 *)
(***************************************************************************)
EXTENDS HttpLayer, TLC

CONSTANTS k1, k2, k3

Text(negative, whole, fraction) ==
    [negative |-> negative, whole |-> whole, fraction |-> fraction]
Call(key, kind, from, to, amount) ==
    [conforms |-> TRUE, key |-> key, kind |-> kind, from |-> from, to |-> to, amount |-> amount]

One == Text(FALSE, 1, <<>>)
Half == Text(FALSE, 0, <<5>>)
MinusHalf == Text(TRUE, 0, <<5>>)
Zero == Text(FALSE, 0, <<0, 0>>)
HalfInFive == Text(FALSE, 0, <<5, 0, 0, 0, 0>>)

\* Calls the engine posts, replays or refuses, and calls that never reach it.
MCCalls ==
    { Call(k1, "deposit", 1, 2, One), Call(k2, "deposit", 1, 2, Half),
      Call(k2, "deposit", 1, 1, Half), Call(k3, "transfer", 1, 2, Half),
      Call(k3, "transfer", 2, 2, Text(FALSE, 0, <<5, 0, 0, 0>>)),
      Call(k1, "transfer", 2, 1, Zero), Call(k3, "deposit", 1, 2, MinusHalf),
      Call(k1, "deposit", 1, 2, HalfInFive), Call(k1, "deposit", 1, 2, Unreadable),
      Call(NoKey, "deposit", 1, 2, Half),
      [Call(k1, "deposit", 1, 2, Unreadable) EXCEPT !.conforms = FALSE] }

MCSubmissions == {Parsed(c) : c \in {d \in MCCalls : Reaches(d)}}

HouseOnly == [a \in Accounts |-> IF a = 1 THEN "asset" ELSE NoType]

RequestSymmetry == Permutations(Requests)
=============================================================================
