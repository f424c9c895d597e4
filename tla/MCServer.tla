------------------------------- MODULE MCServer -------------------------------
(***************************************************************************)
(* A small instance of Server: one deposit, delivered twice at once, and   *)
(* two calls of createCheckpoint.                                          *)
(***************************************************************************)
EXTENDS Server, TLC

CONSTANT k1

HouseAndWallet == [a \in Accounts |-> IF a = 1 THEN "asset" ELSE "liability"]

\* The second delivery ends in the catch block, which needs one more connection.
DeliveredTwice == { [key |-> k1, kind |-> "deposit", from |-> 1, to |-> 2, amount |-> 1] }
=============================================================================
