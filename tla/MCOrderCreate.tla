---- MODULE MCOrderCreate ----
(***************************************************************************)
(* Small instances of OrderCreate for TLC.                                 *)
(***************************************************************************)
EXTENDS OrderCreate, TLC

CONSTANTS c1, c2, c3, c4, k1, k2, x1

\* Three calls of one client for one order, and one call for another.
KeyThree == c1 :> k1 @@ c2 :> k1 @@ c3 :> k1 @@ c4 :> k2
====
