---- MODULE MCSessions ----
(***************************************************************************)
(* A small instance of Sessions for TLC.                                   *)
(***************************************************************************)
EXTENDS Sessions

CONSTANTS u1, s1, s2, r1, r2
====
