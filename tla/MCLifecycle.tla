---- MODULE MCLifecycle ----
(***************************************************************************)
(* A small instance of Lifecycle for TLC.                                  *)
(***************************************************************************)
EXTENDS Lifecycle

CONSTANTS h1, h2
====
