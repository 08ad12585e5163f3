---- MODULE MCOutbox ----
(***************************************************************************)
(* Small instances of Outbox for TLC.                                      *)
(***************************************************************************)
EXTENDS Outbox, TLC

CONSTANTS e1, w1, w2, w3

\* The name main.go gives the worker of every server.
ServerWorker == [w \in Workers |-> "server-worker"]

\* Two such servers and a worker of another name, like those of the tests.
Mixed == [w \in Workers |-> IF w = w3 THEN "worker" ELSE "server-worker"]
====
