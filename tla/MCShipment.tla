---- MODULE MCShipment ----
(***************************************************************************)
(* A small instance of Shipment for TLC.                                   *)
(***************************************************************************)
EXTENDS Shipment, TLC

CONSTANTS e1, e2, w1, w2

OwnName == w1 :> "worker-a" @@ w2 :> "worker-b"
====
