---- MODULE MCSettlement ----
(***************************************************************************)
(* Small instances of Settlement for TLC.                                  *)
(***************************************************************************)
EXTENDS Settlement, TLC

CONSTANTS o1, o2, o3, f1, f2, b1, b2, b3, r1, r2

\* o1 took from two batches of f1 and one of f2, o2 from one batch of f2; what
\* o3 owes is beyond the width and wraps to a negative amount.
Farm3  == b1 :> f1 @@ b2 :> f1 @@ b3 :> f2
Price3 == b1 :> 2 @@ b2 :> 3 @@ b3 :> 4
Taken3 == o1 :> (b1 :> 1 @@ b2 :> 2 @@ b3 :> 1) @@ o2 :> (b1 :> 0 @@ b2 :> 0 @@ b3 :> 2)
          @@ o3 :> (b1 :> 60 @@ b2 :> 0 @@ b3 :> 0)

\* The amount of o1 is 10: with amounts from -4 to 3 it wraps to 2.
TakenMuch == o1 :> (b1 :> 5 @@ b2 :> 0 @@ b3 :> 0)
====
