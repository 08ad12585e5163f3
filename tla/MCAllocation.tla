---- MODULE MCAllocation ----
(***************************************************************************)
(* Small instances of Allocation for TLC.                                  *)
(***************************************************************************)
EXTENDS Allocation, TLC

CONSTANTS b1, b2, o1, o2, l1, l2, l3, oyster, shiitake, r1, r2

TwoBatches == {b1, b2}
TwoOrders  == {o1, o2}
ThreeLines == {l1, l2, l3}
LineOwner  == l1 :> o1 @@ l2 :> o1 @@ l3 :> o2
RankTwo    == b1 :> 1 @@ b2 :> 2

Batch(s, n, t) == [species |-> s, quantity |-> n, expires |-> t]
Line(s, n) == [species |-> s, quantity |-> n]

\* Two batches that expire in different seconds; o1 has two lines, of one
\* species or of two, and competes with the single line of o2.
OfferedTwo == b1 :> {Batch(oyster, 2, 3)} @@ b2 :> {Batch(oyster, 1, 1), Batch(shiitake, 2, 1)}
WantedTwo  == o1 :> {l1 :> Line(oyster, 2) @@ l2 :> Line(oyster, 1),
                     l1 :> Line(oyster, 1) @@ l2 :> Line(shiitake, 2)}
              @@ o2 :> {l3 :> Line(oyster, 1)}
====
