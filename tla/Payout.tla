---- MODULE Payout ----
(***************************************************************************)
(* What the cooperative promises its farmers, without requests,            *)
(* transactions or versions: a delivered order owes every farm it took     *)
(* from its due, all at once, and each due is approved and then paid once. *)
(* Settlement implements it.                                               *)
(***************************************************************************)
EXTENDS Integers

CONSTANTS Orders, Farms,
          Dues          \* Dues[o][f]: what order o owes farm f, 0 for nothing

VARIABLES delivered,    \* the orders that reached their buyer
          debt          \* debt[o][f]: the phase of a due, and its amount

payout == <<delivered, debt>>

NoDebt == [phase |-> "none", amount |-> 0]

Init == /\ delivered = {}
        /\ debt = [o \in Orders |-> [f \in Farms |-> NoDebt]]

Deliver(o) ==
    /\ o \notin delivered
    /\ delivered' = delivered \union {o}
    /\ debt' = [debt EXCEPT ![o] =
          [f \in Farms |-> IF Dues[o][f] = 0 THEN NoDebt
                           ELSE [phase |-> "due", amount |-> Dues[o][f]]]]

Approve(o, f) ==
    /\ debt[o][f].phase = "due"
    /\ debt' = [debt EXCEPT ![o][f].phase = "approved"]
    /\ UNCHANGED delivered

Pay(o, f) ==
    /\ debt[o][f].phase = "approved"
    /\ debt' = [debt EXCEPT ![o][f].phase = "paid"]
    /\ UNCHANGED delivered

Next == \E o \in Orders : \/ Deliver(o)
                          \/ \E f \in Farms : Approve(o, f) \/ Pay(o, f)

Spec == Init /\ [][Next]_payout
====
