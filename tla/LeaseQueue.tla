---- MODULE LeaseQueue ----
(***************************************************************************)
(* What a queue with leases promises, whatever its rows and clocks look    *)
(* like: an item is waiting, in the hands of one holder, or settled.  Only *)
(* the holder puts it back or settles it, and a settled item stays so.     *)
(* When a lease runs out another holder may take the item over; when its   *)
(* holder is gone the item is in nobody's hands until then.                *)
(***************************************************************************)
CONSTANTS Items, Holders, None

VARIABLES stage,        \* stage[i]: absent, waiting, held or settled
          holder        \* holder[i]: who holds item i, or None

vars == <<stage, holder>>

Put(i) == /\ stage[i] = "absent"
          /\ stage' = [stage EXCEPT ![i] = "waiting"]
          /\ UNCHANGED holder

Take(i, h) == /\ stage[i] \in {"waiting", "held"}
              /\ stage' = [stage EXCEPT ![i] = "held"]
              /\ holder' = [holder EXCEPT ![i] = h]

Abandon(i, h) == /\ holder[i] = h
                 /\ holder' = [holder EXCEPT ![i] = None]
                 /\ UNCHANGED stage

Return(i, h) == /\ holder[i] = h
                /\ stage' = [stage EXCEPT ![i] = "waiting"]
                /\ holder' = [holder EXCEPT ![i] = None]

Settle(i, h) == /\ holder[i] = h
                /\ stage' = [stage EXCEPT ![i] = "settled"]
                /\ holder' = [holder EXCEPT ![i] = None]

Init == /\ stage = [i \in Items |-> "absent"]
        /\ holder = [i \in Items |-> None]

Next == \E i \in Items :
           \/ Put(i)
           \/ \E h \in Holders : Take(i, h) \/ Abandon(i, h) \/ Return(i, h) \/ Settle(i, h)

Spec == Init /\ [][Next]_vars
====
