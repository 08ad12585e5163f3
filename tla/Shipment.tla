---- MODULE Shipment ----
(***************************************************************************)
(* The queue of shipments (storage/sqlite/fulfillment.go).  Allocate puts  *)
(* a shipment in; a worker claims the one that was updated longest ago,    *)
(* under a lease, and reports what became of it.  A failed shipment is     *)
(* claimed again at once: there is neither a budget of attempts nor a      *)
(* backoff, only the order of the queue.                                   *)
(*                                                                         *)
(* The statements are in the store; the workers that call them are not in  *)
(* the program and do here what the tests of the store do.  Time is that   *)
(* of TextTime, except that the order of updated_at matters however old it *)
(* is: an updated_at of an earlier second is a negative number, its place  *)
(* among the rows.                                                         *)
(***************************************************************************)
EXTENDS TextTime, Integers, FiniteSets

CONSTANTS Shipments,    \* the identifiers of shipments
          Workers,
          OwnerOf,      \* the owner name a worker claims under
          None,         \* no shipment, no owner
          Lease,        \* the length of a lease, in ticks
          MaxFaults     \* bound: stopped workers and failed statements

ASSUME ShipmentAssumption ==
    /\ IsFiniteSet(Shipments)
    /\ None \notin Shipments /\ None \notin Workers
    /\ \A w \in Workers : OwnerOf[w] # None
    /\ Lease \in Nat \ {0} /\ MaxFaults \in Nat

\* Every worker claims under a name of its own.
DistinctOwners == \A v, w \in Workers : OwnerOf[v] = OwnerOf[w] => v = w

VARIABLES shipment,     \* shipment[e]: the row of e
          run,          \* run[w]: what worker w is doing
          now,          \* the clock
          faults        \* faults so far

vars == <<shipment, run, now, faults>>

-----------------------------------------------------------------------------
SoFar == {t \in Current : t <= now}

\* Places of rows updated in earlier seconds.
Places == -Cardinality(Shipments) .. -1

NoShipment == [status |-> "absent", owner |-> None, until |-> Past, updated |-> -1]

Idle == [pc |-> "idle", on |-> None, until |-> Past]

Working(w) == run[w].pc = "working"

Become(w, state) == run' = [run EXCEPT ![w] = state]

\* ORDER BY updated_at, as text; which of two equal rows has the smaller random
\* identifier is open.
UpdatedBefore(d, e) ==
    IF d.updated < 0 \/ e.updated < 0 THEN d.updated < e.updated
                                      ELSE TextLess(d.updated, e.updated)

\* Mutant: the end of the lease is not looked at.
ClaimableAlways(row, at) == row.status \in {"pending", "claimed", "failed"}

\* Mutant: a claim whose lease ran out is not taken over.
ClaimableFree(row, at) == row.status \in {"pending", "failed"}

\* The condition of the subquery of claimShipment.
Claimable(row, at) == \/ row.status \in {"pending", "failed"}
                      \/ row.status = "claimed" /\ TextLess(row.until, at)

\* Mutant: claimed_by is not compared.
HoldsAny(w) == shipment[run[w].on].status = "claimed"

\* The condition of the UPDATE of completeShipment.
Holds(w) == /\ shipment[run[w].on].owner = OwnerOf[w]
            /\ shipment[run[w].on].status = "claimed"

\* The place of row e among those present, when a new second begins.
Place(e) == -Cardinality({f \in Shipments : /\ shipment[f].status # "absent"
                                            /\ ~UpdatedBefore(shipment[f], shipment[e])})

-----------------------------------------------------------------------------
\* createShipment, in the transaction of Allocate, which took the time before.
Create(e, at) ==
    /\ shipment[e].status = "absent"
    /\ shipment' = [shipment EXCEPT ![e] = [NoShipment EXCEPT !.status = "pending", !.updated = at]]
    /\ UNCHANGED <<run, now, faults>>

\* ClaimShipment, with a time taken just before in the same second.
Claim(w, e, at) ==
    /\ run[w].pc = "idle"
    /\ Claimable(shipment[e], at)
    /\ \A f \in Shipments :
          Claimable(shipment[f], at) => ~UpdatedBefore(shipment[f], shipment[e])
    /\ shipment' = [shipment EXCEPT ![e] =
          [status |-> "claimed", owner |-> OwnerOf[w], until |-> at + Lease, updated |-> at]]
    /\ Become(w, [pc |-> "working", on |-> e, until |-> at + Lease])
    /\ UNCHANGED <<now, faults>>

\* Mutant: the row stays with its owner.
CompleteKeeping(w, report, at) ==
    /\ Working(w) /\ Holds(w)
    /\ shipment' = [shipment EXCEPT ![run[w].on].status = report, ![run[w].on].updated = at]
    /\ Become(w, Idle)
    /\ UNCHANGED <<now, faults>>

\* CompleteShipment, with what became of the shipment.
Complete(w, report, at) ==
    /\ Working(w) /\ Holds(w)
    /\ shipment' = [shipment EXCEPT ![run[w].on] =
          [status |-> report, owner |-> None, until |-> Past, updated |-> at]]
    /\ Become(w, Idle)
    /\ UNCHANGED <<now, faults>>

\* requireAffected: the shipment is no longer this owner's.
LeaseLost(w) ==
    /\ Working(w) /\ ~Holds(w)
    /\ Become(w, Idle)
    /\ UNCHANGED <<shipment, now, faults>>

\* The statement fails, or the worker stops and starts again: the row stays
\* claimed until its lease runs out.
Forget(w) ==
    /\ Working(w)
    /\ faults < MaxFaults
    /\ faults' = faults + 1
    /\ Become(w, Idle)
    /\ UNCHANGED <<shipment, now>>

Tick ==
    /\ IF now + 1 \in Current
       THEN now' = now + 1 /\ UNCHANGED <<shipment, run>>
       ELSE /\ now' = TicksPerSecond
            /\ shipment' = [e \in Shipments |->
                  IF shipment[e].status = "absent" THEN shipment[e]
                  ELSE [shipment[e] EXCEPT !.until = Shift(@), !.updated = Place(e)]]
            /\ run' = [w \in Workers |-> [run[w] EXCEPT !.until = Shift(@)]]
    /\ UNCHANGED faults

-----------------------------------------------------------------------------
Init == /\ shipment = [e \in Shipments |-> NoShipment]
        /\ run = [w \in Workers |-> Idle]
        /\ now = TicksPerSecond
        /\ faults = 0

\* What a worker reports: ShipmentStatus without pending and claimed.
Reports == {"dispatched", "delivered", "failed"}

Take(w) == \E e \in Shipments, at \in SoFar : Claim(w, e, at)

Finish(w) == LeaseLost(w) \/ \E report \in Reports, at \in SoFar : Complete(w, report, at)

Next == \/ Tick
        \/ \E e \in Shipments, at \in SoFar \union Places : Create(e, at)
        \/ \E w \in Workers : Take(w) \/ Finish(w) \/ Forget(w)

Spec == Init /\ [][Next]_vars

-----------------------------------------------------------------------------
ShipmentRow == [status : {"absent", "pending", "claimed"} \union Reports,
                owner : {OwnerOf[w] : w \in Workers} \union {None},
                until : Nat, updated : Int]
WorkerState == [pc : {"idle", "working"}, on : Shipments \union {None}, until : Nat]

\* Every variable has its type; a worker works on a shipment, and only a claimed
\* shipment has an owner.
TypeOK == /\ shipment \in [Shipments -> ShipmentRow]
          /\ \A e \in Shipments : shipment[e].status # "claimed" => shipment[e].owner = None
          /\ run \in [Workers -> WorkerState]
          /\ \A w \in Workers : Working(w) => run[w].on \in Shipments
          /\ now \in Current
          /\ faults \in Nat

\* The claim of w is the newest of its shipment, and not reported yet.
Newest(w) == /\ Working(w)
             /\ shipment[run[w].on].status = "claimed"
             /\ shipment[run[w].on].owner = OwnerOf[w]

\* A worker that no longer holds the shipment it works on lost it after its
\* lease had run out, at least in the second that is running ("shipment and
\* outbox claims have an owner and expiring lease", README.md:70).
LeaseExclusive ==
    \A w \in Workers : (Working(w) /\ ~Newest(w)) => run[w].until < 2 * TicksPerSecond

\* The inductive invariant: a worker that holds its shipment knows its lease,
\* and a shipment it lost is not its own again while it works.
IInv == /\ TypeOK
        /\ LeaseExclusive
        /\ \A w \in Workers : Working(w) => shipment[run[w].on].status # "absent"
        /\ \A w \in Workers : Newest(w) => run[w].until = shipment[run[w].on].until

-----------------------------------------------------------------------------
\* Refinement.  The holder is the worker whose claim is the newest, while it
\* still works.
InHand(e) == \E w \in Workers : run[w].on = e /\ Newest(w)

StageOf(e) == CASE shipment[e].status = "absent" -> "absent"
                [] shipment[e].status \in {"pending", "failed"} -> "waiting"
                [] shipment[e].status = "claimed" -> "held"
                [] OTHER -> "settled"

StageView == [e \in Shipments |-> StageOf(e)]

HolderView == [e \in Shipments |->
    IF InHand(e) THEN CHOOSE w \in Workers : run[w].on = e /\ Newest(w)
                 ELSE None]

Queue == INSTANCE LeaseQueue WITH Items <- Shipments, Holders <- Workers,
                                  stage <- StageView, holder <- HolderView

\* Fencing and final outcomes: the rows behave like a queue in which nobody but
\* the holder puts back or settles an item, and dispatched and delivered stay.
QueueSpec == Queue!Spec
====
