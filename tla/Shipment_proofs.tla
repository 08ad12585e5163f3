---- MODULE Shipment_proofs ----
(***************************************************************************)
(* Proofs about Shipment, for any finite set of shipments, any number of   *)
(* workers with distinct names, any lease, resolution of the clock and     *)
(* number of faults.                                                       *)
(***************************************************************************)
EXTENDS Shipment, FiniteSetTheorems, TLAPS

\* The instants of this second.
LEMMA Instants ==
    ASSUME TypeOK
    PROVE  /\ TicksPerSecond \in Nat \ {0} /\ TicksPerSecond \in Current
           /\ \A at \in SoFar : at \in Nat /\ at < 2 * TicksPerSecond /\ at + Lease \in Nat
  BY FracAssumption, ShipmentAssumption DEF SoFar, Current

\* The text of an instant is no later than that of one of this second only if
\* it lies in this second or before.
LEMMA TextWithinSecond ==
    ASSUME NEW s \in Nat, NEW t \in Nat, t < 2 * TicksPerSecond, TextLess(s, t)
    PROVE  s < 2 * TicksPerSecond
  <1>1. TicksPerSecond \in Nat \ {0}
    BY FracAssumption
  <1>2. s \div TicksPerSecond <= t \div TicksPerSecond
    BY <1>1 DEF TextLess, Second
  <1>3. t \div TicksPerSecond <= 1
    BY <1>1, SMT
  <1>4. s \div TicksPerSecond <= 1
    BY <1>1, <1>2, <1>3, SMT
  <1> QED
    BY <1>1, <1>4, SMT

\* Counting rows yields a number, and so does the place of a row.
LEMMA PlaceType ==
    ASSUME NEW e \in Shipments
    PROVE  Place(e) \in Int /\ \A n \in Places : n \in Int
  <1>1. ASSUME NEW S \in SUBSET Shipments PROVE Cardinality(S) \in Nat
    BY ShipmentAssumption, FS_Subset, FS_CardinalityType
  <1> QED
    BY <1>1 DEF Place, Places

\* A worker at rest.
LEMMA IdleType == Idle \in WorkerState /\ Idle.pc = "idle"
  BY DEF Idle, WorkerState, Past

-----------------------------------------------------------------------------
\* Initially nothing is in the queue and nobody works.
LEMMA InitIInv == Init => IInv
  <1> SUFFICES ASSUME Init PROVE IInv
    OBVIOUS
  <1>1. NoShipment \in ShipmentRow /\ NoShipment.status = "absent" /\ NoShipment.owner = None
    BY DEF NoShipment, ShipmentRow, Past
  <1>2. \A w \in Workers : ~Working(w)
    BY IdleType DEF Init, Working
  <1>3. TypeOK
    BY <1>1, <1>2, IdleType, ShipmentAssumption, FracAssumption DEF Init, TypeOK, Current
  <1> QED
    BY <1>2, <1>3 DEF IInv, LeaseExclusive, Newest

\* A worker ends its work, whatever became of it; the rows stay.
LEMMA RestInv ==
    ASSUME IInv, NEW w \in Workers, LeaseLost(w) \/ Forget(w)
    PROVE  IInv'
  <1>1. /\ run' = [run EXCEPT ![w] = Idle] /\ shipment' = shipment /\ now' = now
        /\ faults' \in Nat
    BY DEF LeaseLost, Forget, Become, IInv, TypeOK
  <1>2. /\ run' \in [Workers -> WorkerState] /\ ~Working(w)'
        /\ \A v \in Workers : v # w => run'[v] = run[v]
    BY <1>1, IdleType DEF IInv, TypeOK, Working
  <1>3. TypeOK'
    BY <1>1, <1>2 DEF IInv, TypeOK, Working
  <1> QED
    BY <1>1, <1>2, <1>3 DEF IInv, LeaseExclusive, Newest, Working

\* A shipment enters the queue.
LEMMA CreateInv ==
    ASSUME IInv, NEW e \in Shipments, NEW at \in SoFar \union Places, Create(e, at)
    PROVE  IInv'
  <1> DEFINE row == [NoShipment EXCEPT !.status = "pending", !.updated = at]
  <1>1. at \in Int
    BY Instants, PlaceType DEF IInv
  <1>2. row \in ShipmentRow /\ row.status = "pending" /\ row.owner = None
    BY <1>1 DEF NoShipment, ShipmentRow, Past
  <1>3. /\ shipment[e].status = "absent" /\ shipment' = [shipment EXCEPT ![e] = row]
        /\ run' = run /\ now' = now /\ faults' = faults
    BY DEF Create
  <1> HIDE DEF row
  <1>4. /\ shipment' \in [Shipments -> ShipmentRow] /\ shipment'[e] = row
        /\ \A f \in Shipments : f # e => shipment'[f] = shipment[f]
    BY <1>2, <1>3 DEF IInv, TypeOK
  <1>5. \A w \in Workers : Working(w) => run[w].on \in Shipments /\ run[w].on # e
    BY <1>3 DEF IInv, TypeOK
  <1>6. TypeOK'
    BY <1>2, <1>3, <1>4 DEF IInv, TypeOK, Working
  <1> QED
    BY <1>3, <1>4, <1>5, <1>6 DEF IInv, LeaseExclusive, Newest, Working

\* A shipment is claimed: whoever worked on it has outlived its lease.
LEMMA ClaimStep ==
    ASSUME DistinctOwners, IInv, NEW w \in Workers, NEW e \in Shipments, NEW at \in SoFar,
           Claim(w, e, at)
    PROVE  IInv'
  <1> DEFINE row == [status |-> "claimed", owner |-> OwnerOf[w], until |-> at + Lease,
                     updated |-> at]
             s == [pc |-> "working", on |-> e, until |-> at + Lease]
  <1>1. at \in Nat /\ at < 2 * TicksPerSecond /\ at + Lease \in Nat
    BY Instants DEF IInv
  <1>2. row \in ShipmentRow /\ s \in WorkerState
    BY <1>1 DEF ShipmentRow, WorkerState
  <1>3. /\ row.status = "claimed" /\ row.owner = OwnerOf[w] /\ row.until = at + Lease
        /\ s.pc = "working" /\ s.on = e /\ s.until = at + Lease
    OBVIOUS
  <1>4. /\ shipment' = [shipment EXCEPT ![e] = row] /\ run' = [run EXCEPT ![w] = s]
        /\ now' = now /\ faults' = faults
        /\ \/ shipment[e].status \in {"pending", "failed"}
           \/ shipment[e].status = "claimed" /\ TextLess(shipment[e].until, at)
    BY DEF Claim, Become, Claimable
  <1> HIDE DEF row, s
  <1>5. /\ shipment' \in [Shipments -> ShipmentRow] /\ shipment'[e] = row
        /\ \A f \in Shipments : f # e => shipment'[f] = shipment[f]
    BY <1>2, <1>4 DEF IInv, TypeOK
  <1>6. /\ run' \in [Workers -> WorkerState] /\ run'[w] = s
        /\ \A v \in Workers : v # w => run'[v] = run[v]
    BY <1>2, <1>4 DEF IInv, TypeOK
  <1>7. TypeOK'
    BY <1>3, <1>4, <1>5, <1>6 DEF IInv, TypeOK, Working
  <1>8. ASSUME NEW v \in Workers, Working(v)'
        PROVE  /\ shipment'[run'[v].on].status # "absent"
               /\ Newest(v)' => run'[v].until = shipment'[run'[v].on].until
               /\ ~Newest(v)' => run'[v].until < 2 * TicksPerSecond
    <2>1. CASE v = w
      BY <2>1, <1>3, <1>5, <1>6, <1>8 DEF Newest
    <2>2. CASE v # w /\ run[v].on # e
      BY <2>2, <1>5, <1>6, <1>8 DEF IInv, TypeOK, LeaseExclusive, Newest, Working
    <2>3. CASE v # w /\ run[v].on = e
      <3>1. Working(v) /\ run'[v] = run[v] /\ run[v].until \in Nat /\ shipment[e].until \in Nat
        BY <2>3, <1>6, <1>8 DEF Working, IInv, TypeOK, WorkerState, ShipmentRow
      <3>2. ~Newest(v)'
        BY <2>3, <3>1, <1>3, <1>5 DEF Newest, DistinctOwners
      <3>3. run[v].until < 2 * TicksPerSecond
        <4>1. CASE Newest(v)
          <5>1. TextLess(run[v].until, at)
            BY <4>1, <2>3, <1>4 DEF Newest, IInv
          <5> QED
            BY <5>1, <3>1, <1>1, TextWithinSecond
        <4>2. CASE ~Newest(v)
          BY <4>2, <3>1 DEF IInv, LeaseExclusive
        <4> QED
          BY <4>1, <4>2
      <3> QED
        BY <2>3, <3>1, <3>2, <3>3, <1>3, <1>5
    <2> QED
      BY <2>1, <2>2, <2>3
  <1>9. LeaseExclusive'
    BY <1>8 DEF LeaseExclusive
  <1>10. \A v \in Workers : Newest(v)' => run'[v].until = shipment'[run'[v].on].until
    BY <1>8 DEF Newest
  <1> QED
    BY <1>7, <1>8, <1>9, <1>10 DEF IInv

\* The holder reports its shipment, which then is nobody's.
LEMMA CompleteInv ==
    ASSUME DistinctOwners, IInv, NEW w \in Workers, NEW report \in Reports, NEW at \in SoFar,
           Complete(w, report, at)
    PROVE  IInv'
  <1> PICK e \in Shipments : e = run[w].on
    BY DEF Complete, IInv, TypeOK
  <1> DEFINE row == [status |-> report, owner |-> None, until |-> Past, updated |-> at]
  <1>1. row \in ShipmentRow
    BY Instants DEF IInv, ShipmentRow, Past
  <1>2. row.owner = None /\ row.status \notin {"claimed", "absent"}
    BY DEF Reports
  <1>3. /\ shipment' = [shipment EXCEPT ![e] = row] /\ run' = [run EXCEPT ![w] = Idle]
        /\ now' = now /\ faults' = faults /\ Holds(w)
    BY DEF Complete, Become
  <1> HIDE DEF row
  <1>4. /\ shipment' \in [Shipments -> ShipmentRow] /\ shipment'[e] = row
        /\ \A f \in Shipments : f # e => shipment'[f] = shipment[f]
    BY <1>1, <1>3 DEF IInv, TypeOK
  <1>5. /\ run' \in [Workers -> WorkerState] /\ ~Working(w)'
        /\ \A v \in Workers : v # w => run'[v] = run[v]
    BY <1>3, IdleType DEF IInv, TypeOK, Working
  <1>6. TypeOK'
    BY <1>2, <1>3, <1>4, <1>5 DEF IInv, TypeOK, Working
  <1>7. ASSUME NEW v \in Workers, Working(v)'
        PROVE  /\ shipment'[run'[v].on].status # "absent"
               /\ Newest(v)' => run'[v].until = shipment'[run'[v].on].until
               /\ ~Newest(v)' => run'[v].until < 2 * TicksPerSecond
    <2>1. v # w /\ run'[v] = run[v] /\ Working(v)
      BY <1>5, <1>7 DEF Working
    <2>2. CASE run[v].on # e
      BY <2>1, <2>2, <1>4 DEF IInv, TypeOK, LeaseExclusive, Newest, Working
    <2>3. CASE run[v].on = e
      <3>1. ~Newest(v) /\ ~Newest(v)'
        BY <2>1, <2>3, <1>2, <1>3, <1>4 DEF Newest, Holds, DistinctOwners
      <3> QED
        BY <2>1, <2>3, <3>1, <1>2, <1>4 DEF IInv, LeaseExclusive
    <2> QED
      BY <2>2, <2>3
  <1>8. LeaseExclusive'
    BY <1>7 DEF LeaseExclusive
  <1>9. \A v \in Workers : Newest(v)' => run'[v].until = shipment'[run'[v].on].until
    BY <1>7 DEF Newest
  <1> QED
    BY <1>6, <1>7, <1>8, <1>9 DEF IInv

\* What a new second leaves of rows and workers.
Shifted ==
    /\ now' = TicksPerSecond /\ faults' = faults
    /\ shipment' \in [Shipments -> ShipmentRow] /\ run' \in [Workers -> WorkerState]
    /\ \A e \in Shipments :
          /\ shipment'[e].status = shipment[e].status /\ shipment'[e].owner = shipment[e].owner
          /\ shipment[e].status # "absent" => shipment'[e].until = Shift(shipment[e].until)
    /\ \A w \in Workers : /\ run'[w].pc = run[w].pc /\ run'[w].on = run[w].on
                          /\ run'[w].until = Shift(run[w].until)

LEMMA TickShifts ==
    ASSUME IInv, Tick, now + 1 \notin Current
    PROVE  Shifted
  <1>1. ASSUME NEW t \in Nat PROVE Shift(t) \in Nat
    BY FracAssumption DEF Shift, Past
  <1>2. /\ now' = TicksPerSecond /\ faults' = faults
        /\ shipment' = [e \in Shipments |->
              IF shipment[e].status = "absent" THEN shipment[e]
              ELSE [shipment[e] EXCEPT !.until = Shift(@), !.updated = Place(e)]]
        /\ run' = [w \in Workers |-> [run[w] EXCEPT !.until = Shift(@)]]
    BY DEF Tick
  <1>3. ASSUME NEW e \in Shipments
        PROVE  /\ shipment'[e] \in ShipmentRow
               /\ shipment'[e].status = shipment[e].status /\ shipment'[e].owner = shipment[e].owner
               /\ shipment[e].status # "absent" => shipment'[e].until = Shift(shipment[e].until)
    <2>1. shipment[e] \in ShipmentRow /\ Shift(shipment[e].until) \in Nat
      BY <1>1 DEF IInv, TypeOK, ShipmentRow
    <2>2. CASE shipment[e].status = "absent"
      BY <2>1, <2>2, <1>2
    <2>3. CASE shipment[e].status # "absent"
      <3>1. shipment'[e] = [shipment[e] EXCEPT !.until = Shift(shipment[e].until),
                                               !.updated = Place(e)]
        BY <2>3, <1>2
      <3>2. Place(e) \in Int
        BY PlaceType
      <3> QED
        BY <2>1, <3>1, <3>2 DEF ShipmentRow
    <2> QED
      BY <2>2, <2>3
  <1>4. ASSUME NEW w \in Workers
        PROVE  /\ run'[w] \in WorkerState
               /\ run'[w].pc = run[w].pc /\ run'[w].on = run[w].on
               /\ run'[w].until = Shift(run[w].until)
    <2>1. run[w] \in WorkerState /\ Shift(run[w].until) \in Nat
      BY <1>1 DEF IInv, TypeOK, WorkerState
    <2>2. run'[w] = [run[w] EXCEPT !.until = Shift(run[w].until)]
      BY <1>2
    <2> QED
      BY <2>1, <2>2 DEF WorkerState
  <1> QED
    BY <1>2, <1>3, <1>4 DEF Shifted

\* Time passes, within the second or into the next one.
LEMMA TickInv ==
    ASSUME IInv, Tick
    PROVE  IInv'
  <1>1. CASE now + 1 \in Current
    BY <1>1 DEF Tick, IInv, TypeOK, LeaseExclusive, Newest, Working
  <1>2. CASE now + 1 \notin Current
    <2>1. Shifted
      BY <1>2, TickShifts
    <2>2. \A w \in Workers : Working(w)' <=> Working(w)
      BY <2>1 DEF Shifted, Working
    <2>3. ASSUME NEW w \in Workers PROVE Newest(w)' <=> Newest(w)
      BY <2>1, <2>2 DEF Shifted, Newest, IInv, TypeOK
    <2>4. TypeOK'
      BY <2>1, <2>2, Instants DEF Shifted, IInv, TypeOK
    <2>5. ASSUME NEW t \in Nat, t < 2 * TicksPerSecond PROVE Shift(t) < 2 * TicksPerSecond
      BY <2>5, FracAssumption DEF Shift, Past
    <2>6. LeaseExclusive'
      <3> SUFFICES ASSUME NEW w \in Workers, Working(w)', ~Newest(w)'
                   PROVE  run'[w].until < 2 * TicksPerSecond
        BY DEF LeaseExclusive
      <3>1. run[w].until \in Nat /\ run[w].until < 2 * TicksPerSecond
        BY <2>2, <2>3 DEF IInv, LeaseExclusive, TypeOK, WorkerState
      <3> QED
        BY <3>1, <2>1, <2>5 DEF Shifted
    <2>7. \A w \in Workers : Newest(w)' => run'[w].until = shipment'[run'[w].on].until
      <3> SUFFICES ASSUME NEW w \in Workers, Newest(w)
                   PROVE  run'[w].until = shipment'[run'[w].on].until
        BY <2>3
      <3>1. /\ run[w].on \in Shipments /\ shipment[run[w].on].status # "absent"
            /\ run[w].until = shipment[run[w].on].until
        BY DEF IInv, TypeOK, Newest
      <3> QED
        BY <3>1, <2>1 DEF Shifted
    <2>8. \A w \in Workers : Working(w)' => shipment'[run'[w].on].status # "absent"
      BY <2>1, <2>2 DEF Shifted, IInv, TypeOK
    <2> QED
      BY <2>4, <2>6, <2>7, <2>8 DEF IInv
  <1> QED
    BY <1>1, <1>2

-----------------------------------------------------------------------------
\* Every step keeps the invariant.
LEMMA NextIInv == ASSUME DistinctOwners PROVE IInv /\ [Next]_vars => IInv'
  <1> SUFFICES ASSUME IInv, [Next]_vars PROVE IInv'
    OBVIOUS
  <1>1. CASE Tick
    BY <1>1, TickInv
  <1>2. ASSUME NEW e \in Shipments, NEW at \in SoFar \union Places, Create(e, at) PROVE IInv'
    BY <1>2, CreateInv
  <1>3. ASSUME NEW w \in Workers, Take(w) PROVE IInv'
    BY <1>3, ClaimStep DEF Take
  <1>4. ASSUME NEW w \in Workers, Finish(w) \/ Forget(w) PROVE IInv'
    BY <1>4, RestInv, CompleteInv DEF Finish
  <1>5. CASE UNCHANGED vars
    BY <1>5 DEF vars, IInv, TypeOK, LeaseExclusive, Newest, Working
  <1> QED
    BY <1>1, <1>2, <1>3, <1>4, <1>5 DEF Next

\* A worker that holds its shipment knows its lease; one that lost it outlived
\* the lease: the inductive invariant of every behaviour.
THEOREM Inductive == ASSUME DistinctOwners PROVE Spec => []IInv
  BY InitIInv, NextIInv, PTL DEF Spec

\* Rows, workers and clock keep their types, and only claimed rows have owners.
THEOREM TypeCorrect == ASSUME DistinctOwners PROVE Spec => []TypeOK
  <1>1. IInv => TypeOK
    BY DEF IInv
  <1> QED
    BY <1>1, Inductive, PTL

\* However many workers share the queue, none loses a shipment to another before
\* the second in which its lease ends.
THEOREM LeasesExclude == ASSUME DistinctOwners PROVE Spec => []LeaseExclusive
  <1>1. IInv => LeaseExclusive
    BY DEF IInv
  <1> QED
    BY <1>1, Inductive, PTL

-----------------------------------------------------------------------------
\* Worker w holds shipment e: its claim is the newest one.
Has(w, e) == run[w].on = e /\ Newest(w)

\* The view of the refinement, without CHOOSE.
HolderRight ==
    /\ HolderView = [e \in Shipments |-> HolderView[e]]
    /\ \A e \in Shipments, w \in Workers : Has(w, e) => HolderView[e] = w
    /\ \A e \in Shipments : (\A w \in Workers : ~Has(w, e)) => HolderView[e] = None

\* Owners are distinct, so the view chooses the only candidate.
LEMMA HolderIsRight == ASSUME DistinctOwners PROVE IInv => HolderRight
  <1>1. ASSUME NEW e \in Shipments, NEW w \in Workers, Has(w, e)
        PROVE  HolderView[e] = w
    <2>1. \A v \in Workers : (run[v].on = e /\ Newest(v)) => v = w
      BY <1>1 DEF Has, Newest, DistinctOwners
    <2>2. (CHOOSE v \in Workers : run[v].on = e /\ Newest(v)) = w
      BY <1>1, <2>1 DEF Has
    <2> QED
      BY <1>1, <2>2 DEF HolderView, InHand, Has
  <1> QED
    BY <1>1 DEF HolderRight, HolderView, InHand, Has

\* Where rows and holders stay as they are, so does the view.
LEMMA ViewsElsewhere ==
    ASSUME HolderRight, HolderRight', NEW e \in Shipments,
           \A f \in Shipments \ {e} : shipment'[f].status = shipment[f].status,
           \A f \in Shipments \ {e}, w \in Workers : Has(w, f)' <=> Has(w, f)
    PROVE  /\ HolderView' = [HolderView EXCEPT ![e] = HolderView'[e]]
           /\ StageView' = [StageView EXCEPT ![e] = StageOf(e)']
  <1>1. ASSUME NEW f \in Shipments \ {e} PROVE HolderView'[f] = HolderView[f]
    <2>1. CASE \E w \in Workers : Has(w, f)
      BY <2>1 DEF HolderRight
    <2>2. CASE \A w \in Workers : ~Has(w, f)
      BY <2>2 DEF HolderRight
    <2> QED
      BY <2>1, <2>2
  <1>2. /\ HolderView = [f \in Shipments |-> HolderView[f]]
        /\ HolderView' = [f \in Shipments |-> HolderView'[f]]
    BY DEF HolderRight
  <1>3. HolderView' = [HolderView EXCEPT ![e] = HolderView'[e]]
    BY <1>1, <1>2
  <1>4. \A f \in Shipments \ {e} : StageOf(f)' = StageOf(f)
    BY DEF StageOf
  <1> QED
    BY <1>3, <1>4 DEF StageView

\* A step that changes neither a status nor a holder is a stutter.
LEMMA SameViews ==
    ASSUME HolderRight, HolderRight',
           \A f \in Shipments : shipment'[f].status = shipment[f].status,
           \A f \in Shipments, w \in Workers : Has(w, f)' <=> Has(w, f)
    PROVE  UNCHANGED Queue!vars
  <1>1. ASSUME NEW f \in Shipments PROVE HolderView'[f] = HolderView[f]
    <2>1. CASE \E w \in Workers : Has(w, f)
      BY <2>1 DEF HolderRight
    <2>2. CASE \A w \in Workers : ~Has(w, f)
      BY <2>2 DEF HolderRight
    <2> QED
      BY <2>1, <2>2
  <1>2. HolderView' = HolderView
    BY <1>1 DEF HolderRight
  <1>3. StageView' = StageView
    BY DEF StageView, StageOf
  <1> QED
    BY <1>2, <1>3 DEF Queue!vars

\* A worker that ends its work without a word leaves its shipment in nobody's
\* hands, or changes nothing of the queue.
LEMMA LeaveStep ==
    ASSUME IInv, HolderRight, HolderRight', NEW w \in Workers, LeaseLost(w) \/ Forget(w)
    PROVE  (\E e \in Shipments : Queue!Abandon(e, w)) \/ UNCHANGED Queue!vars
  <1>1. /\ shipment' = shipment /\ run' = [run EXCEPT ![w] = Idle] /\ Working(w)
    BY DEF LeaseLost, Forget, Become
  <1>2. /\ \A v \in Workers : v # w => run'[v] = run[v]
        /\ \A e \in Shipments : ~Has(w, e)'
    BY <1>1, IdleType DEF IInv, TypeOK, Has, Newest, Working
  <1>3. CASE \A e \in Shipments : ~Has(w, e)
    <2>1. \A f \in Shipments, v \in Workers : Has(v, f)' <=> Has(v, f)
      BY <1>1, <1>2, <1>3 DEF Has, Newest, Working
    <2> QED
      BY <1>1, <2>1, SameViews
  <1>4. ASSUME NEW e \in Shipments, Has(w, e) PROVE Queue!Abandon(e, w)
    <2>1. \A f \in Shipments \ {e}, v \in Workers : Has(v, f)' <=> Has(v, f)
      BY <1>1, <1>2, <1>4 DEF Has, Newest, Working
    <2>2. \A v \in Workers : Has(v, e) => v = w
      BY <1>4 DEF HolderRight
    <2>3. \A v \in Workers : ~Has(v, e)'
      BY <1>1, <1>2, <2>2 DEF Has, Newest, Working
    <2>4. HolderView[e] = w /\ HolderView'[e] = None
      BY <1>4, <2>3 DEF HolderRight
    <2>5. HolderView' = [HolderView EXCEPT ![e] = None]
      BY <1>1, <2>1, <2>4, ViewsElsewhere
    <2>6. StageView' = StageView
      BY <1>1 DEF StageView, StageOf
    <2> QED
      BY <2>4, <2>5, <2>6 DEF Queue!Abandon
  <1> QED
    BY <1>3, <1>4

\* The holder puts its shipment back or settles it.
LEMMA ReportStep ==
    ASSUME IInv, HolderRight, HolderRight', NEW w \in Workers,
           NEW report \in Reports, NEW at \in SoFar, Complete(w, report, at)
    PROVE  \E e \in Shipments : Queue!Return(e, w) \/ Queue!Settle(e, w)
  <1> PICK e \in Shipments : e = run[w].on
    BY DEF Complete, IInv, TypeOK
  <1>1. /\ Working(w) /\ Holds(w) /\ run' = [run EXCEPT ![w] = Idle]
        /\ shipment' = [shipment EXCEPT ![e] =
              [status |-> report, owner |-> None, until |-> Past, updated |-> at]]
    BY DEF Complete, Become
  <1>2. /\ shipment'[e].status = report
        /\ \A f \in Shipments \ {e} : shipment'[f] = shipment[f]
        /\ ~Working(w)' /\ \A v \in Workers : v # w => run'[v] = run[v]
    BY <1>1, IdleType DEF IInv, TypeOK, Working
  <1>3. Has(w, e) /\ \A v \in Workers : ~Has(v, e)'
    BY <1>1, <1>2 DEF Has, Newest, Holds, Reports
  <1>4. \A f \in Shipments \ {e}, v \in Workers : Has(v, f)' <=> Has(v, f)
    <2>1. \A f \in Shipments \ {e} : ~Has(w, f) /\ ~Has(w, f)'
      BY <1>2 DEF Has, Newest
    <2> QED
      BY <1>2, <2>1 DEF Has, Newest, Working
  <1>5. HolderView[e] = w /\ HolderView'[e] = None
    BY <1>3 DEF HolderRight
  <1>6. /\ HolderView' = [HolderView EXCEPT ![e] = None]
        /\ StageView' = [StageView EXCEPT ![e] = StageOf(e)']
    BY <1>2, <1>4, <1>5, ViewsElsewhere
  <1>7. StageOf(e)' \in {"waiting", "settled"}
    BY <1>2 DEF StageOf, Reports
  <1> QED
    BY <1>5, <1>6, <1>7 DEF Queue!Return, Queue!Settle

\* A claim takes the shipment, from the queue or from an older claim.
LEMMA TakeStep ==
    ASSUME IInv, HolderRight, HolderRight',
           NEW w \in Workers, NEW e \in Shipments, NEW at \in SoFar, Claim(w, e, at)
    PROVE  Queue!Take(e, w)
  <1>1. shipment[e].status \in {"pending", "failed", "claimed"} /\ ~Working(w)
    BY DEF Claim, Claimable, Working
  <1>2. /\ shipment'[e].status = "claimed" /\ shipment'[e].owner = OwnerOf[w]
        /\ \A f \in Shipments \ {e} : shipment'[f] = shipment[f]
        /\ run'[w].pc = "working" /\ run'[w].on = e
        /\ \A v \in Workers : v # w => run'[v] = run[v]
    BY DEF Claim, Become, IInv, TypeOK
  <1>3. Has(w, e)'
    BY <1>2 DEF Has, Newest, Working
  <1>4. \A f \in Shipments \ {e}, v \in Workers : Has(v, f)' <=> Has(v, f)
    BY <1>1, <1>2 DEF Has, Newest, Working
  <1>5. HolderView'[e] = w /\ StageOf(e)' = "held"
    BY <1>2, <1>3 DEF HolderRight, StageOf
  <1>6. /\ HolderView' = [HolderView EXCEPT ![e] = w]
        /\ StageView' = [StageView EXCEPT ![e] = "held"]
    BY <1>2, <1>4, <1>5, ViewsElsewhere
  <1>7. StageView[e] \in {"waiting", "held"}
    BY <1>1 DEF StageView, StageOf
  <1> QED
    BY <1>6, <1>7 DEF Queue!Take

\* A new shipment is put into the queue.
LEMMA PutStep ==
    ASSUME IInv, HolderRight, HolderRight',
           NEW e \in Shipments, NEW at \in SoFar \union Places, Create(e, at)
    PROVE  Queue!Put(e)
  <1>1. shipment[e].status = "absent" /\ run' = run
    BY DEF Create
  <1>2. /\ shipment'[e].status = "pending"
        /\ \A f \in Shipments \ {e} : shipment'[f] = shipment[f]
    BY DEF Create, NoShipment, IInv, TypeOK
  <1>3. \A f \in Shipments \ {e}, v \in Workers : Has(v, f)' <=> Has(v, f)
    BY <1>1, <1>2 DEF Has, Newest, Working
  <1>4. \A v \in Workers : ~Has(v, e) /\ ~Has(v, e)'
    BY <1>1, <1>2 DEF Has, Newest
  <1>5. /\ HolderView' = [HolderView EXCEPT ![e] = HolderView'[e]]
        /\ StageView' = [StageView EXCEPT ![e] = StageOf(e)']
    BY <1>2, <1>3, ViewsElsewhere
  <1>6. HolderView' = HolderView
    BY <1>4, <1>5 DEF HolderRight
  <1>7. StageView[e] = "absent" /\ StageOf(e)' = "waiting"
    BY <1>1, <1>2 DEF StageView, StageOf
  <1> QED
    BY <1>5, <1>6, <1>7 DEF Queue!Put

\* The passage of time moves instants only.
LEMMA TickStutters ==
    ASSUME IInv, HolderRight, HolderRight', Tick
    PROVE  UNCHANGED Queue!vars
  <1>1. CASE now + 1 \in Current
    BY <1>1, SameViews DEF Tick, Has, Newest, Working
  <1>2. CASE now + 1 \notin Current
    <2>1. Shifted
      BY <1>2, TickShifts
    <2>2. \A f \in Shipments, v \in Workers : Has(v, f)' <=> Has(v, f)
      BY <2>1 DEF Shifted, Has, Newest, Working
    <2> QED
      BY <2>1, <2>2, SameViews DEF Shifted
  <1> QED
    BY <1>1, <1>2

\* The rows of shipments implement the queue with leases: one worker at a time
\* holds a shipment, nobody else puts it back or settles it, and a dispatched or
\* delivered shipment stays so.
THEOREM ImplementsQueue == ASSUME DistinctOwners PROVE Spec => QueueSpec
  <1>1. Init => Queue!Init
    <2> SUFFICES ASSUME Init PROVE Queue!Init
      OBVIOUS
    <2>1. \A w \in Workers : ~Newest(w)
      BY IdleType DEF Init, Newest, Working
    <2> QED
      BY <2>1 DEF Init, Queue!Init, StageView, HolderView, StageOf, InHand, NoShipment
  <1>2. IInv /\ IInv' /\ HolderRight /\ HolderRight' /\ [Next]_vars => [Queue!Next]_(Queue!vars)
    <2> SUFFICES ASSUME IInv, HolderRight, HolderRight', [Next]_vars
                 PROVE  Queue!Next \/ UNCHANGED Queue!vars
      OBVIOUS
    <2>1. ASSUME NEW e \in Shipments, NEW at \in SoFar \union Places, Create(e, at)
          PROVE  Queue!Next
      BY <2>1, PutStep DEF Queue!Next
    <2>2. ASSUME NEW w \in Workers, Take(w) PROVE Queue!Next
      BY <2>2, TakeStep DEF Take, Queue!Next
    <2>3. ASSUME NEW w \in Workers, NEW report \in Reports, NEW at \in SoFar,
                 Complete(w, report, at)
          PROVE  Queue!Next
      BY <2>3, ReportStep DEF Queue!Next
    <2>4. ASSUME NEW w \in Workers, LeaseLost(w) \/ Forget(w)
          PROVE  Queue!Next \/ UNCHANGED Queue!vars
      BY <2>4, LeaveStep DEF Queue!Next
    <2>5. CASE Tick
      BY <2>5, TickStutters
    <2>6. CASE UNCHANGED vars
      BY <2>6, SameViews DEF vars, Has, Newest, Working
    <2> QED
      BY <2>1, <2>2, <2>3, <2>4, <2>5, <2>6 DEF Next, Finish
  <1>3. Spec => []IInv
    BY Inductive
  <1>4. IInv => HolderRight
    BY HolderIsRight
  <1> QED
    BY <1>1, <1>2, <1>3, <1>4, PTL DEF Spec, QueueSpec, Queue!Spec
====
