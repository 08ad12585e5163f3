---- MODULE Outbox_proofs ----
(***************************************************************************)
(* Proofs about Outbox, for any number of events and workers, any lease,   *)
(* budget and resolution of the clock, any number of faults, and whatever  *)
(* the owner names of the workers are.                                     *)
(***************************************************************************)
EXTENDS Outbox, TLAPS

\* A row keeps its type when a claim sets its fields.
LEMMA ClaimedRow ==
    ASSUME NEW row \in EventRow, NEW n \in Nat, NEW u \in Nat, NEW w \in Workers
    PROVE  [row EXCEPT !.status = "claimed", !.attempts = n,
                       !.owner = OwnerOf[w], !.until = u] \in EventRow
  BY DEF EventRow

\* The instants a step may use are natural numbers within the current second.
LEMMA Instants ==
    ASSUME TypeOK
    PROVE  /\ TicksPerSecond \in Nat \ {0}
           /\ now \in Nat /\ TicksPerSecond <= now /\ now < 2 * TicksPerSecond
           /\ \A at \in SoFar : at \in Nat /\ TicksPerSecond <= at /\ at <= now
  BY FracAssumption DEF TypeOK, SoFar, Current

\* The text of an instant is no later than that of one of this second only if
\* it lies in this second or before.
LEMMA TextWithinSecond ==
    ASSUME NEW s \in Nat, NEW t \in Nat, t < 2 * TicksPerSecond, TextLess(s, t)
    PROVE  s < 2 * TicksPerSecond
  <1>1. TicksPerSecond \in Nat \ {0}
    BY FracAssumption
  <1>2. s \div TicksPerSecond <= t \div TicksPerSecond
    BY <1>1 DEF TextLess, Second
  <1>3. t \div TicksPerSecond <= 1
    BY <1>1, SMT
  <1>4. s \div TicksPerSecond <= 1
    BY <1>1, <1>2, <1>3, SMT
  <1> QED
    BY <1>1, <1>4, SMT

\* The delay before a retry is a natural number.
LEMMA BackoffType ==
    ASSUME NEW n \in 1..ClaimBound
    PROVE  Backoff(n) \in Nat
  <1>1. n - 1 \in 0..ClaimBound
    BY OutboxAssumption
  <1>2. 2 ^ (n - 1) \in Nat
    BY <1>1, OutboxAssumption
  <1> QED
    BY <1>2, OutboxAssumption DEF Backoff

-----------------------------------------------------------------------------
\* Initially nothing is in the outbox and no worker works.
LEMMA InitIInv == Init => IInv
  <1> SUFFICES ASSUME Init PROVE IInv
    OBVIOUS
  <1> USE FracAssumption, OutboxAssumption
  <1>1. NoEvent \in EventRow
    BY DEF NoEvent, EventRow, Past
  <1>2. Off \in WorkerState /\ Off.pc = "off"
    BY DEF Off, Idle, WorkerState, Past
  <1>3. \A w \in Workers : ~Working(w)
    BY <1>2 DEF Init, Working
  <1>4. TypeOK
    BY <1>1, <1>2, <1>3 DEF Init, TypeOK, Current
  <1>5. BudgetKept /\ Outcome
    BY DEF Init, NoEvent, BudgetKept, Outcome
  <1> QED
    BY <1>3, <1>4, <1>5 DEF IInv, ClaimInv, NamesakesApart

-----------------------------------------------------------------------------
\* A step of one worker that leaves the rows alone and ends its work, or goes
\* on to the next statement of the work it has.
LEMMA WorkerStep ==
    ASSUME IInv, NEW w \in Workers, NEW s \in WorkerState,
           run' = [run EXCEPT ![w] = s],
           event' = event, now' = now, faults' \in Nat, contested' = contested,
           \/ s.pc \in {"off", "idle"} /\ published' = published
           \/ /\ Working(w)
              /\ s.pc = "failing" /\ published' = published
              /\ s.on = run[w].on /\ s.attempt = run[w].attempt /\ s.until = run[w].until
           \/ /\ Working(w)
              /\ s.pc = "completing" /\ published' = published \union {run[w].on}
              /\ s.on = run[w].on /\ s.attempt = run[w].attempt /\ s.until = run[w].until
    PROVE  IInv'
  <1>1. TypeOK /\ BudgetKept /\ Outcome /\ NamesakesApart /\ \A v \in Workers : ClaimInv(v)
    BY DEF IInv
  <1>2. run' \in [Workers -> WorkerState] /\ run'[w] = s
        /\ \A v \in Workers : v # w => run'[v] = run[v]
    BY <1>1 DEF TypeOK
  <1>3. published \subseteq published' /\ published' \in SUBSET Events
    BY <1>1 DEF TypeOK
  <1>4. TypeOK'
    BY <1>1, <1>2, <1>3 DEF TypeOK, Working, EventRow, WorkerState
  <1>5. BudgetKept' /\ Outcome'
    BY <1>1, <1>3 DEF BudgetKept, Outcome, Uncontested
  <1>6. ASSUME NEW v \in Workers PROVE ClaimInv(v)'
    <2>1. CASE v # w
      BY <2>1, <1>1, <1>2, <1>3 DEF ClaimInv, Working, Holds, Uncontested
    <2>2. CASE v = w /\ s.pc \in {"off", "idle"}
      BY <2>2, <1>2 DEF ClaimInv, Working
    <2>3. CASE v = w /\ s.pc \in {"failing", "completing"}
      <3>1. Working(w) /\ ClaimInv(w)
        BY <2>3, <1>1
      <3>2. /\ run'[w].on = run[w].on /\ run'[w].attempt = run[w].attempt
            /\ run'[w].until = run[w].until
            /\ run'[w].pc = "completing" => run[w].on \in published'
        BY <2>3, <1>2
      <3> QED
        BY <2>3, <3>1, <3>2 DEF ClaimInv, Working, Holds, Uncontested
    <2> QED
      BY <2>1, <2>2, <2>3
  <1>7. \A v \in Workers : Working(v)' => Working(v) /\ run'[v].on = run[v].on
    BY <1>2 DEF Working
  <1>8. NamesakesApart'
    BY <1>1, <1>7 DEF NamesakesApart, Uncontested
  <1> QED
    BY <1>4, <1>5, <1>6, <1>8 DEF IInv

\* The states of a worker without an event.
LEMMA RestType == /\ Idle \in WorkerState /\ Idle.pc = "idle"
                  /\ Off \in WorkerState /\ Off.pc = "off"
  BY DEF Idle, Off, WorkerState, Past

\* A successful publish is remembered and nothing else.
LEMMA PublishSucceedsInv ==
    ASSUME IInv, NEW w \in Workers, PublishSucceeds(w)
    PROVE  IInv'
  <1> DEFINE s == [run[w] EXCEPT !.pc = "completing"]
  <1>1. run[w] \in WorkerState /\ faults \in Nat
    BY DEF IInv, TypeOK
  <1>2. /\ s \in WorkerState /\ s.pc = "completing" /\ s.on = run[w].on
        /\ s.attempt = run[w].attempt /\ s.until = run[w].until
    BY <1>1 DEF WorkerState
  <1>3. /\ Working(w) /\ run' = [run EXCEPT ![w] = s] /\ event' = event /\ now' = now
        /\ faults' \in Nat /\ contested' = contested /\ published' = published \union {run[w].on}
    BY <1>1 DEF PublishSucceeds, Become, Working
  <1> HIDE DEF s
  <1> QED
    BY <1>2, <1>3, WorkerStep

\* A failed publish changes the worker only.
LEMMA PublishFailsInv ==
    ASSUME IInv, NEW w \in Workers, PublishFails(w)
    PROVE  IInv'
  <1> DEFINE s == [run[w] EXCEPT !.pc = "failing"]
  <1>1. run[w] \in WorkerState /\ faults \in Nat
    BY DEF IInv, TypeOK
  <1>2. /\ s \in WorkerState /\ s.pc = "failing" /\ s.on = run[w].on
        /\ s.attempt = run[w].attempt /\ s.until = run[w].until
    BY <1>1 DEF WorkerState
  <1>3. /\ Working(w) /\ run' = [run EXCEPT ![w] = s] /\ event' = event /\ now' = now
        /\ faults' \in Nat /\ contested' = contested /\ published' = published
    BY <1>1 DEF PublishFails, Become, Working
  <1> HIDE DEF s
  <1> QED
    BY <1>2, <1>3, WorkerStep

\* A worker gives up its event or its process ends or begins.
LEMMA RestInv ==
    ASSUME IInv, NEW w \in Workers,
           LeaseLost(w) \/ StatementFails(w) \/ Stop(w) \/ Start(w)
    PROVE  IInv'
  <1>1. faults \in Nat
    BY DEF IInv, TypeOK
  <1>2. /\ run' = [run EXCEPT ![w] = Idle] \/ run' = [run EXCEPT ![w] = Off]
        /\ event' = event /\ now' = now /\ faults' \in Nat /\ published' = published
        /\ contested' = contested
    BY <1>1 DEF LeaseLost, StatementFails, Stop, Start, Become
  <1> QED
    BY <1>2, RestType, WorkerStep

-----------------------------------------------------------------------------
\* An event enters the outbox.
LEMMA CreateInv ==
    ASSUME IInv, NEW e \in Events, NEW at \in SoFar \union {Past}, Create(e, at)
    PROVE  IInv'
  <1>1. TypeOK /\ BudgetKept /\ Outcome /\ NamesakesApart /\ \A v \in Workers : ClaimInv(v)
    BY DEF IInv
  <1> DEFINE row == [NoEvent EXCEPT !.status = "pending", !.available = at]
  <1>2. at \in Nat
    BY <1>1, Instants DEF Past
  <1>3. row \in EventRow /\ row.status = "pending" /\ row.attempts = 0
    BY <1>2 DEF NoEvent, EventRow, Past
  <1>4. event[e].status = "absent" /\ event' = [event EXCEPT ![e] = row]
        /\ run' = run /\ published' = published /\ now' = now /\ faults' = faults
        /\ contested' = contested
    BY DEF Create
  <1> HIDE DEF row
  <1>5. event' \in [Events -> EventRow] /\ event'[e] = row
        /\ \A f \in Events : f # e => event'[f] = event[f]
    BY <1>1, <1>3, <1>4 DEF TypeOK
  <1>6. TypeOK'
    BY <1>1, <1>4, <1>5 DEF TypeOK, Working, Current
  <1>7. BudgetKept' /\ Outcome'
    BY <1>1, <1>3, <1>4, <1>5, OutboxAssumption DEF BudgetKept, Outcome, Uncontested
  <1>8. ASSUME NEW v \in Workers PROVE ClaimInv(v)'
    <2>1. Working(v) => run[v].on \in Events /\ run[v].on # e
      BY <1>1, <1>4 DEF TypeOK, ClaimInv
    <2> QED
      BY <1>1, <1>4, <1>5, <2>1 DEF ClaimInv, Working, Holds, Uncontested
  <1>9. NamesakesApart'
    BY <1>1, <1>4 DEF NamesakesApart, Working, Uncontested
  <1> QED
    BY <1>6, <1>7, <1>8, <1>9 DEF IInv

\* Whoever is at work on an uncontested event when it is claimed has outlived
\* its lease.
LEMMA Overtaken ==
    ASSUME IInv, NEW w \in Workers, NEW e \in Events, NEW at \in SoFar, Claim(w, e, at),
           NEW v \in Workers, Working(v), run[v].on = e, Uncontested(e)
    PROVE  run[v].until < 2 * TicksPerSecond
  <1>1. ClaimInv(v) /\ event[e].until \in Nat
    BY DEF IInv, TypeOK, EventRow
  <1>2. CASE Holds(v)
    <2>1. run[v].until = event[e].until /\ TextLess(event[e].until, at)
      BY <1>1, <1>2 DEF Claim, Open, Claimable, ClaimInv, Holds
    <2>2. at \in Nat /\ at < 2 * TicksPerSecond
      BY Instants, FracAssumption DEF IInv
    <2> QED
      BY <1>1, <2>1, <2>2, TextWithinSecond
  <1>3. CASE ~Holds(v)
    BY <1>1, <1>3 DEF ClaimInv
  <1> QED
    BY <1>2, <1>3

\* An event is claimed: the claimer knows the new row, and a worker that was at
\* work on the event has lost it after its lease.
LEMMA ClaimStep ==
    ASSUME IInv, NEW w \in Workers, NEW e \in Events, NEW at \in SoFar,
           Claim(w, e, at)
    PROVE  IInv'
  <1>1. TypeOK /\ BudgetKept /\ Outcome /\ NamesakesApart /\ \A v \in Workers : ClaimInv(v)
    BY DEF IInv
  <1>2. at \in Nat /\ at < 2 * TicksPerSecond /\ at + Lease \in Nat
    BY <1>1, Instants, OutboxAssumption, FracAssumption
  <1> DEFINE row == [event[e] EXCEPT !.status = "claimed", !.attempts = @ + 1,
                                     !.owner = OwnerOf[w], !.until = at + Lease]
             s == [pc |-> "publishing", on |-> e, attempt |-> event[e].attempts + 1,
                   until |-> at + Lease]
  <1>3. /\ event' = [event EXCEPT ![e] = row]
        /\ run' = [run EXCEPT ![w] = s]
        /\ published' = published /\ now' = now /\ faults' = faults
        /\ run[w].pc = "idle" /\ event[e].attempts < ClaimBound
        /\ \/ event[e].status = "pending"
           \/ event[e].status = "claimed" /\ TextLess(event[e].until, at)
    BY <1>1 DEF Claim, Open, Become, Claimable, TypeOK, EventRow
  <1>4. event[e] \in EventRow /\ OwnerOf[w] \in {OwnerOf[v] : v \in Workers} \union {None} /\ event[e].attempts \in Nat
        /\ event[e].until \in Nat
    BY <1>1, OutboxAssumption DEF TypeOK, EventRow
  <1>5. row \in EventRow
    <2>1. event[e].attempts + 1 \in Nat
      BY <1>4
    <2> QED
      BY <1>2, <1>4, <2>1, ClaimedRow
  <1>6. /\ row.status = "claimed" /\ row.attempts = event[e].attempts + 1
        /\ row.owner = OwnerOf[w] /\ row.until = at + Lease
    BY <1>4 DEF EventRow
  <1>7. s \in WorkerState /\ s.pc = "publishing" /\ s.on = e
        /\ s.attempt = event[e].attempts + 1 /\ s.until = at + Lease
    BY <1>2, <1>4 DEF WorkerState
  <1> HIDE DEF row, s
  <1>8. event' \in [Events -> EventRow] /\ event'[e] = row
        /\ \A f \in Events : f # e => event'[f] = event[f]
    BY <1>1, <1>3, <1>5 DEF TypeOK
  <1>9. run' \in [Workers -> WorkerState] /\ run'[w] = s
        /\ \A v \in Workers : v # w => run'[v] = run[v]
    BY <1>1, <1>3, <1>7 DEF TypeOK
  <1>13. /\ contested' \in [Events -> Workers \union {None}]
         /\ \A f \in Events : Uncontested(f)' => Uncontested(f)
         /\ Uncontested(e)' => Namesakes(w, e) = {}
    BY <1>1, OutboxAssumption DEF Claim, Uncontested, TypeOK
  <1>14. ASSUME NEW v \in Workers, v # w, Working(v), run[v].on = e, Uncontested(e)'
         PROVE  OwnerOf[v] # OwnerOf[w]
    BY <1>13, <1>14 DEF Namesakes
  <1>10. TypeOK'
    BY <1>1, <1>3, <1>7, <1>8, <1>9, <1>13 DEF TypeOK, Working, Current
  <1>11. BudgetKept' /\ Outcome'
    BY <1>1, <1>3, <1>6, <1>8, <1>13 DEF BudgetKept, Outcome
  <1>12. ASSUME NEW v \in Workers PROVE ClaimInv(v)'
    <2>1. CASE v = w
      <3>1. event[e].attempts + 1 \in 1..ClaimBound
        BY <1>3, <1>4, OutboxAssumption
      <3>2. Holds(w)'
        BY <1>6, <1>7, <1>8, <1>9 DEF Holds
      <3> QED
        BY <2>1, <3>1, <3>2, <1>4, <1>6, <1>7, <1>8, <1>9 DEF ClaimInv
    <2>2. CASE v # w /\ (Working(v) => run[v].on # e)
      BY <2>2, <1>1, <1>3, <1>8, <1>9, <1>13 DEF ClaimInv, Working, Holds, TypeOK
    <2>3. CASE v # w /\ Working(v) /\ run[v].on = e
      <3>1. ClaimInv(v) /\ run[v].attempt \in Nat /\ run[v].until \in Nat
        BY <1>1 DEF TypeOK, WorkerState
      <3>2. run[v].attempt <= event[e].attempts
        BY <2>3, <3>1 DEF ClaimInv
      <3>3. Uncontested(e) => run[v].until < 2 * TicksPerSecond
        BY <2>3, Overtaken
      <3>4. run'[v] = run[v] /\ event'[e].owner = OwnerOf[w]
            /\ event'[e].attempts = event[e].attempts + 1 /\ event'[e].status = "claimed"
        BY <2>3, <1>6, <1>8, <1>9
      <3>5. Uncontested(e)' => ~Holds(v)' /\ Uncontested(e)
        BY <2>3, <3>4, <1>13, <1>14 DEF Holds
      <3>6. run[v].attempt < event[e].attempts + 1 /\ run[v].attempt <= event[e].attempts + 1
        BY <3>1, <3>2, <1>4
      <3> QED
        BY <2>3, <3>1, <3>3, <3>4, <3>5, <3>6, <1>3 DEF ClaimInv, Working
    <2> QED
      BY <2>1, <2>2, <2>3
  <1>15. NamesakesApart'
    <2> SUFFICES ASSUME NEW u \in Workers, NEW v \in Workers,
                        Working(u)', Working(v)', run'[u].on = run'[v].on,
                        Uncontested(run[v].on)', OwnerOf[u] = OwnerOf[v]
                 PROVE  u = v
      BY DEF NamesakesApart
    <2>1. CASE u # w /\ v # w
      <3>1. Working(u) /\ Working(v) /\ run[u].on = run[v].on /\ run'[v].on = run[v].on
        BY <2>1, <1>9 DEF Working
      <3>2. run[v].on \in Events /\ Uncontested(run[v].on)
        BY <3>1, <1>1, <1>13 DEF TypeOK, Uncontested
      <3> QED
        BY <3>1, <3>2, <1>1 DEF NamesakesApart
    <2>2. CASE u = w /\ v # w
      <3>1. Working(v) /\ run[v].on = e /\ Uncontested(e)'
        BY <2>2, <1>7, <1>9 DEF Working, Uncontested
      <3> QED
        BY <2>2, <3>1, <1>14
    <2>3. CASE u # w /\ v = w
      <3>1. Working(u) /\ run[u].on = e /\ Uncontested(e)'
        BY <2>3, <1>7, <1>9 DEF Working, Uncontested
      <3> QED
        BY <2>3, <3>1, <1>14
    <2> QED
      BY <2>1, <2>2, <2>3
  <1> QED
    BY <1>10, <1>11, <1>12, <1>15 DEF IInv

\* The holder of an event ends it or puts it back.
LEMMA SettleStep ==
    ASSUME IInv, NEW w \in Workers, Working(w), Holds(w),
           NEW row \in EventRow,
           row.attempts = event[run[w].on].attempts,
           row.status \in {"pending", "delivered", "dead"},
           (row.status = "pending" /\ Uncontested(run[w].on)) => row.attempts < MaxAttempts,
           row.status = "dead" => row.attempts >= MaxAttempts,
           row.status = "delivered" => run[w].on \in published,
           event' = [event EXCEPT ![run[w].on] = row],
           run' = [run EXCEPT ![w] = Idle],
           published' = published, now' = now, faults' = faults, contested' = contested
    PROVE  IInv'
  <1>1. TypeOK /\ BudgetKept /\ Outcome /\ NamesakesApart /\ \A v \in Workers : ClaimInv(v)
    BY DEF IInv
  <1> DEFINE e == run[w].on
  <1>2. e \in Events
    BY <1>1 DEF TypeOK
  <1>3. event' \in [Events -> EventRow] /\ event'[e] = row
        /\ \A f \in Events : f # e => event'[f] = event[f]
    BY <1>1, <1>2 DEF TypeOK
  <1>4. run' \in [Workers -> WorkerState] /\ run'[w] = Idle
        /\ \A v \in Workers : v # w => run'[v] = run[v]
    BY <1>1, RestType DEF TypeOK
  <1>5. TypeOK'
    BY <1>1, <1>3, <1>4, RestType DEF TypeOK, Working, Current
  <1>6. BudgetKept' /\ Outcome'
    BY <1>1, <1>2, <1>3 DEF BudgetKept, Outcome, Uncontested
  <1>7. ASSUME NEW v \in Workers PROVE ClaimInv(v)'
    <2>1. CASE v = w
      BY <2>1, <1>4, RestType DEF ClaimInv, Working
    <2>2. CASE v # w /\ Working(v) /\ run[v].on = e
      <3>1. Uncontested(e) => ~Holds(v)
        BY <2>2, <1>1 DEF Holds, NamesakesApart
      <3>2. /\ run'[v] = run[v] /\ event'[e].attempts = event[e].attempts
            /\ event'[e].status # "claimed" /\ event'[e].status # "absent"
        BY <2>2, <1>3, <1>4
      <3>3. ~Holds(v)'
        BY <2>2, <3>2 DEF Holds
      <3> QED
        BY <2>2, <3>1, <3>2, <3>3, <1>1 DEF ClaimInv, Working, Uncontested
    <2>3. CASE v # w /\ (Working(v) => run[v].on # e)
      BY <2>3, <1>1, <1>3, <1>4 DEF ClaimInv, Working, Holds, TypeOK, Uncontested
    <2> QED
      BY <2>1, <2>2, <2>3
  <1>8. \A v \in Workers : Working(v)' => Working(v) /\ run'[v].on = run[v].on
    BY <1>4, RestType DEF Working
  <1>9. NamesakesApart'
    BY <1>1, <1>8 DEF NamesakesApart, Uncontested
  <1> QED
    BY <1>5, <1>6, <1>7, <1>9 DEF IInv

\* A completion takes the row out of the claim of this worker.
LEMMA CompleteInv ==
    ASSUME IInv, NEW w \in Workers, Complete(w)
    PROVE  IInv'
  <1> DEFINE row == Completed(event[run[w].on])
  <1>1. Working(w) /\ Holds(w) /\ run[w].on \in Events /\ event[run[w].on] \in EventRow
    BY DEF Complete, Working, IInv, TypeOK
  <1>2. row \in EventRow /\ row.status = "delivered"
        /\ row.attempts = event[run[w].on].attempts
    BY <1>1 DEF Completed, EventRow, Past
  <1>3. run[w].on \in published
    BY <1>1 DEF Complete, IInv, ClaimInv
  <1>4. /\ event' = [event EXCEPT ![run[w].on] = row] /\ run' = [run EXCEPT ![w] = Idle]
        /\ published' = published /\ now' = now /\ faults' = faults /\ contested' = contested
    BY <1>1 DEF Complete, Become, Completed
  <1> HIDE DEF row
  <1> QED
    BY <1>1, <1>2, <1>3, <1>4, SettleStep

\* A reported failure queues the row again or gives it up.
LEMMA FailInv ==
    ASSUME IInv, NEW w \in Workers, NEW at \in SoFar, Fail(w, at)
    PROVE  IInv'
  <1> DEFINE next == at + Backoff(run[w].attempt) * TicksPerSecond
             row == Failed(event[run[w].on], MaxAttempts - run[w].attempt, next)
  <1>1. Working(w) /\ Holds(w) /\ run[w].on \in Events /\ event[run[w].on] \in EventRow
        /\ run[w] \in WorkerState
    BY DEF Fail, Working, IInv, TypeOK
  <1>2. /\ run[w].attempt \in 1..ClaimBound /\ run[w].attempt <= event[run[w].on].attempts
        /\ Uncontested(run[w].on) => run[w].attempt = event[run[w].on].attempts
        /\ event[run[w].on].attempts \in Nat
    BY <1>1 DEF IInv, ClaimInv, EventRow
  <1>3. next \in Nat
    <2>1. at \in Nat /\ TicksPerSecond \in Nat
      BY Instants DEF IInv
    <2>2. Backoff(run[w].attempt) \in Nat
      BY <1>2, BackoffType
    <2>3. Backoff(run[w].attempt) * TicksPerSecond \in Nat
      BY <2>1, <2>2
    <2> QED
      BY <2>1, <2>3
  <1>4. /\ event' = [event EXCEPT ![run[w].on] = row] /\ run' = [run EXCEPT ![w] = Idle]
        /\ published' = published /\ now' = now /\ faults' = faults /\ contested' = contested
    BY <1>1 DEF Fail, Become
  <1> HIDE DEF next
  <1>5. row \in EventRow
    BY <1>1, <1>3 DEF Failed, EventRow, Past
  <1>6. /\ row.attempts = event[run[w].on].attempts
        /\ row.status = IF MaxAttempts - run[w].attempt <= 0 THEN "dead" ELSE "pending"
    BY <1>1 DEF Failed, EventRow
  <1>7. /\ row.status \in {"pending", "delivered", "dead"}
        /\ (row.status = "pending" /\ Uncontested(run[w].on)) => row.attempts < MaxAttempts
        /\ row.status = "dead" => row.attempts >= MaxAttempts
        /\ row.status # "delivered"
    BY <1>2, <1>6, OutboxAssumption
  <1> HIDE DEF row
  <1> QED
    BY <1>1, <1>4, <1>5, <1>6, <1>7, SettleStep

\* Time passes, within the second or into the next one.
LEMMA TickInv ==
    ASSUME IInv, Tick
    PROVE  IInv'
  <1>1. TypeOK /\ BudgetKept /\ Outcome /\ NamesakesApart /\ \A v \in Workers : ClaimInv(v)
    BY DEF IInv
  <1>2. published' = published /\ faults' = faults /\ contested' = contested
    BY DEF Tick
  <1>3. CASE now + 1 \in Current
    <2>1. now' = now + 1 /\ event' = event /\ run' = run
      BY <1>3 DEF Tick
    <2> QED
      BY <1>1, <1>2, <1>3, <2>1
      DEF IInv, TypeOK, BudgetKept, Outcome, ClaimInv, NamesakesApart, Uncontested, Working, Holds
  <1>4. CASE now + 1 \notin Current
    <2>1. TicksPerSecond \in Nat \ {0} /\ TicksPerSecond \in Current
      BY FracAssumption DEF Current
    <2>2. ASSUME NEW t \in Nat
          PROVE  Shift(t) \in Nat /\ (t < 2 * TicksPerSecond => Shift(t) < 2 * TicksPerSecond)
      BY <2>1 DEF Shift, Past
    <2>3. /\ now' = TicksPerSecond
          /\ event' = [e \in Events |-> [event[e] EXCEPT !.available = Shift(@), !.until = Shift(@)]]
          /\ run' = [w \in Workers |-> [run[w] EXCEPT !.until = Shift(@)]]
      BY <1>4 DEF Tick
    <2>4. ASSUME NEW e \in Events
          PROVE  /\ event'[e] \in EventRow
                 /\ event'[e].status = event[e].status /\ event'[e].attempts = event[e].attempts
                 /\ event'[e].owner = event[e].owner /\ event'[e].until = Shift(event[e].until)
      <3>1. event[e] \in EventRow
        BY <1>1 DEF TypeOK
      <3>2. Shift(event[e].available) \in Nat /\ Shift(event[e].until) \in Nat
        BY <3>1, <2>2 DEF EventRow
      <3>3. event'[e] = [event[e] EXCEPT !.available = Shift(event[e].available),
                                         !.until = Shift(event[e].until)]
        BY <2>3
      <3> QED
        BY <3>1, <3>2, <3>3 DEF EventRow
    <2>5. ASSUME NEW w \in Workers
          PROVE  /\ run'[w] \in WorkerState
                 /\ run'[w].pc = run[w].pc /\ run'[w].on = run[w].on
                 /\ run'[w].attempt = run[w].attempt /\ run'[w].until = Shift(run[w].until)
      <3>1. run[w] \in WorkerState
        BY <1>1 DEF TypeOK
      <3>2. Shift(run[w].until) \in Nat
        BY <3>1, <2>2 DEF WorkerState
      <3>3. run'[w] = [run[w] EXCEPT !.until = Shift(run[w].until)]
        BY <2>3
      <3> QED
        BY <3>1, <3>2, <3>3 DEF WorkerState
    <2>6. event' \in [Events -> EventRow] /\ run' \in [Workers -> WorkerState]
      BY <2>3, <2>4, <2>5
    <2>7. TypeOK'
      BY <1>1, <1>2, <2>1, <2>3, <2>5, <2>6 DEF TypeOK, Working, Current
    <2>8. BudgetKept' /\ Outcome'
      BY <1>1, <1>2, <2>4 DEF BudgetKept, Outcome, Uncontested
    <2>9. ASSUME NEW w \in Workers PROVE ClaimInv(w)'
      <3>1. CASE ~Working(w)
        BY <3>1, <2>5 DEF ClaimInv, Working
      <3>2. CASE Working(w)
        <4>1. run[w].on \in Events /\ run[w].until \in Nat
          BY <3>2, <1>1 DEF TypeOK, WorkerState
        <4>2. Holds(w)' <=> Holds(w)
          BY <4>1, <2>4, <2>5 DEF Holds
        <4> QED
          BY <3>2, <4>1, <4>2, <1>1, <1>2, <2>2, <2>4, <2>5 DEF ClaimInv, Working, Uncontested
      <3> QED
        BY <3>1, <3>2
    <2>10. NamesakesApart'
      BY <1>1, <1>2, <2>5 DEF NamesakesApart, Working, Uncontested
    <2> QED
      BY <2>7, <2>8, <2>9, <2>10 DEF IInv
  <1> QED
    BY <1>3, <1>4

-----------------------------------------------------------------------------
\* Every step keeps the invariant.
LEMMA NextIInv == IInv /\ [Next]_vars => IInv'
  <1> SUFFICES ASSUME IInv, [Next]_vars PROVE IInv'
    OBVIOUS
  <1>1. CASE Tick
    BY <1>1, TickInv
  <1>2. ASSUME NEW e \in Events, NEW at \in SoFar \union {Past}, Create(e, at) PROVE IInv'
    BY <1>2, CreateInv
  <1>3. ASSUME NEW w \in Workers, Take(w) PROVE IInv'
    BY <1>3, ClaimStep DEF Take
  <1>4. ASSUME NEW w \in Workers, Finish(w) PROVE IInv'
    BY <1>4, PublishSucceedsInv, PublishFailsInv, CompleteInv, RestInv, FailInv DEF Finish
  <1>5. ASSUME NEW w \in Workers, StatementFails(w) \/ Stop(w) \/ Start(w) PROVE IInv'
    BY <1>5, RestInv
  <1>6. CASE UNCHANGED vars
    BY <1>6 DEF vars, IInv, TypeOK, BudgetKept, Outcome, ClaimInv, NamesakesApart, Uncontested, Working, Holds
  <1> QED
    BY <1>1, <1>2, <1>3, <1>4, <1>5, <1>6 DEF Next

\* The worker that holds an event knows its row, and one that does not has
\* outlived its lease: the inductive invariant of every behaviour.
THEOREM Inductive == Spec => []IInv
  BY InitIInv, NextIInv, PTL DEF Spec

\* Rows, workers and clock keep their types.
THEOREM TypeCorrect == Spec => []TypeOK
  <1>1. IInv => TypeOK
    BY DEF IInv
  <1> QED
    BY <1>1, Inductive, PTL

\* Only a claim raises the number of attempts.
LEMMA AttemptsRise ==
    ASSUME IInv, Next, NEW e \in Events, event'[e].attempts > event[e].attempts
    PROVE  \E w \in Workers, at \in SoFar : Claim(w, e, at)
  <1>1. event \in [Events -> EventRow] /\ event[e].attempts \in Nat /\ event[e] \in EventRow
    BY DEF IInv, TypeOK, EventRow
  <1>2. event'[e].attempts # event[e].attempts
    BY <1>1
  <1>3. ASSUME NEW f \in Events, NEW at \in SoFar \union {Past} PROVE ~Create(f, at)
    <2> SUFFICES ASSUME Create(f, at) PROVE FALSE
      OBVIOUS
    <2>1. event'[e] = event[e] \/ (f = e /\ event'[e].attempts = 0)
      BY <1>1 DEF Create, NoEvent
    <2> QED
      BY <1>1, <2>1
  <1>4. ~Tick
    <2>1. Tick => \/ event'[e] = event[e]
                  \/ event'[e] = [event[e] EXCEPT !.available = Shift(@), !.until = Shift(@)]
      BY DEF Tick
    <2> QED
      BY <1>1, <1>2, <2>1 DEF EventRow
  <1>5. ASSUME NEW w \in Workers PROVE ~StatementFails(w) /\ ~Stop(w) /\ ~Start(w)
    BY <1>2 DEF StatementFails, Stop, Start
  <1>6. ASSUME NEW w \in Workers PROVE ~Finish(w)
    <2>1. ~PublishSucceeds(w) /\ ~PublishFails(w) /\ ~LeaseLost(w)
      BY <1>2 DEF PublishSucceeds, PublishFails, LeaseLost
    <2>2. ~Complete(w)
      <3>1. Complete(w) => event'[e] = event[e] \/ event'[e] = Completed(event[e])
        BY <1>1 DEF Complete
      <3> QED
        BY <1>1, <1>2, <3>1 DEF Completed, EventRow
    <2>3. ASSUME NEW at \in SoFar PROVE ~Fail(w, at)
      <3> DEFINE left == MaxAttempts - run[w].attempt
                 next == at + Backoff(run[w].attempt) * TicksPerSecond
      <3>1. Fail(w, at) => event'[e] = event[e] \/ event'[e] = Failed(event[e], left, next)
        BY <1>1 DEF Fail
      <3> HIDE DEF left, next
      <3> QED
        BY <1>1, <1>2, <3>1 DEF Failed, EventRow
    <2> QED
      BY <2>1, <2>2, <2>3 DEF Finish
  <1>7. ASSUME NEW w \in Workers, NEW f \in Events, NEW at \in SoFar, Claim(w, f, at)
        PROVE  f = e
    BY <1>1, <1>2, <1>7 DEF Claim
  <1>8. PICK w \in Workers : Take(w)
    BY <1>3, <1>4, <1>5, <1>6 DEF Next
  <1> QED
    BY <1>7, <1>8 DEF Take

\* However many servers share an outbox, and whatever their workers are called,
\* none takes an uncontested event from another before the second in which the
\* lease of the other ends.
THEOREM LeasesExclude == Spec => LeaseExclusive
  <1> DEFINE Step == \A e \in Events, v \in Workers :
         (event'[e].attempts > event[e].attempts /\ Uncontested(e) /\ Working(v) /\ run[v].on = e)
         => run[v].until < 2 * TicksPerSecond
  <1>1. IInv /\ [Next]_vars => [Step]_vars
    <2> SUFFICES ASSUME IInv, Next, NEW e \in Events, NEW v \in Workers,
                        event'[e].attempts > event[e].attempts, Uncontested(e),
                        Working(v), run[v].on = e
                 PROVE  run[v].until < 2 * TicksPerSecond
      OBVIOUS
    <2>1. PICK w \in Workers, at \in SoFar : Claim(w, e, at)
      BY AttemptsRise
    <2> QED
      BY <2>1, Overtaken
  <1> QED
    BY <1>1, Inductive, PTL DEF Spec, LeaseExclusive

\* An event whose budget is spent is never queued again, unless it was contested.
THEOREM BudgetIsKept == Spec => []BudgetKept
  <1>1. IInv => BudgetKept
    BY DEF IInv
  <1> QED
    BY <1>1, Inductive, PTL

\* Only a spent budget kills an event and only a publish delivers it.
THEOREM OutcomeIsEarned == Spec => []Outcome
  <1>1. IInv => Outcome
    BY DEF IInv
  <1> QED
    BY <1>1, Inductive, PTL

\* Only the worker of the newest claim ends a claim of an uncontested event.
THEOREM ClaimsAreFenced == Spec => Fencing
  <1> DEFINE Step == \A e \in Events :
         (event[e].status = "claimed" /\ event'[e].status # "claimed" /\ Uncontested(e)) =>
            \E w \in Workers : /\ Working(w) /\ run'[w] = Idle
                               /\ run[w].on = e
                               /\ run[w].attempt = event[e].attempts
  <1>1. IInv /\ [Next]_vars => [Step]_vars
    <2> SUFFICES ASSUME IInv, Next, NEW e \in Events,
                        event[e].status = "claimed", event'[e].status # "claimed", Uncontested(e)
                 PROVE  \E w \in Workers : /\ Working(w) /\ run'[w] = Idle
                                           /\ run[w].on = e
                                           /\ run[w].attempt = event[e].attempts
      OBVIOUS
    <2>1. TypeOK /\ \A v \in Workers : ClaimInv(v)
      BY DEF IInv
    <2>2. ASSUME NEW w \in Workers, Complete(w) \/ \E at \in SoFar : Fail(w, at)
          PROVE  Working(w) /\ run'[w] = Idle /\ run[w].on = e
                 /\ run[w].attempt = event[e].attempts
      <3>1. Working(w) /\ Holds(w) /\ run' = [run EXCEPT ![w] = Idle]
        BY <2>2 DEF Complete, Fail, Working, Become
      <3>2. run[w].on \in Events /\ \A f \in Events : f # run[w].on => event'[f] = event[f]
        BY <2>1, <2>2, <3>1 DEF Complete, Fail, TypeOK
      <3>3. run[w].on = e
        BY <3>2
      <3> QED
        BY <2>1, <3>1, <3>3 DEF ClaimInv, TypeOK
    <2>3. ~Tick
      <3> SUFFICES ASSUME Tick PROVE FALSE
        OBVIOUS
      <3>1. event[e] \in EventRow
        BY <2>1 DEF TypeOK
      <3>2. event'[e] = event[e] \/ event'[e] = [event[e] EXCEPT !.available = Shift(@), !.until = Shift(@)]
        BY DEF Tick
      <3> QED
        BY <3>1, <3>2 DEF EventRow
    <2>4. ASSUME NEW f \in Events, NEW at \in SoFar \union {Past} PROVE ~Create(f, at)
      BY <2>1 DEF Create, TypeOK
    <2>5. ASSUME NEW w \in Workers, NEW f \in Events, NEW at \in SoFar PROVE ~Claim(w, f, at)
      <3>1. event[f] \in EventRow
        BY <2>1 DEF TypeOK
      <3> QED
        BY <2>1, <3>1 DEF Claim, TypeOK, EventRow
    <2>6. ASSUME NEW w \in Workers
          PROVE  /\ ~PublishSucceeds(w) /\ ~PublishFails(w) /\ ~LeaseLost(w)
                 /\ ~StatementFails(w) /\ ~Stop(w) /\ ~Start(w)
      BY DEF PublishSucceeds, PublishFails, LeaseLost, StatementFails, Stop, Start
    <2> QED
      BY <2>2, <2>3, <2>4, <2>5, <2>6 DEF Next, Take, Finish
  <1> QED
    BY <1>1, Inductive, PTL DEF Spec, Fencing

-----------------------------------------------------------------------------
\* No event was ever contested.
Undisputed == \A e \in Events : Uncontested(e)

\* A claim contests nothing if no worker of the same name is at work.
LEMMA UndisputedStep ==
    ASSUME Undisputed, Next,
           \A w \in Workers, e \in Events, at \in SoFar : Claim(w, e, at) => Namesakes(w, e) = {}
    PROVE  Undisputed'
  <1>1. ASSUME NEW w \in Workers, Take(w) PROVE contested' = contested
    <2>1. PICK e \in Events, at \in SoFar : Claim(w, e, at)
      BY <1>1 DEF Take
    <2>2. Namesakes(w, e) = {}
      BY <2>1
    <2> QED
      BY <2>1, <2>2 DEF Claim
  <1>2. ASSUME NEW w \in Workers, Finish(w) PROVE contested' = contested
    BY <1>2 DEF Finish, PublishSucceeds, PublishFails, Complete, LeaseLost, Fail
  <1>3. ASSUME NEW w \in Workers, StatementFails(w) \/ Stop(w) \/ Start(w)
        PROVE  contested' = contested
    BY <1>3 DEF StatementFails, Stop, Start
  <1>4. Tick => contested' = contested
    BY DEF Tick
  <1>5. ASSUME NEW e \in Events, NEW at \in SoFar \union {Past}, Create(e, at)
        PROVE  contested' = contested
    BY <1>5 DEF Create
  <1>6. contested' = contested
    BY <1>1, <1>2, <1>3, <1>4, <1>5 DEF Next
  <1> QED
    BY <1>6 DEF Undisputed, Uncontested

LEMMA UndisputedInit == Init => Undisputed
  BY DEF Init, Undisputed, Uncontested

\* Servers whose workers have names of their own contest no event, and nor does
\* a single server, however often it is stopped and started.
THEOREM NamedApart ==
    ASSUME \A v, w \in Workers : OwnerOf[v] = OwnerOf[w] => v = w
    PROVE  Spec => []Undisputed
  <1>1. Undisputed /\ [Next]_vars => Undisputed'
    <2>1. \A w \in Workers, e \in Events : Namesakes(w, e) = {}
      BY DEF Namesakes
    <2>2. ASSUME Undisputed, Next PROVE Undisputed'
      BY <2>1, <2>2, UndisputedStep
    <2>3. ASSUME Undisputed, UNCHANGED vars PROVE Undisputed'
      BY <2>3 DEF vars, Undisputed, Uncontested
    <2> QED
      BY <2>2, <2>3
  <1> QED
    BY <1>1, UndisputedInit, PTL DEF Spec

\* Then the budget is respected without a condition (README.md:20).
THEOREM BudgetOfNamedServers ==
    ASSUME \A v, w \in Workers : OwnerOf[v] = OwnerOf[w] => v = w
    PROVE  Spec => []BudgetRespected
  <1>1. BudgetKept /\ Undisputed => BudgetRespected
    BY DEF BudgetKept, Undisputed, BudgetRespected
  <1> QED
    BY <1>1, NamedApart, BudgetIsKept, PTL

\* A worker at work has a lease that ends in a later second.
InTime == \A w \in Workers : Working(w) => run[w].until >= 2 * TicksPerSecond

\* An instant of a second after the next one is still of a later second once the
\* next one begins.
LEMMA ShiftedLater ==
    ASSUME NEW t \in Nat, Second(2 * TicksPerSecond) < Second(t)
    PROVE  Shift(t) >= 2 * TicksPerSecond
  <1>1. TicksPerSecond \in Nat \ {0}
    BY FracAssumption
  <1>2. (2 * TicksPerSecond) \div TicksPerSecond = 2
    BY <1>1, SMT
  <1>3. t \div TicksPerSecond >= 3
    BY <1>1, <1>2 DEF Second
  <1>4. t >= 3 * TicksPerSecond
    BY <1>1, <1>3, SMT
  <1> QED
    BY <1>1, <1>4 DEF Shift

\* Prompt workers keep their leases ahead of them.
LEMMA InTimeStep ==
    ASSUME TicksPerSecond <= Lease, IInv, InTime, Next, Prompt
    PROVE  InTime'
  <1> SUFFICES ASSUME NEW v \in Workers, Working(v)' PROVE run'[v].until >= 2 * TicksPerSecond
    BY DEF InTime
  <1>1. TicksPerSecond \in Nat \ {0} /\ run \in [Workers -> WorkerState]
    BY FracAssumption DEF IInv, TypeOK
  <1>2. CASE Tick
    <2>1. CASE now + 1 \in Current
      BY <1>2, <2>1 DEF Tick, InTime, Working
    <2>2. CASE now + 1 \notin Current
      <3>1. now + 1 = 2 * TicksPerSecond
        BY <1>1, <2>2 DEF IInv, TypeOK, Current
      <3>2. run' = [w \in Workers |-> [run[w] EXCEPT !.until = Shift(@)]]
        BY <1>2, <2>2 DEF Tick
      <3>3. run'[v].pc = run[v].pc /\ run'[v].until = Shift(run[v].until) /\ run[v].until \in Nat
        BY <1>1, <3>2 DEF WorkerState
      <3>4. Second(2 * TicksPerSecond) < Second(run[v].until)
        BY <1>2, <3>1, <3>3 DEF Prompt, Working
      <3> QED
        BY <3>3, <3>4, ShiftedLater
    <2> QED
      BY <2>1, <2>2
  <1>3. ASSUME NEW w \in Workers, NEW e \in Events, NEW at \in SoFar, Claim(w, e, at)
        PROVE  run'[v].until >= 2 * TicksPerSecond
    <2>1. at \in Nat /\ at >= TicksPerSecond
      BY Instants DEF IInv
    <2>2. at + Lease >= 2 * TicksPerSecond
      BY <1>1, <2>1, OutboxAssumption
    <2>3. v = w => run'[v].until = at + Lease
      BY <1>1, <1>3 DEF Claim, Become
    <2>4. v # w => run'[v] = run[v]
      BY <1>1, <1>3 DEF Claim, Become
    <2> QED
      BY <2>2, <2>3, <2>4 DEF InTime, Working
  <1>4. ASSUME NEW w \in Workers, Finish(w) \/ StatementFails(w) \/ Stop(w) \/ Start(w)
        PROVE  run'[v].until >= 2 * TicksPerSecond
    <2>1. CASE v # w
      <3>1. run'[v] = run[v]
        BY <1>1, <1>4, <2>1 DEF Finish, PublishSucceeds, PublishFails, Complete, LeaseLost,
             Fail, StatementFails, Stop, Start, Become
      <3> QED
        BY <3>1 DEF InTime, Working
    <2>2. CASE v = w
      <3>1. PublishSucceeds(w) \/ PublishFails(w)
        BY <1>1, <1>4, <2>2, RestType DEF Finish, Complete, LeaseLost,
             Fail, StatementFails, Stop, Start, Become, Working
      <3>2. Working(w) /\ run'[w].until = run[w].until
        BY <1>1, <3>1 DEF PublishSucceeds, PublishFails, Become, Working, WorkerState
      <3> QED
        BY <2>2, <3>2 DEF InTime
    <2> QED
      BY <2>1, <2>2
  <1>5. ASSUME NEW e \in Events, NEW at \in SoFar \union {Past}, Create(e, at)
        PROVE  run'[v].until >= 2 * TicksPerSecond
    BY <1>5 DEF Create, InTime, Working
  <1> QED
    BY <1>2, <1>3, <1>4, <1>5 DEF Next, Take

\* Nor do servers whose workers are always prompt, under a lease of at least a
\* second: then it does no harm that main.go:58 calls them all the same.
THEOREM PromptApart == ASSUME TicksPerSecond <= Lease PROVE PromptSpec => []Undisputed
  <1>1. Init => InTime
    BY RestType DEF Init, InTime, Working
  <1>2. IInv /\ InTime /\ [Next /\ Prompt]_vars => InTime'
    <2>1. ASSUME IInv, InTime, Next, Prompt PROVE InTime'
      BY <2>1, InTimeStep
    <2>2. ASSUME InTime, UNCHANGED vars PROVE InTime'
      BY <2>2 DEF vars, InTime, Working
    <2> QED
      BY <2>1, <2>2
  <1>3. IInv /\ InTime /\ Undisputed /\ [Next /\ Prompt]_vars => Undisputed'
    <2>1. ASSUME IInv, InTime, Undisputed, Next PROVE Undisputed'
      <3>1. ASSUME NEW w \in Workers, NEW e \in Events, NEW at \in SoFar, Claim(w, e, at),
                   NEW v \in Namesakes(w, e)
            PROVE  FALSE
        <4>1. v \in Workers /\ Working(v) /\ run[v].on = e /\ Uncontested(e)
          BY <2>1, <3>1 DEF Namesakes, Undisputed
        <4>2. run[v].until < 2 * TicksPerSecond
          BY <2>1, <3>1, <4>1, Overtaken
        <4>3. run[v].until >= 2 * TicksPerSecond /\ run[v].until \in Nat /\ TicksPerSecond \in Nat
          BY <2>1, <4>1, FracAssumption DEF InTime, IInv, TypeOK, WorkerState
        <4> QED
          BY <4>2, <4>3
      <3> QED
        BY <2>1, <3>1, UndisputedStep
    <2>2. ASSUME Undisputed, UNCHANGED vars PROVE Undisputed'
      BY <2>2 DEF vars, Undisputed, Uncontested
    <2> QED
      BY <2>1, <2>2
  <1>4. IInv /\ [Next /\ Prompt]_vars => IInv'
    BY NextIInv
  <1> QED
    BY <1>1, <1>2, <1>3, <1>4, InitIInv, UndisputedInit, PTL DEF PromptSpec

\* And the budget is respected without a condition.
THEOREM BudgetOfPromptServers ==
    ASSUME TicksPerSecond <= Lease PROVE PromptSpec => []BudgetRespected
  <1>1. BudgetKept /\ Undisputed => BudgetRespected
    BY DEF BudgetKept, Undisputed, BudgetRespected
  <1>2. [Next /\ Prompt]_vars => [Next]_vars
    OBVIOUS
  <1> QED
    BY <1>1, <1>2, PromptApart, BudgetIsKept, PTL DEF PromptSpec, Spec

-----------------------------------------------------------------------------
\* The view of the refinement, without CHOOSE: the holder of an event is the
\* one worker that can be, if there is one.
HolderRight ==
    /\ HolderView = [e \in Events |-> HolderView[e]]
    /\ \A e \in Events, w \in Workers : Holder(w, e) => HolderView[e] = w
    /\ \A e \in Events : (\A w \in Workers : ~Holder(w, e)) => HolderView[e] = None

\* A worker of the newest claim holds its event, and the other way round.
LEMMA NewestHolds ==
    ASSUME IInv, NEW w \in Workers, NEW e \in Events, Uncontested(e)
    PROVE  Newest(w, e) <=> Working(w) /\ run[w].on = e /\ Holds(w)
  <1>1. ClaimInv(w) /\ run[w].attempt \in Nat /\ event[e].attempts \in Nat
    BY DEF IInv, TypeOK, WorkerState, EventRow
  <1> QED
    BY <1>1 DEF Newest, ClaimInv, Holds

\* Nobody else at work on an uncontested event has the name of its holder, so
\* the view chooses the only candidate.
LEMMA HolderIsRight == IInv => HolderRight
  <1> SUFFICES ASSUME IInv PROVE HolderRight
    OBVIOUS
  <1>1. ASSUME NEW e \in Events, NEW w \in Workers, Holder(w, e)
        PROVE  HolderView[e] = w
    <2>1. ASSUME NEW v \in Workers, Holder(v, e) PROVE v = w
      <3>1. CASE Uncontested(e)
        <4>1. /\ Working(v) /\ run[v].on = e /\ Holds(v)
              /\ Working(w) /\ run[w].on = e /\ Holds(w)
          BY <1>1, <2>1, <3>1, NewestHolds DEF Holder
        <4> QED
          BY <3>1, <4>1 DEF Holds, IInv, NamesakesApart
      <3>2. CASE ~Uncontested(e)
        BY <1>1, <2>1, <3>2 DEF Holder
      <3> QED
        BY <3>1, <3>2
    <2>2. (CHOOSE v \in Workers : Holder(v, e)) = w
      BY <1>1, <2>1
    <2> QED
      BY <1>1, <2>2 DEF HolderView
  <1> QED
    BY <1>1 DEF HolderRight, HolderView

\* Where stages and holders stay as they are, so does the view.
LEMMA ViewsElsewhere ==
    ASSUME HolderRight, HolderRight', NEW e \in Events,
           \A f \in Events \ {e} : Stage(f)' = Stage(f),
           \A f \in Events \ {e}, w \in Workers : Holder(w, f)' <=> Holder(w, f)
    PROVE  /\ HolderView' = [HolderView EXCEPT ![e] = HolderView'[e]]
           /\ StageView' = [StageView EXCEPT ![e] = Stage(e)']
  <1>1. ASSUME NEW f \in Events \ {e} PROVE HolderView'[f] = HolderView[f]
    <2>1. CASE \E w \in Workers : Holder(w, f)
      BY <2>1 DEF HolderRight
    <2>2. CASE \A w \in Workers : ~Holder(w, f)
      BY <2>2 DEF HolderRight
    <2> QED
      BY <2>1, <2>2
  <1>2. HolderView = [f \in Events |-> HolderView[f]] /\ HolderView' = [f \in Events |-> HolderView'[f]]
    BY DEF HolderRight
  <1>3. HolderView' = [HolderView EXCEPT ![e] = HolderView'[e]]
    BY <1>1, <1>2
  <1> QED
    BY <1>3 DEF StageView

\* A step that changes neither a stage nor a holder is a stutter.
LEMMA SameViews ==
    ASSUME HolderRight, HolderRight',
           \A f \in Events : Stage(f)' = Stage(f),
           \A f \in Events, w \in Workers : Holder(w, f)' <=> Holder(w, f)
    PROVE  UNCHANGED Queue!vars
  <1>1. ASSUME NEW f \in Events PROVE HolderView'[f] = HolderView[f]
    <2>1. CASE \E w \in Workers : Holder(w, f)
      BY <2>1 DEF HolderRight
    <2>2. CASE \A w \in Workers : ~Holder(w, f)
      BY <2>2 DEF HolderRight
    <2> QED
      BY <2>1, <2>2
  <1>2. HolderView' = HolderView
    BY <1>1 DEF HolderRight
  <1>3. StageView' = StageView
    BY DEF StageView
  <1> QED
    BY <1>2, <1>3 DEF Queue!vars

\* An event whose row and history stay is held as before by every worker that
\* stays what it was, and at the same stage.
LEMMA SameRow ==
    ASSUME NEW f \in Events, contested'[f] = contested[f],
           event'[f].status = event[f].status, event'[f].attempts = event[f].attempts
    PROVE  /\ Stage(f)' = Stage(f)
           /\ \A v \in Workers :
                 (~Uncontested(f) \/ (Newest(v, f)' <=> Newest(v, f))) => (Holder(v, f)' <=> Holder(v, f))
  <1>1. (Uncontested(f)' <=> Uncontested(f)) /\ (Final(f)' <=> Final(f))
    BY DEF Uncontested, Final
  <1>2. Stage(f)' = Stage(f)
    BY <1>1 DEF Stage
  <1>3. \A v \in Workers :
           (~Uncontested(f) \/ (Newest(v, f)' <=> Newest(v, f))) => (Holder(v, f)' <=> Holder(v, f))
    BY <1>1 DEF Holder
  <1> QED
    BY <1>2, <1>3

\* The end of a worker's work on an event, where the row stays as it is, leaves
\* the event in nobody's hands, or changes nothing of the queue.
LEMMA LeaveStep ==
    ASSUME IInv, IInv', HolderRight, HolderRight', NEW w \in Workers,
           event' = event, contested' = contested,
           run' = [run EXCEPT ![w] = Idle] \/ run' = [run EXCEPT ![w] = Off]
    PROVE  (\E e \in Events : Queue!Abandon(e, w)) \/ UNCHANGED Queue!vars
  <1>1. /\ \A v \in Workers : v # w => run'[v] = run[v]
        /\ \A e \in Events : ~Newest(w, e)'
    BY RestType DEF IInv, TypeOK, Newest, Working
  <1>2. \A f \in Events, v \in Workers : v # w => (Newest(v, f)' <=> Newest(v, f))
    BY <1>1 DEF Newest, Working
  <1>3. ASSUME NEW f \in Events, NEW v \in Workers, v # w \/ ~Uncontested(f) \/ ~Newest(w, f)
        PROVE  Holder(v, f)' <=> Holder(v, f)
    BY <1>1, <1>2, <1>3, SameRow
  <1>4. \A f \in Events : Stage(f)' = Stage(f)
    BY SameRow
  <1>5. CASE \A e \in Events : ~(Uncontested(e) /\ Newest(w, e))
    BY <1>3, <1>4, <1>5, SameViews
  <1>6. ASSUME NEW e \in Events, Uncontested(e), Newest(w, e) PROVE Queue!Abandon(e, w)
    <2>1. \A f \in Events \ {e} : ~Newest(w, f)
      BY <1>6 DEF Newest
    <2>2. \A f \in Events \ {e}, v \in Workers : Holder(v, f)' <=> Holder(v, f)
      BY <1>3, <2>1
    <2>3. Holder(w, e)
      BY <1>6 DEF Holder
    <2>4. \A v \in Workers : ~Holder(v, e)'
      <3>1. Uncontested(e)' /\ ~Holder(w, e)'
        BY <1>1, <1>6 DEF Uncontested, Holder
      <3>2. \A v \in Workers : Holder(v, e) => v = w
        BY <2>3 DEF HolderRight
      <3> QED
        BY <1>3, <3>1, <3>2
    <2>5. HolderView[e] = w /\ HolderView'[e] = None
      BY <2>3, <2>4 DEF HolderRight
    <2>6. HolderView' = [HolderView EXCEPT ![e] = None]
      BY <1>4, <2>2, <2>5, ViewsElsewhere
    <2>7. StageView' = StageView
      BY <1>4 DEF StageView
    <2> QED
      BY <2>5, <2>6, <2>7 DEF Queue!Abandon
  <1> QED
    BY <1>5, <1>6

\* The row is taken out of "claimed": by the holder, or, of a contested event,
\* by anybody, which the queue sees only if it settles the event.
LEMMA EndStep ==
    ASSUME IInv, IInv', HolderRight, HolderRight', NEW w \in Workers,
           Complete(w) \/ \E at \in SoFar : Fail(w, at)
    PROVE  \/ \E e \in Events, h \in Workers : Queue!Return(e, h) \/ Queue!Settle(e, h)
           \/ UNCHANGED Queue!vars
  <1>1. Working(w) /\ Holds(w) /\ run' = [run EXCEPT ![w] = Idle] /\ contested' = contested
    BY DEF Complete, Fail, Working, Become
  <1> PICK e \in Events : e = run[w].on
    BY <1>1 DEF IInv, TypeOK
  <1>2. /\ event[e] \in EventRow
        /\ \A v \in Workers : v # w => run'[v] = run[v]
    BY <1>1 DEF IInv, TypeOK
  <1>3. \A f \in Events \ {e} : event'[f] = event[f]
    BY <1>2 DEF Complete, Fail, IInv, TypeOK
  <1>4. event'[e].status \in {"pending", "dead", "delivered"}
    <2>1. CASE Complete(w)
      BY <2>1, <1>2 DEF Complete, Completed, IInv, TypeOK, EventRow
    <2>2. ASSUME NEW at \in SoFar, Fail(w, at) PROVE event'[e].status \in {"pending", "dead"}
      <3> DEFINE left == MaxAttempts - run[w].attempt
                 next == at + Backoff(run[w].attempt) * TicksPerSecond
      <3>1. event'[e] = Failed(event[e], left, next)
        BY <2>2, <1>2 DEF Fail, IInv, TypeOK
      <3> HIDE DEF left, next
      <3> QED
        BY <3>1, <1>2 DEF Failed, EventRow
    <2> QED
      BY <2>1, <2>2
  <1>5. \A f \in Events \ {e} :
           Stage(f)' = Stage(f) /\ \A v \in Workers : Holder(v, f)' <=> Holder(v, f)
    <2>1. \A f \in Events \ {e} : ~Newest(w, f) /\ ~Newest(w, f)'
      BY <1>1, <1>2, RestType DEF Newest, Working, IInv, TypeOK
    <2>2. \A f \in Events \ {e}, v \in Workers : Newest(v, f)' <=> Newest(v, f)
      BY <1>2, <1>3, <2>1 DEF Newest, Working
    <2> QED
      BY <1>1, <1>3, <2>2, SameRow
  <1>6. event[e].status = "claimed" /\ ~Final(e)
    BY <1>1 DEF Holds, Final
  <1>7. ASSUME NEW h \in Workers, Holder(h, e), \A v \in Workers : ~Holder(v, e)',
               Stage(e)' \in {"waiting", "settled"}
        PROVE  Queue!Return(e, h) \/ Queue!Settle(e, h)
    <2>1. HolderView[e] = h /\ HolderView'[e] = None
      BY <1>7 DEF HolderRight
    <2>2. /\ HolderView' = [HolderView EXCEPT ![e] = None]
          /\ StageView' = [StageView EXCEPT ![e] = Stage(e)']
      BY <1>5, <2>1, ViewsElsewhere
    <2> QED
      BY <1>7, <2>1, <2>2 DEF Queue!Return, Queue!Settle
  <1>8. CASE Uncontested(e)
    <2>1. Holder(w, e)
      BY <1>1, <1>8, NewestHolds DEF Holder
    <2>2. Uncontested(e)' /\ \A v \in Workers : ~Newest(v, e)'
      BY <1>1, <1>4, <1>8 DEF Newest, Uncontested
    <2>3. \A v \in Workers : ~Holder(v, e)'
      BY <2>2 DEF Holder
    <2>4. Stage(e)' \in {"waiting", "settled"}
      BY <1>4, <2>2 DEF Stage, Final
    <2> QED
      BY <1>7, <2>1, <2>3, <2>4
  <1>9. CASE ~Uncontested(e) /\ Final(e)'
    <2>1. PICK h \in Workers : contested[e] = h
      BY <1>9 DEF IInv, TypeOK, Uncontested
    <2>2. Holder(h, e)
      BY <1>6, <1>9, <2>1 DEF Holder
    <2>3. \A v \in Workers : ~Holder(v, e)'
      BY <1>1, <1>9 DEF Holder, Uncontested
    <2>4. Stage(e)' = "settled"
      BY <1>4, <1>9 DEF Stage, Final
    <2> QED
      BY <1>7, <2>2, <2>3, <2>4
  <1>10. CASE ~Uncontested(e) /\ ~Final(e)'
    <2>1. ~Uncontested(e)'
      BY <1>1, <1>10 DEF Uncontested
    <2>2. \A v \in Workers : Holder(v, e)' <=> Holder(v, e)
      BY <1>1, <1>6, <1>10, <2>1 DEF Holder
    <2>3. Stage(e)' = "held" /\ Stage(e) = "held"
      BY <1>4, <1>6, <1>10, <2>1 DEF Stage
    <2> QED
      BY <1>5, <2>2, <2>3, SameViews
  <1> QED
    BY <1>8, <1>9, <1>10

\* A claim takes the event, from the queue or from an older claim; one of an
\* event that is contested already changes nothing of the queue.
LEMMA TakeStep ==
    ASSUME IInv, IInv', HolderRight, HolderRight',
           NEW w \in Workers, NEW e \in Events, NEW at \in SoFar, Claim(w, e, at)
    PROVE  Queue!Take(e, w) \/ UNCHANGED Queue!vars
  <1>1. event[e] \in EventRow /\ event[e].attempts \in Nat
    BY DEF IInv, TypeOK, EventRow
  <1>2. event[e].status \in {"pending", "claimed"} /\ ~Working(w)
    BY DEF Claim, Open, Claimable, Working
  <1>3. /\ event'[e].status = "claimed" /\ event'[e].attempts = event[e].attempts + 1
        /\ \A f \in Events \ {e} : event'[f] = event[f] /\ contested'[f] = contested[f]
    BY <1>1 DEF Claim, IInv, TypeOK, EventRow
  <1>4. /\ run'[w] = [pc |-> "publishing", on |-> e, attempt |-> event[e].attempts + 1,
                      until |-> at + Lease]
        /\ \A v \in Workers : v # w => run'[v] = run[v]
    BY DEF Claim, Become, IInv, TypeOK
  <1>5. \A f \in Events \ {e} :
           Stage(f)' = Stage(f) /\ \A v \in Workers : Holder(v, f)' <=> Holder(v, f)
    <2>1. \A f \in Events \ {e}, v \in Workers : Newest(v, f)' <=> Newest(v, f)
      BY <1>2, <1>3, <1>4 DEF Newest, Working
    <2> QED
      BY <1>3, <2>1, SameRow
  <1>6. ~Final(e) /\ ~Final(e)' /\ Stage(e)' = "held" /\ Stage(e) \in {"waiting", "held"}
    BY <1>2, <1>3 DEF Stage, Final
  <1>7. CASE Uncontested(e)
    <2>1. contested'[e] = contested[e] \/ contested'[e] = w
      BY DEF Claim, IInv, TypeOK
    <2>2. Newest(w, e)'
      BY <1>3, <1>4 DEF Newest, Working
    <2>3. w # None
      BY OutboxAssumption
    <2>4. Holder(w, e)'
      BY <1>6, <1>7, <2>1, <2>2, <2>3 DEF Holder, Uncontested
    <2>5. HolderView'[e] = w
      BY <2>4 DEF HolderRight
    <2>6. /\ HolderView' = [HolderView EXCEPT ![e] = w]
          /\ StageView' = [StageView EXCEPT ![e] = "held"]
      BY <1>5, <1>6, <2>5, ViewsElsewhere
    <2> QED
      BY <1>6, <2>6 DEF Queue!Take, StageView
  <1>8. CASE ~Uncontested(e)
    <2>1. contested' = contested /\ ~Uncontested(e)'
      BY <1>8 DEF Claim, Uncontested
    <2>2. \A v \in Workers : Holder(v, e)' <=> Holder(v, e)
      BY <1>6, <1>8, <2>1 DEF Holder
    <2>3. Stage(e) = "held"
      BY <1>2, <1>8 DEF Stage, Final
    <2> QED
      BY <1>5, <1>6, <2>2, <2>3, SameViews
  <1> QED
    BY <1>7, <1>8

\* A new event is put into the queue.
LEMMA PutStep ==
    ASSUME IInv, HolderRight, HolderRight',
           NEW e \in Events, NEW at \in SoFar \union {Past}, Create(e, at)
    PROVE  Queue!Put(e) \/ UNCHANGED Queue!vars
  <1>1. event[e].status = "absent" /\ run' = run /\ contested' = contested
    BY DEF Create
  <1>2. event'[e].status = "pending" /\ \A f \in Events \ {e} : event'[f] = event[f]
    BY DEF Create, NoEvent, IInv, TypeOK
  <1>3. \A f \in Events \ {e} :
           Stage(f)' = Stage(f) /\ \A v \in Workers : Holder(v, f)' <=> Holder(v, f)
    <2>1. \A f \in Events \ {e}, v \in Workers : Newest(v, f)' <=> Newest(v, f)
      BY <1>1, <1>2 DEF Newest, Working
    <2> QED
      BY <1>1, <1>2, <2>1, SameRow
  <1>4. \A v \in Workers : ~Newest(v, e) /\ ~Newest(v, e)'
    BY <1>1, <1>2 DEF Newest
  <1>5. \A v \in Workers : Holder(v, e)' <=> Holder(v, e)
    BY <1>1, <1>2, <1>4 DEF Holder, Uncontested, Final
  <1>6. CASE ~Uncontested(e)
    <2>1. Stage(e) = "held" /\ Stage(e)' = "held"
      BY <1>1, <1>2, <1>6 DEF Stage, Final, Uncontested
    <2> QED
      BY <1>3, <1>5, <2>1, SameViews
  <1>7. CASE Uncontested(e)
    <2>1. Stage(e) = "absent" /\ Stage(e)' = "waiting"
      BY <1>1, <1>2, <1>7 DEF Stage, Final, Uncontested
    <2>2. \A v \in Workers : ~Holder(v, e) /\ ~Holder(v, e)'
      BY <1>4, <1>5, <1>7 DEF Holder
    <2>3. HolderView'[e] = HolderView[e]
      BY <2>2 DEF HolderRight
    <2>4. /\ HolderView' = [HolderView EXCEPT ![e] = HolderView'[e]]
          /\ StageView' = [StageView EXCEPT ![e] = "waiting"]
      BY <1>3, <2>1, ViewsElsewhere
    <2>5. HolderView' = HolderView
      BY <2>3, <2>4 DEF HolderRight
    <2> QED
      BY <2>1, <2>4, <2>5 DEF Queue!Put, StageView
  <1> QED
    BY <1>6, <1>7

\* A publish moves only the worker, and the passage of time moves instants.
LEMMA StutterStep ==
    ASSUME IInv, HolderRight, HolderRight',
           \/ Tick
           \/ \E w \in Workers : PublishSucceeds(w) \/ PublishFails(w) \/ Start(w)
    PROVE  UNCHANGED Queue!vars
  <1>0. contested' = contested
    BY DEF Tick, PublishSucceeds, PublishFails, Start
  <1> SUFFICES ASSUME NEW f \in Events
               PROVE  /\ event'[f].status = event[f].status
                      /\ event'[f].attempts = event[f].attempts
                      /\ \A w \in Workers : Newest(w, f)' <=> Newest(w, f)
    BY <1>0, SameRow, SameViews
  <1>1. CASE Tick
    <2>1. event'[f].status = event[f].status /\ event'[f].attempts = event[f].attempts
      <3>1. event[f] \in EventRow
        BY DEF IInv, TypeOK
      <3>2. event'[f] = event[f] \/ event'[f] = [event[f] EXCEPT !.available = Shift(@), !.until = Shift(@)]
        BY <1>1 DEF Tick
      <3> QED
        BY <3>1, <3>2 DEF EventRow
    <2>2. ASSUME NEW v \in Workers
          PROVE  run'[v].pc = run[v].pc /\ run'[v].on = run[v].on /\ run'[v].attempt = run[v].attempt
      <3>1. run[v] \in WorkerState
        BY DEF IInv, TypeOK
      <3>2. run'[v] = run[v] \/ run'[v] = [run[v] EXCEPT !.until = Shift(@)]
        BY <1>1 DEF Tick
      <3> QED
        BY <3>1, <3>2 DEF WorkerState
    <2> QED
      BY <2>1, <2>2 DEF Newest, Working
  <1>2. ASSUME NEW w \in Workers, PublishSucceeds(w) \/ PublishFails(w) \/ Start(w)
        PROVE  /\ event'[f].status = event[f].status
               /\ event'[f].attempts = event[f].attempts
               /\ \A v \in Workers : Newest(v, f)' <=> Newest(v, f)
    <2>1. event' = event
      BY <1>2 DEF PublishSucceeds, PublishFails, Start
    <2>2. run \in [Workers -> WorkerState] /\ run[w] \in WorkerState
      BY DEF IInv, TypeOK
    <2>3. \A v \in Workers : v # w => run'[v] = run[v]
      BY <1>2, <2>2 DEF PublishSucceeds, PublishFails, Start, Become
    <2>4. CASE Start(w)
      <3>1. ~Working(w) /\ ~Working(w)'
        BY <2>2, <2>4, RestType DEF Start, Become, Working
      <3> QED
        BY <2>1, <2>3, <3>1 DEF Newest, Working
    <2>5. CASE PublishSucceeds(w) \/ PublishFails(w)
      <3>1. /\ Working(w) /\ Working(w)'
            /\ run'[w].on = run[w].on /\ run'[w].attempt = run[w].attempt
        BY <2>2, <2>5 DEF PublishSucceeds, PublishFails, Become, Working, WorkerState
      <3> QED
        BY <2>1, <2>3, <3>1 DEF Newest, Working
    <2> QED
      BY <1>2, <2>4, <2>5
  <1> QED
    BY <1>1, <1>2

\* The outbox implements the queue with leases, whatever the names of the
\* workers: one worker at a time holds an uncontested event, nobody else gives it
\* back or settles it, and settled is final, of contested events as well.
THEOREM ImplementsQueue == Spec => QueueSpec
  <1>1. Init => Queue!Init
    <2> SUFFICES ASSUME Init PROVE Queue!Init
      OBVIOUS
    <2>1. \A w \in Workers : ~Working(w)
      BY RestType DEF Init, Working
    <2>2. \A e \in Events, w \in Workers : ~Holder(w, e)
      BY <2>1 DEF Init, Holder, Uncontested, Newest
    <2>3. \A e \in Events : Stage(e) = "absent"
      BY DEF Init, NoEvent, Stage, Final, Uncontested
    <2> QED
      BY <2>2, <2>3 DEF Queue!Init, StageView, HolderView
  <1>2. IInv /\ IInv' /\ HolderRight /\ HolderRight' /\ [Next]_vars
        => [Queue!Next]_(Queue!vars)
    <2> SUFFICES ASSUME IInv, IInv', HolderRight, HolderRight', [Next]_vars
                 PROVE  Queue!Next \/ UNCHANGED Queue!vars
      OBVIOUS
    <2>1. ASSUME NEW e \in Events, NEW at \in SoFar \union {Past}, Create(e, at)
          PROVE  Queue!Next \/ UNCHANGED Queue!vars
      BY <2>1, PutStep DEF Queue!Next
    <2>2. ASSUME NEW w \in Workers, Take(w) PROVE Queue!Next \/ UNCHANGED Queue!vars
      BY <2>2, TakeStep DEF Take, Queue!Next
    <2>3. ASSUME NEW w \in Workers, Complete(w) \/ \E at \in SoFar : Fail(w, at)
          PROVE  Queue!Next \/ UNCHANGED Queue!vars
      BY <2>3, EndStep DEF Queue!Next
    <2>4. ASSUME NEW w \in Workers, LeaseLost(w) \/ StatementFails(w) \/ Stop(w)
          PROVE  Queue!Next \/ UNCHANGED Queue!vars
      <3>1. /\ event' = event /\ contested' = contested
            /\ run' = [run EXCEPT ![w] = Idle] \/ run' = [run EXCEPT ![w] = Off]
        BY <2>4 DEF LeaseLost, StatementFails, Stop, Become
      <3> QED
        BY <3>1, LeaveStep DEF Queue!Next
    <2>5. CASE Tick \/ \E w \in Workers : PublishSucceeds(w) \/ PublishFails(w) \/ Start(w)
      BY <2>5, StutterStep
    <2>6. CASE UNCHANGED vars
      <3>1. \A f \in Events, v \in Workers : Newest(v, f)' <=> Newest(v, f)
        BY <2>6 DEF vars, Newest, Working
      <3>2. \A f \in Events :
               Stage(f)' = Stage(f) /\ \A v \in Workers : Holder(v, f)' <=> Holder(v, f)
        BY <2>6, <3>1, SameRow DEF vars
      <3> QED
        BY <3>2, SameViews
    <2> QED
      BY <2>1, <2>2, <2>3, <2>4, <2>5, <2>6 DEF Next, Finish
  <1>3. Spec => []IInv
    BY Inductive
  <1>4. IInv => HolderRight
    BY HolderIsRight
  <1> QED
    BY <1>1, <1>2, <1>3, <1>4, PTL DEF Spec, QueueSpec, Queue!Spec
====
