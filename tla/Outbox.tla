---- MODULE Outbox ----
(***************************************************************************)
(* The outbox worker (worker/outbox.go) over the rows of outbox_events     *)
(* (storage/sqlite/events.go): several servers claim events under a lease, *)
(* publish them, and complete or fail them.  Every statement of the store  *)
(* is a transaction of its own, so a step is one statement; the publisher  *)
(* and the ends of a process come in between.                              *)
(*                                                                         *)
(* Time has no last instant: it is relative to the current second (see     *)
(* TextTime), and nothing compares two instants of seconds before it.      *)
(***************************************************************************)
EXTENDS TextTime, Integers, FiniteSets

CONSTANTS Events,       \* the identifiers of events
          Workers,      \* the worker goroutines of all servers
          OwnerOf,      \* the owner name a worker was built with
          None,         \* no event, no owner
          Lease,        \* WORKER_LEASE, in ticks
          MaxAttempts,  \* maxAttempts of NewOutbox: 5
          MaxDelay,     \* the longest backoff, in seconds: 60
          ClaimBound,   \* bound: claims of one event that are looked at
          MaxFaults     \* bound: stopped workers and failed statements

ASSUME OutboxAssumption ==
    /\ None \notin Events /\ None \notin Workers
    /\ \A w \in Workers : OwnerOf[w] # None
    /\ Lease \in Nat \ {0} /\ MaxAttempts \in Nat \ {0} /\ MaxDelay \in Nat
    /\ ClaimBound \in Nat /\ MaxFaults \in Nat
    /\ \A n \in 0..ClaimBound : 2 ^ n \in Nat   \* arithmetic the provers do not know

VARIABLES event,        \* event[e]: the row of e
          run,          \* run[w]: what worker w is doing
          published,    \* events some publish succeeded for
          now,          \* the clock
          faults,       \* faults so far
          contested     \* history: the first worker that claimed e while another
                        \* one of the same owner name was at work on it, or None

vars == <<event, run, published, now, faults, contested>>

-----------------------------------------------------------------------------
\* The instants of the current second that have come.
SoFar == {t \in Current : t <= now}

NoEvent == [status |-> "absent", attempts |-> 0, available |-> Past,
            owner |-> None, until |-> Past]

Idle == [pc |-> "idle", on |-> None, attempt |-> 0, until |-> Past]
Off  == [Idle EXCEPT !.pc = "off"]

Working(w) == run[w].pc \in {"publishing", "completing", "failing"}

\* The others at work on e that its owner column cannot tell from w.
Namesakes(w, e) ==
    {v \in Workers \ {w} : Working(v) /\ run[v].on = e /\ OwnerOf[v] = OwnerOf[w]}

\* Since e was created, its owner column has always told its claims apart.
Uncontested(e) == contested[e] = None

Become(w, state) == run' = [run EXCEPT ![w] = state]

\* backoff, in seconds.
Backoff(attempt) ==
    LET seconds == IF attempt < 1 THEN 1 ELSE 2 ^ (attempt - 1)
    IN  IF seconds > MaxDelay THEN MaxDelay ELSE seconds

\* Mutant: the lease of a claimed event is not looked at.
ClaimableAlways(row, at) ==
    TextLeq(row.available, at) /\ row.status \in {"pending", "claimed"}

\* Mutant: a claim whose lease ran out is not taken over.
ClaimablePending(row, at) == TextLeq(row.available, at) /\ row.status = "pending"

\* The condition of the subquery of claimOutbox.
Claimable(row, at) ==
    /\ TextLeq(row.available, at)
    /\ \/ row.status = "pending"
       \/ row.status = "claimed" /\ TextLess(row.until, at)

\* The events a claim chooses from, as far as their claims are looked at.
Open(at) == {e \in Events : event[e].attempts < ClaimBound /\ Claimable(event[e], at)}

\* Mutant: a status the schema does not know.
FailedUnknown(row, remaining, next) ==
    [row EXCEPT !.status = IF remaining <= 0 THEN "failed" ELSE "pending",
                !.available = next, !.owner = None, !.until = Past]

\* Mutant: the last attempt of the budget is not made.
FailedEarly(row, remaining, next) ==
    [row EXCEPT !.status = IF remaining <= 1 THEN "dead" ELSE "pending",
                !.available = next, !.owner = None, !.until = Past]

\* The row failOutbox writes.
Failed(row, remaining, next) ==
    [row EXCEPT !.status = IF remaining <= 0 THEN "dead" ELSE "pending",
                !.available = next, !.owner = None, !.until = Past]

\* The row completeOutbox writes.
Completed(row) == [row EXCEPT !.status = "delivered", !.owner = None, !.until = Past]

\* Mutant: the UPDATE does not compare the owner.
HoldsAny(w) == event[run[w].on].status = "claimed"

\* The condition of the UPDATEs of completeOutbox and failOutbox.
Holds(w) == /\ event[run[w].on].owner = OwnerOf[w]
            /\ event[run[w].on].status = "claimed"

-----------------------------------------------------------------------------
\* createOutbox, in a transaction of a service that took the time before.
Create(e, at) ==
    /\ event[e].status = "absent"
    /\ event' = [event EXCEPT ![e] = [NoEvent EXCEPT !.status = "pending", !.available = at]]
    /\ UNCHANGED <<run, published, now, faults, contested>>

\* ClaimOutbox with the time drain took just before, in the same second; of
\* the claimable events one with the least available_at.
Claim(w, e, at) ==
    /\ run[w].pc = "idle"
    /\ e \in Open(at)
    /\ \A f \in Open(at) : ~TextLess(event[f].available, event[e].available)
    /\ event' = [event EXCEPT ![e].status = "claimed", ![e].owner = OwnerOf[w],
                              ![e].until = at + Lease, ![e].attempts = @ + 1]
    /\ Become(w, [pc |-> "publishing", on |-> e, attempt |-> event[e].attempts + 1,
                  until |-> at + Lease])
    /\ contested' = IF Uncontested(e) /\ Namesakes(w, e) # {}
                    THEN [contested EXCEPT ![e] = w] ELSE contested
    /\ UNCHANGED <<published, now, faults>>

\* The publisher returns no error, or an error.
PublishSucceeds(w) ==
    /\ run[w].pc = "publishing"
    /\ published' = published \union {run[w].on}
    /\ Become(w, [run[w] EXCEPT !.pc = "completing"])
    /\ UNCHANGED <<event, now, faults, contested>>

PublishFails(w) ==
    /\ run[w].pc = "publishing"
    /\ Become(w, [run[w] EXCEPT !.pc = "failing"])
    /\ UNCHANGED <<event, published, now, faults, contested>>

Complete(w) ==
    /\ run[w].pc = "completing"
    /\ Holds(w)
    /\ event' = [event EXCEPT ![run[w].on] = Completed(@)]
    /\ Become(w, Idle)
    /\ UNCHANGED <<published, now, faults, contested>>

\* Mutant: the budget is compared one attempt late.
FailLate(w, at) ==
    /\ run[w].pc = "failing"
    /\ Holds(w)
    /\ event' = [event EXCEPT ![run[w].on] =
          Failed(@, MaxAttempts + 1 - run[w].attempt,
                 at + Backoff(run[w].attempt) * TicksPerSecond)]
    /\ Become(w, Idle)
    /\ UNCHANGED <<published, now, faults, contested>>

\* FailOutbox: what remains is computed from the attempts the claim returned.
Fail(w, at) ==
    /\ run[w].pc = "failing"
    /\ Holds(w)
    /\ event' = [event EXCEPT ![run[w].on] =
          Failed(@, MaxAttempts - run[w].attempt,
                 at + Backoff(run[w].attempt) * TicksPerSecond)]
    /\ Become(w, Idle)
    /\ UNCHANGED <<published, now, faults, contested>>

\* requireAffected: the event is no longer this owner's, which is logged.
LeaseLost(w) ==
    /\ run[w].pc \in {"completing", "failing"}
    /\ ~Holds(w)
    /\ Become(w, Idle)
    /\ UNCHANGED <<event, published, now, faults, contested>>

\* CompleteOutbox or FailOutbox fails (database busy), which is logged: the row
\* stays claimed.
StatementFails(w) ==
    /\ run[w].pc \in {"completing", "failing"}
    /\ faults < MaxFaults
    /\ faults' = faults + 1
    /\ Become(w, Idle)
    /\ UNCHANGED <<event, published, now, contested>>

\* The server crashes, or its context is cancelled, after which neither the
\* publisher nor the store does anything for the worker.
Stop(w) ==
    /\ run[w].pc # "off"
    /\ faults < MaxFaults
    /\ faults' = faults + 1
    /\ Become(w, Off)
    /\ UNCHANGED <<event, published, now, contested>>

Start(w) ==
    /\ run[w].pc = "off"
    /\ Become(w, Idle)
    /\ UNCHANGED <<event, published, now, faults, contested>>

Tick ==
    /\ IF now + 1 \in Current
       THEN now' = now + 1 /\ UNCHANGED <<event, run>>
       ELSE /\ now' = TicksPerSecond
            /\ event' = [e \in Events |-> [event[e] EXCEPT !.available = Shift(@), !.until = Shift(@)]]
            /\ run' = [w \in Workers |-> [run[w] EXCEPT !.until = Shift(@)]]
    /\ UNCHANGED <<published, faults, contested>>

-----------------------------------------------------------------------------
Init == /\ event = [e \in Events |-> NoEvent]
        /\ run = [w \in Workers |-> Off]
        /\ published = {}
        /\ now = TicksPerSecond
        /\ faults = 0
        /\ contested = [e \in Events |-> None]

Take(w) == \E e \in Events, at \in SoFar : Claim(w, e, at)

Finish(w) == \/ PublishSucceeds(w) \/ PublishFails(w)
             \/ Complete(w) \/ LeaseLost(w)
             \/ \E at \in SoFar : Fail(w, at)

Next == \/ Tick
        \/ \E e \in Events, at \in SoFar \union {Past} : Create(e, at)
        \/ \E w \in Workers :
              Take(w) \/ Finish(w) \/ StatementFails(w) \/ Stop(w) \/ Start(w)

Spec == Init /\ [][Next]_vars

\* The clock does not outrun a publish: a worker is through with its event
\* before the second in which the lease it took for it lapses.
Prompt == Tick => \A w \in Workers : Working(w) => Second(now + 1) < Second(run[w].until)

\* The behaviours of which this is always true.
PromptSpec == Init /\ [][Next /\ Prompt]_vars

\* Go schedules a worker that can go on, servers are restarted, time passes.
FairSpec == /\ Spec
            /\ WF_vars(Tick)
            /\ \A w \in Workers : WF_vars(Take(w)) /\ WF_vars(Finish(w)) /\ WF_vars(Start(w))

-----------------------------------------------------------------------------
EventRow == [status : {"absent", "pending", "claimed", "delivered", "dead"},
             attempts : Nat, available : Nat, until : Nat,
             owner : {OwnerOf[w] : w \in Workers} \union {None}]
WorkerState == [pc : {"off", "idle", "publishing", "completing", "failing"},
                on : Events \union {None}, attempt : Nat, until : Nat]

\* Every variable has its type; only a worker with an event works.
TypeOK == /\ event \in [Events -> EventRow]
          /\ run \in [Workers -> WorkerState]
          /\ \A w \in Workers : Working(w) => run[w].on \in Events
          /\ published \in SUBSET Events
          /\ now \in Current
          /\ faults \in Nat
          /\ contested \in [Events -> Workers \union {None}]

\* Nobody is robbed of an event in a second that lies before the end of its
\* lease: when an event is claimed on which another worker is still at work, the
\* lease of that worker has lapsed, at least in the second that is running.  The
\* names do not matter here, but for an event contested before nothing is sure.
LeaseExclusive ==
    [][\A e \in Events, v \in Workers :
         (event'[e].attempts > event[e].attempts /\ Uncontested(e) /\ Working(v) /\ run[v].on = e)
         => run[v].until < 2 * TicksPerSecond]_vars

\* No event goes back to the queue once its budget is spent (README.md:20).
BudgetRespected ==
    \A e \in Events : event[e].status = "pending" => event[e].attempts < MaxAttempts

\* Whoever reports the failure, and whatever became of earlier claims: unless a
\* claim was made that the owner column cannot tell from an older one at work.
BudgetKept ==
    \A e \in Events : (event[e].status = "pending" /\ Uncontested(e)) => event[e].attempts < MaxAttempts

\* An event is given up only after its whole budget, and is delivered only if
\* it was published, whatever the names of the workers.
Outcome ==
    \A e \in Events : /\ event[e].status = "dead" => event[e].attempts >= MaxAttempts
                      /\ event[e].status = "delivered" => e \in published

\* The inductive invariant.  A worker knows no claim newer than its own; while
\* its event is uncontested, one that holds it knows the row as it is, and for
\* any other the row went on after the lease had lapsed.
ClaimInv(w) ==
    Working(w) =>
        /\ run[w].attempt \in 1..ClaimBound
        /\ event[run[w].on].status # "absent"
        /\ run[w].pc = "completing" => run[w].on \in published
        /\ run[w].attempt <= event[run[w].on].attempts
        /\ (Uncontested(run[w].on) /\ Holds(w)) =>
              /\ run[w].attempt = event[run[w].on].attempts
              /\ run[w].until = event[run[w].on].until
        /\ (Uncontested(run[w].on) /\ ~Holds(w)) =>
              /\ run[w].attempt < event[run[w].on].attempts
              /\ run[w].until < 2 * TicksPerSecond

\* Workers at work on an uncontested event differ in their names.
NamesakesApart ==
    \A v, w \in Workers :
        (/\ Working(v) /\ Working(w) /\ run[v].on = run[w].on
         /\ Uncontested(run[w].on) /\ OwnerOf[v] = OwnerOf[w]) => v = w

IInv == /\ TypeOK
        /\ \A w \in Workers : ClaimInv(w)
        /\ NamesakesApart
        /\ BudgetKept
        /\ Outcome

\* Fencing: only the worker of the newest claim takes a row out of "claimed"; a
\* worker that lost its event, resumed late or restarted changes nothing, as
\* long as the owner column tells its claims apart.
Fencing ==
    [][\A e \in Events :
         (event[e].status = "claimed" /\ event'[e].status # "claimed" /\ Uncontested(e)) =>
            \E w \in Workers : /\ Working(w) /\ run'[w] = Idle
                               /\ run[w].on = e
                               /\ run[w].attempt = event[e].attempts]_vars

\* A claimed event is claimed again only when its lease has run out, to the
\* instant ("shipment and outbox claims have an owner and expiring lease",
\* README.md:70).
LeaseHonoured ==
    [][\A e \in Events :
         (event[e].status = "claimed" /\ event'[e].attempts > event[e].attempts) =>
            event[e].until <= now]_vars

\* Liveness: if workers are prompt from some time on, an event that is in the
\* outbox is delivered or given up, however often publishing fails, servers stop
\* and claims are contested before; or it reaches the bound of this model.
EventSettled ==
    (<>[][Prompt]_vars) =>
        \A e \in Events : event[e].status = "pending" ~>
            (event[e].status \in {"delivered", "dead"} \/ event[e].attempts = ClaimBound)

-----------------------------------------------------------------------------
\* Refinement.  The holder of an event is the worker of its newest claim, while
\* it still works.  Once an event is contested it is in the hands of the worker
\* that contested it until it is settled: the queue promises nothing else of it.
Newest(w, e) == /\ Working(w) /\ run[w].on = e
                /\ event[e].status = "claimed"
                /\ run[w].attempt = event[e].attempts

Final(e) == event[e].status \in {"delivered", "dead"}

Holder(w, e) == IF Uncontested(e) THEN Newest(w, e) ELSE contested[e] = w /\ ~Final(e)

Stage(e) == CASE Final(e)                                  -> "settled"
              [] event[e].status = "absent" /\ Uncontested(e)  -> "absent"
              [] event[e].status = "pending" /\ Uncontested(e) -> "waiting"
              [] OTHER                                     -> "held"

StageView == [e \in Events |-> Stage(e)]

HolderView == [e \in Events |->
    IF \E w \in Workers : Holder(w, e) THEN CHOOSE w \in Workers : Holder(w, e)
                                       ELSE None]

Queue == INSTANCE LeaseQueue WITH Items <- Events, Holders <- Workers,
                                  stage <- StageView, holder <- HolderView

\* The rows behave like a queue in which one worker at a time holds an event and
\* nobody else gives it back or settles it; delivered and dead are final, of
\* contested events too.
QueueSpec == Queue!Spec
====
