---- MODULE Lifecycle_proofs ----
(***************************************************************************)
(* Proofs about Lifecycle, for any number of handlers.                     *)
(***************************************************************************)
EXTENDS Lifecycle, TLAPS

\* Before the start nothing is open and nothing runs.
LEMMA InitIInv == Init => IInv
  BY DEF Init, IInv, TypeOK, WorkerHasStore

\* The steps of run keep the invariant.
LEMMA RunInv == ASSUME IInv, Run PROVE IInv'
  <1> USE DEF IInv, TypeOK, WorkerHasStore
  <1>1. CASE StartUp
    BY <1>1 DEF StartUp
  <1>2. CASE StartFails
    BY <1>2 DEF StartFails
  <1>3. CASE SelectError
    BY <1>3 DEF SelectError
  <1>4. CASE BeginShutdown
    BY <1>4 DEF BeginShutdown
  <1>5. CASE ShutdownReturns
    BY <1>5 DEF ShutdownReturns
  <1>6. CASE ShutdownTimesOut
    BY <1>6 DEF ShutdownTimesOut
  <1>7. CASE Cancel
    BY <1>7 DEF Cancel
  <1>8. CASE Wait
    BY <1>8 DEF Wait
  <1>9. CASE Close
    BY <1>9 DEF Close
  <1>10. CASE Exit
    BY <1>10 DEF Exit
  <1> QED
    BY <1>1, <1>2, <1>3, <1>4, <1>5, <1>6, <1>7, <1>8, <1>9, <1>10 DEF Run

\* The steps of the worker keep it.
LEMMA WorkInv == ASSUME IInv, Work \/ WorkerTicks PROVE IInv'
  <1> USE DEF IInv, TypeOK, WorkerHasStore
  <1>1. CASE Register
    BY <1>1 DEF Register
  <1>2. CASE WorkerReturns
    BY <1>2 DEF WorkerReturns
  <1>3. CASE WorkerTicks
    BY <1>3 DEF WorkerTicks
  <1>4. CASE DrainGoesOn
    BY <1>4 DEF DrainGoesOn
  <1>5. CASE DrainEnds
    BY <1>5 DEF DrainEnds
  <1>6. CASE WorkerClaims
    BY <1>6 DEF WorkerClaims
  <1>7. CASE WorkerReports
    BY <1>7 DEF WorkerReports
  <1> QED
    BY <1>1, <1>2, <1>3, <1>4, <1>5, <1>6, <1>7 DEF Work

\* So do the listener, the handlers, signals and restarts.
LEMMA RestInv ==
    ASSUME IInv,
           \/ Signal \/ Restart \/ Listen \/ ListenFails
           \/ \E h \in Handlers : Accept(h) \/ HandlerCalls(h) \/ HandlerEnds(h)
    PROVE  IInv'
  <1> USE DEF IInv, TypeOK, WorkerHasStore
  <1>1. CASE Signal
    BY <1>1 DEF Signal
  <1>2. CASE Restart
    BY <1>2 DEF Restart
  <1>3. CASE Listen
    BY <1>3 DEF Listen
  <1>4. CASE ListenFails
    BY <1>4 DEF ListenFails
  <1>5. ASSUME NEW h \in Handlers, Accept(h) PROVE IInv'
    BY <1>5 DEF Accept
  <1>6. ASSUME NEW h \in Handlers, HandlerCalls(h) PROVE IInv'
    BY <1>6, LifecycleAssumption DEF HandlerCalls
  <1>7. ASSUME NEW h \in Handlers, HandlerEnds(h) PROVE IInv'
    BY <1>7 DEF HandlerEnds
  <1> QED
    BY <1>1, <1>2, <1>3, <1>4, <1>5, <1>6, <1>7

\* ctx is cancelled before the wait and the worker looks at it before it claims:
\* the inductive invariant of every behaviour.
THEOREM Inductive == Spec => []IInv
  <1>1. IInv /\ [Next]_vars => IInv'
    <2> SUFFICES ASSUME IInv, [Next]_vars PROVE IInv'
      OBVIOUS
    <2>1. CASE UNCHANGED vars
      BY <2>1 DEF vars, IInv, TypeOK, WorkerHasStore
    <2> QED
      BY <2>1, RunInv, WorkInv, RestInv DEF Next
  <1> QED
    BY <1>1, InitIInv, PTL DEF Spec

\* Every variable has its type; the WaitGroup counts the registered worker.
THEOREM TypeCorrect == Spec => []TypeOK
  <1>1. IInv => TypeOK
    BY DEF IInv
  <1> QED
    BY <1>1, Inductive, PTL

\* The worker never meets a closed store, although Wait may pass before it has
\* registered.
THEOREM StoreOutlivesWorker == Spec => []WorkerHasStore
  <1>1. IInv => WorkerHasStore
    BY DEF IInv
  <1> QED
    BY <1>1, Inductive, PTL

\* A handler meets a closed store only after Shutdown's time ran out, or after
\* the server could not listen any longer.
THEOREM StoreOutlivesHandlers == Spec => HandlersHaveStore
  <1> DEFINE Step == \A h \in Handlers :
         (h \notin failed /\ h \in failed') => timedOut \/ listener = "failed"
  <1>1. IInv /\ [Next]_vars => [Step]_vars
    <2> SUFFICES ASSUME IInv, Next, NEW h \in Handlers, h \notin failed, h \in failed'
                 PROVE  timedOut \/ listener = "failed"
      OBVIOUS
    <2>1. \/ WorkerClaims \/ WorkerReports
          \/ \E g \in Handlers : HandlerCalls(g)
      BY DEF Next, Run, Work, StartUp, StartFails, SelectError, BeginShutdown, ShutdownReturns,
             ShutdownTimesOut, Cancel, Wait, Close, Exit, Register, WorkerReturns, WorkerTicks,
             DrainGoesOn, DrainEnds, Signal, Restart, Listen, ListenFails, Accept, HandlerEnds
    <2>2. ~open /\ h \in handling
      BY <2>1, LifecycleAssumption DEF WorkerClaims, WorkerReports, HandlerCalls
    <2>3. main \in {"starting", "closed", "exited"}
      BY <2>2 DEF IInv, TypeOK
    <2>4. PICK g \in Handlers : HandlerCalls(g)
      BY <2>1, <2>2, LifecycleAssumption DEF WorkerClaims, WorkerReports
    <2> QED
      BY <2>2, <2>3 DEF IInv, TypeOK
  <1> QED
    BY <1>1, Inductive, PTL DEF Spec, HandlersHaveStore
====
