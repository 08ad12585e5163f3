---- MODULE Lifecycle ----
(***************************************************************************)
(* One process of the server from start to end (cmd/server/main.go): the   *)
(* goroutine of run, that of the outbox worker with its WaitGroup, that of *)
(* ListenAndServe, and the handlers.  run ends them in the order Shutdown, *)
(* cancel, Wait, and closes the store last.                                *)
(*                                                                         *)
(* Statements are single steps, of which only the place in this order      *)
(* matters: what they do is in the other modules.  net/http and            *)
(* database/sql are external and do what run relies on.                    *)
(***************************************************************************)
EXTENDS Naturals

CONSTANTS Handlers,     \* the handlers that may run at once
          Worker        \* the worker, as one who calls the store

ASSUME LifecycleAssumption == Worker \notin Handlers

VARIABLES main,         \* how far run is
          done,         \* ctx is cancelled, by a signal or by run
          listener,     \* what ListenAndServe is doing
          handling,     \* the handlers that are running
          timedOut,     \* Shutdown gave up waiting for handlers
          worker,       \* how far the worker is
          wg,           \* the counter of its WaitGroup
          open,         \* the store is open
          failed        \* those whose statement met a closed store

vars == <<main, done, listener, handling, timedOut, worker, wg, open, failed>>

-----------------------------------------------------------------------------
\* Config, Open, Migrate and bootstrap succeed; the goroutines are started.
StartUp ==
    /\ main = "starting"
    /\ main' = "serving" /\ worker' = "spawned" /\ listener' = "spawned"
    /\ open' = TRUE
    /\ UNCHANGED <<done, handling, timedOut, wg, failed>>

\* One of them fails, be it because ctx was cancelled: run returns.
StartFails ==
    /\ main = "starting"
    /\ main' = "closed"
    /\ UNCHANGED <<done, listener, handling, timedOut, worker, wg, open, failed>>

\* SIGINT or SIGTERM: NotifyContext cancels ctx at once.
Signal ==
    /\ main \notin {"closed", "exited"}
    /\ done' = TRUE
    /\ UNCHANGED <<main, listener, handling, timedOut, worker, wg, open, failed>>

-----------------------------------------------------------------------------
\* ListenAndServe; after Shutdown it returns ErrServerClosed instead.
Listen ==
    /\ listener = "spawned"
    /\ listener' = "listening"
    /\ UNCHANGED <<main, done, handling, timedOut, worker, wg, open, failed>>

\* The address is taken, or Accept fails for good.
ListenFails ==
    /\ listener \in {"spawned", "listening"}
    /\ listener' = "failed"
    /\ UNCHANGED <<main, done, handling, timedOut, worker, wg, open, failed>>

Accept(h) ==
    /\ listener = "listening"
    /\ handling' = handling \union {h}
    /\ UNCHANGED <<main, done, listener, timedOut, worker, wg, open, failed>>

\* A statement of a handler; its context is that of the request, not ctx.
HandlerCalls(h) ==
    /\ h \in handling
    /\ failed' = IF open THEN failed ELSE failed \union {h}
    /\ UNCHANGED <<main, done, listener, handling, timedOut, worker, wg, open>>

HandlerEnds(h) ==
    /\ h \in handling
    /\ handling' = handling \ {h}
    /\ UNCHANGED <<main, done, listener, timedOut, worker, wg, open, failed>>

-----------------------------------------------------------------------------
\* The select of run takes the error of ListenAndServe.
SelectError ==
    /\ main = "serving" /\ listener = "failed"
    /\ main' = "cancel"
    /\ UNCHANGED <<done, listener, handling, timedOut, worker, wg, open, failed>>

\* The select takes ctx.Done, and Shutdown closes the listeners.
BeginShutdown ==
    /\ main = "serving" /\ done
    /\ main' = "shutdown"
    /\ listener' = IF listener = "failed" THEN "failed" ELSE "closed"
    /\ UNCHANGED <<done, handling, timedOut, worker, wg, open, failed>>

\* Mutant: server.Close, which waits for nobody.
ShutdownAtOnce ==
    /\ main = "shutdown"
    /\ main' = "cancel"
    /\ UNCHANGED <<done, listener, handling, timedOut, worker, wg, open, failed>>

\* Shutdown returns once no handler runs.
ShutdownReturns ==
    /\ main = "shutdown" /\ handling = {}
    /\ main' = "cancel"
    /\ UNCHANGED <<done, listener, handling, timedOut, worker, wg, open, failed>>

\* shutdownCtx ends first; the handlers go on.
ShutdownTimesOut ==
    /\ main = "shutdown" /\ handling # {}
    /\ main' = "cancel" /\ timedOut' = TRUE
    /\ UNCHANGED <<done, listener, handling, worker, wg, open, failed>>

\* Mutant: run waits for the worker without having cancelled ctx.
CancelNothing ==
    /\ main = "cancel"
    /\ main' = "wait"
    /\ UNCHANGED <<done, listener, handling, timedOut, worker, wg, open, failed>>

Cancel ==
    /\ main = "cancel"
    /\ main' = "wait" /\ done' = TRUE
    /\ UNCHANGED <<listener, handling, timedOut, worker, wg, open, failed>>

\* Mutant: run does not wait.
WaitNot ==
    /\ main = "wait"
    /\ main' = "close"
    /\ UNCHANGED <<done, listener, handling, timedOut, worker, wg, open, failed>>

\* outbox.Wait returns: also when the worker has not come to wg.Add yet.
Wait ==
    /\ main = "wait" /\ wg = 0
    /\ main' = "close"
    /\ UNCHANGED <<done, listener, handling, timedOut, worker, wg, open, failed>>

\* The deferred store.Close; until main returns the other goroutines still run.
Close ==
    /\ main = "close"
    /\ main' = "closed" /\ open' = FALSE
    /\ UNCHANGED <<done, listener, handling, timedOut, worker, wg, failed>>

\* The process ends, with everything in it.
Exit ==
    /\ main = "closed"
    /\ main' = "exited" /\ listener' = "off" /\ handling' = {} /\ worker' = "off" /\ wg' = 0
    /\ UNCHANGED <<done, timedOut, open, failed>>

\* The container is started again.
Restart ==
    /\ main = "exited"
    /\ main' = "starting" /\ done' = FALSE /\ timedOut' = FALSE /\ failed' = {}
    /\ UNCHANGED <<listener, handling, worker, wg, open>>

-----------------------------------------------------------------------------
\* Mutant: wg.Add is forgotten.
RegisterUncounted ==
    /\ worker = "spawned"
    /\ worker' = "idle"
    /\ UNCHANGED <<main, done, listener, handling, timedOut, wg, open, failed>>

\* wg.Add(1), which is the first thing the goroutine does.
Register ==
    /\ worker = "spawned"
    /\ worker' = "idle" /\ wg' = wg + 1
    /\ UNCHANGED <<main, done, listener, handling, timedOut, open, failed>>

\* The select of Run takes ctx.Done, and the deferred wg.Done follows.
WorkerReturns ==
    /\ worker = "idle" /\ done
    /\ worker' = "returned" /\ wg' = wg - 1
    /\ UNCHANGED <<main, done, listener, handling, timedOut, open, failed>>

\* The select takes the ticker, which it may do although ctx is cancelled.
WorkerTicks ==
    /\ worker = "idle"
    /\ worker' = "draining"
    /\ UNCHANGED <<main, done, listener, handling, timedOut, wg, open, failed>>

\* Mutant: drain does not look at ctx.
DrainRegardless ==
    /\ worker = "draining"
    /\ worker' = "claiming"
    /\ UNCHANGED <<main, done, listener, handling, timedOut, wg, open, failed>>

\* ctx.Err() at the top of the loop of drain, and the end of its 20 rounds.
DrainGoesOn ==
    /\ worker = "draining" /\ ~done
    /\ worker' = "claiming"
    /\ UNCHANGED <<main, done, listener, handling, timedOut, wg, open, failed>>

DrainEnds ==
    /\ worker = "draining"
    /\ worker' = "idle"
    /\ UNCHANGED <<main, done, listener, handling, timedOut, wg, open, failed>>

\* ClaimOutbox returns an event or an error, for instance that ctx is cancelled.
WorkerClaims ==
    /\ worker = "claiming"
    /\ worker' \in {"publishing", "idle"}
    /\ failed' = IF open THEN failed ELSE failed \union {Worker}
    /\ UNCHANGED <<main, done, listener, handling, timedOut, wg, open>>

\* Publish, then CompleteOutbox or FailOutbox.
WorkerReports ==
    /\ worker = "publishing"
    /\ worker' = "draining"
    /\ failed' = IF open THEN failed ELSE failed \union {Worker}
    /\ UNCHANGED <<main, done, listener, handling, timedOut, wg, open>>

-----------------------------------------------------------------------------
Init == /\ main = "starting" /\ done = FALSE
        /\ listener = "off" /\ handling = {} /\ timedOut = FALSE
        /\ worker = "off" /\ wg = 0
        /\ open = FALSE /\ failed = {}

Run == \/ StartUp \/ StartFails \/ SelectError \/ BeginShutdown
       \/ ShutdownReturns \/ ShutdownTimesOut \/ Cancel \/ Wait \/ Close \/ Exit

Work == \/ Register \/ WorkerReturns \/ DrainGoesOn \/ DrainEnds
        \/ WorkerClaims \/ WorkerReports

Next == \/ Run \/ Work \/ WorkerTicks
        \/ Signal \/ Restart
        \/ Listen \/ ListenFails
        \/ \E h \in Handlers : Accept(h) \/ HandlerCalls(h) \/ HandlerEnds(h)

Spec == Init /\ [][Next]_vars

\* Goroutines are scheduled, shutdownCtx has a timer, and select chooses at
\* random among what is ready, so ctx.Done is not passed over for ever.  Nothing
\* is assumed of handlers.
FairSpec == Spec /\ WF_vars(Run) /\ WF_vars(Work) /\ SF_vars(WorkerReturns)

-----------------------------------------------------------------------------
\* Every variable has its type; the WaitGroup counts the registered worker.
TypeOK ==
    /\ main \in {"starting", "serving", "shutdown", "cancel", "wait", "close", "closed", "exited"}
    /\ done \in BOOLEAN /\ timedOut \in BOOLEAN /\ open \in BOOLEAN
    /\ listener \in {"off", "spawned", "listening", "closed", "failed"}
    /\ handling \in SUBSET Handlers
    /\ worker \in {"off", "spawned", "idle", "draining", "claiming", "publishing", "returned"}
    /\ wg = IF worker \in {"idle", "draining", "claiming", "publishing"} THEN 1 ELSE 0
    /\ failed \in SUBSET (Handlers \union {Worker})

\* The worker never makes a statement on a closed store, not even when Wait
\* passed before the worker had registered with its WaitGroup.
WorkerHasStore == Worker \notin failed

\* A handler meets a closed store only if Shutdown ran out of time, or if the
\* server could not listen any longer ("performs graceful shutdown on SIGINT or
\* SIGTERM", README.md:58).
HandlersHaveStore ==
    [][\A h \in Handlers :
         (h \notin failed /\ h \in failed') => timedOut \/ listener = "failed"]_vars

\* The inductive invariant: ctx is cancelled before run waits, and when the wait
\* is over the worker has nothing left to do but to notice.
IInv ==
    /\ TypeOK
    /\ WorkerHasStore
    /\ main \in {"serving", "shutdown", "cancel", "wait", "close"} <=> open
    /\ main \in {"starting", "exited"} => listener = "off" /\ worker = "off" /\ handling = {}
    /\ main \in {"shutdown", "wait", "close"} => done
    /\ main = "close" \/ ~open => worker \notin {"claiming", "publishing"}
    /\ ~open /\ worker # "off" => done
    /\ main \in {"cancel", "wait", "close", "closed"} =>
          \/ timedOut \/ listener = "failed"
          \/ handling = {} /\ listener \in {"closed", "off"}
    /\ main = "shutdown" => listener \in {"closed", "failed"}

\* Liveness: once a signal has come or the server has failed, the process ends,
\* whatever handlers and events there are.
Stops == (done \/ listener = "failed") ~> main = "exited"
====
