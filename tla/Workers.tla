------------------------------- MODULE Workers -------------------------------
(***************************************************************************)
(* Registry.Worker and the ManagedSubscriber lifecycle of an App           *)
(* (registerBusLifecycle): the start hooks, the goroutines of the workers, *)
(* the trigger of a shutdown and the stop hooks, each run in a goroutine   *)
(* of its own and abandoned when the budget runs out.                      *)
(*                                                                         *)
(* A bus is a worker "consume" whose context is cancelled by a stop hook   *)
(* instead of with the others, between Drain and the wait for it; Connect  *)
(* and Close are hooks of the infrastructure stage.                        *)
(*                                                                         *)
(* An operator whose name begins with that of the definition after it is a *)
(* faulty variant of it, against which a property is tested.               *)
(***************************************************************************)
EXTENDS Naturals, Sequences, SequencesExt

CONSTANTS ModuleWorkers   \* the workers modules registered, a sequence

(* Workers have names of their own. *)
ASSUME WorkersAssumption ==
  /\ ModuleWorkers \in Seq(ToSet(ModuleWorkers))
  /\ \A i, j \in 1..Len(ModuleWorkers) : ModuleWorkers[i] = ModuleWorkers[j] => i = j
  /\ ToSet(ModuleWorkers) \cap {"consume", "connect", "listen", "close", "cancel", "drain", "context", "empty"} = {}

VARIABLES
  app,     \* phase, hook, stage reached, contexts, budget, errors
  wk,      \* per worker: running or ended, its result, what became of it
  exitCh,  \* runtime.workerErr, buffered by one
  busAt,   \* which calls on the bus were made: Connect, Drain (and returned), Close
  hooks    \* goroutines of stop hooks: "idle", "running" or a result

workersVars == <<app, wk, exitCh, busAt, hooks>>

WorkerNames == ToSet(ModuleWorkers) \cup {"consume"}

(* Modules register before the bus; hooks run by stage, then in order. *)
Starts == <<"connect">> \o ModuleWorkers \o <<"consume", "listen">>

StopHooks == WorkerNames \cup {"close", "cancel", "drain"}

StageOf(h) ==
  CASE h \in {"connect", "close"} -> 1
    [] h \in WorkerNames \cup {"cancel", "drain"} -> 2
    [] h = "listen" -> 3

(* OnStop hooks as registered, by stage; they run in reverse.               *)
RegisteredStops(stage) ==
  IF stage = 1 THEN <<"close">> ELSE ModuleWorkers \o <<"consume", "cancel", "drain">>

Stops == Reverse(RegisteredStops(2)) \o Reverse(RegisteredStops(1))

WorkersInit ==
  /\ app = [phase |-> "starting", hook |-> 1, maxStage |-> 0, runCtx |-> TRUE, busCtx |-> TRUE,
            expired |-> FALSE, errors |-> {}]
  /\ wk = [w \in WorkerNames |-> [state |-> "idle", res |-> "none", done |-> FALSE, exit |-> "none"]]
  /\ exitCh = "empty"
  /\ busAt = [connect |-> FALSE, drained |-> FALSE, close |-> FALSE]
  /\ hooks = [h \in StopHooks |-> "idle"]

-----------------------------------------------------------------------------
(* startHooks, up to the first failure or the end of the context. *)
StartHook ==
  /\ app.phase = "starting" /\ app.hook <= Len(Starts) /\ app.runCtx
  /\ LET h == Starts[app.hook]
         begun == [app EXCEPT !.maxStage = StageOf(h)]
     IN \/ /\ app' = [begun EXCEPT !.hook = @ + 1]
           /\ wk' = IF h \in WorkerNames THEN [wk EXCEPT ![h].state = "running"] ELSE wk
        \/ /\ h \in {"connect", "listen"}
           /\ app' = [begun EXCEPT !.phase = "stopping", !.hook = 1, !.runCtx = FALSE,
                                   !.errors = {h}]
           /\ UNCHANGED wk
  /\ busAt' = [busAt EXCEPT !.connect = @ \/ Starts[app.hook] = "connect"]
  /\ UNCHANGED <<exitCh, hooks>>

StartCancelled ==
  /\ app.phase = "starting" /\ app.hook <= Len(Starts) /\ ~app.runCtx
  /\ app' = [app EXCEPT !.phase = "stopping", !.hook = 1, !.errors = {"context"}]
  /\ UNCHANGED <<wk, exitCh, busAt, hooks>>

Running ==
  /\ app.phase = "starting" /\ app.hook > Len(Starts)
  /\ app' = [app EXCEPT !.phase = "running"]
  /\ UNCHANGED <<wk, exitCh, busAt, hooks>>

(* The caller's context ends, with it the one of the hooks and workers. *)
ContextCancelled ==
  /\ app.runCtx /\ app' = [app EXCEPT !.runCtx = FALSE]
  /\ UNCHANGED <<wk, exitCh, busAt, hooks>>

-----------------------------------------------------------------------------
(* The goroutine of a worker: run returns, its result goes to done ... *)
WorkerEnds(w, res) ==
  /\ wk[w].state = "running"
  /\ res = "canceled" => ~(IF w = "consume" THEN app.busCtx ELSE app.runCtx)
  /\ wk' = [wk EXCEPT ![w] = [state |-> "ended", res |-> res, done |-> TRUE,
                              exit |-> IF res = "error" THEN "pending" ELSE "none"]]
  /\ UNCHANGED <<app, exitCh, busAt, hooks>>

WorkerReportsAfterStop(w) ==
  /\ wk[w].exit = "pending" /\ ~wk[w].done
  /\ wk' = [wk EXCEPT ![w].exit = "none"]
  /\ exitCh' = IF app.runCtx /\ exitCh = "empty" THEN w ELSE exitCh
  /\ UNCHANGED <<app, busAt, hooks>>

(* ... and a failure, unless a shutdown is on, to the main loop; a second   *)
(* one is left to the stop hook.                                            *)
WorkerReports(w) ==
  /\ wk[w].exit = "pending"
  /\ wk' = [wk EXCEPT ![w].exit = "none"]
  /\ exitCh' = IF app.runCtx /\ exitCh = "empty" THEN w ELSE exitCh
  /\ UNCHANGED <<app, busAt, hooks>>

(* The select of runHost, and the start of shutdown: cancelRun. *)
Trigger ==
  /\ app.phase = "running"
  /\ \/ ~app.runCtx /\ UNCHANGED exitCh
        /\ app' = [app EXCEPT !.phase = "stopping", !.hook = 1]
     \/ exitCh # "empty" /\ exitCh' = "empty"
        /\ app' = [app EXCEPT !.phase = "stopping", !.hook = 1, !.runCtx = FALSE,
                              !.errors = {exitCh}]
  /\ UNCHANGED <<wk, busAt, hooks>>

-----------------------------------------------------------------------------
(* Stop hooks, in order; those of stages that never began are skipped. *)
CurrentStop == Stops[app.hook]
Stopping == app.phase = "stopping" /\ app.hook <= Len(Stops)

StopSkipped ==
  /\ Stopping /\ StageOf(CurrentStop) > app.maxStage
  /\ app' = [app EXCEPT !.hook = @ + 1]
  /\ UNCHANGED <<wk, exitCh, busAt, hooks>>

StopBegins ==
  /\ Stopping /\ StageOf(CurrentStop) <= app.maxStage /\ hooks[CurrentStop] = "idle"
  /\ hooks' = [hooks EXCEPT ![CurrentStop] = "running"]
  /\ UNCHANGED <<app, wk, exitCh, busAt>>

StopReturned ==
  /\ Stopping /\ hooks[CurrentStop] \in {"ok", "error"}
  /\ app' = [app EXCEPT !.hook = @ + 1,
                        !.errors = IF hooks[CurrentStop] = "ok" THEN @ ELSE @ \cup {CurrentStop}]
  /\ UNCHANGED <<wk, exitCh, busAt, hooks>>

(* runStop gives up; the goroutine of the hook goes on. *)
StopAbandoned ==
  /\ Stopping /\ hooks[CurrentStop] # "idle" /\ app.expired
  /\ app' = [app EXCEPT !.hook = @ + 1, !.errors = @ \cup {CurrentStop}]
  /\ UNCHANGED <<wk, exitCh, busAt, hooks>>

BudgetExpires ==
  /\ app.phase = "stopping" /\ ~app.expired
  /\ app' = [app EXCEPT !.expired = TRUE]
  /\ UNCHANGED <<wk, exitCh, busAt, hooks>>

(* runHost returns; deferred: cancelBus. *)
Returns ==
  /\ app.phase = "stopping" /\ app.hook > Len(Stops)
  /\ app' = [app EXCEPT !.phase = "returned", !.busCtx = FALSE]
  /\ UNCHANGED <<wk, exitCh, busAt, hooks>>

-----------------------------------------------------------------------------
(* The goroutines of the hooks. *)
HookEnds(h, res) == hooks[h] = "running" /\ hooks' = [hooks EXCEPT ![h] = res]

Started(w) == wk[w].state # "idle"

(* Worker: the result of run, or the end of the budget; a worker that was   *)
(* not started is not waited for.                                           *)
AwaitWorker(w) ==
  /\ \/ ~Started(w) /\ HookEnds(w, "ok") /\ UNCHANGED wk
     \/ /\ wk[w].done
        /\ HookEnds(w, IF wk[w].res = "error" THEN "error" ELSE "ok")
        /\ wk' = [wk EXCEPT ![w].done = FALSE]
     \/ Started(w) /\ app.expired /\ HookEnds(w, "error") /\ UNCHANGED wk
  /\ UNCHANGED <<app, exitCh, busAt>>

(* bus.Drain: returns once what was in flight is handled, or fails, within  *)
(* its budget or at its end.                                                *)
DrainBus ==
  /\ \/ ~Started("consume") /\ HookEnds("drain", "ok") /\ UNCHANGED busAt
     \/ /\ Started("consume") /\ busAt' = [busAt EXCEPT !.drained = TRUE]
        /\ \E res \in {"ok", "error"} : HookEnds("drain", res)
  /\ UNCHANGED <<app, wk, exitCh>>

CancelBus ==
  /\ HookEnds("cancel", "ok")
  /\ app' = [app EXCEPT !.busCtx = @ /\ ~Started("consume")]
  /\ UNCHANGED <<wk, exitCh, busAt>>

(* bus.Close, whose error is the hook's. *)
CloseBus ==
  /\ \/ ~busAt.connect /\ HookEnds("close", "ok")
     \/ busAt.connect /\ \E res \in {"ok", "error"} : HookEnds("close", res)
  /\ busAt' = [busAt EXCEPT !.close = busAt.connect]
  /\ UNCHANGED <<app, wk, exitCh>>

-----------------------------------------------------------------------------
HostSteps == StartHook \/ StartCancelled \/ Running \/ Trigger \/ StopSkipped \/ StopBegins
             \/ StopReturned \/ StopAbandoned \/ Returns
HookSteps == (\E w \in WorkerNames : AwaitWorker(w)) \/ DrainBus \/ CancelBus \/ CloseBus
Reporting == \E w \in WorkerNames : WorkerReports(w)

WorkersNext ==
  \/ HostSteps \/ HookSteps \/ ContextCancelled \/ BudgetExpires
  \/ \E w \in WorkerNames : WorkerReports(w) \/ \E res \in {"nil", "canceled", "error"} : WorkerEnds(w, res)

WorkersSpec == WorkersInit /\ [][WorkersNext]_workersVars

-----------------------------------------------------------------------------
(* Properties. *)

(* Within its budget a shutdown is orderly and says what happened: every    *)
(* worker that was started has ended and every failure of one, of Drain and *)
(* of Close is part of the result, nothing else is; the context of the bus  *)
(* ends only after Drain did, with or without an error, and Close comes     *)
(* last, whenever Connect was called: also when the start failed half-way   *)
(* or Drain did (worker.go:28-60, run.go:158-204, 509-530).                 *)
OrderlyShutdown ==
  ~app.expired =>
    /\ ~app.busCtx /\ Started("consume") => busAt.drained
    /\ busAt.close => busAt.connect /\ wk["consume"].state # "running"
    /\ app.phase = "returned" =>
         /\ \A w \in WorkerNames : wk[w].state # "running"
         /\ app.errors \cap StopHooks =
              {w \in WorkerNames : wk[w].res = "error"} \cup {h \in {"drain", "close"} : hooks[h] = "error"}
         /\ busAt.connect => busAt.close

(* Workers settle: a shutdown within its budget is orderly; the failure of  *)
(* a worker is never silent, it ends the application; and a shutdown ends   *)
(* whatever workers, bus and hooks do (worker.go:28-69, run.go:132-204,     *)
(* 509-559).                                                                *)
WorkersSettle ==
  /\ []OrderlyShutdown
  /\ []<>(/\ app.phase = "running" => \A w \in WorkerNames : wk[w].res # "error"
          /\ app.phase # "stopping")
=============================================================================
