-------------------------------- MODULE Host --------------------------------
(***************************************************************************)
(* The application host: App.start and its caller, runHost and shutdown    *)
(* (one goroutine), the Run goroutine of every ManagedService, the HTTP    *)
(* server and the hooks.  Callbacks of modules may succeed, fail or, once  *)
(* the shutdown budget is spent, be abandoned.                             *)
(*                                                                         *)
(* An operator whose name begins with that of the definition after it is a *)
(* faulty variant of it, against which a property is tested.               *)
(***************************************************************************)
EXTENDS Integers, Sequences

CONSTANTS
  NumServices,  \* services 1..NumServices in registration order
  Apps          \* the applications: what modules registered before Start

Services == 1..NumServices

(* critical: services registered with ServiceCritical; hooks, stops: the    *)
(* stages of the start hooks in start order and of the OnStop hooks in stop *)
(* order; server: index of the hook that listens, 0 for a headless app.     *)
ASSUME HostAssumption ==
  /\ NumServices \in Nat
  /\ \A a \in Apps : /\ a.critical \subseteq Services
                     /\ a.hooks \in Seq(Nat) /\ a.stops \in Seq(Nat)
                     /\ a.server \in 0..Len(a.hooks)

VARIABLES
  app,         \* the application that is hosted
  pc,          \* where runHost, startManagedServices or shutdown is
  idx,         \* the loop variable of that place
  state,       \* RunningApp.state
  caller,      \* the goroutine inside App.start
  cancelled,   \* the run context is done
  requested,   \* RunningApp.Shutdown was called (stopOnce)
  otherErr,    \* serverErr or workerErr holds an error
  budget,      \* the shutdown context is done
  ready,       \* health.Registry.ready
  readyCh,     \* the channel RunningApp.ready is closed
  draining,    \* RunningApp.draining
  svcCtxDone,  \* the service context is cancelled
  serviceErr,  \* the buffered channel: 0 or the service whose error it holds
  svc,         \* managedServiceRuntime of every service
  maxStage,    \* highest stage whose hooks began
  server,      \* the HTTP server
  ran,         \* OnStop hooks that were called
  hasErr,      \* whether the error runHost will return is non-nil
  reported     \* services whose Run error is part of it

vars == <<app, pc, idx, state, caller, cancelled, requested, otherErr, budget, ready, readyCh,
          draining, svcCtxDone, serviceErr, svc, maxStage, server, ran, hasErr, reported>>

Critical == app.critical
HookStage == app.hooks
ServerHook == app.server
StopStage == app.stops

LifeStates == {"created", "starting", "running", "ready", "failed", "draining",
               "stopping", "stopped", "not_started"}

(* attempted, started: startAttempted and runStarted; run: the progress of  *)
(* the Run goroutine; sawDraining: what it loaded from draining.            *)
Service == [attempted : BOOLEAN, started : BOOLEAN,
            run : {"none", "spawned", "live", "returned", "checked", "reported", "done"},
            sawDraining : BOOLEAN, result : {"none", "nil", "canceled", "error"},
            unexpected : BOOLEAN, life : LifeStates, drained : BOOLEAN, closes : Nat]

NewService == [attempted |-> FALSE, started |-> FALSE, run |-> "none",
               sawDraining |-> FALSE, result |-> "none", unexpected |-> FALSE,
               life |-> "created", drained |-> FALSE, closes |-> 0]

States == <<"new", "registering", "resolving", "migrating", "settingUp", "starting",
            "ready", "draining", "stopping", "stopped">>

Places == {"prepare", "hooks", "services", "launch", "awaitLive", "awaitReady",
           "startFailed", "serving", "shutdown", "delay", "drain", "wait", "close", "server",
           "stops", "exit", "stopped"}

Init ==
  /\ app \in Apps
  /\ pc = "prepare" /\ idx = 1 /\ state = 1
  /\ caller = "calling"
  /\ cancelled = FALSE /\ requested = FALSE /\ otherErr = FALSE /\ budget = FALSE
  /\ ready = FALSE /\ readyCh = FALSE /\ draining = FALSE /\ svcCtxDone = FALSE
  /\ serviceErr = 0
  /\ svc = [i \in Services |-> NewService]
  /\ maxStage = -1
  /\ server = "none"
  /\ ran = {} /\ hasErr = FALSE /\ reported = {}

TransitionNotSticky(s, next) == [s EXCEPT !.life = next]

-----------------------------------------------------------------------------
(* hoststate.Service.Transition: failed is sticky. *)
Transition(s, next) == IF s.life = "failed" THEN s ELSE [s EXCEPT !.life = next]

Goto(place, i) == pc' = place /\ idx' = i

(* An error becomes part of what runHost returns; a Run error of i is       *)
(* recognisable in it.                                                      *)
Error == hasErr' = TRUE /\ UNCHANGED reported
RunError(i) == hasErr' = TRUE /\ reported' = reported \cup {i}
NoError == UNCHANGED <<hasErr, reported>>

env == <<caller, cancelled, requested, otherErr, budget>>
flags == <<ready, readyCh, draining, svcCtxDone, serviceErr>>
errors == <<hasErr, reported>>

-----------------------------------------------------------------------------
(* runHost up to Starting: register, resolve, migrate, set up, resolve the  *)
(* services.  An error returns without shutdown.                            *)
Prepare ==
  /\ pc = "prepare"
  /\ \/ /\ state < 6 /\ state' = state + 1
        /\ UNCHANGED <<pc, idx>> /\ NoError
     \/ state = 6 /\ Goto("hooks", 1) /\ NoError /\ UNCHANGED state
     \/ state \in 2..5 /\ Goto("exit", 0) /\ Error /\ UNCHANGED state
  /\ UNCHANGED <<env, flags, svc, maxStage, server, ran>>

(* startHooks. *)
StartHook ==
  /\ pc = "hooks" /\ idx <= Len(HookStage)
  /\ \/ cancelled /\ Goto("startFailed", 0) /\ Error /\ UNCHANGED <<maxStage, server>>
     \/ /\ ~cancelled
        /\ maxStage' = HookStage[idx]
        /\ \/ /\ Goto("hooks", idx + 1) /\ NoError
              /\ server' = IF idx = ServerHook THEN "serving" ELSE server
           \/ Goto("startFailed", 0) /\ Error /\ UNCHANGED server
  /\ UNCHANGED <<env, state, flags, svc, ran>>

HooksDone ==
  /\ pc = "hooks" /\ idx > Len(HookStage)
  /\ Goto("services", 1)
  /\ UNCHANGED <<env, state, flags, svc, maxStage, server, ran, errors>>

(* Receiving from serviceErr during startup: startup fails with that error. *)
TakeServiceErr ==
  /\ serviceErr # 0
  /\ serviceErr' = 0
  /\ RunError(serviceErr)
  /\ Goto("startFailed", 0)

(* startManagedServices: the check before Start, and Start itself. *)
ServiceStart ==
  /\ pc = "services" /\ idx \in Services
  /\ \/ TakeServiceErr /\ UNCHANGED svc
     \/ /\ serviceErr = 0 /\ UNCHANGED serviceErr
        /\ \/ /\ svc' = [svc EXCEPT ![idx] = [Transition(svc[idx], "starting")
                                               EXCEPT !.attempted = TRUE]]
              /\ Goto("launch", idx) /\ NoError
           \/ /\ svc' = [svc EXCEPT ![idx] = [Transition(svc[idx], "failed")
                                               EXCEPT !.attempted = TRUE]]
              /\ Goto("startFailed", 0) /\ Error
  /\ UNCHANGED <<env, state, ready, readyCh, draining, svcCtxDone, maxStage, server, ran>>

(* The check after Start, then the Run goroutine is spawned. *)
Launch ==
  /\ pc = "launch"
  /\ \/ TakeServiceErr /\ UNCHANGED svc
     \/ /\ serviceErr = 0 /\ UNCHANGED serviceErr
        /\ svc' = [svc EXCEPT ![idx].started = TRUE, ![idx].run = "spawned"]
        /\ Goto("awaitLive", idx) /\ NoError
  /\ UNCHANGED <<env, state, ready, readyCh, draining, svcCtxDone, maxStage, server, ran>>

IsLive(i) == svc[i].run \notin {"none", "spawned"}

(* The select on runLive, done and the start context. *)
AwaitLive ==
  /\ pc = "awaitLive"
  /\ \/ IsLive(idx) /\ Goto("awaitReady", idx) /\ NoError /\ UNCHANGED svc
     \/ /\ svc[idx].run = "done"
        /\ svc' = [svc EXCEPT ![idx] = Transition(svc[idx], "failed")]
        /\ Goto("startFailed", 0) /\ RunError(idx)
     \/ /\ cancelled
        /\ svc' = [svc EXCEPT ![idx] = Transition(svc[idx], "failed")]
        /\ Goto("startFailed", 0) /\ Error
  /\ UNCHANGED <<env, state, flags, maxStage, server, ran>>

(* waitManagedServiceReady: Ready succeeds and nothing has gone wrong.      *)
ServiceReady ==
  /\ pc = "awaitReady"
  /\ svc[idx].run # "done" /\ serviceErr = 0
  /\ svc' = [svc EXCEPT ![idx] = Transition(svc[idx], "ready")]
  /\ Goto("services", idx + 1)
  /\ UNCHANGED <<env, state, flags, maxStage, server, ran, errors>>

(* Ready fails, the Run has ended, another service died, or startup is      *)
(* cancelled; several of these may hold and select picks one.               *)
ServiceNotReady ==
  /\ pc = "awaitReady"
  /\ \/ /\ svc' = [svc EXCEPT ![idx] = Transition(svc[idx], "failed")]
        /\ Goto("startFailed", 0) /\ Error /\ UNCHANGED serviceErr
     \/ /\ svc[idx].run = "done"
        /\ Goto("startFailed", 0) /\ RunError(idx) /\ UNCHANGED <<svc, serviceErr>>
     \/ TakeServiceErr /\ UNCHANGED svc
     \/ cancelled /\ Goto("startFailed", 0) /\ Error /\ UNCHANGED <<svc, serviceErr>>
  /\ UNCHANGED <<env, state, ready, readyCh, draining, svcCtxDone, maxStage, server, ran>>

(* close(ch) wakes the caller parked in its select. *)
Wake(outcome) == caller' = IF caller = "parked" THEN outcome ELSE caller

(* The last look at serviceErr, then SetReady(true) and markReady.          *)
BecomeReady ==
  /\ pc = "services" /\ idx > NumServices
  /\ \/ /\ TakeServiceErr
        /\ UNCHANGED <<caller, state, ready, readyCh>>
     \/ /\ serviceErr = 0 /\ UNCHANGED serviceErr /\ NoError
        /\ ready' = TRUE /\ state' = 7 /\ readyCh' = TRUE
        /\ Wake("handle")
        /\ Goto("serving", 0)
  /\ UNCHANGED <<cancelled, requested, otherErr, budget, draining, svcCtxDone, svc, maxStage,
                 server, ran>>

(* Startup failed: draining, Stopping, shutdown. *)
StartFailed ==
  /\ pc = "startFailed"
  /\ draining' = TRUE /\ state' = 9
  /\ Goto("shutdown", 0)
  /\ UNCHANGED <<env, ready, readyCh, svcCtxDone, serviceErr, svc, maxStage, server, ran, errors>>

(* runHost's blocking select; several cases may be ready. *)
Trigger ==
  /\ pc = "serving"
  /\ \/ cancelled /\ NoError /\ UNCHANGED <<otherErr, serviceErr>>
     \/ requested /\ NoError /\ UNCHANGED <<otherErr, serviceErr>>
     \/ otherErr /\ otherErr' = FALSE /\ Error /\ UNCHANGED serviceErr
     \/ serviceErr # 0 /\ serviceErr' = 0 /\ RunError(serviceErr) /\ UNCHANGED otherErr
  /\ draining' = TRUE /\ state' = 8
  /\ Goto("shutdown", 0)
  /\ UNCHANGED <<caller, cancelled, requested, budget, ready, readyCh, svcCtxDone, svc, maxStage,
                 server, ran>>

-----------------------------------------------------------------------------
(* shutdown: readiness goes first, then the run context. *)
BeginShutdown ==
  /\ pc = "shutdown"
  /\ ready' = FALSE
  /\ cancelled' = TRUE
  /\ Goto("delay", 0)
  /\ UNCHANGED <<caller, requested, otherErr, budget, state, readyCh, draining, svcCtxDone,
                 serviceErr, svc, maxStage, server, ran, errors>>

(* The drain delay is over or cut short, and a goroutine is spawned to call *)
(* server.Shutdown.                                                         *)
ShutServer ==
  /\ pc = "delay"
  /\ server' = IF server = "serving" THEN "shutting" ELSE server
  /\ Goto("drain", NumServices)
  /\ UNCHANGED <<env, flags, state, svc, maxStage, ran, errors>>

(* A service whose Start was never called says so in the end. *)
NotStarted(s) == IF s.attempted THEN s ELSE Transition(s, "not_started")

(* Drain of service idx: it returns nil, fails, or is abandoned when the    *)
(* budget is spent.  A service whose Run was never launched is passed over. *)
Drain ==
  /\ pc = "drain" /\ idx > 0
  /\ \/ /\ ~svc[idx].started /\ NoError
        /\ svc' = [svc EXCEPT ![idx] = NotStarted(@)]
     \/ /\ svc[idx].started /\ NoError
        /\ svc' = [svc EXCEPT ![idx] =
                     [Transition(svc[idx], "draining") EXCEPT !.drained = TRUE]]
     \/ /\ svc[idx].started /\ Error
        /\ svc' = [svc EXCEPT ![idx] =
                     [Transition(svc[idx], "failed") EXCEPT !.drained = TRUE]]
  /\ Goto("drain", idx - 1)
  /\ UNCHANGED <<env, state, flags, maxStage, server, ran>>

(* All drained: Stopping, and the service context is cancelled. *)
CancelServices ==
  /\ pc = "drain" /\ idx = 0
  /\ state' = 9
  /\ svc' = [i \in Services |-> IF svc[i].attempted THEN Transition(svc[i], "stopping") ELSE svc[i]]
  /\ svcCtxDone' = TRUE
  /\ Goto("wait", NumServices)
  /\ UNCHANGED <<env, ready, readyCh, draining, serviceErr, maxStage, server, ran, errors>>

(* waitManagedServiceRun: an error of a Run that ended unexpectedly is not  *)
(* returned here a second time.                                             *)
RunFailedInShutdown(s) == s.result = "error" /\ ~s.unexpected

WaitRunForever ==
  /\ pc = "wait" /\ idx > 0
  /\ svc[idx].started => svc[idx].run = "done"
  /\ NoError /\ UNCHANGED svc
  /\ Goto("wait", idx - 1)
  /\ UNCHANGED <<env, state, flags, maxStage, server, ran>>

WaitRun ==
  /\ pc = "wait" /\ idx > 0
  /\ \/ ~svc[idx].started /\ NoError /\ UNCHANGED svc
     \/ /\ svc[idx].started /\ svc[idx].run = "done"
        /\ IF RunFailedInShutdown(svc[idx])
           THEN /\ RunError(idx)
                /\ svc' = [svc EXCEPT ![idx] = Transition(svc[idx], "failed")]
           ELSE NoError /\ UNCHANGED svc
     \/ /\ svc[idx].started /\ budget /\ Error
        /\ svc' = [svc EXCEPT ![idx] = Transition(svc[idx], "failed")]
  /\ Goto("wait", idx - 1)
  /\ UNCHANGED <<env, state, flags, maxStage, server, ran>>

WaitsDone ==
  /\ pc = "wait" /\ idx = 0
  /\ Goto("close", NumServices)
  /\ UNCHANGED <<env, state, flags, svc, maxStage, server, ran, errors>>

MustCloseIfRan(s) == s.started

MustClose(s) == s.attempted

(* Close of every service whose Start was called, whatever Start returned.  *)
Close ==
  /\ pc = "close" /\ idx > 0
  /\ \/ ~MustClose(svc[idx]) /\ NoError /\ UNCHANGED svc
     \/ /\ MustClose(svc[idx]) /\ NoError
        /\ svc' = [svc EXCEPT ![idx] =
                     [Transition(svc[idx], "stopped") EXCEPT !.closes = @ + 1]]
     \/ /\ MustClose(svc[idx]) /\ Error
        /\ svc' = [svc EXCEPT ![idx] =
                     [Transition(svc[idx], "failed") EXCEPT !.closes = @ + 1]]
  /\ Goto("close", idx - 1)
  /\ UNCHANGED <<env, state, flags, maxStage, server, ran>>

ClosesDone ==
  /\ pc = "close" /\ idx = 0
  /\ Goto("server", 0)
  /\ UNCHANGED <<env, state, flags, svc, maxStage, server, ran, errors>>

(* Waiting for server.Shutdown, which may end with an error; a spent budget *)
(* closes the server by force.                                              *)
AwaitServer ==
  /\ pc = "server"
  /\ \/ server = "none" /\ NoError /\ UNCHANGED server
     \/ server = "closed" /\ (NoError \/ Error) /\ UNCHANGED server
     \/ server \in {"shutting", "refusing"} /\ budget /\ server' = "closed" /\ Error
  /\ Goto("stops", 1)
  /\ UNCHANGED <<env, state, flags, svc, maxStage, ran>>

(* OnStop hooks of the stages that began; one may fail or be abandoned.     *)
StopHook ==
  /\ pc = "stops" /\ idx <= Len(StopStage)
  /\ IF StopStage[idx] > maxStage THEN NoError /\ UNCHANGED ran
     ELSE (NoError \/ Error) /\ ran' = ran \cup {idx}
  /\ Goto("stops", idx + 1)
  /\ UNCHANGED <<env, state, flags, svc, maxStage, server>>

(* The budget's own error is added when nothing else reported it.           *)
StopsDone ==
  /\ pc = "stops" /\ idx > Len(StopStage)
  /\ hasErr' = (hasErr \/ budget) /\ UNCHANGED reported
  /\ Goto("exit", 0)
  /\ UNCHANGED <<env, state, flags, svc, maxStage, server, ran>>

(* Optional services whose unexpected exit recordServiceExit has stored. *)
OptionalExits ==
  {i \in Services \ Critical : svc[i].unexpected /\ svc[i].run \in {"reported", "done"}}

(* The end of runHost, which adds them unless startup failed, and the rest  *)
(* of RunningApp.run: cancel everything, Stopped, close(done).              *)
Exit ==
  /\ pc = "exit"
  /\ svc' = [i \in Services |-> NotStarted(svc[i])]
  /\ cancelled' = TRUE /\ svcCtxDone' = TRUE
  /\ state' = 10
  /\ reported' = reported \cup (IF readyCh THEN OptionalExits ELSE {})
  /\ hasErr' = (hasErr \/ reported' # {})
  /\ Wake(IF hasErr' THEN "error" ELSE "nothing")
  /\ Goto("stopped", 0)
  /\ UNCHANGED <<requested, otherErr, budget, ready, readyCh, draining, serviceErr, maxStage,
                 server, ran>>

-----------------------------------------------------------------------------
(* The goroutine that calls Run of service i. *)
host == <<pc, idx, state, env, ready, readyCh, draining, svcCtxDone, maxStage, server, ran, errors>>

GoLive(i) ==
  /\ svc[i].run = "spawned"
  /\ svc' = [svc EXCEPT ![i] = [Transition(svc[i], "running") EXCEPT !.run = "live"]]
  /\ UNCHANGED <<host, serviceErr>>

(* Run returns when it likes, with context.Canceled once its context is     *)
(* cancelled; it need not ever return.                                      *)
RunReturns(i, result) ==
  /\ svc[i].run = "live"
  /\ result = "canceled" => svcCtxDone
  /\ svc' = [svc EXCEPT ![i].run = "returned", ![i].result = result]
  /\ UNCHANGED <<host, serviceErr>>

LoadDraining(i) ==
  /\ svc[i].run = "returned"
  /\ svc' = [svc EXCEPT ![i].run = "checked", ![i].sawDraining = draining]
  /\ UNCHANGED <<host, serviceErr>>

(* An exit before draining is a failure, even with a nil error.  The send   *)
(* of a Critical service does not block: a full channel drops the error.    *)
Report(i) ==
  /\ svc[i].run = "checked"
  /\ svc' = [svc EXCEPT ![i] =
               IF svc[i].sawDraining THEN [@ EXCEPT !.run = "reported"]
               ELSE [Transition(svc[i], "failed")
                       EXCEPT !.run = "reported", !.unexpected = TRUE, !.result = "error"]]
  /\ serviceErr' = IF ~svc[i].sawDraining /\ i \in Critical /\ serviceErr = 0
                   THEN i ELSE serviceErr
  /\ UNCHANGED host

(* setRunResult: close(done). *)
Finish(i) ==
  /\ svc[i].run = "reported"
  /\ svc' = [svc EXCEPT ![i].run = "done"]
  /\ UNCHANGED <<host, serviceErr>>

-----------------------------------------------------------------------------
(* The caller of App.start reaches its select: it parks, or finds closed    *)
(* channels and takes one of them.                                          *)
EnterSelect ==
  /\ caller = "calling"
  /\ \/ ~readyCh /\ pc # "stopped" /\ caller' = "parked"
     \/ readyCh /\ caller' = "handle"
     \/ pc = "stopped" /\ caller' = IF hasErr THEN "error" ELSE "nothing"
  /\ UNCHANGED <<pc, idx, state, cancelled, requested, otherErr, budget, flags, svc, maxStage,
                 server, ran, errors>>

(* The parent context is cancelled, or a signal arrives. *)
CancelParent ==
  /\ ~cancelled /\ cancelled' = TRUE
  /\ UNCHANGED <<pc, idx, state, caller, requested, otherErr, budget, flags, svc, maxStage,
                 server, ran, errors>>

(* RunningApp.Shutdown: only the first call sends. *)
RequestShutdown ==
  /\ caller = "handle"
  /\ ~requested /\ requested' = TRUE
  /\ UNCHANGED <<pc, idx, state, caller, cancelled, otherErr, budget, flags, svc, maxStage,
                 server, ran, errors>>

(* The HTTP server or a worker fails. *)
OtherFails ==
  /\ pc \in {"services", "serving"} /\ ~otherErr /\ otherErr' = TRUE
  /\ UNCHANGED <<pc, idx, state, caller, cancelled, requested, budget, flags, svc, maxStage,
                 server, ran, errors>>

(* The context of shutdown is done: shutdownTimeout, or the caller's own.   *)
BudgetExpires ==
  /\ pc \in {"delay", "drain", "wait", "close", "server", "stops"} /\ ~budget
  /\ budget' = TRUE
  /\ UNCHANGED <<pc, idx, state, caller, cancelled, requested, otherErr, flags, svc, maxStage,
                 server, ran, errors>>

(* server.Shutdown closes the listener, then returns when the connections   *)
(* are idle.                                                                *)
ServerStep ==
  /\ \/ server = "shutting" /\ server' = "refusing"
     \/ server = "refusing" /\ server' = "closed"
  /\ UNCHANGED <<pc, idx, state, env, flags, svc, maxStage, ran, errors>>

-----------------------------------------------------------------------------
Starting ==
  \/ Prepare \/ StartHook \/ HooksDone \/ ServiceStart \/ Launch \/ AwaitLive
  \/ ServiceReady \/ ServiceNotReady \/ BecomeReady \/ StartFailed

Stopping ==
  \/ BeginShutdown \/ ShutServer \/ Drain \/ CancelServices \/ WaitRun \/ WaitsDone
  \/ Close \/ ClosesDone \/ AwaitServer \/ StopHook \/ StopsDone \/ Exit

HostStep == Starting \/ Trigger \/ Stopping

RunStep(i) == GoLive(i) \/ LoadDraining(i) \/ Report(i) \/ Finish(i)

Stopped ==
  /\ pc = "stopped"
  /\ UNCHANGED <<pc, idx, state, env, flags, svc, maxStage, server, ran, errors>>

Next ==
  /\ \/ HostStep
     \/ \E i \in Services : \/ RunStep(i)
                            \/ \E result \in {"nil", "canceled", "error"} : RunReturns(i, result)
     \/ EnterSelect \/ CancelParent \/ RequestShutdown \/ OtherFails
     \/ BudgetExpires \/ ServerStep \/ Stopped
  /\ UNCHANGED app

Spec == Init /\ [][Next]_vars

(* Goroutines are scheduled, callbacks of the host return (those of         *)
(* shutdown are abandoned when the budget ends), the timeout fires.  That a *)
(* Run ever returns is not assumed, and neither is any trigger.             *)
FairSpec ==
  /\ Spec
  /\ WF_vars(HostStep /\ UNCHANGED app)
  /\ WF_vars(EnterSelect /\ UNCHANGED app) /\ WF_vars(BudgetExpires /\ UNCHANGED app)
  /\ \A i \in Services : WF_vars(RunStep(i) /\ UNCHANGED app)

-----------------------------------------------------------------------------
(* Properties. *)

(* Every variable keeps its shape. *)
TypeOK ==
  /\ app \in Apps /\ pc \in Places /\ idx \in Nat
  /\ pc \in {"hooks", "services", "launch", "awaitLive", "awaitReady", "stops"} => idx # 0
  /\ state \in DOMAIN States
  /\ caller \in {"calling", "parked", "handle", "error", "nothing"}
  /\ {cancelled, requested, otherErr, budget, ready, readyCh, draining, svcCtxDone, hasErr}
       \subseteq BOOLEAN
  /\ serviceErr \in Services \cup {0}
  /\ svc \in [Services -> Service]
  /\ maxStage \in Int
  /\ server \in {"none", "serving", "shutting", "refusing", "closed"}
  /\ ran \subseteq DOMAIN StopStage
  /\ reported \subseteq Services

(* A service whose Start was called is closed exactly once before the host  *)
(* is Stopped, however startup ended and whatever Drain, Run or the budget  *)
(* did; one whose Start was not called is never closed (run.go:478-488).    *)
CloseOncePerStart ==
  \A i \in Services :
    /\ svc[i].closes <= 1
    /\ svc[i].closes = 1 => svc[i].attempted
    /\ pc = "stopped" /\ svc[i].attempted => svc[i].closes = 1

(* Cleanup happens in order: the context of Run stays valid until every     *)
(* launched service was drained, and Close is not called under a running    *)
(* Run unless the budget is spent, nor before the Close of a service that   *)
(* was started later (run.go:424-425, 447-488).                             *)
CleanupInOrder ==
  /\ svcCtxDone => \A i \in Services : svc[i].started => svc[i].drained
  /\ \A i, j \in Services : i < j /\ svc[j].attempted /\ svc[i].closes > 0 => svc[j].closes > 0
  /\ \A i \in Services : svc[i].closes > 0 /\ ~budget => svc[i].run \in {"none", "done"}

(* Readiness is reported only between the readiness of every service and    *)
(* the beginning of the shutdown: the server listens, no service is being   *)
(* drained, stopped or closed (run.go:109-130, 423, health.go:62-63).       *)
ReadyOnlyWhileServing ==
  ready => /\ pc \in {"serving", "shutdown"}
           /\ server \in {"none", "serving"} /\ ~svcCtxDone
           /\ \A i \in Services : /\ svc[i].started /\ svc[i].closes = 0
                                  /\ svc[i].life \in {"ready", "failed"}

Rank(life) ==
  CASE life = "created" -> 0 [] life = "not_started" -> 1 [] life = "starting" -> 1
    [] life = "running" -> 2 [] life = "ready" -> 3 [] life = "draining" -> 4
    [] life = "stopping" -> 5 [] life = "stopped" -> 6 [] life = "failed" -> 7

(* The lifecycle a service reports only moves forward, although the host    *)
(* and the Run goroutine both write it, and a failure stays visible through *)
(* the cleanup (state.go:59-83, run.go:472-473).                            *)
LifecycleMovesForward ==
  [][\A i \in Services : Rank(svc[i].life) <= Rank(svc'[i].life)]_vars

(* At the end a service that exited early reports failed, one never started *)
(* reports not_started, and no service is left in between.                  *)
FinalLifecycle ==
  pc = "stopped" => \A i \in Services :
    /\ svc[i].life \in {"failed", "stopped", "not_started"}
    /\ svc[i].unexpected => svc[i].life = "failed"
    /\ svc[i].life = "not_started" <=> ~svc[i].attempted

(* The OnStop hooks of every stage that began run, and no others, also when *)
(* an earlier one fails or times out (run.go:509-525, 545-559).             *)
StopsMirrorStarts ==
  /\ \A k \in ran : StopStage[k] <= maxStage
  /\ pc = "stopped" => \A k \in DOMAIN StopStage : StopStage[k] <= maxStage => k \in ran

(* What Wait returns contains the Run error of every service that failed    *)
(* during the shutdown and of every Optional service that exited early,     *)
(* unless the budget ran out or startup failed (run.go:155, 532-543).       *)
RunErrorsReported ==
  pc = "stopped" /\ readyCh /\ ~budget => \A i \in Services :
    svc[i].result = "error" /\ (svc[i].unexpected => i \notin Critical) => i \in reported

(* Cleanup is complete and in order, however startup or the host ended.     *)
(* (run.go:422-530)                                                         *)
CleanupIsWhole == TypeOK /\ CloseOncePerStart /\ CleanupInOrder /\ StopsMirrorStarts

(* What the host says of itself is true: the Run errors it returns, the     *)
(* states of its services and readiness.                                    *)
(* (run.go:105-130, 423, 532-543, host.go:193-226, state.go:59-83)          *)
ReportsAreTrue ==
  /\ [](RunErrorsReported /\ FinalLifecycle /\ ReadyOnlyWhileServing)
  /\ LifecycleMovesForward

(* The exit of a Critical service stops the host (host.go:295-306,          *)
(* run.go:143-145), although only one error fits the channel; once          *)
(* draining, it reaches Stopped even if a Run never returns (run.go:532-    *)
(* 559); and App.start returns to its caller (host.go:117-123).             *)
HostSettles ==
  /\ (\E i \in Critical : svc[i].unexpected) \/ draining ~> pc = "stopped"
  /\ caller = "calling" ~> caller \in {"handle", "error", "nothing"}

(* App.Start returns a handle or an error, as its callers, App.Run among    *)
(* them, assume (run.go:35-39, docs/GUIDE.md:1068-1072).                    *)
StartReturnsHandleOrError == caller # "nothing"

(* "later Run errors and cleanup errors are kept by errors.Join": a host    *)
(* that was ready and reports the early exit of one Critical service        *)
(* reports that of every other whose error does not lie unread in the       *)
(* channel (docs/adr/0047-app-host-and-streaming.md:22).                    *)
RunErrorsKept ==
  pc = "stopped" /\ readyCh => \A i, j \in {k \in Critical : svc[k].unexpected} :
    svc[i].run = "done" /\ serviceErr # i /\ j \in reported => i \in reported
=============================================================================
