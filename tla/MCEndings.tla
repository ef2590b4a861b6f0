----------------------------- MODULE MCEndings -----------------------------
(***************************************************************************)
(* Components of which the question is whether they come to an end: the    *)
(* relay, the WebSocket hub, an SSE call, the workers and the durable bus, *)
(* a profile's Core.  They do not interact; a behaviour is one of them,    *)
(* and the variables of the others stay as they are at first.              *)
(***************************************************************************)
EXTENDS Outbox, WebSocketHub, SSE, Workers, ProfileCore

CONSTANT c1
VARIABLE part

endingsVars == <<part, vars, hubVars, sseVars, workersVars, coreVars>>

(* The last event has one subscriber, those ahead of it none. *)
OnlyLast == [e \in Events |-> IF e = NumEvents THEN <<c1>> ELSE <<>>]
MCBadMeta == {}
OneWorker == <<"w1">>

EndingsInit ==
  /\ part \in {"relay", "hub", "sse", "workers", "core"}
  /\ Init /\ SSEInit /\ WorkersInit
  /\ HubInit /\ (part = "hub" \/ hub.max = 1)
  /\ CoreInit /\ (part = "core" \/ opened = <<"telemetry">>)

EndingsNext ==
  \/ part = "relay" /\ Next /\ UNCHANGED <<part, hubVars, sseVars, workersVars, coreVars>>
  \/ part = "hub" /\ HubNext /\ UNCHANGED <<part, vars, sseVars, workersVars, coreVars>>
  \/ part = "sse" /\ SSENext /\ UNCHANGED <<part, vars, hubVars, workersVars, coreVars>>
  \/ part = "workers" /\ WorkersNext /\ UNCHANGED <<part, vars, hubVars, sseVars, coreVars>>
  \/ part = "core" /\ CoreNext /\ UNCHANGED <<part, vars, hubVars, sseVars, workersVars>>

(* Relay.Run keeps polling, handlers return, statements end, time passes;   *)
(* interruptions, however many, stop one day.                               *)
RelayFairness ==
  /\ \A r \in Replicas : WF_vars(part = "relay" /\ (Claim(r) \/ Deliver(r) \/ Finalise(r)))
  /\ \A t \in Tokens : WF_vars(part = "relay" /\ LeaseExpires(t))
  /\ \A e \in Events : WF_vars(part = "relay" /\ BackoffElapses(e))
  /\ <>[][~Interruption]_vars

(* The goroutines of the hub run; nobody's budget need run out, no handler  *)
(* need return and no peer need go away.                                    *)
HubFairness ==
  /\ \A u \in Upgrades : WF_hubVars(part = "hub" /\ HandlerStep(u))
  /\ WF_hubVars(part = "hub" /\ HostStep)

(* The goroutines of both ends run, budgets and contexts end (the           *)
(* configuration bounds them); the service need not send or return, and the *)
(* network need not break.                                                  *)
SSEFairness ==
  /\ WF_sseVars(part = "sse" /\ ServeStep) /\ WF_sseVars(part = "sse" /\ RecvStep)
  /\ WF_sseVars(part = "sse" /\ ClientStep) /\ WF_sseVars(part = "sse" /\ ServiceTimesOut)
  /\ WF_sseVars(part = "sse" /\ ClientContextOver) /\ WF_sseVars(part = "sse" /\ DialReturns)

(* Hooks are called and the shutdown budget ends; workers need not. *)
WorkersFairness ==
  /\ WF_workersVars(part = "workers" /\ HostSteps) /\ WF_workersVars(part = "workers" /\ HookSteps)
  /\ WF_workersVars(part = "workers" /\ Reporting) /\ WF_workersVars(part = "workers" /\ BudgetExpires)

(* Calls go on, and a host that was asked to stop does; no call need begin. *)
CoreFairness ==
  /\ WF_coreVars(part = "core" /\ HostStops)
  /\ \A c \in Callers : WF_coreVars(part = "core" /\ CallStep(c))

EndingsSpec ==
  /\ EndingsInit /\ [][EndingsNext]_endingsVars
  /\ RelayFairness /\ HubFairness /\ SSEFairness /\ WorkersFairness /\ CoreFairness
=============================================================================
