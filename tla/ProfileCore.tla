----------------------------- MODULE ProfileCore -----------------------------
(***************************************************************************)
(* bootstrap.Core and RunningProfile: who opens telemetry and the pool,    *)
(* who starts the host on them, and who releases them, when Start,         *)
(* Execute, Close, Shutdown and Wait are called from several goroutines.   *)
(*                                                                         *)
(* The host is module Host, here by what Core sees of it: it stops when    *)
(* asked, or by itself.                                                    *)
(*                                                                         *)
(* An operator whose name begins with that of the definition after it is a *)
(* faulty variant of it, against which a property is tested.               *)
(***************************************************************************)
EXTENDS Naturals, Sequences, SequencesExt

CONSTANT CoreCallers    \* goroutines that call, each once

ASSUME ProfileCoreAssumption == {"waiter", "free", "done"} \cap CoreCallers = {}

VARIABLES
  core,     \* flags of Core, under its lock; the running host is published
  opened,   \* resources, in the order of addCleanup
  released, \* resources closed, in order
  once,     \* cleanupOnce and finishOnce, by whom, and done
  host,     \* none, starting, running, stopping, done
  calls,    \* per goroutine: call, where it is, what it returned
  overlaps  \* history: Start began after a Close had decided to clean up

coreVars == <<core, opened, released, once, host, calls, overlaps>>

Callers == CoreCallers \cup {"waiter"}    \* the goroutine Shutdown leaves behind

Call(op, at, result) == [op |-> op, at |-> at, result |-> result]

(* NewCore; when the pool or the bus fail it closes what it had opened and  *)
(* there is no Core.                                                        *)
CoreInit ==
  /\ core = [used |-> FALSE, starting |-> FALSE, closed |-> FALSE, running |-> FALSE]
  /\ opened \in {<<"telemetry">>, <<"telemetry", "pool">>}
  /\ released = <<>> /\ host = "none" /\ overlaps = FALSE
  /\ once = [cleanup |-> "free", finish |-> "free"]
  /\ calls = [c \in Callers |-> Call("none", "idle", "none")]

Called(c, at) == calls[c].at = at
Goto(c, at) == calls' = [calls EXCEPT ![c].at = at]
Return(c, result) == calls' = [calls EXCEPT ![c].at = "returned", ![c].result = result]

(* A call; Shutdown and Wait need the RunningProfile. *)
BeginCall(c, op) ==
  /\ c # "waiter" /\ Called(c, "idle")
  /\ op \in {"shutdown", "wait"} => core.running
  /\ calls' = [calls EXCEPT ![c] = Call(op, CASE op \in {"start", "execute"} -> "start"
                                               [] op = "close" -> "close"
                                               [] op = "shutdown" -> "shutdown"
                                               [] op = "wait" -> "await", "none")]
  /\ UNCHANGED <<core, opened, released, once, host, overlaps>>

-----------------------------------------------------------------------------
(* Start takes the only chance; the modules are assembled, app.Start runs. *)
StartCore(c) ==
  /\ Called(c, "start")
  /\ IF core.used \/ core.closed
     THEN Return(c, "refused") /\ UNCHANGED <<core, host, overlaps>>
     ELSE /\ core' = [core EXCEPT !.used = TRUE, !.starting = TRUE]
          /\ host' = "starting" /\ Goto(c, "assemble")
          /\ overlaps' = \E d \in CoreCallers : calls[d].op = "close" /\ calls[d].at # "close"
  /\ UNCHANGED <<opened, released, once>>

(* Modules, their names or app.Start fail: finishFailedStart. *)
StartFails(c) ==
  /\ Called(c, "assemble") /\ Goto(c, "cleanup")
  /\ core' = [core EXCEPT !.starting = FALSE, !.closed = TRUE]
  /\ host' = "none"
  /\ UNCHANGED <<opened, released, once, overlaps>>

HostReady(c) ==
  /\ Called(c, "assemble") /\ host = "starting" /\ host' = "running" /\ Goto(c, "publish")
  /\ UNCHANGED <<core, opened, released, once, overlaps>>

(* Start returns; Execute goes on with fn and then Shutdown. *)
Publish(c) ==
  /\ Called(c, "publish")
  /\ core' = [core EXCEPT !.starting = FALSE, !.running = TRUE]
  /\ IF calls[c].op = "start" THEN Return(c, "running") ELSE Goto(c, "fn")
  /\ UNCHANGED <<opened, released, once, host, overlaps>>

(* fn of Execute returns or panics. *)
FnReturns(c) ==
  /\ Called(c, "fn") /\ Goto(c, "shutdown")
  /\ UNCHANGED <<core, opened, released, once, host, overlaps>>

(* Close: refused during Start; otherwise what it does is decided here, and *)
(* done without the lock.                                                   *)
CloseCore(c) ==
  /\ Called(c, "close")
  /\ IF core.starting THEN Return(c, "refused")
     ELSE IF core.running THEN Goto(c, "shutdown") ELSE Goto(c, "cleanup")
  /\ UNCHANGED <<core, opened, released, once, host, overlaps>>

-----------------------------------------------------------------------------
(* RunningProfile.Shutdown: asks the host and waits for it. *)
ShutdownHost(c) ==
  /\ Called(c, "shutdown") /\ Goto(c, "await")
  /\ host' = IF host = "running" THEN "stopping" ELSE host
  /\ UNCHANGED <<core, opened, released, once, overlaps>>

(* The budget of the call ends first: a goroutine goes on waiting. *)
BudgetEnds(c) ==
  /\ Called(c, "await") /\ calls[c].op \in {"shutdown", "close", "execute"}
  /\ calls' = [calls EXCEPT ![c].at = "returned", ![c].result = "late",
                            !["waiter"] = IF @.at = "idle" THEN Call("wait", "await", "none") ELSE @]
  /\ UNCHANGED <<core, opened, released, once, host, overlaps>>

HostWaited(c) ==
  /\ Called(c, "await") /\ host = "done" /\ Goto(c, "finish")
  /\ UNCHANGED <<core, opened, released, once, host, overlaps>>

(* finish: the first releases, all of them wait for it. *)
Finish(c) ==
  /\ Called(c, "finish") /\ once.finish = "free"
  /\ once' = [once EXCEPT !.finish = c] /\ Goto(c, "cleanup")
  /\ UNCHANGED <<core, opened, released, host, overlaps>>

FinishReturns(c) ==
  /\ Called(c, "finish") /\ once.finish = "done" /\ Return(c, "final")
  /\ UNCHANGED <<core, opened, released, once, host, overlaps>>

(* closeResources: likewise, in the reverse order; hooks may fail. *)
CleanupBegins(c) ==
  /\ Called(c, "cleanup") /\ once.cleanup = "free"
  /\ once' = [once EXCEPT !.cleanup = c] /\ Goto(c, "release")
  /\ UNCHANGED <<core, opened, released, host, overlaps>>

ReleaseNext(c) ==
  /\ Called(c, "release") /\ Len(released) < Len(opened)
  /\ released' = Append(released, opened[Len(opened) - Len(released)])
  /\ UNCHANGED <<core, opened, once, host, calls, overlaps>>

Released(c) ==
  /\ Called(c, "release") /\ Len(released) = Len(opened)
  /\ once' = [once EXCEPT !.cleanup = "done"]
  /\ core' = [core EXCEPT !.closed = TRUE] /\ Goto(c, "cleanup")
  /\ UNCHANGED <<opened, released, host, overlaps>>

CleanupReturnsAlone(c) ==
  /\ Called(c, "cleanup") /\ once.cleanup = "done" /\ Return(c, "final")
  /\ UNCHANGED <<core, opened, released, once, host, overlaps>>

CleanupReturns(c) ==
  /\ Called(c, "cleanup") /\ once.cleanup = "done"
  /\ IF once.finish = c THEN once' = [once EXCEPT !.finish = "done"] /\ Goto(c, "finish")
     ELSE UNCHANGED once /\ Return(c, "final")
  /\ UNCHANGED <<core, opened, released, host, overlaps>>

(* The host stops when asked; or its Start ctx ends, or a critical service. *)
HostStops ==
  /\ host = "stopping" /\ host' = "done"
  /\ UNCHANGED <<core, opened, released, once, calls, overlaps>>

HostExits ==
  /\ host = "running" /\ host' = "done"
  /\ UNCHANGED <<core, opened, released, once, calls, overlaps>>

CallStep(c) ==
  \/ StartCore(c) \/ StartFails(c) \/ HostReady(c) \/ Publish(c) \/ FnReturns(c) \/ CloseCore(c)
  \/ ShutdownHost(c) \/ HostWaited(c) \/ Finish(c) \/ FinishReturns(c)
  \/ CleanupBegins(c) \/ ReleaseNext(c) \/ Released(c) \/ CleanupReturns(c)

CoreNext ==
  \/ HostStops \/ HostExits
  \/ \E c \in Callers : CallStep(c) \/ BudgetEnds(c)
  \/ \E c \in CoreCallers, op \in {"start", "execute", "close", "shutdown", "wait"} : BeginCall(c, op)

CoreSpec == CoreInit /\ [][CoreNext]_coreVars

-----------------------------------------------------------------------------
(* Properties. *)

Used == host \in {"starting", "running", "stopping"}

(* The host never loses what it runs on, unless a Close had decided to      *)
(* release before Start began; whoever is told that it is over finds        *)
(* everything released, once, the telemetry last; nobody is told so while   *)
(* the host runs (profiles.go:424-441, 463-537).                            *)
CoreReleases ==
  /\ Used /\ ~overlaps => released = <<>>
  /\ \A c \in CoreCallers : calls[c].result = "final" =>
       released = Reverse(opened) /\ (~overlaps => ~Used)
  /\ \A i \in 1..Len(released) : released[i] = Reverse(opened)[i]

(* What the comment on Close promises: resources are not released in the    *)
(* middle of an assembly, or under a host (profiles.go:422-423).            *)
ResourcesOutliveHost == Used => released = <<>>

(* Every call returns once the host ends; and it is asked to end by every   *)
(* call but Start and Wait (profiles.go:453-492, 512-537).                  *)
CoreCallsEnd ==
  []<>(\A c \in Callers :
         \/ calls[c].at \in {"idle", "returned"}
         \/ calls[c].op = "wait" /\ host # "done")

(* Nobody loses a resource in use, everything is released, and every call   *)
(* comes back to tell (profiles.go:424-441, 453-537).                       *)
CoreSettles == []CoreReleases /\ CoreCallsEnd
=============================================================================
