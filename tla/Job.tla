--------------------------------- MODULE Job ---------------------------------
(***************************************************************************)
(* job.Every and job.WithLock: a periodic task of several replicas, kept   *)
(* to one of them at a time by a session advisory lock of PostgreSQL on a  *)
(* connection borrowed from the pool for as long as the task runs.         *)
(*                                                                         *)
(* A connection that breaks is noticed by the server later, which then     *)
(* ends the session and with it the lock; the pool discards it when it is  *)
(* released.                                                               *)
(*                                                                         *)
(* An operator whose name begins with that of the definition after it is a *)
(* faulty variant of it, against which a property is tested.               *)
(***************************************************************************)
EXTENDS Naturals, FiniteSets

CONSTANTS Replicas, MaxRounds    \* bound: rounds of a replica

ASSUME JobAssumption == MaxRounds \in Nat /\ "free" \notin Replicas

VARIABLES
  task,   \* per replica: where it is, its lock connection, ctx, rounds begun
  holder, \* the replica whose session holds the lock at the server, or "free"
  ended   \* replicas that lost a session that the server still keeps

jobVars == <<task, holder, ended>>

JobInit ==
  /\ task = [r \in Replicas |-> [pc |-> "waiting", conn |-> "none", ctx |-> TRUE, rounds |-> 0]]
  /\ holder = "free" /\ ended = {}

TaskAt(r, pc) == task[r].pc = pc

(* loop: the timer of the next round; a cancelled ctx ends the loop. *)
TimerFires(r) ==
  /\ TaskAt(r, "waiting") /\ task[r].rounds < MaxRounds
  /\ \/ task' = [task EXCEPT ![r].pc = "acquire", ![r].rounds = @ + 1]
     \/ ~task[r].ctx /\ task' = [task EXCEPT ![r].pc = "returned"]
  /\ UNCHANGED <<holder, ended>>

(* pool.Acquire; it fails with the ctx or the database. *)
AcquireConn(r) ==
  /\ TaskAt(r, "acquire")
  /\ \/ task[r].ctx /\ r \notin ended /\ task' = [task EXCEPT ![r].pc = "lock", ![r].conn = "open"]
     \/ task' = [task EXCEPT ![r].pc = "waiting"]
  /\ UNCHANGED <<holder, ended>>

(* pg_try_advisory_lock: the lock, or ErrLocked and the round is skipped.   *)
TryLock(r) ==
  /\ TaskAt(r, "lock") /\ task[r].conn = "open" /\ task[r].ctx
  /\ IF holder = "free"
     THEN holder' = r /\ task' = [task EXCEPT ![r].pc = "running"]
     ELSE task' = [task EXCEPT ![r].pc = "waiting", ![r].conn = "none"] /\ UNCHANGED holder
  /\ UNCHANGED ended

(* The answer is lost or the ctx ends: an error, although the server may    *)
(* have granted the lock; the connection is closed.                         *)
TryLockFails(r) ==
  /\ TaskAt(r, "lock")
  /\ task' = [task EXCEPT ![r].pc = "waiting", ![r].conn = "none"]
  /\ \/ holder = "free" /\ task[r].conn = "open" /\ holder' = r /\ ended' = ended \cup {r}
     \/ UNCHANGED <<holder, ended>>

(* fn returns; its errors are logged, the next round tries again. *)
RunReturns(r) ==
  /\ TaskAt(r, "running") /\ task' = [task EXCEPT ![r].pc = "unlock"]
  /\ UNCHANGED <<holder, ended>>

(* The deferred pg_advisory_unlock, in a ctx of its own; when it fails the  *)
(* connection is closed and the session ends with the lock.                 *)
UnlockWithTaskContext(r) ==
  /\ TaskAt(r, "unlock")
  /\ task' = [task EXCEPT ![r].pc = "waiting", ![r].conn = "none"]
  /\ IF task[r].conn = "open" /\ task[r].ctx THEN holder' = "free" ELSE UNCHANGED holder
  /\ UNCHANGED ended

Unlock(r) ==
  /\ TaskAt(r, "unlock")
  /\ task' = [task EXCEPT ![r].pc = "waiting", ![r].conn = "none"]
  /\ \/ task[r].conn = "open" /\ holder' = "free" /\ UNCHANGED ended
     \/ task[r].conn = "open" /\ ended' = ended \cup {r} /\ UNCHANGED holder
     \/ task[r].conn = "broken" /\ UNCHANGED <<holder, ended>>

-----------------------------------------------------------------------------
CancelJob(r) ==
  /\ task[r].ctx /\ task' = [task EXCEPT ![r].ctx = FALSE]
  /\ UNCHANGED <<holder, ended>>

(* The lock connection breaks; fn is not told. *)
ConnectionBreaks(r) ==
  /\ task[r].conn = "open"
  /\ task' = [task EXCEPT ![r].conn = "broken"]
  /\ ended' = IF holder = r THEN ended \cup {r} ELSE ended
  /\ UNCHANGED holder

Crash(r) ==
  /\ ~TaskAt(r, "crashed")
  /\ task' = [task EXCEPT ![r].pc = "crashed", ![r].conn = "none"]
  /\ ended' = IF holder = r THEN ended \cup {r} ELSE ended
  /\ UNCHANGED holder

SessionEnds(r) ==
  /\ r \in ended /\ ended' = ended \ {r}
  /\ holder' = IF holder = r THEN "free" ELSE holder
  /\ UNCHANGED task

JobNext ==
  \E r \in Replicas :
    \/ TimerFires(r) \/ AcquireConn(r) \/ TryLock(r) \/ TryLockFails(r) \/ RunReturns(r) \/ Unlock(r)
    \/ CancelJob(r) \/ ConnectionBreaks(r) \/ Crash(r) \/ SessionEnds(r)

JobSpec == JobInit /\ [][JobNext]_jobVars

-----------------------------------------------------------------------------
(* Properties. *)

RunningReplicas == {r \in Replicas : TaskAt(r, "running")}

(* Two replicas run the task at once only if one of them lost the session   *)
(* that held its lock; and the lock never stays behind on a connection that *)
(* is back in the pool, where nobody would release it: whoever holds it is  *)
(* running or about to unlock, or its session is about to end               *)
(* (job.go:128-160).                                                        *)
JobIsExclusive ==
  /\ \A r, q \in RunningReplicas : r # q => "broken" \in {task[r].conn, task[q].conn}
  /\ holder # "free" => holder \in ended \/ (task[holder].conn = "open"
                                             /\ task[holder].pc \in {"running", "unlock"})
=============================================================================
