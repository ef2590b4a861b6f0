---------------------------- MODULE DatabaseProofs ----------------------------
(***************************************************************************)
(* What PostgreSQL's locks and transactions give the replicas of a         *)
(* service, for any number of replicas, files, migrations and tables:      *)
(* advisory-lock jobs (Job), schema migrations (PgMigrate), the access     *)
(* contracts (DbAccess), and nested transactions with their tenants        *)
(* (PgTx).                                                                 *)
(***************************************************************************)
EXTENDS Job, PgMigrate, DbAccess, PgTx, TLAPS

-----------------------------------------------------------------------------
(* Jobs. *)

TaskType ==
  [pc : {"waiting", "acquire", "lock", "running", "unlock", "returned", "crashed"},
   conn : {"none", "open", "broken"}, ctx : BOOLEAN, rounds : Nat]

JobTypeOK ==
  /\ task \in [Replicas -> TaskType]
  /\ holder \in Replicas \cup {"free"}
  /\ ended \subseteq Replicas

(* A lock connection is borrowed exactly while WithLock runs; while it is   *)
(* open, the task has the lock; and a session the server has yet to end     *)
(* belongs to a connection that is no longer open.                          *)
SessionOf(r) ==
  /\ task[r].pc \in {"running", "unlock"} => task[r].conn # "none"
  /\ task[r].conn # "none" => task[r].pc \in {"lock", "running", "unlock"}
  /\ task[r].conn = "open" /\ task[r].pc \in {"running", "unlock"} => holder = r
  /\ r \in ended => task[r].conn # "open"
  /\ holder = r => r \in ended \/ (task[r].conn = "open" /\ task[r].pc \in {"running", "unlock"})

JobInv == JobTypeOK /\ \A r \in Replicas : SessionOf(r)

LEMMA JobInitInv == JobInit => JobInv
BY JobAssumption DEF JobInit, JobInv, JobTypeOK, TaskType, SessionOf

(* The lock moves only between r and free in a step of r: the others keep   *)
(* what they have.                                                          *)
OthersKeep(r) ==
  /\ task' \in [Replicas -> TaskType]
  /\ \A q \in Replicas : q # r => task'[q] = task[q]
  /\ holder' # holder => {holder, holder'} \subseteq {r, "free"}
  /\ ended' \in {ended, ended \cup {r}, ended \ {r}}

LEMMA JobStepKeepsInv ==
  ASSUME JobInv, NEW r \in Replicas, OthersKeep(r), SessionOf(r)'
  PROVE  JobInv'
<1>1. JobTypeOK'
  BY DEF JobInv, JobTypeOK, OthersKeep
<1>2. ASSUME NEW q \in Replicas, q # r PROVE SessionOf(q)'
  <2>1. task'[q] = task[q] /\ (q \in ended' <=> q \in ended)
    BY <1>2 DEF OthersKeep
  <2>2. holder' = q <=> holder = q
    BY <1>2, JobAssumption DEF OthersKeep
  <2>3. SessionOf(q)
    BY DEF JobInv
  <2>4. QED
    BY <2>1, <2>2, <2>3 DEF SessionOf
<1>3. QED
  BY <1>1, <1>2 DEF JobInv

LEMMA JobNextInv == JobInv /\ [JobNext]_jobVars => JobInv'
<1> SUFFICES ASSUME JobInv, [JobNext]_jobVars PROVE JobInv'
  OBVIOUS
<1>1. CASE UNCHANGED jobVars
  BY <1>1 DEF jobVars, JobInv, JobTypeOK, SessionOf
<1>2. ASSUME NEW r \in Replicas,
             \/ TimerFires(r) \/ AcquireConn(r) \/ TryLock(r) \/ TryLockFails(r) \/ RunReturns(r)
             \/ Unlock(r) \/ CancelJob(r) \/ ConnectionBreaks(r) \/ Crash(r) \/ SessionEnds(r)
      PROVE  JobInv'
  <2>1. /\ task \in [Replicas -> TaskType] /\ task[r] \in TaskType /\ SessionOf(r)
        /\ ended \subseteq Replicas /\ r # "free" /\ holder \in Replicas \cup {"free"}
    BY JobAssumption DEF JobInv, JobTypeOK
  <2> SUFFICES OthersKeep(r) /\ SessionOf(r)'
    BY JobStepKeepsInv
  <2>2. CASE TimerFires(r)
    BY <2>1, <2>2 DEF TimerFires, TaskAt, TaskType, OthersKeep, SessionOf
  <2>3. CASE AcquireConn(r)
    BY <2>1, <2>3 DEF AcquireConn, TaskAt, TaskType, OthersKeep, SessionOf
  <2>4. CASE TryLock(r)
    BY <2>1, <2>4 DEF TryLock, TaskAt, TaskType, OthersKeep, SessionOf
  <2>5. CASE TryLockFails(r)
    BY <2>1, <2>5 DEF TryLockFails, TaskAt, TaskType, OthersKeep, SessionOf
  <2>6. CASE RunReturns(r) \/ CancelJob(r)
    <3>1. CASE RunReturns(r)
      BY <2>1, <3>1 DEF RunReturns, TaskAt, TaskType, OthersKeep, SessionOf
    <3>2. CASE CancelJob(r)
      <4>1. task' = [task EXCEPT ![r].ctx = FALSE] /\ holder' = holder /\ ended' = ended
        BY <3>2 DEF CancelJob
      <4>2. OthersKeep(r) /\ task'[r].pc = task[r].pc /\ task'[r].conn = task[r].conn
        BY <2>1, <4>1 DEF TaskType, OthersKeep
      <4>3. QED
        BY <2>1, <4>1, <4>2 DEF SessionOf
    <3>3. QED
      BY <2>6, <3>1, <3>2
  <2>7. CASE Unlock(r)
    BY <2>1, <2>7 DEF Unlock, TaskAt, TaskType, OthersKeep, SessionOf
  <2>8. CASE ConnectionBreaks(r) \/ Crash(r)
    BY <2>1, <2>8 DEF ConnectionBreaks, Crash, TaskAt, TaskType, OthersKeep, SessionOf
  <2>9. CASE SessionEnds(r)
    BY <2>1, <2>9 DEF SessionEnds, TaskAt, TaskType, OthersKeep, SessionOf
  <2>10. QED
    BY <1>2, <2>2, <2>3, <2>4, <2>5, <2>6, <2>7, <2>8, <2>9
<1>3. QED
  BY <1>1, <1>2 DEF JobNext

LEMMA JobInvExclusive == JobInv => JobIsExclusive
<1> SUFFICES ASSUME JobInv PROVE JobIsExclusive
  OBVIOUS
<1>1. ASSUME NEW r \in RunningReplicas, NEW q \in RunningReplicas, r # q
      PROVE  "broken" \in {task[r].conn, task[q].conn}
  BY <1>1 DEF JobInv, JobTypeOK, TaskType, RunningReplicas, TaskAt, SessionOf
<1>2. ASSUME holder # "free"
      PROVE  holder \in ended \/ (task[holder].conn = "open" /\ task[holder].pc \in {"running", "unlock"})
  BY <1>2 DEF JobInv, JobTypeOK, SessionOf
<1>3. QED
  BY <1>1, <1>2 DEF JobIsExclusive

(* A job runs on one replica at a time, unless the server ended the session *)
(* of one of them, and the advisory lock is never left behind on a          *)
(* connection that went back to the pool (job.go:128-160), for any number   *)
(* of replicas and whatever connections, contexts and crashes do.           *)
THEOREM JobsAreExclusive == JobSpec => []JobIsExclusive
<1>1. JobSpec => []JobInv
  BY JobInitInv, JobNextInv, PTL DEF JobSpec
<1>2. QED
  BY <1>1, JobInvExclusive, PTL

-----------------------------------------------------------------------------
(* Schema migrations. *)

MigType ==
  [file : Nat, step : {"begin", "check", "commit", "failed", "done"},
   decision : {"none", "ensure", "execute", "backfill", "keep"},
   why : {"none", "drift", "error", "duplicate"}]

MigTypeOK ==
  /\ content \in [Builds -> [1..Files -> Contents]]
  /\ mig \in [Builds -> MigType]
  /\ locked \in Builds \cup {"nobody"}
  /\ history \in [1..Files -> Contents \cup {"none", "null"}]
  /\ ranFiles \in Seq(Nat \X Contents)

(* The advisory lock covers the transaction, and the decision made under it *)
(* still holds at its commit; the files before the one at hand are recorded *)
(* with this build's content.                                               *)
ReplicaInv(r) ==
  /\ mig[r].step \in {"check", "commit"} <=> locked = r
  /\ mig[r].step = "commit" => mig[r].decision = Decision(r)
  /\ mig[r].step = "done" <=> mig[r].file = Files + 1
  /\ mig[r].file <= Files + 1
  /\ mig[r].why # "duplicate"
  /\ \A f \in 1..Files : f < mig[r].file => history[f] = content[r][f]

HistoryInv ==
  /\ \A i \in 1..Len(ranFiles) : ranFiles[i][1] = i
  /\ \A f \in 1..Files : history[f] # "none" <=> f <= Len(ranFiles)

MigInv == MigTypeOK /\ HistoryInv /\ \A r \in Builds : ReplicaInv(r)

LEMMA MigInitInv == MigrateInit => MigInv
<1> SUFFICES ASSUME MigrateInit PROVE MigInv
  OBVIOUS
<1>1. PICK legacy \in 0..Files :
        /\ history = [f \in 1..Files |-> IF f <= legacy THEN "null" ELSE "none"]
        /\ ranFiles = [f \in 1..legacy |-> <<f, "a">>]
  BY DEF MigrateInit
<1>2. legacy \in Nat /\ legacy <= Files /\ Files \in Nat
  BY PgMigrateAssumption
<1>3. ranFiles \in Seq(Nat \X Contents) /\ Len(ranFiles) = legacy
  <2>1. ranFiles \in [1..legacy -> Nat \X Contents]
    BY <1>1, <1>2 DEF Contents
  <2>2. QED
    BY <1>1, <1>2, <2>1
<1>4. HistoryInv
  BY <1>1, <1>2, <1>3 DEF HistoryInv
<1>5. history \in [1..Files -> Contents \cup {"none", "null"}]
  BY <1>1
<1>6. MigTypeOK
  BY <1>3, <1>5 DEF MigrateInit, MigTypeOK, MigType, Fresh
<1>7. ASSUME NEW r \in Builds PROVE ReplicaInv(r)
  <2>1. mig[r] = Fresh /\ locked = "nobody" /\ r # "nobody"
    BY PgMigrateAssumption DEF MigrateInit
  <2>2. QED
    BY <1>2, <2>1 DEF ReplicaInv, Fresh
<1>8. QED
  BY <1>4, <1>6, <1>7 DEF MigInv

(* Records are only filled in. *)
HistoryGrows == \A f \in 1..Files : history[f] \in Contents => history'[f] = history[f]

(* A step of r that leaves history alone, or that r takes under the lock,   *)
(* keeps what the others rely on.                                           *)
LEMMA OthersKeepMig ==
  ASSUME MigInv, NEW r \in Builds, NEW q \in Builds, q # r,
         content' = content, mig'[q] = mig[q], HistoryGrows,
         history' = history \/ locked = r,
         locked' = locked \/ {locked, locked'} \subseteq {r, "nobody"}
  PROVE  ReplicaInv(q)'
<1>1. locked' = q <=> locked = q
  BY PgMigrateAssumption
<1>2. ReplicaInv(q) /\ content[q] \in [1..Files -> Contents]
  BY DEF MigInv, MigTypeOK
<1>3. mig[q].step = "commit" => history' = history
  BY <1>1, <1>2 DEF ReplicaInv
<1>4. mig'[q].step = "commit" => Decision(q)' = Decision(q)
  BY <1>3 DEF Decision
<1>5. \A f \in 1..Files : f < mig[q].file => history'[f] = content'[q][f]
  BY <1>2 DEF ReplicaInv, HistoryGrows
<1>6. QED
  BY <1>1, <1>2, <1>4, <1>5 DEF ReplicaInv

(* The decision read under the lock is one of four, or drift. *)
LEMMA DecisionFacts ==
  ASSUME MigInv, NEW r \in Builds, mig[r].file <= Files
  PROVE  LET f == mig[r].file IN
         /\ Decision(r) \in {"ensure", "execute", "backfill", "keep", "drift"}
         /\ Decision(r) # "ensure" => f \in 1..Files
         /\ Decision(r) = "execute" => history[f] = "none"
         /\ Decision(r) = "backfill" => history[f] = "null"
         /\ Decision(r) = "keep" => history[f] = content[r][f]
         /\ Decision(r) = "ensure" => f = 0
<1>1. mig[r].file \in Nat /\ Files \in Nat
  BY PgMigrateAssumption DEF MigInv, MigTypeOK, MigType
<1>2. CASE mig[r].file = 0
  BY <1>1, <1>2 DEF Decision
<1>3. CASE mig[r].file > 0
  BY <1>1, <1>3 DEF Decision
<1>4. QED
  BY <1>1, <1>2, <1>3

(* What is left to show of a step of r. *)
MigStep(r) ==
  /\ mig' \in [Builds -> MigType] /\ \A q \in Builds : q # r => mig'[q] = mig[q]
  /\ content' = content
  /\ locked' = locked \/ {locked, locked'} \subseteq {r, "nobody"}

LEMMA MigQuietStep ==
  ASSUME MigInv, NEW r \in Builds, MigStep(r), history' = history, ranFiles' = ranFiles, ReplicaInv(r)'
  PROVE  MigInv'
<1>1. MigTypeOK' /\ HistoryInv'
  BY DEF MigInv, MigTypeOK, HistoryInv, MigStep
<1>2. ASSUME NEW q \in Builds, q # r PROVE ReplicaInv(q)'
  BY <1>2, OthersKeepMig DEF MigStep, HistoryGrows
<1>3. QED
  BY <1>1, <1>2 DEF MigInv

LEMMA LockSchemaInv ==
  ASSUME MigInv, NEW r \in Builds, LockSchema(r)
  PROVE  MigInv'
<1>1. mig \in [Builds -> MigType] /\ mig[r] \in MigType /\ ReplicaInv(r) /\ r # "nobody"
  BY PgMigrateAssumption DEF MigInv, MigTypeOK
<1>2. MigStep(r) /\ history' = history /\ ranFiles' = ranFiles
  BY <1>1 DEF LockSchema, MigStep, MigType
<1>3. /\ mig'[r].step = "check" /\ mig'[r].file = mig[r].file /\ mig'[r].why = mig[r].why
      /\ locked' = r /\ mig[r].step = "begin"
  BY <1>1 DEF LockSchema, Step, MigType
<1>4. ReplicaInv(r)'
  BY <1>1, <1>2, <1>3 DEF ReplicaInv, MigStep
<1>5. QED
  BY <1>2, <1>4, MigQuietStep

LEMMA FailInv ==
  ASSUME MigInv, NEW r \in Builds, NEW why \in {"drift", "error"}, Fail(r, why), locked = r,
         UNCHANGED <<content, history, ranFiles, restarts>>
  PROVE  MigInv'
<1>1. mig \in [Builds -> MigType] /\ mig[r] \in MigType /\ ReplicaInv(r) /\ r # "nobody"
  BY PgMigrateAssumption DEF MigInv, MigTypeOK
<1>2. MigStep(r)
  BY <1>1 DEF Fail, Unlocked, MigStep, MigType
<1>3. /\ mig'[r].step = "failed" /\ mig'[r].file = mig[r].file /\ mig'[r].why = why
      /\ locked' = "nobody"
  BY <1>1 DEF Fail, Unlocked, MigType
<1>4. mig[r].step \in {"check", "commit"}
  BY <1>1 DEF ReplicaInv
<1>5. ReplicaInv(r)'
  BY <1>1, <1>2, <1>3, <1>4 DEF ReplicaInv, MigStep
<1>6. QED
  BY <1>2, <1>5, MigQuietStep

LEMMA CheckAppliedInv ==
  ASSUME MigInv, NEW r \in Builds, CheckApplied(r)
  PROVE  MigInv'
<1>1. /\ mig \in [Builds -> MigType] /\ mig[r] \in MigType /\ ReplicaInv(r)
      /\ mig[r].step = "check" /\ locked = r /\ mig[r].file \in Nat
  BY DEF MigInv, MigTypeOK, MigType, ReplicaInv, CheckApplied, Step
<1>2. CASE Decision(r) = "drift"
  BY <1>1, <1>2, FailInv DEF CheckApplied
<1>3. CASE Decision(r) # "drift"
  <2>1. mig[r].file <= Files /\ Files \in Nat
    BY <1>1, PgMigrateAssumption DEF ReplicaInv
  <2>2. Decision(r) \in {"ensure", "execute", "backfill", "keep"}
    BY <1>3, <2>1, DecisionFacts
  <2>3. /\ mig' = [mig EXCEPT ![r].step = "commit", ![r].decision = Decision(r)]
        /\ UNCHANGED <<content, history, ranFiles, locked>>
    BY <1>3 DEF CheckApplied
  <2>4. /\ mig' \in [Builds -> MigType] /\ mig'[r].step = "commit" /\ mig'[r].decision = Decision(r)
        /\ mig'[r].file = mig[r].file /\ mig'[r].why = mig[r].why
        /\ \A q \in Builds : q # r => mig'[q] = mig[q]
    BY <1>1, <2>2, <2>3 DEF MigType
  <2>5. Decision(r)' = Decision(r)
    BY <2>3, <2>4 DEF Decision
  <2>6. ReplicaInv(r)'
    BY <1>1, <2>3, <2>4, <2>5 DEF ReplicaInv
  <2>7. QED
    BY <2>3, <2>4, <2>6, MigQuietStep DEF MigStep
<1>4. QED
  BY <1>2, <1>3

LEMMA MigrationFailsInv ==
  ASSUME MigInv, NEW r \in Builds, MigrationFails(r)
  PROVE  MigInv'
<1>1. locked = r
  BY DEF MigInv, ReplicaInv, MigrationFails
<1>2. QED
  BY <1>1, FailInv DEF MigrationFails

LEMMA RestartInv ==
  ASSUME MigInv, NEW r \in Builds, RestartMigration(r)
  PROVE  MigInv'
<1>1. mig \in [Builds -> MigType] /\ ReplicaInv(r) /\ r # "nobody" /\ Files \in Nat
  BY PgMigrateAssumption DEF MigInv, MigTypeOK
<1>2. MigStep(r) /\ history' = history /\ ranFiles' = ranFiles /\ mig'[r] = Fresh /\ locked' # r
  BY <1>1 DEF RestartMigration, Unlocked, MigStep, MigType, Fresh
<1>3. ReplicaInv(r)'
  BY <1>1, <1>2 DEF ReplicaInv, Fresh
<1>4. QED
  BY <1>2, <1>3, MigQuietStep

(* The record of the next replica state after a commit. *)
Advanced(r) ==
  [mig EXCEPT ![r].file = mig[r].file + 1, ![r].decision = "none",
              ![r].step = IF mig[r].file = Files THEN "done" ELSE "begin"]

LEMMA AppendedSeq ==
  ASSUME NEW S, NEW s \in Seq(S), NEW e \in S
  PROVE  /\ Append(s, e) \in Seq(S) /\ Len(Append(s, e)) = Len(s) + 1
         /\ Append(s, e)[Len(s) + 1] = e
         /\ \A i \in 1..Len(s) : Append(s, e)[i] = s[i]
OBVIOUS

LEMMA CommitInv ==
  ASSUME MigInv, NEW r \in Builds, CommitMigration(r)
  PROVE  MigInv'
<1> DEFINE f == mig[r].file
<1>1. /\ mig \in [Builds -> MigType] /\ mig[r] \in MigType /\ ReplicaInv(r) /\ r # "nobody"
      /\ mig[r].step = "commit" /\ locked = r /\ f \in Nat /\ Files \in Nat /\ f <= Files
      /\ mig[r].decision = Decision(r)
      /\ content[r] \in [1..Files -> Contents]
      /\ history \in [1..Files -> Contents \cup {"none", "null"}]
      /\ ranFiles \in Seq(Nat \X Contents)
  BY PgMigrateAssumption DEF MigInv, MigTypeOK, MigType, ReplicaInv, CommitMigration, Step
<1>2. /\ Decision(r) \in {"ensure", "execute", "backfill", "keep"}
      /\ Decision(r) # "ensure" => f \in 1..Files
      /\ Decision(r) = "execute" => history[f] = "none"
      /\ Decision(r) = "backfill" => history[f] = "null"
      /\ Decision(r) = "keep" => history[f] = content[r][f]
      /\ Decision(r) = "ensure" => f = 0
  BY <1>1, DecisionFacts DEF MigType
<1>3. /\ mig' = Advanced(r) /\ Unlocked(r) /\ content' = content
      /\ Decision(r) = "execute" => /\ history' = [history EXCEPT ![f] = content[r][f]]
                                    /\ ranFiles' = Append(ranFiles, <<f, content[r][f]>>)
      /\ Decision(r) = "backfill" => /\ history' = [history EXCEPT ![f] = content[r][f]]
                                     /\ ranFiles' = ranFiles
      /\ Decision(r) \in {"ensure", "keep"} => history' = history /\ ranFiles' = ranFiles
  <2> DEFINE next == [mig EXCEPT ![r].file = @ + 1, ![r].decision = "none",
                                 ![r].step = IF f = Files THEN "done" ELSE "begin"]
  <2>1. next = Advanced(r)
    BY <1>1 DEF Advanced
  <2> HIDE DEF next
  <2>2. QED
    BY <1>1, <1>2, <2>1 DEF CommitMigration, next
<1>4. MigStep(r) /\ locked' = "nobody"
  BY SMTT(60), <1>1, <1>3 DEF MigStep, Advanced, Unlocked, MigType
<1>5. /\ mig'[r].file = f + 1 /\ mig'[r].why = mig[r].why
      /\ mig'[r].step = IF f = Files THEN "done" ELSE "begin"
  BY <1>1, <1>3 DEF Advanced, MigType
<1>6. /\ history' \in [1..Files -> Contents \cup {"none", "null"}]
      /\ \A g \in 1..Files : g # f => history'[g] = history[g]
      /\ f \in 1..Files => history'[f] = content[r][f] /\ content[r][f] \in Contents
  <2>1. CASE Decision(r) \in {"execute", "backfill"}
    <3>1. f \in 1..Files /\ history' = [history EXCEPT ![f] = content[r][f]]
      BY <1>2, <1>3, <2>1
    <3>2. content[r][f] \in Contents
      BY <1>1, <3>1
    <3> HIDE DEF f
    <3>3. QED
      BY <1>1, <3>1, <3>2
  <2>2. CASE Decision(r) = "keep"
    BY <1>1, <1>2, <1>3, <2>2
  <2>3. CASE Decision(r) = "ensure"
    BY <1>1, <1>2, <1>3, <2>3
  <2>4. QED
    BY <1>2, <2>1, <2>2, <2>3
<1>7. HistoryGrows
  BY <1>1, <1>2, <1>3 DEF HistoryGrows, Contents
<1>8. ReplicaInv(r)'
  <2>1. ASSUME NEW g \in 1..Files, g < f + 1 PROVE history'[g] = content'[r][g]
    <3>1. CASE g = f
      BY <1>3, <1>6, <3>1
    <3>2. CASE g < f
      BY <1>1, <1>3, <1>6, <3>2 DEF ReplicaInv
    <3>3. QED
      BY <1>1, <2>1, <3>1, <3>2
  <2>2. QED
    BY <1>1, <1>4, <1>5, <2>1 DEF ReplicaInv
<1>9. HistoryInv' /\ ranFiles' \in Seq(Nat \X Contents)
  <2>1. CASE Decision(r) = "execute"
    <3>1. f \in 1..Files /\ history[f] = "none" /\ Len(ranFiles) \in Nat
      BY <1>1, <1>2, <2>1
    <3>2. f > Len(ranFiles)
      BY <1>1, <3>1 DEF MigInv, HistoryInv
    <3>3. ASSUME f > 1 PROVE f - 1 <= Len(ranFiles)
      <4>1. f - 1 \in 1..Files /\ f - 1 < f
        BY <1>1, <3>1, <3>3
      <4>2. history[f - 1] = content[r][f - 1]
        BY <1>1, <4>1 DEF ReplicaInv
      <4>3. QED
        BY <1>1, <4>1, <4>2 DEF MigInv, HistoryInv, Contents
    <3>4. Len(ranFiles) = f - 1
      BY <1>1, <3>1, <3>2, <3>3
    <3>5. <<f, content[r][f]>> \in Nat \X Contents
      BY <1>1, <1>6, <3>1
    <3>6. /\ ranFiles' \in Seq(Nat \X Contents) /\ Len(ranFiles') = f
          /\ ranFiles'[f] = <<f, content[r][f]>>
          /\ \A i \in 1..Len(ranFiles) : ranFiles'[i] = ranFiles[i]
      <4>1. ranFiles' = Append(ranFiles, <<f, content[r][f]>>) /\ ranFiles \in Seq(Nat \X Contents)
        BY <1>1, <1>3, <2>1
      <4> DEFINE e == <<f, content[r][f]>>
      <4> HIDE DEF f, e
      <4>2. Len(ranFiles) + 1 = f /\ e \in Nat \X Contents
        BY <1>1, <3>1, <3>4, <3>5 DEF e
      <4>3. QED
        BY <4>1, <4>2, AppendedSeq DEF e
    <3>7. \A i \in 1..Len(ranFiles') : ranFiles'[i][1] = i
      <4>1. \A i \in 1..Len(ranFiles') : i = f \/ i \in 1..Len(ranFiles)
        BY <3>1, <3>4, <3>6
      <4>2. QED
        BY <3>6, <4>1 DEF MigInv, HistoryInv
    <3>8. \A g \in 1..Files : history'[g] # "none" <=> g <= f
      <4>1. \A g \in 1..Files : g # f => (g <= f <=> g <= Len(ranFiles))
        BY <1>1, <3>1, <3>4
      <4>2. history'[f] # "none"
        BY <1>6, <3>1 DEF Contents
      <4>3. f <= f
        BY <1>1
      <4>4. QED
        BY <1>6, <4>1, <4>2, <4>3 DEF MigInv, HistoryInv
    <3>9. QED
      BY <3>6, <3>7, <3>8 DEF HistoryInv
  <2>2. CASE Decision(r) = "backfill"
    BY <1>1, <1>2, <1>3, <1>6, <2>2 DEF MigInv, HistoryInv, Contents
  <2>3. CASE Decision(r) \in {"ensure", "keep"}
    BY <1>1, <1>3, <2>3 DEF MigInv, HistoryInv
  <2>4. QED
    BY <1>2, <2>1, <2>2, <2>3
<1>10. ASSUME NEW q \in Builds, q # r PROVE ReplicaInv(q)'
  BY <1>1, <1>4, <1>7, <1>10, OthersKeepMig DEF MigStep
<1>11. MigTypeOK'
  BY <1>4, <1>6, <1>9 DEF MigInv, MigTypeOK, MigStep
<1>12. QED
  BY <1>8, <1>9, <1>10, <1>11 DEF MigInv

LEMMA MigNextInv == MigInv /\ [MigrateNext]_migVars => MigInv'
<1> SUFFICES ASSUME MigInv, [MigrateNext]_migVars PROVE MigInv'
  OBVIOUS
<1>1. CASE UNCHANGED migVars
  <2>1. \A r \in Builds : Decision(r)' = Decision(r)
    BY <1>1 DEF migVars, Decision
  <2>2. QED
    BY <1>1, <2>1 DEF migVars, MigInv, MigTypeOK, HistoryInv, ReplicaInv
<1>2. CASE MigrateNext
  BY <1>2, LockSchemaInv, CheckAppliedInv, MigrationFailsInv, CommitInv, RestartInv DEF MigrateNext
<1>3. QED
  BY <1>1, <1>2

LEMMA MigInvOnce == MigInv => MigratedOnce
<1> SUFFICES ASSUME MigInv PROVE MigratedOnce
  OBVIOUS
<1>1. ASSUME NEW r \in Builds, Step(r, "done"), NEW f \in 1..Files PROVE history[f] = content[r][f]
  BY <1>1, PgMigrateAssumption DEF MigInv, ReplicaInv, Step
<1>2. \A r \in Builds : mig[r].why # "duplicate"
  BY DEF MigInv, ReplicaInv
<1>3. QED
  BY <1>1, <1>2 DEF MigInv, HistoryInv, MigratedOnce

(* However many replicas migrate, fail and start again, every file takes    *)
(* effect once and in order, its record says what took effect, no replica   *)
(* fails on another's record, and one that is done has the content that was *)
(* applied (pgmigrate.go:83-107, 141-206), for any number of files.         *)
THEOREM MigratedExactlyOnce == MigrateSpec => []MigratedOnce
<1>1. MigrateSpec => []MigInv
  BY MigInitInv, MigNextInv, PTL DEF MigrateSpec
<1>2. QED
  BY <1>1, MigInvOnce, PTL

-----------------------------------------------------------------------------
(* Access contracts. *)

AfterAlter == {"members", "grants", "rls", "assert", "enable", "commit"}
AfterMembers == AfterAlter \ {"members"}
AfterGrants == AfterMembers \ {"grants"}
Statements == {"look", "create", "alter"} \cup AfterAlter

TxType ==
  [at : {"render", "lock", "refused", "failed", "committed"} \cup Statements,
   locked : SUBSET Tables, left : SUBSET Tables, now : Tables \cup {"none"}]

(* The shape of what the cluster and a database hold. *)
IsCluster(c) ==
  /\ c = [role |-> c.role, members |-> c.members, exist |-> c.exist]
  /\ c.members \subseteq c.exist \cup {"permission"}
  /\ "absent" \in c.role => c.role = {"absent"}

IsDb(x) ==
  /\ x = [acl |-> x.acl, cols |-> x.cols, secured |-> x.secured]
  /\ x.acl = [t \in Tables |-> x.acl[t]] /\ x.cols = [t \in Tables |-> x.cols[t]]

IsWork(w) == w = [cluster |-> w.cluster, db |-> w.db] /\ IsCluster(w.cluster) /\ IsDb(w.db)

AccessTypeOK ==
  /\ tx \in [Migrations -> TxType]
  /\ location \in [Migrations -> Databases]
  /\ IsCluster(cluster)
  /\ db = [d \in Databases |-> db[d]] /\ \A d \in Databases : IsDb(db[d])
  /\ policies \in [Databases -> [Tables -> PolicySets]]
  /\ work = [m \in Migrations |-> work[m]]
  /\ rowHolder \in Migrations \cup {"none"}

(* The permission role as the migration sees it: its row is the             *)
(* migration's own once it was created or altered, and until then somebody  *)
(* has committed it.                                                        *)
RoleInv(m) ==
  /\ rowHolder = m => tx[m].at \in {"alter"} \cup AfterAlter
  /\ tx[m].at = "alter" =>
       IF rowHolder = m THEN "absent" \notin work[m].cluster.role ELSE "absent" \notin cluster.role
  /\ tx[m].at \in AfterAlter =>
       /\ rowHolder = m
       /\ work[m].cluster.role \cap ({"absent", "LOGIN"} \cup MandatoryForbidden) = {}
  /\ tx[m].at \in AfterMembers =>
       /\ {"permission"} \cup manifest[m].required \subseteq work[m].cluster.members
       /\ manifest[m].excluded \cap work[m].cluster.members = {}

(* What has been granted stays granted, and is gone from what is revoked.   *)
GrantInv(m) ==
  /\ tx[m].at \in AfterGrants =>
       \A t \in Tables : /\ manifest[m].tables[t] \ Unlisted \subseteq work[m].db.acl[t]
                         /\ manifest[m].columns[t] \ Unlisted \subseteq work[m].db.cols[t]
  /\ tx[m].at = "commit" =>
       \A t \in Tables : Revoked(manifest[m], t) \cap (work[m].db.acl[t] \cup work[m].db.cols[t]) = {}

(* A protected table is still to be locked, or compared, or it is locked,   *)
(* its policies are the declared ones, and row security is on or the next   *)
(* statement.                                                               *)
TableInv(m, t) ==
  \/ tx[m].at # "commit" /\ t \in tx[m].left
  \/ tx[m].at = "assert" /\ t = tx[m].now
  \/ /\ t \in tx[m].locked
     /\ policies[location[m]][t] = manifest[m].rls[t].policies
     /\ t \in work[m].db.secured \/ (tx[m].at = "enable" /\ t = tx[m].now)

SecurityInv(m) ==
  /\ tx[m].at = "assert" => tx[m].now \in tx[m].locked
  /\ tx[m].at \in AfterGrants => \A t \in Tables : manifest[m].rls[t].declared => TableInv(m, t)

ContractInv(m) ==
  /\ tx[m].at \notin {"render", "refused"} => ValidateManifest(manifest[m])
  /\ tx[m].at \in Statements => IsWork(work[m])
  /\ RoleInv(m) /\ GrantInv(m) /\ SecurityInv(m)

(* The first of the migrations to commit left what it declared. *)
CommittedInv ==
  \A m \in Migrations :
    tx[m].at = "committed" /\ (\A n \in Migrations \ {m} : tx[n].at # "committed") =>
      /\ RoleIsAsDeclared(manifest[m], cluster)
      /\ PrivilegesAreAsDeclared(manifest[m], db[location[m]])

AccessInv == AccessTypeOK /\ (\A m \in Migrations : ContractInv(m)) /\ CommittedInv

LEMMA AccessInitInv == AccessInit => AccessInv
<1> SUFFICES ASSUME AccessInit PROVE AccessInv
  OBVIOUS
<1>1. /\ \A m \in Migrations : tx[m].at = "render"
      /\ tx \in [Migrations -> TxType] /\ work = [m \in Migrations |-> work[m]]
      /\ rowHolder = "none" /\ location \in [Migrations -> Databases]
  BY DEF AccessInit, TxType
<1>2. IsCluster(cluster)
  BY DEF AccessInit, IsCluster
<1>3. db = [d \in Databases |-> db[d]] /\ \A d \in Databases : IsDb(db[d])
  <2>1. PICK held \in {{}, TablePrivileges} :
          db = [d \in Databases |-> [acl |-> [t \in Tables |-> held],
                                     cols |-> [t \in Tables |-> held \cap ColumnPrivileges],
                                     secured |-> {}]]
    BY DEF AccessInit
  <2>2. QED
    BY <2>1 DEF IsDb
<1>4. policies \in [Databases -> [Tables -> PolicySets]]
  <2>1. PICK s \in {{}, {[name |-> "p", body |-> "declared"]}} :
          policies = [d \in Databases |-> [t \in Tables |-> IF Protected(d, t) THEN s ELSE {}]]
    BY DEF AccessInit
  <2>2. s \in PolicySets /\ {} \in PolicySets
    BY DEF PolicySets, PolicyVersions
  <2>3. QED
    BY <2>1, <2>2
<1>5. \A m \in Migrations : ContractInv(m)
  BY <1>1, DbAccessAssumption DEF ContractInv, RoleInv, GrantInv, SecurityInv, Statements,
     AfterAlter, AfterMembers, AfterGrants
<1>6. CommittedInv
  BY <1>1 DEF CommittedInv
<1>7. QED
  BY <1>1, <1>2, <1>3, <1>4, <1>5, <1>6 DEF AccessInv, AccessTypeOK

-----------------------------------------------------------------------------
(* A step of m, for the others. *)
AloneInTx(m) ==
  /\ \A q \in Migrations : q # m => tx'[q] = tx[q] /\ work'[q] = work[q]
  /\ tx' \in [Migrations -> TxType] /\ work' = [q \in Migrations |-> work'[q]]
  /\ UNCHANGED <<manifest, location, policies>>
  /\ rowHolder' = rowHolder \/ ({rowHolder, rowHolder'} \subseteq {m, "none"})

LEMMA OthersKeepContract ==
  ASSUME AccessInv, NEW m \in Migrations, NEW q \in Migrations, q # m, AloneInTx(m),
         "absent" \notin cluster.role => "absent" \notin cluster'.role
  PROVE  ContractInv(q)'
<1>1. /\ tx'[q] = tx[q] /\ work'[q] = work[q] /\ UNCHANGED <<manifest, location, policies>>
      /\ rowHolder' = q <=> rowHolder = q
  BY DbAccessAssumption DEF AloneInTx
<1>2. ContractInv(q)
  BY DEF AccessInv
<1>3. RoleInv(q)'
  BY <1>1, <1>2 DEF ContractInv, RoleInv
<1>4. GrantInv(q)' /\ SecurityInv(q)'
  BY <1>1, <1>2 DEF ContractInv, GrantInv, SecurityInv, TableInv
<1>5. QED
  BY <1>1, <1>2, <1>3, <1>4 DEF ContractInv

(* A step of m that commits nothing. *)
LEMMA OpenStepInv ==
  ASSUME AccessInv, NEW m \in Migrations, AloneInTx(m), UNCHANGED <<cluster, db>>,
         tx'[m].at # "committed", tx[m].at # "committed", ContractInv(m)'
  PROVE  AccessInv'
<1>1. AccessTypeOK'
  BY DEF AccessInv, AccessTypeOK, AloneInTx
<1>2. \A q \in Migrations : ContractInv(q)'
  BY OthersKeepContract
<1>3. CommittedInv'
  <2>1. \A q \in Migrations : tx'[q].at = "committed" <=> tx[q].at = "committed"
    BY DEF AloneInTx
  <2>2. UNCHANGED <<manifest, location, cluster, db>>
    BY DEF AloneInTx
  <2>3. QED
    BY <2>1, <2>2 DEF AccessInv, CommittedInv
<1>4. QED
  BY <1>1, <1>2, <1>3 DEF AccessInv

LEMMA TxFacts ==
  ASSUME AccessInv, NEW m \in Migrations
  PROVE  /\ tx \in [Migrations -> TxType] /\ tx[m] \in TxType
         /\ work = [q \in Migrations |-> work[q]] /\ ContractInv(m) /\ m # "none"
         /\ tx[m].at \in Statements => IsWork(work[m])
         /\ tx[m].at \notin {"render", "refused"} => ValidateManifest(manifest[m])
BY DbAccessAssumption DEF AccessInv, AccessTypeOK, ContractInv

(* Moves names the next statement and nothing else. *)
LEMMA MovesFacts ==
  ASSUME AccessInv, NEW m \in Migrations, NEW to \in {"lock", "refused"} \cup Statements,
         tx' = [tx EXCEPT ![m].at = to]
  PROVE  /\ tx' \in [Migrations -> TxType] /\ \A q \in Migrations : q # m => tx'[q] = tx[q]
         /\ tx'[m].at = to /\ tx'[m].locked = tx[m].locked
         /\ tx'[m].left = tx[m].left /\ tx'[m].now = tx[m].now
<1>1. tx \in [Migrations -> TxType] /\ tx[m] \in TxType
  BY TxFacts
<1>2. QED
  BY <1>1 DEF TxType

LEMMA RenderInv ==
  ASSUME AccessInv, NEW m \in Migrations, RenderSQL(m)
  PROVE  AccessInv'
<1> DEFINE to == IF ValidateManifest(manifest[m]) THEN "lock" ELSE "refused"
<1>1. /\ tx[m].at = "render" /\ tx' = [tx EXCEPT ![m].at = to]
      /\ UNCHANGED <<manifest, location, cluster, db, policies, work, rowHolder>>
  BY DEF RenderSQL, Access
<1>2. to \in {"lock", "refused"} /\ (to = "lock" => ValidateManifest(manifest[m]))
  OBVIOUS
<1> HIDE DEF to
<1>3. /\ tx' \in [Migrations -> TxType] /\ \A q \in Migrations : q # m => tx'[q] = tx[q]
      /\ tx'[m].at = to
  <2>1. to \in {"lock", "refused"} \cup Statements
    BY <1>2
  <2>2. QED
    BY <1>1, <2>1, MovesFacts
<1>4. AloneInTx(m)
  BY <1>1, <1>3, TxFacts DEF AloneInTx
<1>5. rowHolder # m
  BY <1>1, TxFacts DEF ContractInv, RoleInv, AfterAlter
<1>6. ContractInv(m)'
  <2>1. (tx[m].at \notin {"render", "refused"} => ValidateManifest(manifest[m]))'
    BY <1>1, <1>2, <1>3 DEF ValidateManifest, ValidHeader, ValidRoleLists, ValidPrivileges,
        ValidRLS, GrantsAreAllowed
  <2>2. tx'[m].at \notin Statements /\ tx'[m].at # "commit"
    BY <1>2, <1>3 DEF Statements, AfterAlter
  <2>3. RoleInv(m)' /\ GrantInv(m)' /\ SecurityInv(m)'
    BY <1>1, <1>5, <2>2 DEF RoleInv, GrantInv, SecurityInv, Statements, AfterAlter, AfterMembers, AfterGrants
  <2>4. QED
    BY <2>1, <2>2, <2>3 DEF ContractInv
<1>7. QED
  BY <1>1, <1>2, <1>3, <1>4, <1>6, OpenStepInv

LEMMA AdvisoryLockInv ==
  ASSUME AccessInv, NEW m \in Migrations, AdvisoryLock(m)
  PROVE  AccessInv'
<1>1. /\ tx[m].at = "lock" /\ tx' = [tx EXCEPT ![m].at = "look"]
      /\ work' = [work EXCEPT ![m] = [cluster |-> cluster, db |-> db[location[m]]]]
      /\ UNCHANGED <<manifest, location, cluster, db, policies, rowHolder>>
  BY DEF AdvisoryLock, Moves, Access
<1>2. /\ tx' \in [Migrations -> TxType] /\ \A q \in Migrations : q # m => tx'[q] = tx[q]
      /\ tx'[m].at = "look"
  BY <1>1, MovesFacts DEF Statements
<1>3. AloneInTx(m) /\ work'[m] = [cluster |-> cluster, db |-> db[location[m]]]
  BY <1>1, <1>2, TxFacts DEF AloneInTx
<1>4. IsCluster(cluster) /\ IsDb(db[location[m]])
  BY DEF AccessInv, AccessTypeOK
<1>5. IsWork(work[m])'
  BY <1>3, <1>4 DEF IsWork, IsCluster, IsDb
<1>6. rowHolder # m
  BY <1>1, TxFacts DEF ContractInv, RoleInv, AfterAlter
<1>7. RoleInv(m)' /\ GrantInv(m)' /\ SecurityInv(m)'
  BY <1>1, <1>2, <1>6 DEF RoleInv, GrantInv, SecurityInv, Statements, AfterAlter, AfterMembers, AfterGrants
<1>8. ValidateManifest(manifest[m])'
  BY <1>1, TxFacts
<1>9. ContractInv(m)'
  BY <1>5, <1>7, <1>8 DEF ContractInv
<1>10. QED
  BY <1>1, <1>2, <1>3, <1>9, OpenStepInv

LEMMA LookForRoleInv ==
  ASSUME AccessInv, NEW m \in Migrations, LookForRole(m)
  PROVE  AccessInv'
<1> DEFINE to == IF cluster.role = {"absent"} THEN "create" ELSE "alter"
<1>1. /\ tx[m].at = "look" /\ tx' = [tx EXCEPT ![m].at = to]
      /\ UNCHANGED <<manifest, location, cluster, db, policies, work, rowHolder>>
  BY DEF LookForRole, Moves, Access
<1>2. to \in {"create", "alter"} /\ (to = "alter" => cluster.role # {"absent"})
  OBVIOUS
<1> HIDE DEF to
<1>3. /\ tx' \in [Migrations -> TxType] /\ \A q \in Migrations : q # m => tx'[q] = tx[q]
      /\ tx'[m].at = to
  <2>1. to \in {"lock", "refused"} \cup Statements
    BY <1>2 DEF Statements
  <2>2. QED
    BY <1>1, <2>1, MovesFacts
<1>4. AloneInTx(m)
  BY <1>1, <1>3, TxFacts DEF AloneInTx
<1>5. rowHolder # m /\ IsWork(work[m]) /\ ValidateManifest(manifest[m])
  BY <1>1, TxFacts DEF ContractInv, RoleInv, AfterAlter, Statements
<1>6. ContractInv(m)'
  <2>1. to = "alter" => "absent" \notin cluster.role
    BY <1>2 DEF AccessInv, AccessTypeOK, IsCluster
  <2>2. QED
    BY <1>1, <1>2, <1>3, <1>5, <2>1 DEF ContractInv, RoleInv, GrantInv, SecurityInv, Statements,
        AfterAlter, AfterMembers, AfterGrants
<1>7. QED
  BY <1>1, <1>2, <1>3, <1>4, <1>6, OpenStepInv

LEMMA CreateRoleInv ==
  ASSUME AccessInv, NEW m \in Migrations, CreateRole(m)
  PROVE  AccessInv'
<1>1. /\ tx[m].at = "create" /\ tx' = [tx EXCEPT ![m].at = "alter"] /\ rowHolder = "none"
      /\ UNCHANGED <<manifest, location, cluster, db, policies>>
  BY DEF CreateRole, Moves, Access
<1>2. /\ tx' \in [Migrations -> TxType] /\ \A q \in Migrations : q # m => tx'[q] = tx[q]
      /\ tx'[m].at = "alter"
  BY <1>1, MovesFacts DEF Statements
<1>3. IsWork(work[m]) /\ ValidateManifest(manifest[m]) /\ IsCluster(cluster) /\ m # "none"
  BY <1>1, TxFacts DEF Statements, AccessInv, AccessTypeOK
<1>4. CASE cluster.role = {"absent"}
  <2> DEFINE c == [cluster EXCEPT !.role = {"INHERIT"}]
  <2>1. rowHolder' = m /\ work' = [work EXCEPT ![m].cluster = c]
    BY <1>4 DEF CreateRole
  <2>2. IsCluster(c) /\ c.role = {"INHERIT"}
    BY <1>3 DEF IsCluster
  <2> HIDE DEF c
  <2>3. work'[m] = [cluster |-> c, db |-> work[m].db] /\ AloneInTx(m)
    BY <1>1, <1>2, <1>3, <2>1, TxFacts DEF AloneInTx, IsWork
  <2>4. IsWork(work'[m]) /\ work'[m].cluster.role = {"INHERIT"}
    BY <1>3, <2>2, <2>3 DEF IsWork
  <2>5. ContractInv(m)'
    BY <1>1, <1>2, <1>3, <2>1, <2>4 DEF ContractInv, RoleInv, GrantInv, SecurityInv, Statements, AfterAlter,
       AfterMembers, AfterGrants, IsWork, IsCluster, IsDb
  <2>6. QED
    BY <1>1, <1>2, <2>3, <2>5, OpenStepInv
<1>5. CASE cluster.role # {"absent"}
  <2>1. rowHolder' = rowHolder /\ work' = work /\ "absent" \notin cluster.role
    BY <1>3, <1>5 DEF CreateRole, IsCluster
  <2>2. AloneInTx(m)
    BY <1>1, <1>2, <2>1, TxFacts DEF AloneInTx
  <2>3. ContractInv(m)'
    BY <1>1, <1>2, <1>3, <2>1 DEF ContractInv, RoleInv, GrantInv, SecurityInv, Statements, AfterAlter,
       AfterMembers, AfterGrants
  <2>4. QED
    BY <1>1, <1>2, <2>2, <2>3, OpenStepInv
<1>6. QED
  BY <1>4, <1>5

LEMMA AlterRoleInv ==
  ASSUME AccessInv, NEW m \in Migrations, AlterRole(m)
  PROVE  AccessInv'
<1> DEFINE seen == IF rowHolder = m THEN work[m].cluster ELSE cluster
           role == (seen.role \ ({"LOGIN"} \cup manifest[m].attributes)) \cup {"INHERIT"}
           c == [seen EXCEPT !.role = role]
<1>1. /\ tx[m].at = "alter" /\ tx' = [tx EXCEPT ![m].at = "members"] /\ rowHolder \in {"none", m}
      /\ rowHolder' = m /\ UNCHANGED <<manifest, location, cluster, db, policies>>
  BY DEF AlterRole, Moves, Access
<1>2. work' = [work EXCEPT ![m].cluster = [seen EXCEPT !.role = (seen.role \ ({"LOGIN"} \cup manifest[m].attributes)) \cup {"INHERIT"}]]
  BY DEF AlterRole
<1>3. /\ tx' \in [Migrations -> TxType] /\ \A q \in Migrations : q # m => tx'[q] = tx[q]
      /\ tx'[m].at = "members"
  BY <1>1, MovesFacts DEF Statements, AfterAlter
<1>4. IsWork(work[m]) /\ ValidateManifest(manifest[m]) /\ IsCluster(cluster) /\ RoleInv(m)
  BY <1>1, TxFacts DEF Statements, AccessInv, AccessTypeOK, ContractInv
<1>5. IsCluster(seen) /\ "absent" \notin seen.role
  BY <1>1, <1>4 DEF IsWork, RoleInv
<1>6. role \cap ({"absent", "LOGIN"} \cup MandatoryForbidden) = {}
  BY <1>4, <1>5 DEF ValidateManifest, MandatoryForbidden
<1> HIDE DEF seen, role
<1>7. IsCluster(c) /\ c.role = role
  BY <1>5, <1>6 DEF IsCluster
<1>8. work' = [work EXCEPT ![m].cluster = c]
  BY <1>2 DEF role
<1> HIDE DEF c
<1>9. work'[m] = [cluster |-> c, db |-> work[m].db] /\ AloneInTx(m)
  BY <1>1, <1>3, <1>4, <1>8, TxFacts DEF AloneInTx, IsWork
<1>10. IsWork(work'[m]) /\ work'[m].cluster.role = role
  BY <1>4, <1>7, <1>9 DEF IsWork
<1>11. ContractInv(m)'
  BY <1>1, <1>3, <1>4, <1>6, <1>10 DEF ContractInv, RoleInv, GrantInv, SecurityInv, Statements, AfterAlter,
     AfterMembers, AfterGrants, IsWork, IsCluster, IsDb
<1>12. QED
  BY <1>1, <1>3, <1>9, <1>11, OpenStepInv

LEMMA MembershipsInv ==
  ASSUME AccessInv, NEW m \in Migrations, Memberships(m)
  PROVE  AccessInv'
<1> DEFINE w == work[m].cluster
           members == (w.members \cup {"permission"} \cup manifest[m].required)
                        \ (manifest[m].excluded \cap w.exist)
           c == [w EXCEPT !.members = members]
<1>1. /\ tx[m].at = "members" /\ tx' = [tx EXCEPT ![m].at = "grants"]
      /\ manifest[m].required \subseteq w.exist
      /\ UNCHANGED <<manifest, location, cluster, db, policies, rowHolder>>
  BY DEF Memberships, Moves, Access
<1>2. /\ tx' \in [Migrations -> TxType] /\ \A q \in Migrations : q # m => tx'[q] = tx[q]
      /\ tx'[m].at = "grants"
  BY <1>1, MovesFacts DEF Statements, AfterAlter
<1>3. IsWork(work[m]) /\ ValidateManifest(manifest[m]) /\ RoleInv(m) /\ IsCluster(w)
  BY <1>1, TxFacts DEF Statements, AfterAlter, ContractInv, IsWork
<1>4. work' = [work EXCEPT ![m].cluster.members = members]
  BY DEF Memberships
<1>5. /\ {"permission"} \cup manifest[m].required \subseteq members
      /\ manifest[m].excluded \cap members = {}
      /\ members \subseteq w.exist \cup {"permission"}
  BY <1>1, <1>3 DEF ValidateManifest, ValidRoleLists, IsCluster
<1> HIDE DEF members
<1>6. work' = [work EXCEPT ![m].cluster = c]
  BY <1>4
<1>7. IsCluster(c) /\ c.role = w.role /\ c.members = members
  BY <1>3, <1>5 DEF IsCluster
<1> HIDE DEF c
<1>8. work'[m] = [cluster |-> c, db |-> work[m].db] /\ AloneInTx(m)
  BY <1>1, <1>2, <1>3, <1>6, TxFacts DEF AloneInTx, IsWork
<1>9. IsWork(work'[m]) /\ work'[m].cluster = c
  BY <1>3, <1>7, <1>8 DEF IsWork
<1>10. RoleInv(m)'
  BY <1>1, <1>2, <1>3, <1>5, <1>7, <1>9 DEF RoleInv, AfterAlter, AfterMembers
<1>11. ContractInv(m)'
  BY <1>1, <1>2, <1>3, <1>9, <1>10 DEF ContractInv, GrantInv, SecurityInv, AfterAlter, AfterMembers,
      AfterGrants
<1>12. QED
  BY <1>1, <1>2, <1>8, <1>11, OpenStepInv

LEMMA GrantPrivilegesInv ==
  ASSUME AccessInv, NEW m \in Migrations, GrantPrivileges(m)
  PROVE  AccessInv'
<1> DEFINE mf == manifest[m]
           left == {t \in Tables : mf.rls[t].declared}
           acl == [t \in Tables |-> work[m].db.acl[t] \cup (mf.tables[t] \ Unlisted)]
           cols == [t \in Tables |-> work[m].db.cols[t] \cup (mf.columns[t] \ Unlisted)]
           x == [acl |-> acl, cols |-> cols, secured |-> work[m].db.secured]
<1>1. /\ tx[m].at = "grants" /\ tx' = [tx EXCEPT ![m].at = "rls", ![m].left = left]
      /\ UNCHANGED <<manifest, location, cluster, db, policies, rowHolder>>
  BY DEF GrantPrivileges, Access
<1>2. tx \in [Migrations -> TxType] /\ tx[m] \in TxType /\ left \in SUBSET Tables
  BY TxFacts
<1>3. /\ tx' \in [Migrations -> TxType] /\ \A q \in Migrations : q # m => tx'[q] = tx[q]
      /\ tx'[m].at = "rls" /\ tx'[m].left = left
  <2> HIDE DEF left
  <2>1. QED
    BY <1>1, <1>2 DEF TxType, Statements, AfterAlter
<1>4. IsWork(work[m]) /\ ValidateManifest(mf) /\ RoleInv(m) /\ IsDb(work[m].db)
  BY <1>1, TxFacts DEF Statements, AfterAlter, ContractInv, IsWork
<1>5. work'[m] = [cluster |-> work[m].cluster, db |-> x] /\ AloneInTx(m)
  <2>1. work' = [work EXCEPT ![m].db.acl = [t \in Tables |-> @[t] \cup (mf.tables[t] \ Unlisted)],
                             ![m].db.cols = [t \in Tables |-> @[t] \cup (mf.columns[t] \ Unlisted)]]
    BY DEF GrantPrivileges
  <2>2. work' = [work EXCEPT ![m].db.acl = acl, ![m].db.cols = cols]
    BY <1>4, <2>1, TxFacts DEF IsWork, IsDb
  <2> HIDE DEF acl, cols
  <2>3. work'[m] = [cluster |-> work[m].cluster, db |-> x]
    BY <1>4, <2>2, TxFacts DEF IsWork, IsDb
  <2>4. work' = [q \in Migrations |-> work'[q]] /\ \A q \in Migrations : q # m => work'[q] = work[q]
    BY <2>2, TxFacts
  <2>5. QED
    BY <1>1, <1>3, <2>3, <2>4 DEF AloneInTx
<1>6. IsDb(x)
  BY DEF IsDb
<1>7. IsWork(work'[m]) /\ work'[m].cluster = work[m].cluster /\ work'[m].db = x
  BY <1>4, <1>5, <1>6 DEF IsWork
<1>8. RoleInv(m)'
  BY <1>1, <1>3, <1>4, <1>7 DEF RoleInv, AfterAlter, AfterMembers
<1>9. GrantInv(m)'
  BY <1>1, <1>3, <1>7 DEF GrantInv
<1>10. SecurityInv(m)'
  BY <1>1, <1>3 DEF SecurityInv, TableInv
<1>11. ContractInv(m)'
  BY <1>1, <1>3, <1>4, <1>7, <1>8, <1>9, <1>10 DEF ContractInv
<1>12. QED
  BY <1>1, <1>3, <1>5, <1>11, OpenStepInv

LEMMA LockTableInv ==
  ASSUME AccessInv, NEW m \in Migrations, NEW t \in Tables, LockTable(m, t)
  PROVE  AccessInv'
<1>1. /\ tx[m].at = "rls" /\ t \in tx[m].left
      /\ tx' = [tx EXCEPT ![m].at = "assert", ![m].now = t,
                          ![m].locked = @ \cup {t}, ![m].left = @ \ {t}]
      /\ UNCHANGED <<manifest, location, cluster, db, policies, work, rowHolder>>
  BY DEF LockTable, Access
<1>2. tx \in [Migrations -> TxType] /\ tx[m] \in TxType
  BY TxFacts
<1>3. /\ tx' \in [Migrations -> TxType] /\ \A q \in Migrations : q # m => tx'[q] = tx[q]
      /\ tx'[m].at = "assert" /\ tx'[m].now = t /\ tx'[m].locked = tx[m].locked \cup {t}
      /\ tx'[m].left = tx[m].left \ {t}
  BY <1>1, <1>2 DEF TxType, Statements, AfterAlter
<1>4. AloneInTx(m)
  BY <1>1, <1>3, TxFacts DEF AloneInTx
<1>5. IsWork(work[m]) /\ ValidateManifest(manifest[m]) /\ RoleInv(m) /\ GrantInv(m) /\ SecurityInv(m)
  BY <1>1, TxFacts DEF Statements, AfterAlter, ContractInv
<1>6. RoleInv(m)' /\ GrantInv(m)'
  BY <1>1, <1>3, <1>5 DEF RoleInv, GrantInv, AfterAlter, AfterMembers, AfterGrants
<1>7. SecurityInv(m)'
  <2> SUFFICES ASSUME NEW u \in Tables, manifest[m].rls[u].declared PROVE TableInv(m, u)'
    BY <1>1, <1>3 DEF SecurityInv
  <2>1. TableInv(m, u)
    BY <1>1, <1>5 DEF SecurityInv, AfterAlter, AfterMembers, AfterGrants
  <2>2. QED
    BY <1>1, <1>3, <2>1 DEF TableInv
<1>8. ContractInv(m)'
  BY <1>1, <1>3, <1>5, <1>6, <1>7 DEF ContractInv
<1>9. QED
  BY <1>1, <1>3, <1>4, <1>8, OpenStepInv

LEMMA RollbackInv ==
  ASSUME AccessInv, NEW m \in Migrations, Rollback(m), tx[m].at \in Statements
  PROVE  AccessInv'
<1>1. /\ tx' = [tx EXCEPT ![m] = [at |-> "failed", locked |-> {}, left |-> {}, now |-> "none"]]
      /\ work' = [work EXCEPT ![m] = "none"]
      /\ rowHolder' = IF rowHolder = m THEN "none" ELSE rowHolder
      /\ UNCHANGED <<manifest, location, cluster, db, policies>>
  BY DEF Rollback, Access
<1>2. /\ tx' \in [Migrations -> TxType] /\ \A q \in Migrations : q # m => tx'[q] = tx[q]
      /\ tx'[m].at = "failed"
  BY <1>1, TxFacts DEF TxType
<1>3. AloneInTx(m) /\ rowHolder' # m
  BY <1>1, <1>2, TxFacts DEF AloneInTx
<1>4. ValidateManifest(manifest[m]) /\ tx[m].at # "committed"
  BY TxFacts DEF Statements, AfterAlter
<1>5. ContractInv(m)'
  BY <1>1, <1>2, <1>3, <1>4 DEF ContractInv, RoleInv, GrantInv, SecurityInv, Statements, AfterAlter,
     AfterMembers, AfterGrants
<1>6. QED
  BY <1>1, <1>2, <1>3, <1>4, <1>5, OpenStepInv

(* The two comparisons amount to equality, as the names of a table's        *)
(* policies are unique.                                                     *)
LEMMA PoliciesAreEqual ==
  ASSUME NEW actual \in PolicySets, NEW required, PoliciesMatch(actual, required)
  PROVE  actual = required
<1>1. ASSUME NEW p \in actual PROVE p \in required
  <2>1. p.name \in {r.name : r \in required}
    BY DEF PoliciesMatch
  <2>2. PICK r \in required : r.name = p.name
    BY <2>1
  <2>3. r \in actual
    BY DEF PoliciesMatch
  <2>4. QED
    BY <2>2, <2>3 DEF PolicySets
<1>2. QED
  BY <1>1 DEF PoliciesMatch

LEMMA AssertPoliciesInv ==
  ASSUME AccessInv, NEW m \in Migrations, AssertPolicies(m)
  PROVE  AccessInv'
<1> DEFINE t == tx[m].now
<1>1. tx[m].at = "assert" /\ tx[m] \in TxType
  BY TxFacts DEF AssertPolicies
<1>2. IsWork(work[m]) /\ ValidateManifest(manifest[m]) /\ RoleInv(m) /\ GrantInv(m) /\ SecurityInv(m)
  BY <1>1, TxFacts DEF Statements, AfterAlter, ContractInv
<1>3. t \in tx[m].locked /\ t \in Tables
  BY <1>1, <1>2 DEF SecurityInv, TxType
<1>4. CASE ~PoliciesMatch(policies[location[m]][t], manifest[m].rls[t].policies)
  BY <1>1, <1>4, RollbackInv DEF AssertPolicies, Statements, AfterAlter
<1>5. CASE PoliciesMatch(policies[location[m]][t], manifest[m].rls[t].policies)
  <2>1. /\ tx' = [tx EXCEPT ![m].at = "enable"]
        /\ UNCHANGED <<manifest, location, cluster, db, policies, work, rowHolder>>
    BY <1>5 DEF AssertPolicies, Moves, Access
  <2>2. /\ tx' \in [Migrations -> TxType] /\ \A q \in Migrations : q # m => tx'[q] = tx[q]
        /\ tx'[m].at = "enable" /\ tx'[m].locked = tx[m].locked
        /\ tx'[m].left = tx[m].left /\ tx'[m].now = t
    BY <2>1, MovesFacts DEF Statements, AfterAlter
  <2>3. AloneInTx(m)
    BY <2>1, <2>2, TxFacts DEF AloneInTx
  <2>4. policies[location[m]][t] \in PolicySets
    BY <1>3 DEF AccessInv, AccessTypeOK
  <2>5. policies[location[m]][t] = manifest[m].rls[t].policies
    BY <1>5, <2>4, PoliciesAreEqual
  <2>6. SecurityInv(m)'
    <3> SUFFICES ASSUME NEW u \in Tables, manifest[m].rls[u].declared PROVE TableInv(m, u)'
      BY <2>1, <2>2 DEF SecurityInv
    <3>1. TableInv(m, u)
      BY <1>1, <1>2 DEF SecurityInv, AfterAlter, AfterMembers, AfterGrants
    <3>2. CASE u = t
      BY <1>3, <2>1, <2>2, <2>5, <3>2 DEF TableInv
    <3>3. CASE u # t
      BY <1>1, <2>1, <2>2, <3>1, <3>3 DEF TableInv
    <3>4. QED
      BY <3>2, <3>3
  <2>7. RoleInv(m)' /\ GrantInv(m)'
    BY <1>1, <1>2, <2>1, <2>2 DEF RoleInv, GrantInv, AfterAlter, AfterMembers, AfterGrants
  <2>8. ContractInv(m)'
    BY <1>2, <2>1, <2>2, <2>6, <2>7 DEF ContractInv
  <2>9. QED
    BY <1>1, <2>1, <2>2, <2>3, <2>8, OpenStepInv
<1>6. QED
  BY <1>4, <1>5

LEMMA EnableRLSInv ==
  ASSUME AccessInv, NEW m \in Migrations, EnableRLS(m)
  PROVE  AccessInv'
<1> DEFINE x == [work[m].db EXCEPT !.secured = work[m].db.secured \cup {tx[m].now}]
<1>1. /\ tx[m].at = "enable" /\ tx' = [tx EXCEPT ![m].at = "rls"]
      /\ UNCHANGED <<manifest, location, cluster, db, policies, rowHolder>>
  BY DEF EnableRLS, Moves, Access
<1>2. /\ tx' \in [Migrations -> TxType] /\ \A q \in Migrations : q # m => tx'[q] = tx[q]
      /\ tx'[m].at = "rls" /\ tx'[m].locked = tx[m].locked /\ tx'[m].left = tx[m].left
  BY <1>1, MovesFacts DEF Statements, AfterAlter
<1>3. IsWork(work[m]) /\ ValidateManifest(manifest[m]) /\ RoleInv(m) /\ GrantInv(m) /\ SecurityInv(m) /\ IsDb(work[m].db)
  BY <1>1, TxFacts DEF Statements, AfterAlter, ContractInv, IsWork
<1>4. work' = [work EXCEPT ![m].db = x]
  BY DEF EnableRLS
<1>5. /\ IsDb(x) /\ x.acl = work[m].db.acl /\ x.cols = work[m].db.cols
      /\ x.secured = work[m].db.secured \cup {tx[m].now}
  BY <1>3 DEF IsDb
<1> HIDE DEF x
<1>6. work'[m] = [cluster |-> work[m].cluster, db |-> x] /\ AloneInTx(m)
  BY <1>1, <1>2, <1>3, <1>4, TxFacts DEF AloneInTx, IsWork
<1>7. IsWork(work'[m]) /\ work'[m].cluster = work[m].cluster /\ work'[m].db = x
  BY <1>3, <1>5, <1>6 DEF IsWork
<1>8. RoleInv(m)'
  BY <1>1, <1>2, <1>3, <1>7 DEF RoleInv, AfterAlter, AfterMembers
<1>9. GrantInv(m)'
  BY <1>1, <1>2, <1>3, <1>5, <1>7 DEF GrantInv, AfterAlter, AfterMembers, AfterGrants
<1>10. SecurityInv(m)'
  <2> SUFFICES ASSUME NEW u \in Tables, manifest[m].rls[u].declared PROVE TableInv(m, u)'
    BY <1>1, <1>2 DEF SecurityInv
  <2>1. TableInv(m, u)
    BY <1>1, <1>3 DEF SecurityInv, AfterAlter, AfterMembers, AfterGrants
  <2>2. QED
    BY <1>1, <1>2, <1>5, <1>7, <2>1 DEF TableInv
<1>11. ContractInv(m)'
  BY <1>1, <1>2, <1>3, <1>7, <1>8, <1>9, <1>10 DEF ContractInv
<1>12. QED
  BY <1>1, <1>2, <1>6, <1>11, OpenStepInv

(* Validate refuses a grant of what is forbidden: revoking takes nothing    *)
(* back that was granted.                                                   *)
LEMMA NothingGrantedIsRevoked ==
  ASSUME NEW mf, ValidateManifest(mf), NEW t \in Tables
  PROVE  /\ Revoked(mf, t) \cap mf.tables[t] = {}
         /\ Revoked(mf, t) \cap mf.columns[t] = {}
<1>1. /\ ValidPrivileges(mf.tables[t], TablePrivileges) /\ ValidPrivileges(mf.columns[t], ColumnPrivileges)
      /\ mf.tables[t] \cap mf.privileges = {} /\ mf.columns[t] \cap mf.privileges = {}
      /\ t \in mf.mutations => /\ mf.tables[t] \cap MutationPrivileges = {}
                               /\ mf.columns[t] \cap ColumnMutationPrivileges = {}
  BY DEF ValidateManifest, GrantsAreAllowed
<1>2. t \in mf.mutations => mf.columns[t] \cap MutationPrivileges = {}
  BY <1>1 DEF ValidPrivileges, ColumnPrivileges, MutationPrivileges, ColumnMutationPrivileges, Unlisted
<1>3. \A x \in Revoked(mf, t) : x \in mf.privileges \/ (t \in mf.mutations /\ x \in MutationPrivileges)
  BY DEF Revoked
<1>4. QED
  BY <1>1, <1>2, <1>3

LEMMA RevokeForbiddenInv ==
  ASSUME AccessInv, NEW m \in Migrations, RevokeForbidden(m)
  PROVE  AccessInv'
<1> DEFINE acl == [t \in Tables |-> work[m].db.acl[t] \ Revoked(manifest[m], t)]
           cols == [t \in Tables |-> work[m].db.cols[t] \ Revoked(manifest[m], t)]
           x == [acl |-> acl, cols |-> cols, secured |-> work[m].db.secured]
<1>1. /\ tx[m].at = "rls" /\ tx' = [tx EXCEPT ![m].at = "commit"] /\ tx[m].left = {}
      /\ UNCHANGED <<manifest, location, cluster, db, policies, rowHolder>>
  BY DEF RevokeForbidden, Moves, Access
<1>2. /\ tx' \in [Migrations -> TxType] /\ \A q \in Migrations : q # m => tx'[q] = tx[q]
      /\ tx'[m].at = "commit" /\ tx'[m].locked = tx[m].locked
  BY <1>1, MovesFacts DEF Statements, AfterAlter
<1>3. IsWork(work[m]) /\ ValidateManifest(manifest[m]) /\ RoleInv(m) /\ GrantInv(m) /\ SecurityInv(m) /\ IsDb(work[m].db)
  BY <1>1, TxFacts DEF Statements, AfterAlter, ContractInv, IsWork
<1>4. work'[m] = [cluster |-> work[m].cluster, db |-> x] /\ AloneInTx(m)
  <2>1. work' = [work EXCEPT ![m].db.acl = [t \in Tables |-> @[t] \ Revoked(manifest[m], t)],
                             ![m].db.cols = [t \in Tables |-> @[t] \ Revoked(manifest[m], t)]]
    BY DEF RevokeForbidden
  <2>2. work' = [work EXCEPT ![m].db.acl = acl, ![m].db.cols = cols]
    BY <1>3, <2>1, TxFacts DEF IsWork, IsDb
  <2> HIDE DEF acl, cols
  <2>3. work'[m] = [cluster |-> work[m].cluster, db |-> x]
    BY <1>3, <2>2, TxFacts DEF IsWork, IsDb
  <2>4. work' = [q \in Migrations |-> work'[q]] /\ \A q \in Migrations : q # m => work'[q] = work[q]
    BY <2>2, TxFacts
  <2>5. QED
    BY <1>1, <1>2, <2>3, <2>4 DEF AloneInTx
<1>5. IsDb(x)
  BY DEF IsDb
<1>6. IsWork(work'[m]) /\ work'[m].cluster = work[m].cluster /\ work'[m].db = x
  BY <1>3, <1>4, <1>5 DEF IsWork
<1>7. RoleInv(m)'
  BY <1>1, <1>2, <1>3, <1>6 DEF RoleInv, AfterAlter, AfterMembers
<1>8. GrantInv(m)'
  <2>1. ASSUME NEW t \in Tables
        PROVE  /\ manifest[m].tables[t] \ Unlisted \subseteq acl[t]
               /\ manifest[m].columns[t] \ Unlisted \subseteq cols[t]
               /\ Revoked(manifest[m], t) \cap (acl[t] \cup cols[t]) = {}
    <3>1. /\ manifest[m].tables[t] \ Unlisted \subseteq work[m].db.acl[t]
          /\ manifest[m].columns[t] \ Unlisted \subseteq work[m].db.cols[t]
      BY <1>1, <1>3 DEF GrantInv, AfterAlter, AfterMembers, AfterGrants
    <3>2. /\ Revoked(manifest[m], t) \cap manifest[m].tables[t] = {}
          /\ Revoked(manifest[m], t) \cap manifest[m].columns[t] = {}
      BY <1>3, NothingGrantedIsRevoked
    <3>3. QED
      BY <3>1, <3>2
  <2> HIDE DEF acl, cols
  <2>2. \A t \in Tables : Revoked(manifest[m], t)' = Revoked(manifest[m], t)
    BY <1>1 DEF Revoked
  <2>3. QED
    BY <1>1, <1>6, <2>1, <2>2 DEF GrantInv
<1>9. SecurityInv(m)'
  <2> SUFFICES ASSUME NEW u \in Tables, manifest[m].rls[u].declared PROVE TableInv(m, u)'
    BY <1>1, <1>2 DEF SecurityInv
  <2>1. TableInv(m, u)
    BY <1>1, <1>3 DEF SecurityInv, AfterAlter, AfterMembers, AfterGrants
  <2>2. QED
    BY <1>1, <1>2, <1>6, <2>1 DEF TableInv
<1>10. ContractInv(m)'
  BY <1>1, <1>2, <1>3, <1>6, <1>7, <1>8, <1>9 DEF ContractInv
<1>11. QED
  BY <1>1, <1>2, <1>4, <1>10, OpenStepInv

(* At the commit the transaction holds what the contract declares. *)
LEMMA ContractAtCommit ==
  ASSUME AccessInv, NEW m \in Migrations, tx[m].at = "commit"
  PROVE  /\ RoleIsAsDeclared(manifest[m], work[m].cluster)
         /\ PrivilegesAreAsDeclared(manifest[m], work[m].db)
         /\ \A t \in Tables : manifest[m].rls[t].declared =>
              policies[location[m]][t] = manifest[m].rls[t].policies
<1>1. IsWork(work[m]) /\ RoleInv(m) /\ GrantInv(m) /\ SecurityInv(m)
  BY TxFacts DEF Statements, AfterAlter, ContractInv
<1>2. RoleIsAsDeclared(manifest[m], work[m].cluster)
  BY <1>1 DEF RoleInv, RoleIsAsDeclared, AfterAlter, AfterMembers
<1>3. ASSUME NEW t \in Tables, manifest[m].rls[t].declared
      PROVE  t \in work[m].db.secured /\ policies[location[m]][t] = manifest[m].rls[t].policies
  <2>1. TableInv(m, t)
    BY <1>1, <1>3 DEF SecurityInv, AfterAlter, AfterMembers, AfterGrants
  <2>2. QED
    BY <2>1 DEF TableInv
<1>4. ASSUME NEW t \in Tables
      PROVE  LET effective == work[m].db.acl[t] \cup work[m].db.cols[t]
             IN  /\ manifest[m].tables[t] \ Unlisted \subseteq work[m].db.acl[t]
                 /\ manifest[m].columns[t] \ Unlisted \subseteq effective
                 /\ manifest[m].tables[t] # Unlisted \/ manifest[m].columns[t] # Unlisted =>
                      effective \cap manifest[m].privileges = {}
                 /\ t \in manifest[m].mutations =>
                      effective \cap (manifest[m].privileges \cup MutationPrivileges) = {}
  <2> DEFINE effective == work[m].db.acl[t] \cup work[m].db.cols[t]
  <2>1. /\ manifest[m].tables[t] \ Unlisted \subseteq work[m].db.acl[t]
        /\ manifest[m].columns[t] \ Unlisted \subseteq work[m].db.cols[t]
        /\ Revoked(manifest[m], t) \cap effective = {}
    BY <1>1 DEF GrantInv, AfterAlter, AfterMembers, AfterGrants
  <2>2. manifest[m].tables[t] # Unlisted \/ manifest[m].columns[t] # Unlisted =>
          manifest[m].privileges \subseteq Revoked(manifest[m], t)
    BY DEF Revoked
  <2>3. t \in manifest[m].mutations =>
          (manifest[m].privileges \cup MutationPrivileges) \subseteq Revoked(manifest[m], t)
    BY DEF Revoked
  <2> HIDE DEF effective
  <2>4. manifest[m].columns[t] \ Unlisted \subseteq effective
    BY <2>1 DEF effective
  <2>5. QED
    BY <2>1, <2>2, <2>3, <2>4 DEF effective
<1>5. PrivilegesAreAsDeclared(manifest[m], work[m].db)
  BY <1>3, <1>4 DEF PrivilegesAreAsDeclared
<1>6. QED
  BY <1>2, <1>3, <1>5

LEMMA AccessCommitInv ==
  ASSUME AccessInv, NEW m \in Migrations, Commit(m)
  PROVE  AccessInv'
<1>1. /\ tx[m].at = "commit"
      /\ tx' = [tx EXCEPT ![m] = [at |-> "committed", locked |-> {}, left |-> {}, now |-> "none"]]
      /\ cluster' = work[m].cluster
      /\ db' = [db EXCEPT ![location[m]] = work[m].db]
      /\ work' = [work EXCEPT ![m] = "none"]
      /\ rowHolder' = "none"
      /\ UNCHANGED <<manifest, location, policies>>
  BY DEF Commit, Access
<1>2. /\ IsWork(work[m]) /\ ValidateManifest(manifest[m]) /\ RoleInv(m)
      /\ rowHolder = m /\ "absent" \notin work[m].cluster.role
  BY <1>1, TxFacts DEF Statements, AfterAlter, ContractInv, RoleInv
<1>3. /\ tx' \in [Migrations -> TxType] /\ \A q \in Migrations : q # m => tx'[q] = tx[q]
      /\ tx'[m].at = "committed"
  BY <1>1, TxFacts DEF TxType
<1>4. AloneInTx(m)
  BY <1>1, <1>2, <1>3, TxFacts DEF AloneInTx
<1>5. AccessTypeOK'
  <2>1. db' = [d \in Databases |-> db'[d]] /\ \A d \in Databases : IsDb(db'[d])
    BY <1>1, <1>2 DEF AccessInv, AccessTypeOK, IsWork
  <2>2. IsCluster(cluster')
    BY <1>1, <1>2 DEF IsWork
  <2>3. QED
    BY ZenonT(60), <1>1, <1>3, <1>4, <2>1, <2>2 DEF AccessInv, AccessTypeOK, AloneInTx, IsCluster, IsDb
<1>6. ContractInv(m)'
  BY <1>1, <1>2, <1>3, TxFacts DEF ContractInv, RoleInv, GrantInv, SecurityInv, Statements, AfterAlter,
     AfterMembers, AfterGrants
<1>7. \A q \in Migrations : ContractInv(q)'
  BY <1>1, <1>2, <1>4, <1>6, OthersKeepContract
<1>8. CommittedInv'
  <2> SUFFICES ASSUME NEW q \in Migrations, tx'[q].at = "committed",
                      \A n \in Migrations \ {q} : tx'[n].at # "committed"
               PROVE  /\ RoleIsAsDeclared(manifest[q], cluster')
                      /\ PrivilegesAreAsDeclared(manifest[q], db'[location[q]])
    BY <1>1 DEF CommittedInv
  <2>1. q = m
    BY <1>3
  <2>2. db'[location[m]] = work[m].db
    BY <1>1 DEF AccessInv, AccessTypeOK
  <2>3. QED
    BY <1>1, <2>1, <2>2, ContractAtCommit
<1>9. QED
  BY <1>5, <1>7, <1>8 DEF AccessInv

(* An operator's change leaves the locked tables alone. *)
LEMMA PolicyDriftInv ==
  ASSUME AccessInv, NEW d \in Databases, NEW t \in Tables, PolicyDrift(d, t)
  PROVE  AccessInv'
<1>1. /\ \A m \in Migrations : location[m] = d => t \notin tx[m].locked
      /\ UNCHANGED <<manifest, location, cluster, db, tx, work, rowHolder>>
  BY DEF PolicyDrift, Access
<1>2. PICK s \in PolicySets : policies' = [policies EXCEPT ![d][t] = s]
  BY DEF PolicyDrift
<1>3. /\ policies' \in [Databases -> [Tables -> PolicySets]]
      /\ \A e \in Databases, u \in Tables : e # d \/ u # t => policies'[e][u] = policies[e][u]
  BY <1>2 DEF AccessInv, AccessTypeOK
<1>4. AccessTypeOK'
  BY <1>1, <1>3 DEF AccessInv, AccessTypeOK
<1>5. ASSUME NEW m \in Migrations PROVE ContractInv(m)'
  <2>1. ContractInv(m) /\ location[m] \in Databases
    BY DEF AccessInv, AccessTypeOK
  <2>2. ASSUME NEW u \in Tables, TableInv(m, u) PROVE TableInv(m, u)'
    BY <1>1, <1>3, <2>1, <2>2 DEF TableInv
  <2>3. SecurityInv(m)'
    BY <1>1, <2>1, <2>2 DEF ContractInv, SecurityInv
  <2>4. RoleInv(m)' /\ GrantInv(m)'
    BY <1>1, <2>1 DEF ContractInv, RoleInv, GrantInv
  <2>5. QED
    BY <1>1, <2>1, <2>3, <2>4 DEF ContractInv
<1>6. CommittedInv'
  BY <1>1 DEF AccessInv, CommittedInv
<1>7. QED
  BY <1>4, <1>5, <1>6 DEF AccessInv

LEMMA AccessNextInv == AccessInv /\ [AccessNext]_accessVars => AccessInv'
<1> SUFFICES ASSUME AccessInv, [AccessNext]_accessVars PROVE AccessInv'
  OBVIOUS
<1>1. CASE UNCHANGED accessVars
  <2>1. AccessTypeOK' /\ CommittedInv'
    BY <1>1 DEF accessVars, AccessInv, AccessTypeOK, CommittedInv
  <2>2. \A m \in Migrations : ContractInv(m)'
    BY <1>1 DEF accessVars, AccessInv, ContractInv, RoleInv, GrantInv, SecurityInv, TableInv
  <2>3. QED
    BY <2>1, <2>2 DEF AccessInv
<1>2. ASSUME NEW m \in Migrations, MigrationStep(m) PROVE AccessInv'
  <2>1. CASE StatementFails(m)
    <3>1. tx[m].at \in Statements
      BY <2>1, TxFacts DEF StatementFails, Open, TxType
    <3>2. QED
      BY <2>1, <3>1, RollbackInv DEF StatementFails
  <2>2. QED
    BY <1>2, <2>1, RenderInv, AdvisoryLockInv, LookForRoleInv, CreateRoleInv, AlterRoleInv, MembershipsInv,
       GrantPrivilegesInv, AssertPoliciesInv, EnableRLSInv, RevokeForbiddenInv, AccessCommitInv, LockTableInv
       DEF MigrationStep
<1>3. QED
  BY <1>1, <1>2, PolicyDriftInv DEF AccessNext

LEMMA AccessInvDeclared == AccessInv => AccessIsAsDeclared
<1> SUFFICES ASSUME AccessInv PROVE AccessIsAsDeclared
  OBVIOUS
<1>1. \A m \in Migrations : tx[m].at = "commit" =>
        /\ RoleIsAsDeclared(manifest[m], work[m].cluster)
        /\ PrivilegesAreAsDeclared(manifest[m], work[m].db)
        /\ \A t \in Tables : manifest[m].rls[t].declared =>
             policies[location[m]][t] = manifest[m].rls[t].policies
  BY ContractAtCommit
<1>2. QED
  BY <1>1 DEF AccessInv, CommittedInv, AccessIsAsDeclared

(* A rendered access migration that reaches its commit has made its         *)
(* contract true, whatever the cluster and the database held and whatever   *)
(* migrations and operators do beside it, and what the first one committed  *)
(* stays so until another commits (internal/dbaccess), for any number of    *)
(* migrations, databases and tables and any manifests.                      *)
THEOREM AccessIsEffective == AccessSpec => []AccessIsAsDeclared
<1>1. AccessSpec => []AccessInv
  BY AccessInitInv, AccessNextInv, PTL DEF AccessSpec
<1>2. QED
  BY <1>1, AccessInvDeclared, PTL
-----------------------------------------------------------------------------
(* Transactions. *)

Settings == [tenant : TxTenants \cup {""}, all : BOOLEAN, path : TxSchemas \cup {""}, aborted : BOOLEAN]
Row == [schema : TxSchemas \cup {"", "audit"}, tenant : TxTenants \cup {""}, of : Nat,
        table : {"business", "audit"}]
TxFrame == [id : Nat, scope : {s \in Scopes : ValidScope(s)}]
Savepoint == [session : Settings, rows : SUBSET Row]
TableSecurity == [enabled : BOOLEAN, forced : BOOLEAN, isolation : BOOLEAN, readAll : BOOLEAN,
                  bypass : BOOLEAN]

TxTypeOK ==
  /\ table \in TableSecurity /\ session \in Settings /\ begun \in Nat
  /\ frames \in Seq(TxFrame) /\ saved \in Seq(Savepoint)
  /\ rows \subseteq Row /\ stable \subseteq Row

(* The settings are those a scope asks for. *)
Applied(set, s) ==
  /\ set.tenant = IF s.tenant THEN s.tenantID ELSE ""
  /\ set.all <=> (s.tenant /\ s.readAll)
  /\ set.path = s.schema

(* All Do calls under way have one scope, and begin in the order of their   *)
(* ids; each has a savepoint.                                               *)
FramesInv ==
  /\ Len(saved) = Len(frames)
  /\ frames # <<>> => started
  /\ \A n \in 1..Len(frames) : frames[n].scope = frames[1].scope /\ frames[n].id <= begun
  /\ \A n, m \in 1..Len(frames) : m < n => frames[m].id < frames[n].id

(* The connection has the settings of that scope, and so has every          *)
(* savepoint but the first, which is the connection as it came from the     *)
(* pool and the rows as they were committed.                                *)
SettingsInv ==
  /\ started => PoliciesApply /\ table.isolation /\ table.readAll
  /\ frames = <<>> => session = Unset /\ rows = stable
  /\ frames # <<>> => /\ Applied(session, frames[1].scope)
                      /\ saved[1].session = Unset /\ saved[1].rows = stable
  /\ \A n \in 2..Len(frames) : Applied(saved[n].session, frames[1].scope)

(* The tables in which a set of rows holds what Do number i wrote, and      *)
(* those it has written to.                                                 *)
TablesOf(set, i) == {r.table : r \in {q \in set : q.of = i}}
WroteTo(i) == {w[2] : w \in {v \in wrote : v[1] = i}}
AllOrNothing(set, i) == TablesOf(set, i) \in {{}, WroteTo(i)}

(* What a Do that has ended wrote is in the rows, in every savepoint and in *)
(* the committed rows as a whole or not at all; what one under way wrote is *)
(* in the rows and in the savepoints begun inside it, and nowhere else.     *)
Ended(i) == \A n \in 1..Len(frames) : frames[n].id # i
EndedInv(i) ==
  Ended(i) => /\ AllOrNothing(rows, i) /\ AllOrNothing(stable, i)
              /\ \A m \in 1..Len(frames) : AllOrNothing(saved[m].rows, i)
UnderWayInv(n) ==
  /\ TablesOf(rows, frames[n].id) = WroteTo(frames[n].id)
  /\ TablesOf(stable, frames[n].id) = {}
  /\ \A m \in 1..Len(frames) :
       TablesOf(saved[m].rows, frames[n].id) = IF m > n THEN WroteTo(frames[n].id) ELSE {}
NotBegunInv(i) ==
  i > begun => /\ WroteTo(i) = {} /\ TablesOf(rows, i) = {} /\ TablesOf(stable, i) = {}
               /\ \A m \in 1..Len(frames) : TablesOf(saved[m].rows, i) = {}

WritesInv ==
  /\ \A i \in Nat : EndedInv(i) /\ NotBegunInv(i)
  /\ \A n \in 1..Len(frames) : UnderWayInv(n)

(* The last statement saw what its ctx asked for: the first conjunct of     *)
(* TenantIsolation.                                                         *)
AccessIsRight ==
  access.kind # "none" =>
    /\ access.scope.tenant
    /\ access.schema = access.scope.schema
    /\ access.kind = "write" => access.tenants = {access.scope.tenantID}
    /\ access.kind = "read" /\ ~access.scope.readAll => access.tenants \subseteq {access.scope.tenantID}

TxInv == TxTypeOK /\ FramesInv /\ SettingsInv /\ WritesInv /\ AccessIsRight

LEMMA TxInitInv == PgTxInit => TxInv
<1> SUFFICES ASSUME PgTxInit PROVE TxInv
  OBVIOUS
<1>1. TxTypeOK
  <2>1. session \in Settings
    BY DEF PgTxInit, Settings, Unset
  <2> QED
    BY <2>1 DEF PgTxInit, TxTypeOK, TableSecurity
<1>2. FramesInv /\ SettingsInv
  BY DEF PgTxInit, FramesInv, SettingsInv
<1>3. WritesInv
  BY DEF PgTxInit, WritesInv, EndedInv, AllOrNothing, NotBegunInv, WroteTo, TablesOf
<1>4. AccessIsRight
  BY DEF PgTxInit, AccessIsRight, NoAccess
<1> QED
  BY <1>1, <1>2, <1>3, <1>4 DEF TxInv

LEMMA FrontFacts ==
  ASSUME NEW S, NEW q \in Seq(S), NEW p, Len(q) # 0, p = SubSeq(q, 1, Len(q) - 1)
  PROVE  p \in Seq(S) /\ Len(p) = Len(q) - 1 /\ \A n \in 1..Len(p) : p[n] = q[n]
<1>1. Len(q) \in Nat /\ Len(q) - 1 \in Nat /\ Len(q) - 1 <= Len(q)
  OBVIOUS
<1>2. Len(p) = Len(q) - 1
  <2>1. CASE Len(q) = 1
    BY <1>1, <2>1
  <2>2. CASE Len(q) # 1
    <3>0. \A l \in Nat : l # 0 /\ l # 1 => 1 <= l - 1 /\ (l - 1) - 1 + 1 = l - 1
      OBVIOUS
    <3>1. 1 <= Len(q) - 1 /\ (Len(q) - 1) - 1 + 1 = Len(q) - 1
      BY ONLY <1>1, <2>2, <3>0, Len(q) # 0
    <3>2. Len(SubSeq(q, 1, Len(q) - 1)) = (Len(q) - 1) - 1 + 1
      BY <1>1, <3>1
    <3> QED
      BY <3>1, <3>2
  <2> QED
    BY <2>1, <2>2
<1>3. \A n \in 1..(Len(q) - 1) : p[n] = q[n]
  BY <1>1
<1>4. \A n \in 1..(Len(q) - 1) : q[n] \in S
  BY <1>1
<1>5. p = [n \in 1..(Len(q) - 1) |-> q[n]]
  BY <1>1
<1>6. p \in Seq(S)
  BY <1>1, <1>4, <1>5
<1> QED
  BY <1>2, <1>3, <1>6

LEMMA EmptyIffLen ==
  ASSUME NEW S, NEW q \in Seq(S)
  PROVE  q = <<>> <=> Len(q) = 0
  OBVIOUS

(* The frames and savepoints after the innermost frame is gone. *)
LEMMA Popped ==
  ASSUME TxTypeOK, FramesInv, frames # <<>>,
         frames' = SubSeq(frames, 1, Len(frames) - 1), saved' = SubSeq(saved, 1, Len(saved) - 1)
  PROVE  /\ Len(frames) \in 1..Len(frames) /\ Len(frames') = Len(frames) - 1 /\ Len(saved') = Len(frames')
         /\ frames' \in Seq(TxFrame) /\ saved' \in Seq(Savepoint)
         /\ frames' = <<>> <=> Len(frames) = 1
         /\ \A n \in 1..Len(frames') : n \in 1..Len(frames) /\ frames'[n] = frames[n] /\ saved'[n] = saved[n]
<1>1. Len(frames) \in Nat /\ Len(frames) # 0 /\ Len(saved) = Len(frames)
  BY EmptyIffLen DEF TxTypeOK, FramesInv
<1>2. frames' \in Seq(TxFrame) /\ Len(frames') = Len(frames) - 1 /\ \A n \in 1..Len(frames') : frames'[n] = frames[n]
  BY <1>1, FrontFacts DEF TxTypeOK
<1>3. saved' \in Seq(Savepoint) /\ Len(saved') = Len(saved) - 1 /\ \A n \in 1..Len(saved') : saved'[n] = saved[n]
  BY <1>1, FrontFacts DEF TxTypeOK
<1>4. frames' = <<>> <=> Len(frames') = 0
  BY <1>2, EmptyIffLen
<1>5. \A n \in 1..Len(frames') : n \in 1..Len(frames)
  BY <1>1, <1>2
<1>6. Len(frames) \in 1..Len(frames) /\ Len(saved') = Len(frames') /\ (frames' = <<>> <=> Len(frames) = 1)
  BY <1>1, <1>2, <1>3, <1>4
<1> QED
  BY <1>2, <1>3, <1>5, <1>6

LEMMA PoppedFrames ==
  ASSUME TxTypeOK, FramesInv, frames # <<>>, started' = started, begun' = begun,
         frames' = SubSeq(frames, 1, Len(frames) - 1), saved' = SubSeq(saved, 1, Len(saved) - 1)
  PROVE  FramesInv'
<1>1. Len(frames) \in 1..Len(frames) /\ Len(frames') = Len(frames) - 1 /\ Len(saved') = Len(frames')
      /\ \A n \in 1..Len(frames') : n \in 1..Len(frames) /\ frames'[n] = frames[n]
  BY Popped
<1> QED
  BY <1>1 DEF FramesInv

(* A rollback: the innermost frame is gone, its savepoint is back. *)
LEMMA TxRollbackInv ==
  ASSUME TxInv, frames # <<>>, RolledBack(Len(frames)), access' = NoAccess,
         UNCHANGED <<table, started, begun, wrote>>
  PROVE  TxInv'
<1> DEFINE last == Len(frames)
<1>1. /\ frames' = SubSeq(frames, 1, Len(frames) - 1) /\ saved' = SubSeq(saved, 1, Len(saved) - 1)
      /\ session' = saved[last].session /\ rows' = saved[last].rows /\ stable' = stable
  BY DEF RolledBack, TxInv, FramesInv
<1>2. /\ last \in 1..Len(frames) /\ Len(frames') = last - 1 /\ Len(saved') = Len(frames')
      /\ frames' \in Seq(TxFrame) /\ saved' \in Seq(Savepoint)
      /\ frames' = <<>> <=> last = 1
      /\ \A n \in 1..Len(frames') : n \in 1..Len(frames) /\ frames'[n] = frames[n] /\ saved'[n] = saved[n]
  BY <1>1, Popped DEF TxInv
<1>3. saved[last] \in Savepoint
  BY <1>2 DEF TxInv, TxTypeOK, FramesInv
<1>4. TxTypeOK'
  BY <1>1, <1>2, <1>3 DEF TxInv, TxTypeOK, Savepoint
<1>5. FramesInv'
  BY <1>1, PoppedFrames DEF TxInv
<1>6. SettingsInv'
  <2>1. (started => PoliciesApply /\ table.isolation /\ table.readAll)'
    BY DEF TxInv, SettingsInv, PoliciesApply
  <2>2. /\ saved[1].session = Unset /\ saved[1].rows = stable
        /\ \A n \in 2..Len(frames) : Applied(saved[n].session, frames[1].scope)
    BY DEF TxInv, SettingsInv
  <2>3. CASE last = 1
    <3>1. frames' = <<>> /\ session' = Unset /\ rows' = stable' /\ Len(frames') = 0
      BY <1>1, <1>2, <2>2, <2>3
    <3> QED
      BY <2>1, <3>1 DEF SettingsInv
  <2>4. CASE last # 1
    <3>1. frames' # <<>> /\ frames'[1] = frames[1] /\ saved'[1] = saved[1]
      BY <1>2, <2>4
    <3>2. Applied(session', frames'[1].scope)
      BY <1>1, <1>2, <2>2, <2>4, <3>1
    <3>3. \A n \in 2..Len(frames') : n \in 2..Len(frames) /\ saved'[n] = saved[n]
      BY <1>2
    <3> QED
      BY <1>1, <2>1, <2>2, <3>1, <3>2, <3>3 DEF SettingsInv
  <2> QED
    BY <2>3, <2>4
<1>7. WritesInv'
  <2>1. \A i : WroteTo(i)' = WroteTo(i)
    BY DEF WroteTo
  <2>2. ASSUME NEW i \in Nat PROVE EndedInv(i)' /\ NotBegunInv(i)'
    <3>1. NotBegunInv(i)'
      BY <1>1, <1>2, <2>1 DEF TxInv, WritesInv, NotBegunInv
    <3>2. CASE frames[last].id = i
      <4>1. UnderWayInv(last)
        BY <1>2 DEF TxInv, WritesInv
      <4>2. TablesOf(rows', i) = {} /\ TablesOf(stable', i) = {}
            /\ \A m \in 1..Len(frames') : TablesOf(saved'[m].rows, i) = {}
        BY <1>1, <1>2, <3>2, <4>1 DEF UnderWayInv
      <4> QED
        BY <3>1, <4>2 DEF EndedInv, AllOrNothing
    <3>3. CASE frames[last].id # i
      <4>1. Ended(i)' => Ended(i)
        BY <1>2, <3>3 DEF Ended
      <4> QED
        BY <1>1, <1>2, <2>1, <3>1, <4>1 DEF TxInv, WritesInv, EndedInv, AllOrNothing
    <3> QED
      BY <3>2, <3>3
  <2>3. ASSUME NEW n \in 1..Len(frames') PROVE UnderWayInv(n)'
    <3>1. n \in 1..Len(frames) /\ n < last /\ UnderWayInv(n) /\ frames'[n] = frames[n]
      BY SMTT(60), <1>2 DEF TxInv, WritesInv
    <3> QED
      BY <1>1, <1>2, <2>1, <3>1 DEF UnderWayInv
  <2> QED
    BY <2>2, <2>3 DEF WritesInv
<1>8. AccessIsRight'
  BY DEF AccessIsRight, NoAccess
<1> QED
  BY <1>4, <1>5, <1>6, <1>7, <1>8 DEF TxInv

LEMMA DoReturnsInv ==
  ASSUME TxInv, DoReturns
  PROVE  TxInv'
<1> DEFINE last == Len(frames)
<1>1. CASE session.aborted
  BY <1>1, TxRollbackInv DEF DoReturns
<1>2. CASE ~session.aborted
  <2>1. /\ frames # <<>> /\ frames' = SubSeq(frames, 1, Len(frames) - 1)
        /\ saved' = SubSeq(saved, 1, Len(saved) - 1)
        /\ rows' = rows /\ access' = NoAccess /\ UNCHANGED <<table, started, begun, wrote>>
        /\ last = 1 => session' = Unset /\ stable' = rows
        /\ last # 1 => session' = session /\ stable' = stable
    BY <1>2 DEF DoReturns, Front
  <2>2. /\ last \in 1..Len(frames) /\ Len(frames') = last - 1 /\ Len(saved') = Len(frames')
        /\ frames' \in Seq(TxFrame) /\ saved' \in Seq(Savepoint)
        /\ frames' = <<>> <=> last = 1
        /\ \A n \in 1..Len(frames') : n \in 1..Len(frames) /\ frames'[n] = frames[n] /\ saved'[n] = saved[n]
    BY <2>1, Popped DEF TxInv
  <2>3. TxTypeOK'
    <3>1. Unset \in Settings
      BY DEF Unset, Settings
    <3> QED
      BY <2>1, <2>2, <3>1 DEF TxInv, TxTypeOK
  <2>4. FramesInv'
    BY <2>1, PoppedFrames DEF TxInv
  <2>5. SettingsInv'
    <3>1. (started => PoliciesApply /\ table.isolation /\ table.readAll)'
      BY <2>1 DEF TxInv, SettingsInv, PoliciesApply
    <3>2. CASE last = 1
      <4>1. frames' = <<>> /\ session' = Unset /\ rows' = stable' /\ Len(frames') = 0
        BY <2>1, <2>2, <3>2
      <4> QED
        BY <3>1, <4>1 DEF SettingsInv
    <3>3. CASE last # 1
      <4>1. frames' # <<>> /\ frames'[1] = frames[1] /\ saved'[1] = saved[1] /\ session' = session /\ stable' = stable
        BY <2>1, <2>2, <3>3
      <4>2. /\ saved[1].session = Unset /\ saved[1].rows = stable /\ Applied(session, frames[1].scope)
            /\ \A n \in 2..Len(frames) : Applied(saved[n].session, frames[1].scope)
        BY <2>1 DEF TxInv, SettingsInv
      <4>3. \A n \in 2..Len(frames') : n \in 2..Len(frames) /\ saved'[n] = saved[n]
        BY <2>2
      <4> QED
        BY <3>1, <4>1, <4>2, <4>3 DEF SettingsInv
    <3> QED
      BY <3>2, <3>3
  <2>6. WritesInv'
    <3>1. \A i : WroteTo(i)' = WroteTo(i)
      BY <2>1 DEF WroteTo
    <3>2. stable' = rows \/ stable' = stable
      BY <2>1
    <3>3. ASSUME NEW i \in Nat PROVE EndedInv(i)' /\ NotBegunInv(i)'
      <4>1. NotBegunInv(i)'
        BY <2>1, <2>2, <3>1, <3>2 DEF TxInv, WritesInv, NotBegunInv
      <4>2. CASE frames[last].id = i
        <5>1. UnderWayInv(last)
          BY <2>2 DEF TxInv, WritesInv
        <5>2. TablesOf(rows', i) = WroteTo(i) /\ AllOrNothing(stable, i) /\ AllOrNothing(rows, i)
              /\ \A m \in 1..Len(frames') : TablesOf(saved'[m].rows, i) = {}
          BY <2>1, <2>2, <4>2, <5>1 DEF UnderWayInv, AllOrNothing
        <5> QED
          BY <2>1, <3>1, <3>2, <4>1, <5>2 DEF EndedInv, AllOrNothing
      <4>3. CASE frames[last].id # i
        <5>1. Ended(i)' => Ended(i)
          <6>1. SUFFICES ASSUME Ended(i)', NEW n \in 1..Len(frames) PROVE frames[n].id # i
            BY DEF Ended
          <6>2. n = last \/ (n \in 1..Len(frames') /\ frames'[n] = frames[n])
            BY <2>2
          <6> QED
            BY <4>3, <6>1, <6>2 DEF Ended
        <5> QED
          BY <2>1, <2>2, <3>1, <3>2, <4>1, <5>1 DEF TxInv, WritesInv, EndedInv, AllOrNothing
      <4> QED
        BY <4>2, <4>3
    <3>4. ASSUME NEW n \in 1..Len(frames') PROVE UnderWayInv(n)'
      <4>0. n < last /\ last # 1
        BY <2>2
      <4>1. n \in 1..Len(frames) /\ UnderWayInv(n) /\ frames'[n] = frames[n]
        BY <2>2 DEF TxInv, WritesInv
      <4> QED
        BY <2>1, <2>2, <3>1, <4>0, <4>1 DEF UnderWayInv
    <3> QED
      BY <3>3, <3>4 DEF WritesInv
  <2>7. AccessIsRight'
    BY <2>1 DEF AccessIsRight, NoAccess
  <2> QED
    BY <2>3, <2>4, <2>5, <2>6, <2>7 DEF TxInv
<1> QED
  BY <1>1, <1>2

(* The connection is gone, and with it every frame. *)
LEMMA ConnectionLostInv ==
  ASSUME TxInv, NEW committed \in BOOLEAN, ConnectionLost(committed)
  PROVE  TxInv'
<1>1. /\ frames # <<>> /\ frames' = <<>> /\ saved' = <<>> /\ session' = Unset /\ rows' = stable'
      /\ access' = NoAccess /\ UNCHANGED <<table, started, begun, wrote>>
      /\ stable' = rows \/ stable' = stable
  BY DEF ConnectionLost
<1>2. TxTypeOK'
  <2>1. Unset \in Settings
    BY DEF Unset, Settings
  <2> QED
    BY <1>1, <2>1 DEF TxInv, TxTypeOK
<1>3. FramesInv' /\ AccessIsRight'
  <2>1. AccessIsRight'
    BY <1>1 DEF AccessIsRight, NoAccess
  <2>2. Len(frames') = 0 /\ Len(saved') = 0
    BY <1>1
  <2> QED
    BY <1>1, <2>1, <2>2 DEF FramesInv
<1>4. SettingsInv'
  BY <1>1 DEF TxInv, SettingsInv, PoliciesApply
<1>5. WritesInv'
  <2>1. \A i : WroteTo(i)' = WroteTo(i)
    BY <1>1 DEF WroteTo
  <2>2. ASSUME NEW i \in Nat PROVE AllOrNothing(rows, i) /\ AllOrNothing(stable, i) /\ NotBegunInv(i)
    <3>1. CASE Ended(i)
      BY <3>1 DEF TxInv, WritesInv, EndedInv
    <3>2. CASE ~Ended(i)
      BY <3>2 DEF TxInv, WritesInv, Ended, UnderWayInv, AllOrNothing
    <3> QED
      BY <3>1, <3>2 DEF TxInv, WritesInv
  <2>3. ASSUME NEW i \in Nat PROVE EndedInv(i)' /\ NotBegunInv(i)'
    BY <1>1, <2>1, <2>2 DEF EndedInv, AllOrNothing, NotBegunInv
  <2> QED
    BY <1>1, <2>3 DEF WritesInv
<1> QED
  BY <1>2, <1>3, <1>4, <1>5 DEF TxInv

(* Do: the scope is set once more inside itself, which changes nothing. *)
LEMMA ApplyScopeApplies ==
  ASSUME TxInv, NEW s \in Scopes, ValidScope(s), session = Unset \/ Applied(session, s)
  PROVE  Applied(ApplyScope(s), s) /\ ApplyScope(s) \in Settings
<1> DEFINE path == IF s.routed THEN s.schema ELSE session.path
           tenant == IF s.tenant /\ s.tenantID # "" THEN s.tenantID ELSE session.tenant
           all == session.all \/ (s.tenant /\ s.readAll)
           t == ApplyScope(s)
<1>1. /\ s.tenant \in BOOLEAN /\ s.tenantID \in TxTenants \cup {""} /\ s.readAll \in BOOLEAN
      /\ s.schema \in TxSchemas \cup {""}
  BY DEF Scopes
<1>2. session.all \in BOOLEAN /\ session.path \in TxSchemas \cup {""} /\ session.tenant \in TxTenants \cup {""}
  BY DEF TxInv, TxTypeOK, Settings
<1>3. session = Unset => session.path = "" /\ session.tenant = "" /\ session.all = FALSE
  <2>1. Unset.path = "" /\ Unset.tenant = "" /\ Unset.all = FALSE
    BY DEF Unset
  <2> QED
    BY <2>1
<1>4. path \in TxSchemas \cup {""} /\ path = s.schema
  BY <1>1, <1>2, <1>3 DEF ValidScope, Applied
<1>5. tenant \in TxTenants \cup {""} /\ tenant = IF s.tenant THEN s.tenantID ELSE ""
  BY <1>1, <1>2, <1>3 DEF ValidScope, Applied
<1>6. all \in BOOLEAN /\ (all <=> (s.tenant /\ s.readAll))
  <2>1. session.all => s.tenant /\ s.readAll
    BY <1>3 DEF Applied
  <2> QED
    BY <1>1, <1>2, <2>1
<1>7. t = [session EXCEPT !.path = path, !.tenant = tenant, !.all = all]
  BY DEF ApplyScope
<1> HIDE DEF path, tenant, all, t
<1>8. t \in Settings /\ t.path = path /\ t.tenant = tenant /\ t.all = all
  BY <1>4, <1>5, <1>6, <1>7 DEF TxInv, TxTypeOK, Settings
<1>9. Applied(t, s)
  BY <1>4, <1>5, <1>6, <1>8 DEF Applied
<1> QED
  BY <1>8, <1>9 DEF t

LEMMA DoInv ==
  ASSUME TxInv, NEW s \in Scopes, ValidScope(s), NEW foreign \in BOOLEAN, Do(s, foreign)
  PROVE  TxInv'
<1>1. access' = NoAccess /\ UNCHANGED <<table, started, rows, stable, wrote>> /\ started
  BY DEF Do
<1>2. AccessIsRight'
  BY <1>1 DEF AccessIsRight, NoAccess
<1>3. \A i : WroteTo(i)' = WroteTo(i)
  BY <1>1 DEF WroteTo
<1>4. CASE UNCHANGED <<frames, saved, session, begun>>
  <2>1. TxTypeOK' /\ FramesInv' /\ SettingsInv'
    BY <1>1, <1>4 DEF TxInv, TxTypeOK, FramesInv, SettingsInv, PoliciesApply
  <2>2. WritesInv'
    BY <1>1, <1>3, <1>4 DEF TxInv, WritesInv, EndedInv, Ended, NotBegunInv, UnderWayInv, AllOrNothing
  <2> QED
    BY <1>2, <2>1, <2>2 DEF TxInv
<1>5. CASE MayBegin(s, foreign) /\ ~session.aborted
  <2> DEFINE new == Len(frames) + 1
             frame == [id |-> begun + 1, scope |-> s]
             savepoint == [session |-> session, rows |-> rows]
  <2>1. /\ begun' = begun + 1 /\ frames' = Append(frames, frame) /\ saved' = Append(saved, savepoint)
        /\ session' = ApplyScope(s)
    BY <1>5 DEF Do
  <2>2. frame \in TxFrame /\ savepoint \in Savepoint
    BY DEF TxInv, TxTypeOK, TxFrame, Savepoint
  <2>3. frame.id = begun + 1 /\ frame.scope = s /\ savepoint.session = session /\ savepoint.rows = rows
    OBVIOUS
  <2> HIDE DEF frame, savepoint
  <2>4. Len(frames) \in Nat /\ Len(saved) = Len(frames) /\ begun \in Nat
    BY DEF TxInv, TxTypeOK, FramesInv
  <2>5. /\ Len(frames') = new /\ frames' \in Seq(TxFrame) /\ frames'[new] = frame
        /\ \A n \in 1..Len(frames) : frames'[n] = frames[n]
    BY <2>1, <2>2, <2>4 DEF TxInv, TxTypeOK
  <2>6. /\ Len(saved') = new /\ saved' \in Seq(Savepoint) /\ saved'[new] = savepoint
        /\ \A n \in 1..Len(frames) : saved'[n] = saved[n]
    BY <2>1, <2>2, <2>4 DEF TxInv, TxTypeOK
  <2>7. /\ new \in 1..new /\ frames' # <<>>
        /\ \A n \in 1..Len(frames') : n = new \/ n \in 1..Len(frames)
    BY <2>4, <2>5
  <2>8. frames # <<>> => Len(frames) # 0 /\ 1 \in 1..Len(frames) /\ frames[1].scope = s
    <3>1. frames # <<>> => Len(frames) \in 1..Len(frames) /\ Last(frames).scope = s
      BY <1>5, <2>4 DEF MayBegin, TxInv, TxTypeOK
    <3> QED
      BY <2>4, <3>1 DEF TxInv, FramesInv, Last
  <2>9. frames = <<>> => Len(frames) = 0
    OBVIOUS
  <2>10. session = Unset \/ Applied(session, s)
    BY <2>8 DEF TxInv, SettingsInv
  <2>11. Applied(session', s) /\ session' \in Settings
    BY <2>1, <2>10, ApplyScopeApplies
  <2>12. TxTypeOK'
    BY <1>1, <2>1, <2>4, <2>5, <2>6, <2>11 DEF TxInv, TxTypeOK
  <2>13. FramesInv'
    <3>1. frames'[1].scope = s
      BY <2>3, <2>5, <2>8, <2>9
    <3>2. ASSUME NEW n \in 1..Len(frames') PROVE frames'[n].scope = frames'[1].scope /\ frames'[n].id <= begun'
      <4>1. CASE n = new
        BY <2>1, <2>3, <2>4, <2>5, <3>1, <4>1
      <4>2. CASE n \in 1..Len(frames)
        <5>1. frames[n].id \in Nat
          <6>1. frames[n] \in TxFrame
            BY <4>2 DEF TxInv, TxTypeOK
          <6> QED
            BY <6>1 DEF TxFrame
        <5> QED
          BY <2>1, <2>4, <2>5, <2>8, <2>9, <3>1, <4>2, <5>1 DEF TxInv, FramesInv
      <4> QED
        BY <2>7, <4>1, <4>2
    <3>3. ASSUME NEW n \in 1..Len(frames'), NEW m \in 1..Len(frames'), m < n
          PROVE  frames'[m].id < frames'[n].id
      <4>1. m \in 1..Len(frames) /\ frames'[m] = frames[m] /\ frames[m].id \in Nat /\ frames[m].id <= begun
        <5>1. m \in 1..Len(frames)
          BY <2>4, <2>5, <3>3
        <5>2. frames[m] \in TxFrame
          BY <5>1 DEF TxInv, TxTypeOK
        <5>3. frames[m].id \in Nat
          BY <5>2 DEF TxFrame
        <5> QED
          BY <2>5, <5>1, <5>3 DEF TxInv, FramesInv
      <4>2. CASE n = new
        BY <2>3, <2>4, <2>5, <4>1, <4>2
      <4>3. CASE n \in 1..Len(frames)
        BY <2>5, <3>3, <4>1, <4>3 DEF TxInv, FramesInv
      <4> QED
        BY <2>7, <4>2, <4>3
    <3> QED
      BY <1>1, <2>5, <2>6, <3>2, <3>3 DEF FramesInv
  <2>14. SettingsInv'
    <3>1. (started => PoliciesApply /\ table.isolation /\ table.readAll)'
      BY <1>1 DEF TxInv, SettingsInv, PoliciesApply
    <3>2. frames'[1].scope = s
      BY <2>3, <2>5, <2>8, <2>9
    <3>3. saved'[1].session = Unset /\ saved'[1].rows = stable
      <4>1. CASE frames = <<>>
        BY <2>3, <2>6, <2>9, <4>1 DEF TxInv, SettingsInv
      <4>2. CASE frames # <<>>
        BY <2>6, <2>8, <4>2 DEF TxInv, SettingsInv
      <4> QED
        BY <4>1, <4>2
    <3>4. ASSUME NEW n \in 2..Len(frames') PROVE Applied(saved'[n].session, s)
      <4>1. frames # <<>>
        BY <2>5, <2>9
      <4>2. CASE n = new
        BY <2>3, <2>6, <2>8, <4>1, <4>2 DEF TxInv, SettingsInv
      <4>3. CASE n \in 2..Len(frames)
        <5>1. n \in 1..Len(frames)
          BY <2>4, <4>3
        <5> QED
          BY <2>6, <2>8, <4>1, <4>3, <5>1 DEF TxInv, SettingsInv
      <4> QED
        BY <2>4, <2>5, <4>2, <4>3
    <3> QED
      BY <1>1, <2>7, <2>11, <3>1, <3>2, <3>3, <3>4 DEF SettingsInv
  <2>15. WritesInv'
    <3>1. ASSUME NEW i \in Nat PROVE EndedInv(i)' /\ NotBegunInv(i)'
      <4>1. NotBegunInv(i)'
        <5> SUFFICES ASSUME i > begun' PROVE NotBegunInv(i)'
          BY DEF NotBegunInv
        <5>1. i > begun
          BY <2>1, <2>4
        <5>2. /\ WroteTo(i) = {} /\ TablesOf(rows, i) = {} /\ TablesOf(stable, i) = {}
              /\ \A m \in 1..Len(frames) : TablesOf(saved[m].rows, i) = {}
          BY <5>1 DEF TxInv, WritesInv, NotBegunInv
        <5> QED
          BY <1>1, <1>3, <2>3, <2>6, <2>7, <5>2 DEF NotBegunInv
      <4>2. Ended(i)' => Ended(i)
        <5>1. \A n \in 1..Len(frames) : n \in 1..Len(frames') /\ frames'[n] = frames[n]
          BY <2>4, <2>5
        <5> QED
          BY <5>1 DEF Ended
      <4>3. Ended(i) => /\ AllOrNothing(rows, i) /\ AllOrNothing(stable, i)
                        /\ \A m \in 1..Len(frames) : AllOrNothing(saved[m].rows, i)
        BY DEF TxInv, WritesInv, EndedInv
      <4>4. Ended(i) => \A m \in 1..Len(frames') : AllOrNothing(saved'[m].rows, i)
        BY <2>3, <2>6, <2>7, <4>3
      <4> QED
        BY <1>1, <1>3, <4>1, <4>2, <4>3, <4>4 DEF EndedInv, AllOrNothing
    <3>2. ASSUME NEW n \in 1..Len(frames') PROVE UnderWayInv(n)'
      <4>1. CASE n = new
        <5>1. begun + 1 \in Nat /\ begun + 1 > begun
          BY <2>4
        <5>2. /\ WroteTo(begun + 1) = {} /\ TablesOf(rows, begun + 1) = {} /\ TablesOf(stable, begun + 1) = {}
              /\ \A m \in 1..Len(frames) : TablesOf(saved[m].rows, begun + 1) = {}
          BY <5>1 DEF TxInv, WritesInv, NotBegunInv
        <5>3. frames'[n].id = begun + 1
          BY <2>3, <2>5, <4>1
        <5>4. \A m \in 1..Len(frames') : TablesOf(saved'[m].rows, begun + 1) = {}
          BY <2>3, <2>6, <2>7, <5>2
        <5> QED
          BY <1>1, <1>3, <5>2, <5>3, <5>4 DEF UnderWayInv
      <4>2. CASE n \in 1..Len(frames)
        <5>1. UnderWayInv(n) /\ frames'[n] = frames[n]
          BY <2>5, <4>2 DEF TxInv, WritesInv
        <5>2. \A m \in 1..Len(frames') :
                TablesOf(saved'[m].rows, frames[n].id) = IF m > n THEN WroteTo(frames[n].id) ELSE {}
          <6> SUFFICES ASSUME NEW m \in 1..Len(frames')
                       PROVE  TablesOf(saved'[m].rows, frames[n].id) = IF m > n THEN WroteTo(frames[n].id) ELSE {}
            OBVIOUS
          <6>1. CASE m = new
            <7>1. new > n
              BY <2>4, <4>2
            <7> QED
              BY <2>3, <2>6, <5>1, <6>1, <7>1 DEF UnderWayInv
          <6>2. CASE m \in 1..Len(frames)
            BY <2>6, <5>1, <6>2 DEF UnderWayInv
          <6> QED
            BY <2>7, <6>1, <6>2
        <5> QED
          BY <1>1, <1>3, <5>1, <5>2 DEF UnderWayInv
      <4> QED
        BY <2>7, <4>1, <4>2
    <3> QED
      BY <3>1, <3>2 DEF WritesInv
  <2> QED
    BY <1>2, <2>12, <2>13, <2>14, <2>15 DEF TxInv
<1> QED
  BY <1>4, <1>5 DEF Do

(* Statements. *)
LEMMA LastFrame ==
  ASSUME TxInv, frames # <<>>
  PROVE  /\ Len(frames) \in 1..Len(frames) /\ Last(frames) = frames[Len(frames)]
         /\ Last(frames).scope = frames[1].scope /\ Last(frames).scope \in Scopes /\ ValidScope(Last(frames).scope)
         /\ Last(frames).id \in Nat /\ Last(frames).id <= begun
         /\ Applied(session, Last(frames).scope)
         /\ PoliciesApply /\ table.isolation /\ table.readAll
<1>1. Len(frames) \in 1..Len(frames)
  <2>1. Len(frames) \in Nat /\ Len(frames) # 0
    BY EmptyIffLen DEF TxInv, TxTypeOK
  <2> QED
    BY <2>1
<1>2. Last(frames) = frames[Len(frames)]
  BY DEF Last
<1>3. Last(frames) \in TxFrame
  BY <1>1, <1>2 DEF TxInv, TxTypeOK
<1>4. Last(frames).scope \in Scopes /\ ValidScope(Last(frames).scope) /\ Last(frames).id \in Nat
  BY <1>3 DEF TxFrame
<1>5. Last(frames).scope = frames[1].scope /\ Last(frames).id <= begun /\ started
  BY <1>1, <1>2 DEF TxInv, FramesInv
<1> QED
  BY <1>1, <1>2, <1>4, <1>5 DEF TxInv, SettingsInv

(* A statement that fails, or reads, leaves all but the abort flag. *)
LEMMA AbortInv ==
  ASSUME TxInv, frames # <<>>, session' = session \/ session' = [session EXCEPT !.aborted = TRUE],
         UNCHANGED <<table, started, frames, saved, rows, stable, begun, wrote>>
  PROVE  TxTypeOK' /\ FramesInv' /\ SettingsInv' /\ WritesInv'
<1>1. /\ session' \in Settings /\ session'.tenant = session.tenant /\ session'.all = session.all
      /\ session'.path = session.path
  BY DEF TxInv, TxTypeOK, Settings
<1>2. TxTypeOK' /\ FramesInv'
  BY <1>1 DEF TxInv, TxTypeOK, FramesInv
<1>3. SettingsInv'
  <2>1. Applied(session', frames[1].scope)
    BY <1>1 DEF TxInv, SettingsInv, Applied
  <2> QED
    BY <2>1 DEF TxInv, SettingsInv, PoliciesApply
<1>4. WritesInv'
  <2>1. \A i : WroteTo(i)' = WroteTo(i)
    BY DEF WroteTo
  <2> QED
    BY <2>1 DEF TxInv, WritesInv, EndedInv, Ended, NotBegunInv, UnderWayInv, AllOrNothing
<1> QED
  BY <1>2, <1>3, <1>4

(* Without a tenant, a statement that is not refused reads all of them. *)
LEMMA SelectRowsInv ==
  ASSUME TxInv, SelectRows
  PROVE  TxInv'
<1>1. TxTypeOK' /\ FramesInv' /\ SettingsInv' /\ WritesInv'
  BY AbortInv DEF SelectRows
<1>2. AccessIsRight'
  <2>1. CASE access' = NoAccess
    BY <2>1 DEF AccessIsRight, NoAccess
  <2>2. CASE ~TenantRaises /\ Statement("read", {r.tenant : r \in Visible})
    <3> DEFINE s == Last(frames).scope
    <3>1. /\ access'.kind = "read" /\ access'.tenants = {r.tenant : r \in Visible}
          /\ access'.schema = session.path /\ access'.scope = s
      BY <2>2 DEF Statement
    <3>2. /\ s \in Scopes /\ ValidScope(s) /\ Applied(session, s)
          /\ PoliciesApply /\ table.isolation /\ table.readAll
      BY LastFrame DEF SelectRows
    <3>3. session.tenant # "" \/ session.all
      BY <2>2, <3>2 DEF TenantRaises
    <3> HIDE DEF s
    <3>4. s.tenant /\ session.path = s.schema
      BY <3>2, <3>3 DEF Applied
    <3>5. ASSUME ~s.readAll PROVE {r.tenant : r \in Visible} \subseteq {s.tenantID}
      <4>1. ~session.all /\ session.tenant = s.tenantID
        BY <3>2, <3>4, <3>5 DEF Applied
      <4> QED
        BY <3>2, <4>1 DEF Visible
    <3> QED
      BY <3>1, <3>4, <3>5 DEF AccessIsRight
  <2> QED
    BY <2>1, <2>2 DEF SelectRows
<1> QED
  BY <1>1, <1>2 DEF TxInv

(* A row of Do number k is added to the rows, and it is noted that k wrote. *)
LEMMA WriteTables ==
  ASSUME NEW k, NEW row, row.of = k, NEW set, NEW i
  PROVE  TablesOf(set \cup {row}, i) = TablesOf(set, i) \cup (IF i = k THEN {row.table} ELSE {})
  BY DEF TablesOf

LEMMA WriteWrote ==
  ASSUME NEW k, NEW name, wrote' = wrote \cup {<<k, name>>}, NEW i
  PROVE  WroteTo(i)' = WroteTo(i) \cup (IF i = k THEN {name} ELSE {})
<1> DEFINE new == <<k, name>>
<1>1. new[1] = k /\ new[2] = name /\ wrote' = wrote \cup {new}
  OBVIOUS
<1> HIDE DEF new
<1> QED
  BY <1>1 DEF WroteTo

LEMMA WriteInv ==
  ASSUME TxInv, frames # <<>>, NEW row \in Row, row.of = Last(frames).id,
         rows' = rows \cup {row}, wrote' = wrote \cup {<<Last(frames).id, row.table>>},
         UNCHANGED <<table, started, frames, session, saved, stable, begun>>
  PROVE  TxTypeOK' /\ FramesInv' /\ SettingsInv' /\ WritesInv'
<1>1. TxTypeOK' /\ FramesInv' /\ SettingsInv'
  BY DEF TxInv, TxTypeOK, FramesInv, SettingsInv, PoliciesApply
<1>2. /\ Len(frames) \in 1..Len(frames) /\ Last(frames) = frames[Len(frames)]
      /\ Last(frames).id \in Nat /\ Last(frames).id <= begun /\ begun \in Nat
  BY LastFrame DEF TxInv, TxTypeOK
<1> PICK k \in Nat : k = Last(frames).id
  BY <1>2
<1>a. row.of = k /\ wrote' = wrote \cup {<<k, row.table>>}
  OBVIOUS
<1>b. \A i : TablesOf(rows', i) = TablesOf(rows, i) \cup (IF i = k THEN {row.table} ELSE {})
  BY <1>a, WriteTables
<1>c. \A i : WroteTo(i)' = WroteTo(i) \cup (IF i = k THEN {row.table} ELSE {})
  BY <1>a, WriteWrote
<1>3. \A i : i # k => TablesOf(rows', i) = TablesOf(rows, i) /\ WroteTo(i)' = WroteTo(i)
  BY <1>b, <1>c
<1>4. TablesOf(rows', k) = TablesOf(rows, k) \cup {row.table} /\ WroteTo(k)' = WroteTo(k) \cup {row.table}
  BY <1>b, <1>c
<1>5. ASSUME NEW i \in Nat PROVE EndedInv(i)' /\ NotBegunInv(i)'
  <2>1. CASE i = k
    BY <1>2, <2>1 DEF EndedInv, Ended, NotBegunInv
  <2>2. CASE i # k
    BY <1>3, <2>2 DEF TxInv, WritesInv, EndedInv, Ended, NotBegunInv, AllOrNothing
  <2> QED
    BY <2>1, <2>2
<1>6. ASSUME NEW n \in 1..Len(frames) PROVE UnderWayInv(n)'
  <2>1. UnderWayInv(n)
    BY DEF TxInv, WritesInv
  <2>2. CASE n = Len(frames)
    <3>1. \A m \in 1..Len(frames) : ~(m > n)
      BY <1>2, <2>2
    <3> QED
      BY <1>2, <1>4, <2>1, <2>2, <3>1 DEF UnderWayInv
  <2>3. CASE n # Len(frames)
    <3>1. frames[n].id # k
      <4>1. frames[n].id < frames[Len(frames)].id
        BY <1>2, <2>3 DEF TxInv, FramesInv
      <4>2. frames[n] \in TxFrame
        BY DEF TxInv, TxTypeOK
      <4> QED
        BY <1>2, <4>1, <4>2 DEF TxFrame
    <3> QED
      BY <1>3, <2>1, <3>1 DEF UnderWayInv
  <2> QED
    BY <2>2, <2>3
<1>7. WritesInv'
  BY <1>5, <1>6 DEF WritesInv
<1> QED
  BY <1>1, <1>7

LEMMA InsertRowInv ==
  ASSUME TxInv, NEW tenant \in TxTenants, InsertRow(tenant)
  PROVE  TxInv'
<1>1. CASE Writable(tenant)
  <2> DEFINE s == Last(frames).scope
             row == [schema |-> session.path, tenant |-> tenant, of |-> Last(frames).id, table |-> "business"]
  <2>1. /\ frames # <<>> /\ rows' = rows \cup {row} /\ wrote' = wrote \cup {<<Last(frames).id, "business">>}
        /\ Statement("write", {tenant})
        /\ UNCHANGED <<table, started, frames, session, saved, stable, begun>>
    BY <1>1 DEF InsertRow
  <2>2. row \in Row /\ row.of = Last(frames).id /\ row.table = "business"
    BY <2>1, LastFrame DEF TxInv, TxTypeOK, Settings, Row
  <2> HIDE DEF row
  <2>3. TxTypeOK' /\ FramesInv' /\ SettingsInv' /\ WritesInv'
    BY <2>1, <2>2, WriteInv
  <2>4. AccessIsRight'
    <3>1. access'.kind = "write" /\ access'.tenants = {tenant} /\ access'.schema = session.path /\ access'.scope = s
      BY <2>1 DEF Statement
    <3>2. Applied(session, s) /\ PoliciesApply
      BY <2>1, LastFrame
    <3>3. session.tenant # "" /\ tenant = session.tenant
      BY <1>1, <3>2 DEF Writable
    <3> HIDE DEF s
    <3> QED
      BY <3>1, <3>2, <3>3 DEF Applied, AccessIsRight
  <2> QED
    BY <2>3, <2>4 DEF TxInv
<1>2. CASE ~Writable(tenant)
  <2>1. /\ frames # <<>> /\ session' = [session EXCEPT !.aborted = TRUE] /\ access' = NoAccess
        /\ UNCHANGED <<table, started, frames, saved, rows, stable, begun, wrote>>
    BY <1>2 DEF InsertRow
  <2>2. TxTypeOK' /\ FramesInv' /\ SettingsInv' /\ WritesInv'
    BY <2>1, AbortInv
  <2>3. AccessIsRight'
    BY <2>1 DEF AccessIsRight, NoAccess
  <2> QED
    BY <2>2, <2>3 DEF TxInv
<1> QED
  BY <1>1, <1>2

LEMMA RecordInv ==
  ASSUME TxInv, Record
  PROVE  TxInv'
<1> DEFINE row == [schema |-> "audit", tenant |-> "", of |-> Last(frames).id, table |-> "audit"]
<1>1. /\ frames # <<>> /\ rows' = rows \cup {row} /\ wrote' = wrote \cup {<<Last(frames).id, "audit">>}
      /\ access' = NoAccess /\ UNCHANGED <<table, started, frames, session, saved, stable, begun>>
  BY DEF Record
<1>2. row \in Row /\ row.of = Last(frames).id /\ row.table = "audit"
  BY <1>1, LastFrame DEF Row
<1> HIDE DEF row
<1>3. TxTypeOK' /\ FramesInv' /\ SettingsInv' /\ WritesInv'
  BY <1>1, <1>2, WriteInv
<1>4. AccessIsRight'
  BY <1>1 DEF AccessIsRight, NoAccess
<1> QED
  BY <1>3, <1>4 DEF TxInv

LEMMA VerifyTenantRLSInv ==
  ASSUME TxInv, VerifyTenantRLS
  PROVE  TxInv'
<1>1. TxTypeOK' /\ FramesInv' /\ AccessIsRight'
  BY DEF VerifyTenantRLS, TxInv, TxTypeOK, FramesInv, AccessIsRight
<1>2. SettingsInv'
  BY DEF VerifyTenantRLS, TxInv, SettingsInv, PoliciesApply
<1>3. WritesInv'
  <2>1. \A i : WroteTo(i)' = WroteTo(i)
    BY DEF VerifyTenantRLS, WroteTo
  <2> QED
    BY <2>1 DEF VerifyTenantRLS, TxInv, WritesInv, EndedInv, Ended, NotBegunInv, UnderWayInv, AllOrNothing
<1> QED
  BY <1>1, <1>2, <1>3 DEF TxInv

LEMMA TxNextInv == TxInv /\ [PgTxNext]_txVars => TxInv'
<1> SUFFICES ASSUME TxInv, [PgTxNext]_txVars PROVE TxInv'
  OBVIOUS
<1>1. CASE UNCHANGED txVars
  <2>1. TxTypeOK' /\ FramesInv' /\ AccessIsRight' /\ SettingsInv'
    BY <1>1 DEF txVars, TxInv, TxTypeOK, FramesInv, AccessIsRight, SettingsInv, PoliciesApply
  <2>2. WritesInv'
    <3>1. \A i : WroteTo(i)' = WroteTo(i)
      BY <1>1 DEF txVars, WroteTo
    <3> QED
      BY <1>1, <3>1 DEF txVars, TxInv, WritesInv, EndedInv, Ended, NotBegunInv, UnderWayInv, AllOrNothing
  <2> QED
    BY <2>1, <2>2 DEF TxInv
<1>2. CASE DoFails
  BY <1>2, TxRollbackInv DEF DoFails
<1> QED
  BY <1>1, <1>2, VerifyTenantRLSInv, DoInv, DoReturnsInv, SelectRowsInv, RecordInv,
      ConnectionLostInv, InsertRowInv
     DEF PgTxNext

(* Whatever Do calls nest, fail, panic or lose their connection, for any    *)
(* tenants and schemas: a statement touches only what its ctx may, the      *)
(* connection returns to the pool as it came, and what one Do wrote becomes *)
(* durable together (pgtx.go:181-260, 298-345, tenant.go:51-115,            *)
(* audit.go:82-114).                                                        *)
THEOREM TenantsAreIsolated == PgTxSpec => []TenantIsolation
<1>1. PgTxSpec => []TxInv
  BY TxInitInv, TxNextInv, PTL DEF PgTxSpec
<1>2. TxInv => TenantIsolation
  <2> SUFFICES ASSUME TxInv PROVE TenantIsolation
    OBVIOUS
  <2>1. frames = <<>> => session = Unset /\ rows = stable
    BY DEF TxInv, SettingsInv
  <2>2. ASSUME NEW i \in 1..begun, \A n \in 1..Len(frames) : frames[n].id # i
        PROVE  TablesOf(stable, i) \in {{}, WroteTo(i)}
    <3>1. i \in Nat
      BY DEF TxInv, TxTypeOK
    <3> QED
      BY <2>2, <3>1 DEF TxInv, WritesInv, EndedInv, Ended, AllOrNothing
  <2> QED
    BY <2>1, <2>2 DEF TxInv, AccessIsRight, TablesOf, WroteTo, TenantIsolation
<1> QED
  BY <1>1, <1>2, PTL
=============================================================================
