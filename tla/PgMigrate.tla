------------------------------ MODULE PgMigrate ------------------------------
(***************************************************************************)
(* pgmigrate.Runner for one MigrationSet, run by several replicas at once: *)
(* every file in a transaction of its own under an advisory lock of the    *)
(* schema, with its record in schema_migrations.                           *)
(*                                                                         *)
(* A replica is a build: two builds may differ in the content of a file.   *)
(* File 0 stands for ensureSchema.  Rows written before checksums existed  *)
(* have the checksum "null".                                               *)
(*                                                                         *)
(* An operator whose name begins with that of the definition after it is a *)
(* faulty variant of it, against which a property is tested.               *)
(***************************************************************************)
EXTENDS Naturals, Sequences, SequencesExt

CONSTANTS
  Builds,       \* replicas
  Files,        \* number of migration files
  MaxRestarts   \* bound: restarts of replicas

ASSUME PgMigrateAssumption == Files \in Nat /\ MaxRestarts \in Nat /\ "nobody" \notin Builds

VARIABLES
  content,   \* per replica, the content of each file
  mig,       \* per replica: file, step, what it decided, how it failed
  locked,    \* holder of pg_advisory_xact_lock
  history,   \* schema_migrations: checksum per file, "none" without a row
  ranFiles,   \* history: files executed and committed, with content, in order
  restarts

migVars == <<content, mig, locked, history, ranFiles, restarts>>

Contents == {"a", "b"}

Fresh == [file |-> 0, step |-> "begin", decision |-> "none", why |-> "none"]

MigrateInit ==
  /\ content \in [Builds -> [1..Files -> Contents]]
  /\ mig = [r \in Builds |-> Fresh]
  /\ locked = "nobody" /\ restarts = 0
  /\ \E legacy \in 0..Files :    \* files applied before, without checksum
       /\ history = [f \in 1..Files |-> IF f <= legacy THEN "null" ELSE "none"]
       /\ ranFiles = [f \in 1..legacy |-> <<f, "a">>]

Step(r, s) == mig[r].step = s

(* BEGIN and pg_advisory_xact_lock: one holder, the others wait. *)
LockSchemaForeign(r) ==
  /\ Step(r, "begin") /\ locked' = locked
  /\ mig' = [mig EXCEPT ![r].step = "check"]
  /\ UNCHANGED <<content, history, ranFiles, restarts>>

LockSchema(r) ==
  /\ Step(r, "begin") /\ locked = "nobody" /\ locked' = r
  /\ mig' = [mig EXCEPT ![r].step = "check"]
  /\ UNCHANGED <<content, history, ranFiles, restarts>>

(* What the record of the file, read under the lock, says (verifyChecksum). *)
Decision(r) ==
  LET f == mig[r].file IN
  CASE f = 0 -> "ensure"
    [] f > 0 /\ history[f] = "none" -> "execute"
    [] f > 0 /\ history[f] = "null" -> "backfill"
    [] f > 0 /\ history[f] \notin {"none", "null"} /\ history[f] = content[r][f] -> "keep"
    [] OTHER -> "drift"

(* A transaction that ends releases the lock. *)
Unlocked(r) == locked' = IF locked = r THEN "nobody" ELSE locked

Fail(r, why) == mig' = [mig EXCEPT ![r].step = "failed", ![r].why = why] /\ Unlocked(r)

CheckApplied(r) ==
  /\ Step(r, "check")
  /\ IF Decision(r) = "drift" THEN Fail(r, "drift")
     ELSE mig' = [mig EXCEPT ![r].step = "commit", ![r].decision = Decision(r)] /\ UNCHANGED locked
  /\ UNCHANGED <<content, history, ranFiles, restarts>>

(* The statements of the file fail, or the commit does, or the ctx ends:    *)
(* nothing of it remains.                                                   *)
MigrationFails(r) ==
  /\ mig[r].step \in {"check", "commit"} /\ Fail(r, "error")
  /\ UNCHANGED <<content, history, ranFiles, restarts>>

(* The file and its record are committed together; version is the key.      *)
CommitMigration(r) ==
  /\ Step(r, "commit")
  /\ LET f == mig[r].file
         next == [mig EXCEPT ![r].file = @ + 1, ![r].decision = "none",
                             ![r].step = IF f = Files THEN "done" ELSE "begin"]
     IN CASE mig[r].decision = "execute" /\ history[f] # "none" ->
               Fail(r, "duplicate") /\ UNCHANGED <<history, ranFiles>>
          [] mig[r].decision = "execute" /\ history[f] = "none" ->
               /\ mig' = next /\ Unlocked(r)
               /\ history' = [history EXCEPT ![f] = content[r][f]]
               /\ ranFiles' = Append(ranFiles, <<f, content[r][f]>>)
          [] mig[r].decision = "backfill" ->
               /\ mig' = next /\ Unlocked(r)
               /\ history' = [history EXCEPT ![f] = content[r][f]] /\ UNCHANGED ranFiles
          [] OTHER -> mig' = next /\ Unlocked(r) /\ UNCHANGED <<history, ranFiles>>
  /\ UNCHANGED <<content, restarts>>

(* A replica that failed or crashed starts again, with what it has. *)
RestartMigration(r) ==
  /\ restarts < MaxRestarts /\ ~Step(r, "done")
  /\ mig' = [mig EXCEPT ![r] = Fresh] /\ Unlocked(r)
  /\ restarts' = restarts + 1
  /\ UNCHANGED <<content, history, ranFiles>>

MigrateNext ==
  \E r \in Builds : \/ LockSchema(r) \/ CheckApplied(r) \/ MigrationFails(r) \/ CommitMigration(r)
                    \/ RestartMigration(r)

MigrateSpec == MigrateInit /\ [][MigrateNext]_migVars

-----------------------------------------------------------------------------
(* Properties. *)

(* However many replicas migrate, fail and start again: every file takes    *)
(* effect once and in order, its record tells what took effect, replicas of *)
(* the same build do not fail because of each other, and one that comes to  *)
(* the end has the content that was applied, unless the record was older    *)
(* than checksums (pgmigrate.go:83-107, 141-206).                           *)
MigratedOnce ==
  /\ \A i \in 1..Len(ranFiles) : ranFiles[i][1] = i
  /\ \A f \in 1..Files : history[f] # "none" <=> f <= Len(ranFiles)
  /\ \A r \in Builds : mig[r].why # "duplicate"
  /\ \A r \in Builds : Step(r, "done") =>
       \A f \in 1..Files : history[f] = content[r][f]
=============================================================================
