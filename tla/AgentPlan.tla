------------------------------ MODULE AgentPlan ------------------------------
(***************************************************************************)
(* `appkit plan` and `appkit apply`: the planners of internal/agentplan    *)
(* (build for sync, contract, events, errors and wrap; schemaPlan; New),   *)
(* the plan they build in internal/workspace, its JSON document, and the   *)
(* apply of a reviewed document.                                           *)
(*                                                                         *)
(* The workspace has the source "in", one migration "m1", the output       *)
(* "out" outside and the output "part" inside the schema directory.  A     *)
(* file's content is its state: digests are injective.  Rendering is a     *)
(* function of the bytes captured.  Editors take no lock: they write       *)
(* between any two steps of a planner.  An apply is one step here; its     *)
(* steps, crashes and recovery are the module Workspace.                   *)
(*                                                                         *)
(* An operator whose name begins with that of the definition after it is a *)
(* faulty variant of it, against which a property is tested.               *)
(***************************************************************************)
EXTENDS Naturals, Sequences, SequencesExt, Functions

CONSTANT MaxEdits   \* bound: edits made by others

ASSUME AgentPlanAssumption == MaxEdits \in Nat

VARIABLES
  disk,      \* content of every file of the workspace
  command,   \* the operation, its authorisation and where the planner is
  seen,      \* states: file states read by the planner
  listed,    \* directory snapshots: the planner's view of m1 and part
  plan,      \* the plan: operation, content and precondition per target
  captured,  \* file states captured so far by BuildPlan
  document,  \* the plan file: its plan, its digest, whether it is complete
  applied,   \* history: plan applied, whether -digest was given, disk before and after
  exit,      \* how the command ended
  edits

planVars == <<disk, command, seen, listed, plan, captured, document, applied, exit, edits>>

Inputs  == {"in", "m1"}
Outputs == {"out", "part"}
Paths   == Inputs \union Outputs
Operations == {"derive", "schema", "new"}

(* Contents are sequences so that any two of them can be compared. *)
Absent == <<>>
Hand   == <<"hand">>
Generated(content) == content # Absent /\ content[1] = "gen"
Versions == {<<"a">>, <<"b">>}

(* The files an operation renders and what from: the captured source for   *)
(* build, the captured migration for schemadoc.Render, the options alone   *)
(* for the scaffold.                                                       *)
Rendered(op, states) ==
  CASE op = "new"    -> [f \in Outputs |-> <<"gen", "options">>]
    [] op = "derive" -> [f \in IF states["in"] = <<"b">> THEN Outputs ELSE {"out"} |->
                           <<"gen", states["in"]>>]
    [] op = "schema" -> [f \in IF states["m1"] = Absent THEN {"out"} ELSE Outputs |->
                           <<"gen", states["m1"]>>]

(* The order in which the planners read files, and path order. *)
ReadOrder == <<"in", "m1", "out", "part">>
PathOrder == <<"in", "out", "m1", "part">>

FirstIn(order, files) == Head(SelectSeq(order, LAMBDA f : f \in files))

NoPlan == [f \in {} |-> Absent]

PlanInit ==
  /\ disk \in {d \in [Paths -> Versions \union {Absent, Hand, <<"gen", <<"b">>>>}] :
                 /\ d["in"] \in {Absent, <<"a">>} /\ d["m1"] \in {Absent, <<"a">>}
                 /\ \A o \in Outputs : d[o] \notin Versions}
  /\ command \in [op : Operations, authorised : BOOLEAN, at : {"start"}]
  /\ seen = NoPlan /\ listed = {} /\ plan = NoPlan /\ captured = NoPlan
  /\ document = [plan |-> NoPlan, digest |-> NoPlan, whole |-> FALSE]
  /\ applied = <<>> /\ exit = "none" /\ edits = 0

CommandAt(step) == exit = "none" /\ command.at = step
Goto(step) == command' = [command EXCEPT !.at = step]

(* Somebody edits, creates or removes a file, without the workspace lock. *)
Edit ==
  /\ edits < MaxEdits /\ edits' = edits + 1
  /\ \E f \in Paths : \E c \in {Absent} \union IF f \in Inputs THEN Versions ELSE {Hand} :
       c # disk[f] /\ disk' = [disk EXCEPT ![f] = c]
  /\ UNCHANGED <<command, seen, listed, plan, captured, document, applied, exit>>

(* classifyAgentError: the command ends with the code of its error. *)
PlanFails(code) ==
  /\ exit' = code
  /\ UNCHANGED <<disk, command, seen, listed, plan, captured, document, applied, edits>>

(* The flags: migration SQL runs only when the caller authorised it. *)
Usage == CommandAt("start") /\ command.op = "schema" /\ ~command.authorised /\ PlanFails("invalid_arguments")

(* WithReadLock excludes every apply while the planner inspects; the lock, *)
(* the context or the file system may fail at any step that reads.         *)
Begin ==
  /\ CommandAt("start") /\ (command.op = "schema" => command.authorised)
  /\ Goto(CASE command.op = "derive" -> "read" [] command.op = "schema" -> "list" [] OTHER -> "empty")
  /\ UNCHANGED <<disk, seen, listed, plan, captured, document, applied, exit, edits>>

Interrupted ==
  /\ \E step \in {"start", "list", "read", "empty", "render", "guards", "capture"} : CommandAt(step)
  /\ \E code \in {"canceled", "operation_failed"} : PlanFails(code)

(* CaptureDirectory of db/migrations and of db/schema: membership only.    *)
ListDirectory ==
  /\ CommandAt("list")
  /\ listed' = {f \in {"m1", "part"} : disk[f] # Absent}
  /\ Goto("read")
  /\ UNCHANGED <<disk, seen, plan, captured, document, applied, exit, edits>>

(* workspace.ReadFile: bytes and state of one moment, by reading twice and *)
(* comparing, or ErrChanged.                                               *)
ReadFile(f) ==
  /\ seen' = [g \in DOMAIN seen \union {f} |-> IF g = f THEN disk[f] ELSE seen[g]]
  /\ UNCHANGED <<disk, command, listed, plan, captured, document, applied, exit, edits>>

(* What is read next: build reads the files the source renders; schemaPlan *)
(* the migrations it listed, the index and the outputs it listed.          *)
Wanted(f) ==
  CASE command.op = "derive" -> f = "in" \/ ("in" \in DOMAIN seen /\ f \in DOMAIN Rendered("derive", seen))
    [] command.op = "schema" -> f \in {"in", "out"} \/ f \in listed

ToRead == {f \in Paths : Wanted(f) /\ f \notin DOMAIN seen}

(* The early returns of the readers: no source, a migration that went away *)
(* since it was listed, an output that is not generated.                   *)
Refusal(f) ==
  CASE f = "in" /\ disk[f] = Absent -> "operation_failed"
    [] f = "m1" /\ disk[f] = Absent -> "workspace_conflict"
    [] command.op = "schema" /\ f \in Outputs /\ disk[f] # Absent /\ ~Generated(disk[f]) -> "invalid_plan"
    [] OTHER -> "none"

ReadNext ==
  /\ CommandAt("read") /\ ToRead # {}
  /\ LET f == FirstIn(ReadOrder, ToRead) IN
       IF Refusal(f) = "none" THEN ReadFile(f) ELSE PlanFails(Refusal(f))

(* A file that changes while it is read is refused by the double read. *)
ReadUnstable == CommandAt("read") /\ ToRead # {} /\ edits > 0 /\ PlanFails("workspace_conflict")

(* New: the target directory must be absent or empty. *)
EmptyTarget ==
  /\ CommandAt("empty")
  /\ IF \A o \in Outputs : disk[o] = Absent
       THEN Goto("render") /\ UNCHANGED <<disk, seen, listed, plan, captured, document, applied, exit, edits>>
       ELSE PlanFails("invalid_plan")

ReadDone ==
  /\ CommandAt("read") /\ ToRead = {} /\ Goto("render")
  /\ UNCHANGED <<disk, seen, listed, plan, captured, document, applied, exit, edits>>

(* The state the planner holds for a file: what it read, or absent since   *)
(* the directory did not list it.                                          *)
Held(f) == IF f \in DOMAIN seen THEN seen[f] ELSE Absent

(* The operation on each target: assert the inputs, create, update or      *)
(* assert each rendered file, and, for the schema, delete the rest.        *)
TargetOperation(files, f) ==
  IF f \notin DOMAIN files THEN IF f \in Inputs THEN "assert" ELSE "delete"
  ELSE IF command.op = "new" \/ Held(f) = Absent THEN "create"
  ELSE IF Held(f) = files[f] THEN "assert" ELSE "update"

(* The captured migrations are executed and rendered: nothing is read      *)
(* again.  Changes are those of build, schemaPlan or New.                  *)
Render ==
  /\ CommandAt("render")
  /\ LET files == Rendered(command.op, [f \in Inputs |-> Held(f)])
         stale == {f \in DOMAIN seen \intersect Outputs : seen[f] # Absent}
         targets == (DOMAIN seen \intersect Inputs) \union DOMAIN files
                      \union (IF command.op = "schema" THEN stale ELSE {}) IN
       plan' = [f \in targets |-> [op |-> TargetOperation(files, f),
                                   content |-> IF TargetOperation(files, f) \in {"create", "update"}
                                                 THEN files[f] ELSE Absent,
                                   before |-> Absent]]
  /\ Goto(IF command.op = "schema" THEN "guards" ELSE "capture")
  /\ UNCHANGED <<disk, seen, listed, captured, document, applied, exit, edits>>

RenderFails == CommandAt("render") /\ PlanFails("operation_failed")

(* verifyDirectoryGuards: the live directories have the members captured. *)
GuardsHold == {f \in {"m1", "part"} : disk[f] # Absent} = listed

CheckGuards ==
  /\ CommandAt("guards")
  /\ IF GuardsHold
       THEN Goto("capture") /\ UNCHANGED <<disk, seen, listed, plan, captured, document, applied, exit, edits>>
       ELSE PlanFails("workspace_conflict")

(* BuildPlan captures the targets one by one in path order; desiredFiles   *)
(* refuses an operation the captured state contradicts, deriveDirectoryAfter *)
(* a state the captured membership contradicts.                            *)
ToCapture == DOMAIN plan \ DOMAIN captured

ContradictsPlan(f, state) ==
  \/ plan[f].op = "create" /\ state # Absent
  \/ plan[f].op \in {"update", "delete"} /\ state = Absent
  \/ command.op = "schema" /\ f \in {"m1", "part"} /\ (state = Absent) # (f \notin listed)

CaptureTarget ==
  /\ CommandAt("capture") /\ ToCapture # {}
  /\ LET f == FirstIn(PathOrder, ToCapture) IN
       /\ captured' = [g \in DOMAIN captured \union {f} |-> IF g = f THEN disk[f] ELSE captured[g]]
       /\ UNCHANGED <<disk, command, seen, listed, plan, document, applied, exit, edits>>

CaptureUnstable == CommandAt("capture") /\ ToCapture # {} /\ edits > 0 /\ PlanFails("workspace_conflict")

(* The last comparison of build and schemaPlan: every precondition is the  *)
(* state the content was made from.  New has none.                         *)
UnchangedTargetsInputsOnly ==
  command.op = "new" \/ \A f \in DOMAIN plan \intersect Inputs : captured[f] = Held(f)

UnchangedTargets ==
  command.op = "new" \/ \A f \in DOMAIN plan : captured[f] = Held(f)

(* The plan, its digest over preconditions, operations and contents, and   *)
(* its document on standard output, complete or cut short.                 *)
MarshalPlan ==
  LET p == [f \in DOMAIN plan |-> [plan[f] EXCEPT !.before = captured[f]]] IN
    /\ plan' = p
    /\ \E whole \in BOOLEAN :
         /\ document' = [plan |-> p, digest |-> p, whole |-> whole]
         /\ exit' = IF whole THEN "planned" ELSE "operation_failed"

FinishPlan ==
  /\ CommandAt("capture") /\ ToCapture = {}
  /\ IF \E f \in DOMAIN plan : ContradictsPlan(f, captured[f]) THEN PlanFails("invalid_plan")
     ELSE IF (command.op = "schema" /\ ~GuardsHold) \/ ~UnchangedTargets THEN PlanFails("workspace_conflict")
     ELSE MarshalPlan /\ UNCHANGED <<disk, command, seen, listed, captured, applied, edits>>

(* The plan file may be replaced after the review: by one whose content    *)
(* no longer has its digest, or by another plan.                           *)
Rewrite ==
  /\ exit = "planned" /\ edits < MaxEdits /\ edits' = edits + 1
  /\ \E f \in DOMAIN plan : \E honest \in BOOLEAN :
       LET other == [plan EXCEPT ![f].content = Hand] IN
         document' = [document EXCEPT !.plan = other, !.digest = IF honest THEN other ELSE plan]
  /\ UNCHANGED <<disk, command, seen, listed, plan, captured, applied, exit>>

(* ParsePlan and Validate: the canonical document of a plan with its own   *)
(* digest, contents only on writes.                                        *)
ParsePlan ==
  /\ document.whole /\ document.digest = document.plan
  /\ \A f \in DOMAIN document.plan :
       document.plan[f].op \in {"assert", "delete"} => document.plan[f].content = Absent

(* workspace.Apply: the preconditions and the guards hold and every target *)
(* gets its final state, or nothing changes.                               *)
Preconditions(p) ==
  /\ \A f \in DOMAIN p : disk[f] = p[f].before
  /\ command.op = "schema" => GuardsHold

Final(p, f) ==
  IF f \notin DOMAIN p \/ p[f].op = "assert" THEN disk[f]
  ELSE IF p[f].op = "delete" THEN Absent ELSE p[f].content

ApplyPlan(expected) ==
  /\ exit = "planned"
  /\ IF ~ParsePlan \/ (expected /\ document.digest # plan) THEN PlanFails("invalid_plan")
     ELSE IF ~Preconditions(document.plan) THEN PlanFails("workspace_conflict")
     ELSE /\ disk' = [f \in Paths |-> Final(document.plan, f)]
          /\ applied' = <<[plan |-> document.plan, expected |-> expected, before |-> disk, after |-> disk']>>
          /\ exit' = "applied"
          /\ UNCHANGED <<command, seen, listed, plan, captured, document, edits>>

PlanNext ==
  \/ Edit \/ Usage \/ Begin \/ Interrupted
  \/ ListDirectory \/ ReadNext \/ ReadUnstable \/ ReadDone \/ EmptyTarget
  \/ Render \/ RenderFails \/ CheckGuards \/ CaptureTarget \/ CaptureUnstable \/ FinishPlan
  \/ Rewrite \/ \E expected \in BOOLEAN : ApplyPlan(expected)

PlanSpec == PlanInit /\ [][PlanNext]_planVars

-----------------------------------------------------------------------------
(* What the reviewed plan writes is what it says it was made from: applied *)
(* with its digest, it leaves every output it writes rendered from the     *)
(* inputs as they are at that moment, whatever was edited while it was     *)
(* planned, reviewed or stored, and it replaces or removes no schema file  *)
(* written by hand (agentplan.build, schemaPlan, cli.executeAgent).        *)
AppliedIsDerived ==
  \A i \in DOMAIN applied :
    LET run == applied[i]
        files == Rendered(command.op, [f \in Inputs |-> run.before[f]]) IN
      run.expected =>
        /\ run.plan = plan
        /\ \A f \in DOMAIN files : run.after[f] = files[f]
        /\ \A f \in Inputs : run.after[f] = run.before[f]
        /\ command.op = "schema" =>
             \A o \in Outputs : run.after[o] # run.before[o] => run.before[o] # Hand
        /\ command.op = "new" => \A o \in Outputs : run.before[o] = Absent

=============================================================================
