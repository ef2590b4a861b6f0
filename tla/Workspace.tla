----------------------------- MODULE Workspace -----------------------------
(* internal/workspace: a plan changes several files of a workspace as one.  *)
(* The files are staged and backed up in a transaction directory, a record  *)
(* (prepared.json) makes the transaction recoverable before the first       *)
(* public rename, and renaming the directory is the decision to commit.  A  *)
(* caller may die between any two file operations; whoever applies the      *)
(* exact same plan next finishes or undoes what it finds.                   *)
(*                                                                          *)
(* Every rename and removal is synced before the next one, so a power       *)
(* failure is a Crash one step earlier.  A file's content stands for its    *)
(* digest and mode; waiting for the lock has no effect and is left out.     *)
(*                                                                          *)
(* A definition directly above another one whose name it extends is a       *)
(* faulty variant of it, against which a property is tested.                *)
EXTENDS Naturals, Sequences, FiniteSets, FiniteSetsExt, Functions

CONSTANTS
  Callers,        \* processes that call Apply
  Readers,        \* processes that call WithReadLock
  Paths, Dirs,    \* the files and the directories of the workspace
  Above,          \* Above[x]: the directories x lies in, outermost first
  InitialContent, \* [Paths -> Contents], what the files hold at first
  InitialDirs,    \* the directories that exist at first
  Contents,       \* what a file may hold; Missing: there is no file
  Missing, Foreign, \* Foreign: what another program writes
  Plans,          \* the plans in use, see Plan below
  Gates, NoGate,  \* identities (domain, subject) of commit gates
  Calls,          \* the pairs of plan and gate that Apply is called with
  Txns, NoTxn,    \* names of transaction directories
  NoPlan,
  MaxCrashes, MaxFaults, MaxEdits  \* bounds of the runs

Ops == {"create", "update", "delete", "assert"}

(* One target of a plan, with the state the plan was built from. *)
Change == [path : Paths, op : Ops, before : Contents, after : Contents]

MaxChanges == Max({Len(plan.changes) : plan \in Plans})
Index == 1 .. MaxChanges

(* members: the names that existed in the guarded directories when the      *)
(* plan was built.                                                          *)
Plan == [changes : Seq(Change), guards : SUBSET Dirs, members : SUBSET (Paths \cup Dirs)]

(* desiredFiles: what a target holds when the plan is applied. *)
Final(ch) ==
  CASE ch.op \in {"create", "update"} -> ch.after
    [] ch.op = "delete" -> Missing
    [] ch.op = "assert" -> ch.before

(* Plan.Validate: the operation fits the state it was planned for, and no   *)
(* two changes have one target.                                             *)
Valid(plan) ==
  /\ plan.changes # <<>>
  /\ \A i, j \in DOMAIN plan.changes : plan.changes[i].path = plan.changes[j].path => i = j
  /\ \A i \in DOMAIN plan.changes :
       LET ch == plan.changes[i] IN
       /\ ch.op = "create" => ch.before = Missing
       /\ ch.op \in {"update", "delete"} => ch.before # Missing
       /\ ch.op \in {"create", "update"} <=> ch.after # Missing

(* One of the plans is the longest. *)
ASSUME PlansAssumption ==
  /\ \A plan \in Plans : plan \in Plan /\ Valid(plan)
  /\ \A plan \in Plans : \A i \in DOMAIN plan.changes : Foreign \notin {plan.changes[i].before, Final(plan.changes[i])}
  /\ \E plan \in Plans : \A other \in Plans : Len(plan.changes) >= Len(other.changes)

ASSUME CallsAssumption ==
  /\ NoGate \in Gates /\ {"absent", "torn"} \cap Gates = {}
  /\ Calls \subseteq [plan : Plans, gate : Gates]
  /\ Callers \cap Readers = {}

(* A file that is there at first has its directories. *)
ASSUME FilesAssumption ==
  /\ {Missing, Foreign} \subseteq Contents /\ Missing # Foreign
  /\ Paths \cap Dirs = {} /\ Above \in [Paths \cup Dirs -> Seq(Dirs)]
  /\ InitialContent \in [Paths -> Contents] /\ InitialDirs \subseteq Dirs
  /\ \A f \in Paths : InitialContent[f] # Missing => Range(Above[f]) \subseteq InitialDirs

VARIABLES
  content,   \* content[f]: what file f holds
  dirs,      \* the directories that exist
  txns,      \* the transaction directories
  lock,      \* the callers and readers that hold the workspace lock
  caller,    \* the locals of Apply, per caller
  reader,    \* where each reader is in WithReadLock
  built,     \* the plans that have been built and may be applied
  committed, \* history: the files as of the last decision to commit
  vouched,   \* history: the transactions there are whose gate passed Recheck
  crashes, faults, edits

vars == <<content, dirs, txns, lock, caller, reader, built, committed, vouched, crashes, faults, edits>>
disk == <<content, dirs>>
history == <<committed, vouched>>
budgets == <<crashes, faults, edits>>

(* prepared.json: not there, there but not yet written in full, or the      *)
(* gate it names (NoGate: applied without one).                             *)
Records == {"absent", "torn"} \cup Gates

NoBackup == [i \in Index |-> Missing]

(* A transaction directory.  Its name holds the digest of the plan. *)
Txn == [kind : {"none", "active", "done"}, plan : Plans \cup {NoPlan}, record : Records,
        backup : [Index -> Contents]]

NoDirectory == [kind |-> "none", plan |-> NoPlan, record |-> "absent", backup |-> NoBackup]

Phases == {"idle", "recover", "undo", "recovered", "inspect", "stage", "record", "write", "guard",
           "commit", "finalize", "rollback", "clean", "return"}

Results == {"none", "committed", "replayed", "changed", "recovery", "restart", "refused", "failed"}

NoCall == [plan |-> NoPlan, gate |-> NoGate]

(* journal[i]: what has been done to target i and not been undone; made:    *)
(* the parents created; then: where cleanupTransaction returns to.          *)
Caller == [pc : Phases, call : Calls \cup {NoCall}, txn : Txns \cup {NoTxn}, i : 0 .. (MaxChanges + 1),
           journal : [Index -> SUBSET {"moved", "installed"}], made : Seq(Dirs),
           rechecked : BOOLEAN, failures : BOOLEAN,
           then : {"recover", "recovered", "inspect", "return"}, result : Results]

NoJournal == [i \in Index |-> {}]

IdleCaller ==
  [pc |-> "idle", call |-> NoCall, txn |-> NoTxn, i |-> 0, journal |-> NoJournal, made |-> <<>>,
   rechecked |-> FALSE, failures |-> FALSE, then |-> "return", result |-> "none"]

Init ==
  /\ content = InitialContent
  /\ dirs = InitialDirs
  /\ txns = [t \in Txns |-> NoDirectory]
  /\ lock = {}
  /\ caller = [p \in Callers |-> IdleCaller]
  /\ reader = [r \in Readers |-> "idle"]
  /\ built = {}
  /\ committed = InitialContent
  /\ vouched = {}
  /\ crashes = 0 /\ faults = 0 /\ edits = 0

-----------------------------------------------------------------------------
(* What the code reads from the file system.                                *)

PlanOf(p) == caller[p].call.plan
GateOf(p) == caller[p].call.gate
Targets(plan) == {plan.changes[i].path : i \in DOMAIN plan.changes}
Exists(x) == IF x \in Paths THEN content[x] # Missing ELSE x \in dirs

HoldsBefore(ch) == content[ch.path] = ch.before
HoldsFinal(ch) == content[ch.path] = Final(ch)

(* captureDirectory: the names that exist at or below directory g. *)
Tree(g) == {g} \cup {x \in Paths \cup Dirs : g \in Range(Above[x])}
Capture(g) == {x \in Tree(g) : Exists(x)}

MembersBefore(plan, g) == plan.members \cap Tree(g)

(* deriveDirectoryAfter: deleted targets leave, written targets come with   *)
(* their parents.                                                           *)
MembersAfter(plan, g) ==
  LET changed == {plan.changes[i] : i \in DOMAIN plan.changes}
      gone == {ch.path : ch \in {c \in changed : Final(c) = Missing}}
      kept == {ch.path : ch \in {c \in changed : Final(c) # Missing}}
  IN  ((MembersBefore(plan, g) \ gone) \cup kept \cup UNION {Range(Above[f]) : f \in kept \cap Tree(g)})
        \cap Tree(g)

GuardsBefore(plan) == \A g \in plan.guards : Capture(g) = MembersBefore(plan, g)
GuardsAfter(plan) == \A g \in plan.guards : Capture(g) = MembersAfter(plan, g)

(* classifyState *)
Classify(plan) ==
  IF (\A i \in DOMAIN plan.changes : HoldsFinal(plan.changes[i])) /\ GuardsAfter(plan) THEN "final"
  ELSE IF (\A i \in DOMAIN plan.changes : HoldsBefore(plan.changes[i])) /\ GuardsBefore(plan) THEN "before"
  ELSE "changed"

Active == {t \in Txns : txns[t].kind = "active"}
Debris == {t \in Txns : txns[t].kind = "done"}

-----------------------------------------------------------------------------
(* Entering Apply, leaving it, and the steps every phase shares.            *)

(* The exclusive flock, polled until nobody else holds the directory. *)
LockForApply(p) == lock = {} /\ lock' = {p}

(* The shared flock. *)
LockForRead(r) == lock \cap Callers = {} /\ lock' = lock \cup {r}

(* Apply, up to the lock. *)
Begin(p, c) ==
  /\ caller[p].pc = "idle" /\ c.plan \in built
  /\ LockForApply(p)
  /\ caller' = [caller EXCEPT ![p] = [IdleCaller EXCEPT !.pc = "recover", !.call = c]]
  /\ UNCHANGED <<disk, txns, reader, built, history, budgets>>

(* The deferred unlock. *)
Return(p) ==
  /\ caller[p].pc = "return"
  /\ lock' = lock \ {p}
  /\ caller' = [caller EXCEPT ![p] = IdleCaller]
  /\ UNCHANGED <<disk, txns, reader, built, history, budgets>>

(* Step p to phase pc with result res. *)
Goto(p, pc, res) == caller' = [caller EXCEPT ![p].pc = pc, ![p].result = res]

(* Remove transaction t, then go on at phase then with result res. *)
CleanThen(p, t, then, res) ==
  caller' = [caller EXCEPT ![p].pc = "clean", ![p].txn = t, ![p].then = then, ![p].result = res]

(* RemoveAll deletes the directory's entries one after the other. *)
CleanSome(p) ==
  LET t == caller[p].txn IN
  /\ caller[p].pc = "clean"
  /\ \/ txns[t].record # "absent" /\ txns' = [txns EXCEPT ![t].record = "absent"]
     \/ txns[t].backup # NoBackup /\ txns' = [txns EXCEPT ![t].backup = NoBackup]
  /\ UNCHANGED <<disk, lock, caller, reader, built, history, budgets>>

CleanDone(p) ==
  /\ caller[p].pc = "clean"
  /\ txns' = [txns EXCEPT ![caller[p].txn] = NoDirectory]
  /\ Goto(p, caller[p].then, caller[p].result)
  /\ UNCHANGED <<disk, lock, reader, built, history, budgets>>

-----------------------------------------------------------------------------
(* recoverTransactions *)

RecoverDebris(p) ==
  /\ caller[p].pc = "recover"
  /\ \E t \in Debris : CleanThen(p, t, "recover", "none")
  /\ UNCHANGED <<disk, txns, lock, reader, built, history, budgets>>

RecoverNothing(p) ==
  /\ caller[p].pc = "recover" /\ Debris = {} /\ Active = {}
  /\ Goto(p, "inspect", "none")
  /\ UNCHANGED <<disk, txns, lock, reader, built, history, budgets>>

(* transactionRecord.matches *)
Matches(p, t) == txns[t].record = GateOf(p)

ReachableOnceInstalled(p, t, i) ==
  LET ch == PlanOf(p).changes[i] IN HoldsBefore(ch) \/ (HoldsFinal(ch) /\ txns[t].backup[i] = ch.before)

(* The preflight of rollbackPreparedTransaction for one target. *)
Reachable(p, t, i) ==
  LET ch == PlanOf(p).changes[i] IN
  IF ch.before # Missing
  THEN \/ HoldsBefore(ch)
       \/ (HoldsFinal(ch) \/ ~Exists(ch.path)) /\ txns[t].backup[i] = ch.before
  ELSE (HoldsBefore(ch) \/ HoldsFinal(ch)) /\ txns[t].backup[i] = Missing

(* verifyRecoverableDirectories: only membership that this plan's file      *)
(* writes and parent creation lead to.                                      *)
RecoverableDirectory(plan, g) ==
  LET before == MembersBefore(plan, g)
      after == MembersAfter(plan, g)
      got == Capture(g)
  IN  /\ before \cap Dirs \subseteq got
      /\ got \cap Dirs \subseteq after
      /\ (got \cap Paths) \ Targets(plan) = (before \cap Paths) \ Targets(plan)

Preflight(p, t) ==
  /\ \A i \in DOMAIN PlanOf(p).changes : Reachable(p, t, i)
  /\ \A g \in PlanOf(p).guards : RecoverableDirectory(PlanOf(p), g)

(* The active transaction can be dealt with by this caller. *)
Recoverable(p, t) ==
  /\ txns[t].plan = PlanOf(p)
  /\ \/ txns[t].record = "absent" /\ Classify(PlanOf(p)) = "before"
     \/ /\ txns[t].record # "torn" /\ Matches(p, t)
        /\ Classify(PlanOf(p)) \in {"before", "final"} \/ Preflight(p, t)

RecoverRefused(p) ==
  /\ caller[p].pc = "recover" /\ Debris = {} /\ Active # {}
  /\ Cardinality(Active) # 1 \/ \E t \in Active : ~Recoverable(p, t)
  /\ Goto(p, "return", "recovery")
  /\ UNCHANGED <<disk, txns, lock, reader, built, history, budgets>>

RecoverActive(p) ==
  /\ caller[p].pc = "recover" /\ Debris = {} /\ Cardinality(Active) = 1
  /\ \E t \in Active :
       /\ Recoverable(p, t)
       /\ \/ txns[t].record = "absent" /\ CleanThen(p, t, "inspect", "none")
          \/ /\ txns[t].record # "absent" /\ Classify(PlanOf(p)) = "before"
             /\ CleanThen(p, t, "recovered", "none")
          \/ /\ txns[t].record # "absent" /\ Classify(PlanOf(p)) = "final"
             /\ caller' = [caller EXCEPT ![p].pc = "finalize", ![p].txn = t, ![p].then = "recovered"]
          \/ /\ txns[t].record # "absent" /\ Classify(PlanOf(p)) = "changed"
             /\ caller' = [caller EXCEPT ![p].pc = "undo", ![p].txn = t]
  /\ UNCHANGED <<disk, txns, lock, reader, built, history, budgets>>

(* The targets are restored in reverse order. *)
ToUndo(p) == {i \in DOMAIN PlanOf(p).changes : ~HoldsBefore(PlanOf(p).changes[i])}

UndoRemove(p) ==
  /\ caller[p].pc = "undo" /\ ToUndo(p) # {}
  /\ LET ch == PlanOf(p).changes[Max(ToUndo(p))] IN
     /\ Exists(ch.path)
     /\ ch.before # Missing => txns[caller[p].txn].backup[Max(ToUndo(p))] = ch.before
     /\ content' = [content EXCEPT ![ch.path] = Missing]
  /\ UNCHANGED <<dirs, txns, lock, caller, reader, built, history, budgets>>

UndoRestore(p) ==
  /\ caller[p].pc = "undo" /\ ToUndo(p) # {}
  /\ LET i == Max(ToUndo(p))
         ch == PlanOf(p).changes[i]
         t == caller[p].txn
     IN  /\ ~Exists(ch.path) /\ txns[t].backup[i] = ch.before
         /\ content' = [content EXCEPT ![ch.path] = ch.before]
         /\ txns' = [txns EXCEPT ![t].backup[i] = Missing]
  /\ UNCHANGED <<dirs, lock, caller, reader, built, history, budgets>>

(* removeRecoveredDirectories: the guarded parents that only the plan's     *)
(* creates imply, innermost first.                                          *)
CreatedParents(plan) ==
  dirs \cap UNION {(MembersAfter(plan, g) \ MembersBefore(plan, g)) : g \in plan.guards}

RemoveDirectory(d) == Capture(d) = {d} /\ dirs' = dirs \ {d}

UndoDirectory(p) ==
  /\ caller[p].pc = "undo" /\ ToUndo(p) = {}
  /\ \E d \in CreatedParents(PlanOf(p)) : RemoveDirectory(d)
  /\ UNCHANGED <<content, txns, lock, caller, reader, built, history, budgets>>

UndoDone(p) ==
  /\ caller[p].pc = "undo" /\ ToUndo(p) = {}
  /\ \A d \in CreatedParents(PlanOf(p)) : Capture(d) # {d}
  /\ IF GuardsBefore(PlanOf(p)) THEN CleanThen(p, caller[p].txn, "recovered", "none")
                                ELSE Goto(p, "return", "recovery")
  /\ UNCHANGED <<disk, txns, lock, reader, built, history, budgets>>

(* A gated caller does not go on to a new transaction. *)
Recovered(p) ==
  /\ caller[p].pc = "recovered"
  /\ IF GateOf(p) = NoGate THEN Goto(p, "inspect", "none")
     ELSE CASE Classify(PlanOf(p)) = "final" -> Goto(p, "return", "replayed")
            [] Classify(PlanOf(p)) = "before" -> Goto(p, "return", "restart")
            [] Classify(PlanOf(p)) = "changed" -> Goto(p, "return", "changed")
  /\ UNCHANGED <<disk, txns, lock, reader, built, history, budgets>>

-----------------------------------------------------------------------------
(* From inspectCommit to the durable record.                                *)

(* The gate's Inspect, classifyState, and createTransactionDir under a new  *)
(* random name.                                                             *)
Inspect(p) ==
  /\ caller[p].pc = "inspect"
  /\ \/ GateOf(p) # NoGate /\ Goto(p, "return", "refused") /\ UNCHANGED <<txns, vouched>>
     \/ Classify(PlanOf(p)) = "final" /\ Goto(p, "return", "replayed") /\ UNCHANGED <<txns, vouched>>
     \/ Classify(PlanOf(p)) = "changed" /\ Goto(p, "return", "changed") /\ UNCHANGED <<txns, vouched>>
     \/ /\ Classify(PlanOf(p)) = "before"
        /\ \E t \in Txns :
             /\ txns[t].kind = "none"
             /\ txns' = [txns EXCEPT ![t].kind = "active", ![t].plan = PlanOf(p)]
             /\ caller' = [caller EXCEPT ![p].pc = "stage", ![p].txn = t]
             /\ vouched' = vouched \ {t}
  /\ UNCHANGED <<disk, lock, reader, built, committed, budgets>>

(* The contents are staged, which may take long: the targets are classified *)
(* again, and the gate is asked to Admit.                                   *)
Admit(p) ==
  /\ caller[p].pc = "stage"
  /\ \/ Classify(PlanOf(p)) = "changed" /\ CleanThen(p, caller[p].txn, "return", "changed")
     \/ Classify(PlanOf(p)) = "final" /\ CleanThen(p, caller[p].txn, "return", "replayed")
     \/ /\ Classify(PlanOf(p)) = "before" /\ GateOf(p) # NoGate
        /\ CleanThen(p, caller[p].txn, "return", "refused")
     \/ Classify(PlanOf(p)) = "before" /\ Goto(p, "record", "none")
  /\ UNCHANGED <<disk, txns, lock, reader, built, history, budgets>>

(* prepareTransaction opens the record before it has anything to read. *)
CreateRecord(p) ==
  /\ caller[p].pc = "record"
  /\ txns' = [txns EXCEPT ![caller[p].txn].record = "torn"]
  /\ Goto(p, "write", "none")
  /\ UNCHANGED <<disk, lock, reader, built, history, budgets>>

WriteRecord(p) ==
  /\ caller[p].pc = "write"
  /\ txns' = [txns EXCEPT ![caller[p].txn].record = GateOf(p)]
  /\ Goto(p, "guard", "none")
  /\ UNCHANGED <<disk, lock, reader, built, history, budgets>>

(* With guards the gate is rechecked and the trees compared before the      *)
(* first parent is created.                                                 *)
CheckGuards(p) ==
  LET guarded == PlanOf(p).guards # {} IN
  /\ caller[p].pc = "guard"
  /\ \/ /\ guarded /\ GateOf(p) # NoGate
        /\ CleanThen(p, caller[p].txn, "return", "refused") /\ UNCHANGED vouched
     \/ /\ ~GuardsBefore(PlanOf(p))
        /\ CleanThen(p, caller[p].txn, "return", "changed") /\ UNCHANGED vouched
     \/ /\ GuardsBefore(PlanOf(p))
        /\ caller' = [caller EXCEPT ![p].pc = "commit", ![p].i = 1, ![p].rechecked = guarded \/ GateOf(p) = NoGate]
        /\ vouched' = IF guarded THEN vouched \cup {caller[p].txn} ELSE vouched
  /\ UNCHANGED <<disk, txns, lock, reader, built, committed, budgets>>

-----------------------------------------------------------------------------
(* The commit loop.                                                         *)

(* Caller p is about to change the target of its change number i. *)
At(p, i) == caller[p].pc = "commit" /\ caller[p].i = i /\ i \in DOMAIN PlanOf(p).changes

MissingParents(f) == {k \in DOMAIN Above[f] : Above[f][k] \notin dirs}
Untouched(p, i) == caller[p].journal[i] = {}

Advance(p) == caller' = [caller EXCEPT ![p].i = @ + 1]
Journal(p, i, done) == [caller[p].journal EXCEPT ![i] = @ \cup {done}]

AssertTarget(p) == \E i \in Index :
  /\ At(p, i) /\ PlanOf(p).changes[i].op = "assert" /\ HoldsBefore(PlanOf(p).changes[i])
  /\ Advance(p)
  /\ UNCHANGED <<disk, txns, lock, reader, built, history, budgets>>

(* ensureTargetParents, one directory at a time. *)
MakeParent(p) == \E i \in Index :
  LET ch == PlanOf(p).changes[i]
      d == Above[ch.path][Min(MissingParents(ch.path))]
  IN  /\ At(p, i) /\ ch.op = "create" /\ MissingParents(ch.path) # {}
      /\ dirs' = dirs \cup {d}
      /\ caller' = [caller EXCEPT ![p].made = Append(@, d)]
      /\ UNCHANGED <<content, txns, lock, reader, built, history, budgets>>

ReadyUnverified(p, i) ==
  LET ch == PlanOf(p).changes[i] IN
  At(p, i) /\ Untouched(p, i) /\ ch.op # "assert" /\ MissingParents(ch.path) = {}

(* The target may be changed: its parents are there and it is as planned. *)
Ready(p, i) ==
  LET ch == PlanOf(p).changes[i] IN
  At(p, i) /\ Untouched(p, i) /\ ch.op # "assert" /\ MissingParents(ch.path) = {} /\ HoldsBefore(ch)

Recheck(p) == \E i \in Index :
  /\ Ready(p, i) /\ ~caller[p].rechecked
  /\ \/ caller' = [caller EXCEPT ![p].rechecked = TRUE] /\ vouched' = vouched \cup {caller[p].txn}
     \/ Goto(p, "rollback", "refused") /\ UNCHANGED vouched
  /\ UNCHANGED <<disk, txns, lock, reader, built, committed, budgets>>

BackupByRemoval(p) == \E i \in Index :
  LET ch == PlanOf(p).changes[i] IN
  /\ Ready(p, i) /\ caller[p].rechecked /\ ch.before # Missing
  /\ content' = [content EXCEPT ![ch.path] = Missing]
  /\ caller' = [caller EXCEPT ![p].i = IF ch.op = "delete" THEN @ + 1 ELSE @, ![p].journal = Journal(p, i, "moved")]
  /\ UNCHANGED <<dirs, txns, lock, reader, built, history, budgets>>

(* The target is renamed to its backup; a delete is then complete. *)
Backup(p) == \E i \in Index :
  LET ch == PlanOf(p).changes[i] IN
  /\ Ready(p, i) /\ caller[p].rechecked /\ ch.before # Missing
  /\ content' = [content EXCEPT ![ch.path] = Missing]
  /\ txns' = [txns EXCEPT ![caller[p].txn].backup[i] = content[ch.path]]
  /\ caller' = [caller EXCEPT ![p].journal = Journal(p, i, "moved"),
                              ![p].i = IF ch.op = "delete" THEN @ + 1 ELSE @]
  /\ UNCHANGED <<dirs, lock, reader, built, history, budgets>>

(* The staged content is renamed to the target. *)
Install(p) == \E i \in Index :
  LET ch == PlanOf(p).changes[i] IN
  /\ \/ Ready(p, i) /\ caller[p].rechecked /\ ch.before = Missing
     \/ At(p, i) /\ caller[p].journal[i] = {"moved"}
  /\ content' = [content EXCEPT ![ch.path] = ch.after]
  /\ caller' = [caller EXCEPT ![p].journal = Journal(p, i, "installed"), ![p].i = @ + 1]
  /\ UNCHANGED <<dirs, txns, lock, reader, built, history, budgets>>

(* A target that is not as planned, a parent that is not there. *)
VerifyFails(p) == \E i \in Index :
  LET ch == PlanOf(p).changes[i] IN
  /\ At(p, i) /\ Untouched(p, i)
  /\ \/ (ch.op = "assert" \/ MissingParents(ch.path) = {}) /\ ~HoldsBefore(ch)
     \/ MissingParents(ch.path) # {} /\ ch.op \in {"update", "delete"}
  /\ Goto(p, "rollback", "changed")
  /\ UNCHANGED <<disk, txns, lock, reader, built, history, budgets>>

(* Every target and every guarded tree is checked once more. *)
VerifyFinal(p) ==
  /\ caller[p].pc = "commit" /\ caller[p].i > Len(PlanOf(p).changes)
  /\ IF Classify(PlanOf(p)) = "final"
     THEN caller' = [caller EXCEPT ![p].pc = "finalize", ![p].then = "return", ![p].result = "committed"]
     ELSE Goto(p, "rollback", "changed")
  /\ UNCHANGED <<disk, txns, lock, reader, built, history, budgets>>

AfterCommit(plan) ==
  [f \in Paths |-> IF f \in Targets(plan)
                   THEN Final(plan.changes[CHOOSE i \in DOMAIN plan.changes : plan.changes[i].path = f])
                   ELSE committed[f]]

(* finalizeTransaction: renaming the directory is the decision to commit. *)
Finalize(p) ==
  LET t == caller[p].txn IN
  /\ caller[p].pc = "finalize"
  /\ txns' = [txns EXCEPT ![t].kind = "done"]
  /\ committed' = AfterCommit(txns[t].plan)
  /\ CleanThen(p, t, caller[p].then, caller[p].result)
  /\ UNCHANGED <<disk, lock, reader, built, vouched, budgets>>

-----------------------------------------------------------------------------
(* rollback: what the journal says is undone in reverse order, whatever     *)
(* fails on the way.                                                        *)

Moved(p) == {i \in Index : caller[p].journal[i] # {}}
LastMoved(p, done) == LET i == Max(Moved(p)) IN
  /\ caller[p].pc = "rollback" /\ Moved(p) # {}
  /\ done = IF "installed" \in caller[p].journal[i] THEN "installed" ELSE "moved"

(* One attempt of the rollback, which the journal then no longer lists. *)
Undone(p, i, done, fails) ==
  caller' = [caller EXCEPT ![p].journal[i] = @ \ {done}, ![p].failures = @ \/ fails]

RollbackRemove(p) ==
  LET i == Max(Moved(p)) IN
  /\ LastMoved(p, "installed")
  /\ content' = [content EXCEPT ![PlanOf(p).changes[i].path] = Missing]
  /\ Undone(p, i, "installed", FALSE)
  /\ UNCHANGED <<dirs, txns, lock, reader, built, history, budgets>>

RollbackRestore(p) ==
  LET i == Max(Moved(p))
      t == caller[p].txn
  IN  /\ LastMoved(p, "moved")
      /\ content' = [content EXCEPT ![PlanOf(p).changes[i].path] = txns[t].backup[i]]
      /\ txns' = [txns EXCEPT ![t].backup[i] = Missing]
      /\ Undone(p, i, "moved", FALSE)
      /\ UNCHANGED <<dirs, lock, reader, built, history, budgets>>

(* Removing a created parent fails when something is left in it. *)
RollbackDirectory(p) ==
  LET d == caller[p].made[Len(caller[p].made)] IN
  /\ caller[p].pc = "rollback" /\ Moved(p) = {} /\ caller[p].made # <<>>
  /\ IF Capture(d) = {d} THEN dirs' = dirs \ {d} ELSE UNCHANGED dirs
  /\ caller' = [caller EXCEPT ![p].made = SubSeq(@, 1, Len(@) - 1),
                              ![p].failures = @ \/ Capture(d) # {d}]
  /\ UNCHANGED <<content, txns, lock, reader, built, history, budgets>>

(* The directory, which may hold the only copy of a target, is kept unless  *)
(* everything is as it was.                                                 *)
RollbackDone(p) ==
  /\ caller[p].pc = "rollback" /\ Moved(p) = {} /\ caller[p].made = <<>>
  /\ IF /\ ~caller[p].failures
        /\ \A i \in DOMAIN PlanOf(p).changes : HoldsBefore(PlanOf(p).changes[i])
        /\ GuardsBefore(PlanOf(p))
     THEN CleanThen(p, caller[p].txn, "return", caller[p].result)
     ELSE Goto(p, "return", caller[p].result)
  /\ UNCHANGED <<disk, txns, lock, reader, built, history, budgets>>

-----------------------------------------------------------------------------
(* What goes wrong around the code.                                         *)

(* An operation of the file system fails, or the context is cancelled.      *)
(* Until the record is durable the transaction is removed, then it is       *)
(* rolled back; a failure of finalizeTransaction or of cleanupTransaction   *)
(* is returned next to the result.                                          *)
Fault(p) ==
  /\ faults < MaxFaults /\ faults' = faults + 1
  /\ \/ /\ caller[p].pc \in {"recover", "undo"} /\ Goto(p, "return", "recovery")
     \/ /\ caller[p].pc \in {"recovered", "inspect"} /\ Goto(p, "return", "failed")
     \/ /\ caller[p].pc \in {"stage", "record", "write", "guard"}
        /\ CleanThen(p, caller[p].txn, "return", "failed")
     \/ caller[p].pc = "commit" /\ Goto(p, "rollback", "failed")
     \/ /\ caller[p].pc \in {"finalize", "clean"}
        /\ Goto(p, "return", IF caller[p].result = "none" THEN "recovery" ELSE caller[p].result)
  /\ UNCHANGED <<disk, txns, lock, reader, built, history, crashes, edits>>

RollbackFault(p) ==
  /\ faults < MaxFaults /\ faults' = faults + 1
  /\ \/ \E done \in {"installed", "moved"} :
          LastMoved(p, done) /\ Undone(p, Max(Moved(p)), done, TRUE)
     \/ /\ caller[p].pc = "rollback" /\ Moved(p) = {} /\ caller[p].made # <<>>
        /\ caller' = [caller EXCEPT ![p].made = SubSeq(@, 1, Len(@) - 1), ![p].failures = TRUE]
  /\ UNCHANGED <<disk, txns, lock, reader, built, history, crashes, edits>>

(* The process dies; the kernel drops its lock and the disk stays. *)
Crash(p) ==
  /\ crashes < MaxCrashes /\ crashes' = crashes + 1
  /\ caller[p].pc # "idle"
  /\ caller' = [caller EXCEPT ![p] = IdleCaller]
  /\ lock' = lock \ {p}
  /\ UNCHANGED <<disk, txns, reader, built, history, faults, edits>>

(* A program that ignores the lock writes a file: at any time but during    *)
(* the renames of a commit or of a recovery, where the code does not        *)
(* promise to notice it.                                                    *)
Edit(f) ==
  /\ edits < MaxEdits /\ edits' = edits + 1
  /\ lock = {} \/ \A t \in Active : txns[t].record = "absent"
  /\ Range(Above[f]) \subseteq dirs
  /\ content' = [content EXCEPT ![f] = Foreign]
  /\ committed' = [committed EXCEPT ![f] = Foreign]
  /\ UNCHANGED <<dirs, txns, lock, caller, reader, built, vouched, crashes, faults>>

-----------------------------------------------------------------------------
(* WithReadLock *)

ReadLock(r) ==
  /\ reader[r] = "idle" /\ LockForRead(r)
  /\ reader' = [reader EXCEPT ![r] = "locked"]
  /\ UNCHANGED <<disk, txns, caller, built, history, budgets>>

ReadUnlock(r) ==
  /\ lock' = lock \ {r}
  /\ reader' = [reader EXCEPT ![r] = "idle"]
  /\ UNCHANGED <<disk, txns, caller, history, budgets>>

(* rejectActiveTransactions, then the callback runs. *)
ReadRejected(r) == reader[r] = "locked" /\ Active # {} /\ ReadUnlock(r) /\ UNCHANGED built

ReadStart(r) ==
  /\ reader[r] = "locked" /\ Active = {}
  /\ reader' = [reader EXCEPT ![r] = "reading"]
  /\ UNCHANGED <<disk, txns, lock, caller, built, history, budgets>>

(* BuildPlan, BuildPlanWithGuards: the callback makes a plan of what it     *)
(* reads.                                                                   *)
BuildPlan(r) ==
  /\ reader[r] = "reading"
  /\ \E plan \in Plans :
       /\ \A i \in DOMAIN plan.changes : HoldsBefore(plan.changes[i])
       /\ GuardsBefore(plan)
       /\ built' = built \cup {plan}
  /\ ReadUnlock(r)

ReadDone(r) == reader[r] = "reading" /\ ReadUnlock(r) /\ UNCHANGED built

-----------------------------------------------------------------------------
RecoverStep(p) ==
  \/ RecoverDebris(p) \/ RecoverNothing(p) \/ RecoverRefused(p) \/ RecoverActive(p)
  \/ UndoRemove(p) \/ UndoRestore(p) \/ UndoDirectory(p) \/ UndoDone(p) \/ Recovered(p)

PrepareStep(p) == Inspect(p) \/ Admit(p) \/ CreateRecord(p) \/ WriteRecord(p) \/ CheckGuards(p)

CommitStep(p) ==
  \/ AssertTarget(p) \/ MakeParent(p) \/ Recheck(p) \/ Backup(p) \/ Install(p)
  \/ VerifyFails(p) \/ VerifyFinal(p) \/ Finalize(p)

RollbackStep(p) == RollbackRemove(p) \/ RollbackRestore(p) \/ RollbackDirectory(p) \/ RollbackDone(p)

ApplyStep(p) ==
  RecoverStep(p) \/ PrepareStep(p) \/ CommitStep(p) \/ RollbackStep(p) \/ CleanSome(p) \/ CleanDone(p) \/ Return(p)

ReadStep(r) == ReadRejected(r) \/ ReadStart(r) \/ BuildPlan(r) \/ ReadDone(r)

Next ==
  \/ \E p \in Callers : (\E c \in Calls : Begin(p, c)) \/ ApplyStep(p) \/ Fault(p) \/ RollbackFault(p) \/ Crash(p)
  \/ \E r \in Readers : ReadLock(r) \/ ReadStep(r)
  \/ \E f \in Paths : Edit(f)

Spec == Init /\ [][Next]_vars

(* A caller and a reader go on once they have the lock.  Somebody retries   *)
(* the call that an active transaction belongs to, as the guide asks after  *)
(* a failure: with the same plan and, once the record names it, the gate.   *)
ExactCall(c, t) == c.plan = txns[t].plan /\ txns[t].record \in {"absent", "torn", c.gate}
Retry == \E p \in Callers, c \in Calls : (\E t \in Active : ExactCall(c, t)) /\ Begin(p, c)

FairSpec ==
  /\ Spec
  /\ \A p \in Callers : WF_vars(ApplyStep(p))
  /\ \A r \in Readers : WF_vars(ReadStep(r))
  /\ SF_vars(Retry)

-----------------------------------------------------------------------------
(* Type invariant: the disk, the transaction directories and the locals of  *)
(* Apply keep their shape, and the lock is held by those inside Apply or    *)
(* WithReadLock, one of the former at most.                                 *)
TypeOK ==
  /\ content \in [Paths -> Contents]
  /\ dirs \subseteq Dirs
  /\ txns \in [Txns -> Txn]
  /\ lock = {p \in Callers : caller[p].pc # "idle"} \cup {r \in Readers : reader[r] # "idle"}
  /\ Cardinality(lock \cap Callers) <= 1
  /\ caller \in [Callers -> Caller]
  /\ reader \in [Readers -> {"idle", "locked", "reading"}]
  /\ built \subseteq Plans
  /\ committed \in [Paths -> Contents]
  /\ vouched \subseteq Txns

(* Whenever no transaction is active (apply returned, was rolled back, or   *)
(* was recovered after crashes at any point) the files are exactly those of *)
(* the committed plans: never a part of one (apply.go, recovery.go).        *)
WholeOrNothing == Active = {} => content = committed

(* Until the decision to commit, the content every target had before is     *)
(* still in the target or in the backup: no sequence of crashes, failed     *)
(* rollbacks and interrupted recoveries destroys the only copy.             *)
NothingLost ==
  \A t \in Active : \A i \in DOMAIN txns[t].plan.changes :
    committed[txns[t].plan.changes[i].path] \in {content[txns[t].plan.changes[i].path], txns[t].backup[i]}

(* The lock and recovery at the head of every Apply leave at most one       *)
(* transaction directory: two active ones could not be recovered any more   *)
(* (recoverTransactions).                                                   *)
OneTransaction == Cardinality(Active \cup Debris) <= 1

(* The callback of WithReadLock never sees the files of a plan half applied *)
(* and no commit happens under it.                                          *)
ReadersSeeWhole == \A r \in Readers : reader[r] = "reading" => content = committed /\ lock \cap Callers = {}

(* Whatever crashes, failures and edits happen, files are those of whole    *)
(* plans, no content is lost, and recovery and readers meet at most one     *)
(* transaction (apply.go:64-311, recovery.go:129-357, read.go:20-56).       *)
FilesAreWhole == TypeOK /\ WholeOrNothing /\ NothingLost /\ OneTransaction /\ ReadersSeeWhole

(* Apply moves public files only under the lock, with a durable record, and *)
(* only the call that the record belongs to (same plan, same gate) does.    *)
MutationsAreJournalled ==
  [][(content' # content /\ edits' = edits) =>
       \E t \in Active, p \in lock :
         txns[t].record \in Gates /\ caller[p].txn = t /\ caller[p].call = [plan |-> txns[t].plan, gate |-> txns[t].record]]_vars

(* A decision to commit is made only from the state the plan was built for: *)
(* a plan that became stale while another was applied or recovered, or that *)
(* raced an edit, does not commit.                                          *)
CommitsAreFresh ==
  [][\A t \in Txns : (txns[t].kind = "active" /\ txns'[t].kind = "done") =>
       \A i \in DOMAIN txns[t].plan.changes :
         committed[txns[t].plan.changes[i].path] = txns[t].plan.changes[i].before]_vars

(* A gated transaction commits only if the gate's Recheck passed for it,    *)
(* also when recovery, which asks no gate, finds it complete.               *)
CommitsAreVouched ==
  [][\A t \in Txns : (txns[t].kind = "active" /\ txns'[t].kind = "done" /\ txns[t].record # NoGate) =>
       t \in vouched]_vars

(* A non-empty disposition means every target reached the planned final     *)
(* state, whatever fails afterwards (ApplyResult).                          *)
DispositionMeansFinal ==
  [][\A p \in Callers :
       (caller'[p].result \in {"committed", "replayed"} /\ caller'[p].result # caller[p].result) =>
         \A i \in DOMAIN PlanOf(p).changes : HoldsFinal(PlanOf(p).changes[i])]_vars

(* What another program wrote is never overwritten or removed, neither by a *)
(* stale plan nor by the recovery of a transaction it was written into.     *)
EditsAreKept == [][\A f \in Paths : content[f] = Foreign => content'[f] = Foreign]_vars

(* A commit is journalled, made from the state it was planned for, vouched  *)
(* for by its gate and reported as what it is, and what others wrote stays  *)
(* (apply.go:130-311, recovery.go:160-290).                                 *)
CommitsAreSound ==
  /\ MutationsAreJournalled /\ CommitsAreFresh /\ CommitsAreVouched
  /\ DispositionMeansFinal /\ EditsAreKept

(* Caller p gives up on recovery although nothing failed on the way. *)
GivesUp(p) == caller'[p].result = "recovery" /\ caller[p].result # "recovery" /\ faults' = faults

(* Without edits by others, the exact call is never refused recovery, in    *)
(* any state that crashes, failures and interrupted recoveries leave behind *)
(* a record that is absent or whole: the preflight accepts all of them.     *)
ExactCallRecovers ==
  [][\A p \in Callers : (GivesUp(p) /\ edits = 0) =>
       \A t \in Active : ~(ExactCall(caller[p].call, t) /\ txns[t].record # "torn")]_vars

(* The same for every record, as the comment of Apply has it: "If a process *)
(* terminates mid-commit, only the exact same Plan may recover it".         *)
ExactPlanRecovers ==
  [][\A p \in Callers : (GivesUp(p) /\ edits = 0) => \A t \in Active : ~ExactCall(caller[p].call, t)]_vars

(* An active transaction does not stay: once crashes and failures stop, a   *)
(* retry of the exact call removes or commits it, and its lock is not held  *)
(* forever.                                                                 *)
TransactionsEnd ==
  \A t \in Txns :
    txns[t].kind = "active" ~> (txns[t].kind # "active" \/ txns[t].record = "torn" \/ edits > 0)

(* The exact call recovers every readable transaction, and one that is      *)
(* retried ends (apply.go:61-62, recovery.go:129-290).                      *)
TransactionsRecover == ExactCallRecovers /\ TransactionsEnd
=============================================================================
