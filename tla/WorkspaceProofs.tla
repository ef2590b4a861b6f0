-------------------------- MODULE WorkspaceProofs --------------------------
(* Proofs about internal/workspace for any number of callers, readers,      *)
(* files, plans, crashes, faults and edits.  The inductive invariant says   *)
(* where the content of every target is (Kept), which transaction and       *)
(* record a caller works on at every place of Apply (PlaceInv), what its    *)
(* journal is worth to a rollback (JournalInv), and that a file always has  *)
(* its directories (TreeInv); each action then keeps it.                    *)
EXTENDS Workspace, FiniteSetTheorems, WellFoundedInduction, TLAPS

-----------------------------------------------------------------------------
(* The inductive invariant. *)

Inside(p) == caller[p].pc # "idle"
Present(t) == txns[t].kind # "none"

WorkTypeOK ==
  /\ content \in [Paths -> Contents] /\ committed \in [Paths -> Contents] /\ dirs \subseteq Dirs
  /\ txns \in [Txns -> Txn] /\ caller \in [Callers -> Caller]
  /\ reader \in [Readers -> {"idle", "locked", "reading"}]
  /\ built \subseteq Plans /\ vouched \subseteq Txns /\ edits \in Nat

(* The lock excludes callers from each other and from readers. *)
LockInv ==
  /\ lock = {p \in Callers : Inside(p)} \cup {r \in Readers : reader[r] # "idle"}
  /\ \A p, q \in Callers : Inside(p) /\ Inside(q) => p = q
  /\ \A p \in Callers, r \in Readers : Inside(p) => reader[r] = "idle"

(* A plan that changes something. *)
Effective(plan) == \E i \in DOMAIN plan.changes : plan.changes[i].before # Final(plan.changes[i])

(* A target of an active transaction is as it was committed or edited, or   *)
(* its content is in the backup while the target is gone or written.        *)
Kept(t, i) ==
  LET ch == txns[t].plan.changes[i] IN
  /\ committed[ch.path] \in {ch.before, Foreign}
  /\ \/ content[ch.path] = committed[ch.path]
     \/ /\ committed[ch.path] = ch.before /\ txns[t].backup[i] = ch.before
        /\ content[ch.path] \in {Missing, Final(ch)}

ActiveInv(t) ==
  /\ txns[t].plan \in Plans
  /\ \A f \in Paths \ Targets(txns[t].plan) : content[f] = committed[f]
  /\ \A i \in DOMAIN txns[t].plan.changes : Kept(t, i)
  /\ txns[t].record \in {"absent", "torn"} => content = committed
  /\ txns[t].record # "absent" => Effective(txns[t].plan)
  /\ txns[t].record \in Gates \ {NoGate} /\ content # committed => t \in vouched

TxnsInv ==
  /\ \A t, u \in Txns : Present(t) /\ Present(u) => t = u
  /\ \A t \in Txns : ~Present(t) => txns[t] = NoDirectory
  /\ \A t \in Active : ActiveInv(t)
  /\ Active = {} => content = committed
  /\ \A r \in Readers : reader[r] = "reading" => Active = {}

(* A file lies in directories that exist, also while it is in the backup. *)
TreeInv == \A f \in Paths : content[f] # Missing \/ committed[f] # Missing => Range(Above[f]) \subseteq dirs

Fresh == {"recover", "undo", "recovered", "inspect", "stage", "record", "write", "guard"}
Owning == {"stage", "record", "write", "guard", "commit", "rollback", "undo", "finalize"}

(* What a caller knows at each place. *)
PlaceInv(p) ==
  LET c == caller[p]
      t == caller[p].txn
      plan == caller[p].call.plan
      gate == caller[p].call.gate
  IN
  /\ c.pc # "idle" => c.call \in Calls
  /\ c.pc \in Owning => t \in Txns /\ txns[t].kind = "active" /\ txns[t].plan = plan
  /\ c.pc \in {"guard", "commit", "rollback", "undo", "finalize"} => txns[t].record = gate
  /\ c.pc \in {"stage", "record"} => txns[t].record = "absent"
  /\ c.pc = "write" => txns[t].record = "torn"
  /\ c.pc \in {"stage", "record", "write", "guard"} => content = committed /\ txns[t].backup = NoBackup
  /\ c.pc = "record" => Effective(plan)
  /\ c.pc = "undo" => \A i \in DOMAIN plan.changes : committed[plan.changes[i].path] = plan.changes[i].before
  /\ c.pc = "finalize" => \A i \in DOMAIN plan.changes : HoldsFinal(plan.changes[i])
  /\ c.pc = "clean" => t \in Txns /\ Present(t) /\ content = committed
  /\ c.pc \in {"recovered", "inspect"} => \A u \in Txns : ~Present(u)
  /\ c.pc \in Fresh \/ (c.pc \in {"clean", "finalize"} /\ c.then # "return") =>
       c.journal = NoJournal /\ c.made = <<>>

(* What the journal of a caller that commits or rolls back says. *)
JournalInv(p) ==
  LET c == caller[p]
      t == caller[p].txn
      plan == caller[p].call.plan
      gate == caller[p].call.gate
  IN
  c.pc \in {"commit", "rollback"} =>
    /\ \A i \in Index : c.journal[i] # {} =>
         /\ i \in DOMAIN plan.changes
         /\ txns[t].backup[i] = plan.changes[i].before
         /\ committed[plan.changes[i].path] = plan.changes[i].before
         /\ t \in vouched \/ gate = NoGate
    /\ \A i \in Index : "moved" \in c.journal[i] => plan.changes[i].before # Missing
    /\ c.pc = "commit" => \A i \in Index : c.journal[i] = {} => txns[t].backup[i] = Missing
    /\ c.pc = "commit" /\ c.rechecked => t \in vouched \/ gate = NoGate
    /\ \A k \in DOMAIN c.made, f \in Paths : c.made[k] \in Range(Above[f]) => committed[f] = Missing

WorkInv == WorkTypeOK /\ LockInv /\ TxnsInv /\ TreeInv /\ \A p \in Callers : PlaceInv(p) /\ JournalInv(p)

-----------------------------------------------------------------------------
(* Facts about the constants and about single definitions. *)

LEMMA LeastNatural ==
  ASSUME NEW S, S \subseteq Nat, S # {}
  PROVE  \E x \in S : \A y \in S : x <= y
<1>1. PICK x \in S : \A y \in S : ~(<<y, x>> \in OpToRel(<, Nat))
  BY NatLessThanWellFounded, WFMin, Zenon
<1>2. ASSUME NEW y \in S PROVE x <= y
  <2>1. CASE y < x
    <3>1. <<y, x>> \in OpToRel(<, Nat)
      BY <2>1 DEF OpToRel
    <3> QED
      BY <1>1, <3>1
  <2> QED
    BY <2>1
<1> QED
  BY <1>2

LEMMA MaxIsMember ==
  ASSUME NEW n \in Nat, NEW S, S \subseteq 1..n, S # {}
  PROVE  Max(S) \in S
<1> DEFINE T == {n - x : x \in S}
<1>0. \A x \in S : x \in Int /\ n - x \in Nat
  OBVIOUS
<1>1. T \subseteq Nat /\ T # {}
  BY <1>0
<1>2. PICK y \in T : \A z \in T : y <= z
  <2> HIDE DEF T
  <2> QED
    BY <1>1, LeastNatural
<1>3. PICK x \in S : y = n - x
  OBVIOUS
<1>4. ASSUME NEW z \in S PROVE x >= z
  <2>1. n - z \in T
    OBVIOUS
  <2>2. n - x <= n - z
    BY <1>2, <1>3, <2>1
  <2> QED
    BY <1>0, <2>2
<1> HIDE DEF T
<1> QED
  BY <1>4 DEF Max

LEMMA MinIsMember ==
  ASSUME NEW S, S \subseteq Nat, S # {}
  PROVE  Min(S) \in S
<1>1. PICK x \in S : \A y \in S : x <= y
  BY LeastNatural
<1> QED
  BY <1>1 DEF Min

LEMMA IndexFacts ==
  /\ MaxChanges \in Nat
  /\ \A plan \in Plans : plan.changes \in Seq(Change) /\ Len(plan.changes) <= MaxChanges
                         /\ DOMAIN plan.changes = 1..Len(plan.changes) /\ DOMAIN plan.changes \subseteq Index
<1>1. \A plan \in Plans : plan.changes \in Seq(Change) /\ Len(plan.changes) \in Nat
                          /\ DOMAIN plan.changes = 1..Len(plan.changes)
  BY PlansAssumption DEF Plan
<1>2. PICK longest \in Plans : \A plan \in Plans : Len(longest.changes) >= Len(plan.changes)
  BY PlansAssumption
<1>3. Len(longest.changes) \in {Len(plan.changes) : plan \in Plans}
  OBVIOUS
<1>4. \A y \in {Len(plan.changes) : plan \in Plans} : Len(longest.changes) >= y
  BY <1>2
<1>5. MaxChanges \in {Len(plan.changes) : plan \in Plans} /\ \A y \in {Len(plan.changes) : plan \in Plans} : MaxChanges >= y
  BY <1>3, <1>4 DEF MaxChanges, Max
<1>6. MaxChanges \in Nat /\ \A plan \in Plans : Len(plan.changes) <= MaxChanges
  BY <1>1, <1>5
<1> QED
  BY <1>1, <1>6 DEF Index

LEMMA ChangeFacts ==
  ASSUME NEW plan \in Plans, NEW i \in DOMAIN plan.changes
  PROVE  LET ch == plan.changes[i] IN
         /\ i \in Index /\ ch \in Change
         /\ ch.path \in Paths /\ ch.path \in Targets(plan) /\ ch.before \in Contents /\ ch.after \in Contents
         /\ Final(ch) \in Contents /\ ch.before # Foreign /\ Final(ch) # Foreign
         /\ ch.op = "create" => ch.before = Missing /\ Final(ch) = ch.after
         /\ ch.op = "update" => ch.before # Missing /\ Final(ch) = ch.after
         /\ ch.op = "delete" => ch.before # Missing /\ Final(ch) = Missing
         /\ ch.op = "assert" => Final(ch) = ch.before
         /\ ch.op \in {"create", "update", "delete", "assert"}
         /\ \A j \in DOMAIN plan.changes : plan.changes[j].path = ch.path => j = i
<1>1. plan.changes \in Seq(Change) /\ i \in Index
  BY IndexFacts
<1>2. plan.changes[i] \in Change
  BY <1>1
<1>3. Valid(plan) /\ Foreign \notin {plan.changes[i].before, Final(plan.changes[i])}
  BY PlansAssumption
<1>4. PICK ch : ch = plan.changes[i]
  OBVIOUS
<1>5. ch \in Change /\ ch.path \in Paths /\ ch.before \in Contents /\ ch.after \in Contents /\ ch.op \in Ops
  BY <1>2, <1>4 DEF Change
<1>6. /\ ch.op = "create" => Final(ch) = ch.after
      /\ ch.op = "update" => Final(ch) = ch.after
      /\ ch.op = "delete" => Final(ch) = Missing
      /\ ch.op = "assert" => Final(ch) = ch.before
  BY <1>5 DEF Final, Ops
<1>7. Final(ch) \in Contents
  BY <1>5, <1>6, FilesAssumption DEF Ops
<1>8. /\ ch.op = "create" => ch.before = Missing
      /\ ch.op \in {"update", "delete"} => ch.before # Missing
      /\ \A j \in DOMAIN plan.changes : plan.changes[j].path = ch.path => j = i
  BY <1>3, <1>4 DEF Valid
<1>9. ch.path \in Targets(plan)
  BY <1>4 DEF Targets
<1> QED
  BY <1>1, <1>3, <1>4, <1>5, <1>6, <1>7, <1>8, <1>9 DEF Ops

LEMMA CallFacts ==
  ASSUME NEW c \in Calls
  PROVE  c.plan \in Plans /\ c.gate \in Gates /\ c = [plan |-> c.plan, gate |-> c.gate]
         /\ c.gate \notin {"absent", "torn"}
  BY CallsAssumption

LEMMA WorkInitInv == Init => WorkInv
<1> SUFFICES ASSUME Init PROVE WorkInv
  OBVIOUS
<1>1. IdleCaller \in Caller
  BY IndexFacts DEF IdleCaller, Caller, NoCall, NoJournal, Phases, Results
<1>2. NoDirectory \in Txn
  BY FilesAssumption DEF NoDirectory, Txn, NoBackup, Records
<1>3. WorkTypeOK
  BY <1>1, <1>2, FilesAssumption DEF Init, WorkTypeOK
<1>4. \A p \in Callers : caller[p].pc = "idle"
  BY DEF Init, IdleCaller
<1>5. LockInv
  BY <1>4 DEF Init, LockInv, Inside
<1>6. \A t \in Txns : txns[t] = NoDirectory /\ txns[t].kind = "none"
  BY DEF Init, NoDirectory
<1>7. TxnsInv
  BY <1>6 DEF Init, TxnsInv, Present, Active
<1>8. TreeInv
  BY FilesAssumption DEF Init, TreeInv
<1>9. \A p \in Callers : PlaceInv(p) /\ JournalInv(p)
  BY <1>4 DEF PlaceInv, JournalInv, Owning, Fresh
<1> QED
  BY <1>3, <1>5, <1>7, <1>8, <1>9 DEF WorkInv

-----------------------------------------------------------------------------
(* Steps of the caller that holds the lock. *)

Steps(p) == caller' \in [Callers -> Caller] /\ \A q \in Callers : q # p => caller'[q] = caller[q]

(* What most steps leave of a caller. *)
SameCall(p) ==
  /\ caller'[p].call = caller[p].call /\ caller'[p].journal = caller[p].journal
  /\ caller'[p].made = caller[p].made /\ caller'[p].rechecked = caller[p].rechecked

LEMMA CallerType ==
  ASSUME WorkInv, NEW p \in Callers
  PROVE  caller \in [Callers -> Caller] /\ caller[p] \in Caller
  BY DEF WorkInv, WorkTypeOK

LEMMA GotoFacts ==
  ASSUME WorkInv, NEW p \in Callers, NEW pc \in Phases, NEW res \in Results, Goto(p, pc, res)
  PROVE  /\ Steps(p) /\ SameCall(p)
         /\ caller'[p].pc = pc /\ caller'[p].result = res /\ caller'[p].txn = caller[p].txn
         /\ caller'[p].then = caller[p].then /\ caller'[p].i = caller[p].i
  BY ZenonT(60), CallerType DEF Goto, Steps, SameCall, Caller

LEMMA CleanThenFacts ==
  ASSUME WorkInv, NEW p \in Callers, NEW t \in Txns,
         NEW then \in {"recover", "recovered", "inspect", "return"}, NEW res \in Results,
         CleanThen(p, t, then, res)
  PROVE  /\ Steps(p) /\ SameCall(p)
         /\ caller'[p].pc = "clean" /\ caller'[p].txn = t /\ caller'[p].then = then /\ caller'[p].result = res
<1>1. PICK n : n = [caller[p] EXCEPT !.pc = "clean", !.txn = t, !.then = then, !.result = res]
  OBVIOUS
<1>2. /\ n \in Caller /\ n.pc = "clean" /\ n.txn = t /\ n.then = then /\ n.result = res
      /\ n.call = caller[p].call /\ n.journal = caller[p].journal /\ n.made = caller[p].made
      /\ n.rechecked = caller[p].rechecked
  BY ZenonT(60), <1>1, CallerType DEF Caller, Phases
<1>3. caller' = [caller EXCEPT ![p] = n]
  BY <1>1 DEF CleanThen
<1> QED
  BY <1>2, <1>3, CallerType DEF Steps, SameCall

(* The lock and the other callers are not concerned. *)
LEMMA OwnStep ==
  ASSUME WorkInv, NEW p \in Callers, Inside(p), Steps(p), caller'[p].pc # "idle",
         lock' = lock, reader' = reader
  PROVE  LockInv' /\ \A q \in Callers : q # p => PlaceInv(q)' /\ JournalInv(q)'
<1>1. \A q \in Callers : q # p => ~Inside(q) /\ caller'[q] = caller[q]
  BY DEF WorkInv, LockInv, Steps
<1>2. \A q \in Callers : Inside(q)' <=> Inside(q)
  BY <1>1 DEF Inside
<1>3. LockInv'
  BY <1>2 DEF WorkInv, LockInv
<1>4. ASSUME NEW q \in Callers, q # p PROVE PlaceInv(q)' /\ JournalInv(q)'
  <2>1. caller'[q].pc = "idle"
    BY <1>1, <1>4 DEF Inside
  <2> QED
    BY <2>1 DEF PlaceInv, JournalInv, Owning, Fresh
<1> QED
  BY <1>3, <1>4

LEMMA StepInv ==
  ASSUME WorkInv, NEW p \in Callers, Inside(p), Steps(p), caller'[p].pc # "idle",
         lock' = lock, reader' = reader, built' = built, edits' = edits,
         content' \in [Paths -> Contents], committed' \in [Paths -> Contents], dirs' \subseteq Dirs,
         txns' \in [Txns -> Txn], vouched' \subseteq Txns,
         TxnsInv', TreeInv', PlaceInv(p)', JournalInv(p)'
  PROVE  WorkInv'
<1>1. WorkTypeOK'
  BY DEF WorkInv, WorkTypeOK, Steps
<1>2. LockInv' /\ \A q \in Callers : q # p => PlaceInv(q)' /\ JournalInv(q)'
  BY OwnStep
<1> QED
  BY <1>1, <1>2 DEF WorkInv

(* Steps that change the locals of the caller only. *)
LEMMA LocalStepInv ==
  ASSUME WorkInv, NEW p \in Callers, Inside(p), Steps(p), caller'[p].pc # "idle",
         UNCHANGED <<content, dirs, txns, lock, reader, built, committed, vouched, edits>>,
         PlaceInv(p)', JournalInv(p)'
  PROVE  WorkInv'
<1>1. TxnsInv' /\ TreeInv'
  <2>1. Active' = Active
    BY DEF Active
  <2>2. \A t \in Active : ActiveInv(t)'
    BY DEF WorkInv, TxnsInv, ActiveInv, Kept
  <2>3. TreeInv'
    BY DEF WorkInv, TreeInv
  <2> QED
    BY <2>1, <2>2, <2>3 DEF WorkInv, TxnsInv, Present
<1>2. WorkTypeOK
  BY DEF WorkInv
<1> QED
  BY <1>1, <1>2, StepInv DEF WorkTypeOK

(* A caller that returns has nothing left to know. *)
LEMMA ReturningInv ==
  ASSUME WorkInv, NEW p \in Callers, Inside(p), caller'[p].pc = "return", caller'[p].call = caller[p].call
  PROVE  PlaceInv(p)' /\ JournalInv(p)'
<1>1. caller[p].call \in Calls
  BY DEF WorkInv, PlaceInv, Inside
<1> QED
  BY <1>1 DEF PlaceInv, JournalInv, Owning, Fresh

LEMMA ToReturnInv ==
  ASSUME WorkInv, NEW p \in Callers, Inside(p), NEW res \in Results, Goto(p, "return", res),
         UNCHANGED <<content, dirs, txns, lock, reader, built, committed, vouched, edits>>
  PROVE  WorkInv'
<1>1. Steps(p) /\ caller'[p].pc = "return" /\ caller'[p].call = caller[p].call
  <2>1. "return" \in Phases
    BY DEF Phases
  <2> QED
    BY <2>1, GotoFacts DEF SameCall
<1> QED
  BY <1>1, ReturningInv, LocalStepInv

(* A transaction is removed only when the files are as committed; who goes  *)
(* on after that has written nothing yet.                                   *)
LEMMA ToCleanInv ==
  ASSUME WorkInv, NEW p \in Callers, Inside(p), NEW t \in Txns, Present(t), content = committed,
         NEW then \in {"recover", "recovered", "inspect", "return"}, NEW res \in Results,
         then # "return" => caller[p].pc \in Fresh,
         CleanThen(p, t, then, res),
         UNCHANGED <<content, dirs, txns, lock, reader, built, committed, vouched, edits>>
  PROVE  WorkInv'
<1>1. /\ Steps(p) /\ SameCall(p) /\ caller'[p].pc = "clean" /\ caller'[p].txn = t /\ caller'[p].then = then
  BY CleanThenFacts
<1>2. caller[p].call \in Calls /\ (then # "return" => caller[p].journal = NoJournal /\ caller[p].made = <<>>)
  BY DEF WorkInv, PlaceInv, Inside
<1>3. PlaceInv(p)' /\ JournalInv(p)'
  BY <1>1, <1>2 DEF PlaceInv, JournalInv, Owning, Fresh, SameCall, Present
<1> QED
  BY <1>1, <1>3, LocalStepInv

LEMMA SetsFacts ==
  ASSUME WorkInv, NEW p \in Callers, NEW n \in Caller, caller' = [caller EXCEPT ![p] = n]
  PROVE  Steps(p) /\ caller'[p] = n
  BY CallerType DEF Steps

LEMMA ClassifyFacts ==
  ASSUME NEW plan
  PROVE  /\ Classify(plan) \in {"final", "before", "changed"}
         /\ Classify(plan) = "final" => \A i \in DOMAIN plan.changes : HoldsFinal(plan.changes[i])
         /\ Classify(plan) = "before" =>
              /\ \A i \in DOMAIN plan.changes : HoldsBefore(plan.changes[i])
              /\ GuardsBefore(plan)
              /\ ~((\A i \in DOMAIN plan.changes : HoldsFinal(plan.changes[i])) /\ GuardsAfter(plan))
<1>1. PICK f, b : /\ f = ((\A i \in DOMAIN plan.changes : HoldsFinal(plan.changes[i])) /\ GuardsAfter(plan))
                  /\ b = ((\A i \in DOMAIN plan.changes : HoldsBefore(plan.changes[i])) /\ GuardsBefore(plan))
  OBVIOUS
<1>2. Classify(plan) = IF f THEN "final" ELSE IF b THEN "before" ELSE "changed"
  BY <1>1 DEF Classify
<1> QED
  BY <1>1, <1>2

LEMMA ActiveFacts ==
  ASSUME WorkInv, NEW t \in Active
  PROVE  t \in Txns /\ Present(t) /\ ActiveInv(t) /\ txns[t] \in Txn /\ txns[t].plan \in Plans
  BY DEF WorkInv, WorkTypeOK, TxnsInv, Active, Present, ActiveInv

(* Nothing of a transaction is left to undo: the files are as committed. *)
LEMMA BeforeIsCommitted ==
  ASSUME WorkInv, NEW t \in Active,
         \A i \in DOMAIN txns[t].plan.changes : HoldsBefore(txns[t].plan.changes[i])
  PROVE  content = committed
<1>1. ActiveInv(t)
  BY ActiveFacts
<1>2. ASSUME NEW f \in Paths PROVE content[f] = committed[f]
  <2>1. CASE f \in Targets(txns[t].plan)
    <3>1. PICK i \in DOMAIN txns[t].plan.changes : f = txns[t].plan.changes[i].path
      BY <2>1 DEF Targets
    <3>2. Kept(t, i) /\ HoldsBefore(txns[t].plan.changes[i])
      BY <1>1 DEF ActiveInv
    <3> QED
      BY <3>1, <3>2 DEF Kept, HoldsBefore
  <2> QED
    BY <1>1, <2>1 DEF ActiveInv
<1> QED
  BY <1>2 DEF WorkInv, WorkTypeOK

(* recoverTransactions *)
LEMMA RecoverLooksInv ==
  ASSUME WorkInv, NEW p \in Callers, RecoverDebris(p) \/ RecoverNothing(p) \/ RecoverRefused(p)
  PROVE  WorkInv'
<1>1. /\ UNCHANGED <<content, dirs, txns, lock, reader, built, committed, vouched, edits>>
      /\ Inside(p) /\ caller[p].pc = "recover"
  BY DEF RecoverDebris, RecoverNothing, RecoverRefused, disk, history, budgets, Inside
<1>2. CASE RecoverDebris(p)
  <2>1. PICK t \in Debris : CleanThen(p, t, "recover", "none")
    BY <1>2 DEF RecoverDebris
  <2>2. t \in Txns /\ Present(t) /\ t \notin Active
    BY DEF Debris, Present, Active
  <2>3. Active = {}
    BY <2>2 DEF Active, WorkInv, TxnsInv, Present
  <2>4. content = committed
    BY <2>3 DEF WorkInv, TxnsInv
  <2> QED
    BY <1>1, <2>1, <2>2, <2>4, ToCleanInv DEF Results, Fresh
<1>3. CASE RecoverNothing(p)
  <2>1. \A t \in Txns : ~Present(t)
    <3>1. \A t \in Txns : txns[t].kind \in {"none", "active", "done"}
      BY DEF WorkInv, WorkTypeOK, Txn
    <3> QED
      BY <1>3, <3>1 DEF RecoverNothing, Active, Debris, Present
  <2>2. Steps(p) /\ SameCall(p) /\ caller'[p].pc = "inspect"
    BY <1>3, GotoFacts DEF RecoverNothing, Phases, Results
  <2>3. caller[p].call \in Calls /\ caller[p].journal = NoJournal /\ caller[p].made = <<>>
    BY <1>1 DEF WorkInv, PlaceInv, Fresh
  <2>4. PlaceInv(p)' /\ JournalInv(p)'
    BY <1>1, <2>1, <2>2, <2>3 DEF PlaceInv, JournalInv, SameCall, Present, Owning
  <2> QED
    BY <1>1, <2>2, <2>4, LocalStepInv
<1>4. CASE RecoverRefused(p)
  BY <1>1, <1>4, ToReturnInv DEF RecoverRefused, Results
<1> QED
  BY <1>2, <1>3, <1>4

(* A target that was edited is not reachable for the preflight. *)
LEMMA ReachableIsCommitted ==
  ASSUME WorkInv, NEW p \in Callers, NEW t \in Active, txns[t].plan = PlanOf(p),
         NEW i \in DOMAIN PlanOf(p).changes, Reachable(p, t, i)
  PROVE  committed[PlanOf(p).changes[i].path] = PlanOf(p).changes[i].before
<1>1. Kept(t, i) /\ txns[t].plan \in Plans
  BY ActiveFacts DEF ActiveInv
<1>2. PICK ch : ch = PlanOf(p).changes[i]
  OBVIOUS
<1>3. ch.path \in Paths /\ ch.before # Foreign /\ Final(ch) # Foreign
  BY <1>1, <1>2, ChangeFacts
<1>4. content[ch.path] \in {ch.before, Final(ch), Missing}
  BY <1>2, <1>3 DEF Reachable, HoldsBefore, HoldsFinal, Exists
<1> QED
  BY <1>1, <1>2, <1>3, <1>4, FilesAssumption DEF Kept

LEMMA RecoverActiveInv ==
  ASSUME WorkInv, NEW p \in Callers, RecoverActive(p)
  PROVE  WorkInv'
<1>1. /\ UNCHANGED <<content, dirs, txns, lock, reader, built, committed, vouched, edits>>
      /\ Inside(p) /\ caller[p].pc = "recover"
  BY DEF RecoverActive, disk, history, budgets, Inside
<1>2. PICK t \in Active :
       /\ Recoverable(p, t)
       /\ \/ txns[t].record = "absent" /\ CleanThen(p, t, "inspect", "none")
          \/ /\ txns[t].record # "absent" /\ Classify(PlanOf(p)) = "before"
             /\ CleanThen(p, t, "recovered", "none")
          \/ /\ txns[t].record # "absent" /\ Classify(PlanOf(p)) = "final"
             /\ caller' = [caller EXCEPT ![p].pc = "finalize", ![p].txn = t, ![p].then = "recovered"]
          \/ /\ txns[t].record # "absent" /\ Classify(PlanOf(p)) = "changed"
             /\ caller' = [caller EXCEPT ![p].pc = "undo", ![p].txn = t]
  BY DEF RecoverActive
<1>3. t \in Txns /\ Present(t) /\ ActiveInv(t) /\ txns[t].kind = "active" /\ txns[t].plan = PlanOf(p)
  BY <1>2, ActiveFacts DEF Recoverable, Active
<1>4. caller[p].call \in Calls /\ caller[p].journal = NoJournal /\ caller[p].made = <<>>
  BY <1>1 DEF WorkInv, PlaceInv, Fresh
<1>5. txns[t].record # "absent" => /\ txns[t].record = GateOf(p)
                                   /\ Classify(PlanOf(p)) = "changed" => Preflight(p, t)
  BY <1>2 DEF Recoverable, Matches
<1>6. CASE txns[t].record = "absent" /\ CleanThen(p, t, "inspect", "none")
  <2>1. content = committed
    BY <1>3, <1>6 DEF ActiveInv
  <2> QED
    BY <1>1, <1>3, <1>6, <2>1, ToCleanInv DEF Results, Fresh
<1>7. CASE Classify(PlanOf(p)) = "before" /\ CleanThen(p, t, "recovered", "none")
  <2>1. content = committed
    BY <1>3, <1>7, ClassifyFacts, BeforeIsCommitted
  <2> QED
    BY <1>1, <1>3, <1>7, <2>1, ToCleanInv DEF Results, Fresh
<1>8. CASE /\ txns[t].record # "absent" /\ Classify(PlanOf(p)) = "final"
           /\ caller' = [caller EXCEPT ![p].pc = "finalize", ![p].txn = t, ![p].then = "recovered"]
  <2>1. PICK n : n = [caller[p] EXCEPT !.pc = "finalize", !.txn = t, !.then = "recovered"]
    OBVIOUS
  <2>2. /\ n \in Caller /\ n.pc = "finalize" /\ n.txn = t /\ n.then = "recovered" /\ n.call = caller[p].call
        /\ n.journal = caller[p].journal /\ n.made = caller[p].made
    BY ZenonT(60), <1>3, <2>1, CallerType DEF Caller, Phases
  <2>3. Steps(p) /\ caller'[p] = n
    <3>1. caller' = [caller EXCEPT ![p] = n]
      BY <1>8, <2>1
    <3> QED
      BY <2>2, <3>1, SetsFacts
  <2>4. \A i \in DOMAIN PlanOf(p).changes : HoldsFinal(PlanOf(p).changes[i])
    BY <1>8, ClassifyFacts
  <2>5. PlaceInv(p)' /\ JournalInv(p)'
    BY ZenonT(60), <1>1, <1>3, <1>4, <1>5, <1>8, <2>2, <2>3, <2>4
       DEF PlaceInv, JournalInv, Owning, Fresh, PlanOf, GateOf, HoldsFinal
  <2> QED
    BY <1>1, <2>2, <2>3, <2>5, LocalStepInv
<1>9. CASE /\ txns[t].record # "absent" /\ Classify(PlanOf(p)) = "changed"
           /\ caller' = [caller EXCEPT ![p].pc = "undo", ![p].txn = t]
  <2>1. PICK n : n = [caller[p] EXCEPT !.pc = "undo", !.txn = t]
    OBVIOUS
  <2>2. /\ n \in Caller /\ n.pc = "undo" /\ n.txn = t /\ n.call = caller[p].call
        /\ n.journal = caller[p].journal /\ n.made = caller[p].made
    BY ZenonT(60), <1>3, <2>1, CallerType DEF Caller, Phases
  <2>3. Steps(p) /\ caller'[p] = n
    <3>1. caller' = [caller EXCEPT ![p] = n]
      BY <1>9, <2>1
    <3> QED
      BY <2>2, <3>1, SetsFacts
  <2>4. \A i \in DOMAIN PlanOf(p).changes : committed[PlanOf(p).changes[i].path] = PlanOf(p).changes[i].before
    BY <1>3, <1>5, <1>9, ReachableIsCommitted DEF Preflight
  <2>5. /\ caller'[p].call = caller[p].call /\ caller'[p].pc = "undo" /\ caller'[p].txn = t
        /\ caller'[p].journal = NoJournal /\ caller'[p].made = <<>>
    BY <1>4, <2>2, <2>3
  <2>6. PlaceInv(p)'
    BY <1>1, <1>3, <1>4, <1>5, <1>9, <2>4, <2>5 DEF PlaceInv, Owning, PlanOf, GateOf
  <2>7. JournalInv(p)'
    BY <2>5 DEF JournalInv
  <2> QED
    BY <1>1, <2>2, <2>3, <2>6, <2>7, LocalStepInv
<1> QED
  BY <1>2, <1>6, <1>7, <1>8, <1>9

LEMMA UndoDoneInv ==
  ASSUME WorkInv, NEW p \in Callers, UndoDone(p)
  PROVE  WorkInv'
<1>1. /\ UNCHANGED <<content, dirs, txns, lock, reader, built, committed, vouched, edits>>
      /\ Inside(p) /\ caller[p].pc = "undo" /\ ToUndo(p) = {}
  BY DEF UndoDone, disk, history, budgets, Inside
<1>2. caller[p].txn \in Active /\ txns[caller[p].txn].plan = PlanOf(p)
  BY <1>1 DEF WorkInv, PlaceInv, Owning, Active, PlanOf
<1>3. content = committed
  BY <1>1, <1>2, BeforeIsCommitted DEF ToUndo
<1>4. CASE CleanThen(p, caller[p].txn, "recovered", "none")
  BY <1>1, <1>2, <1>3, <1>4, ActiveFacts, ToCleanInv DEF Results, Fresh
<1>5. CASE Goto(p, "return", "recovery")
  BY <1>1, <1>5, ToReturnInv DEF Results
<1> QED
  BY <1>4, <1>5 DEF UndoDone

LEMMA RecoveredInv ==
  ASSUME WorkInv, NEW p \in Callers, Recovered(p)
  PROVE  WorkInv'
<1>1. /\ UNCHANGED <<content, dirs, txns, lock, reader, built, committed, vouched, edits>>
      /\ Inside(p) /\ caller[p].pc = "recovered"
  BY DEF Recovered, disk, history, budgets, Inside
<1>2. Goto(p, "inspect", "none") \/ \E res \in {"replayed", "restart", "changed"} : Goto(p, "return", res)
  BY ClassifyFacts DEF Recovered
<1>3. CASE Goto(p, "inspect", "none")
  <2>1. Steps(p) /\ SameCall(p) /\ caller'[p].pc = "inspect"
    BY <1>3, GotoFacts DEF Phases, Results
  <2>2. /\ caller[p].call \in Calls /\ caller[p].journal = NoJournal /\ caller[p].made = <<>>
        /\ \A t \in Txns : ~Present(t)
    BY <1>1 DEF WorkInv, PlaceInv, Fresh
  <2>3. PlaceInv(p)' /\ JournalInv(p)'
    BY <1>1, <2>1, <2>2 DEF PlaceInv, JournalInv, SameCall, Present, Owning
  <2> QED
    BY <1>1, <2>1, <2>3, LocalStepInv
<1>4. CASE \E res \in {"replayed", "restart", "changed"} : Goto(p, "return", res)
  BY <1>1, <1>4, ToReturnInv DEF Results
<1> QED
  BY <1>2, <1>3, <1>4

-----------------------------------------------------------------------------
(* Steps that change the one transaction there is. *)

LEMMA OneTxnInv ==
  ASSUME WorkInv, NEW p \in Callers, Inside(p), NEW t \in Txns, reader' = reader,
         \A u \in Txns : u # t => txns'[u] = txns[u] /\ ~Present(u),
         txns'[t].kind \in {"none", "active", "done"},
         txns'[t].kind = "none" => txns'[t] = NoDirectory,
         txns'[t].kind # "active" => content' = committed',
         txns'[t].kind = "active" => ActiveInv(t)'
  PROVE  TxnsInv'
<1>1. \A r \in Readers : reader'[r] = "idle"
  BY DEF WorkInv, LockInv
<1>2. \A u \in Txns : u # t => ~Present(u)' /\ txns'[u] = NoDirectory
  BY DEF Present, WorkInv, TxnsInv
<1>3. \A u \in Txns : Present(u)' => u = t
  BY <1>2
<1>4. \A u \in Active' : u = t /\ txns'[t].kind = "active"
  BY <1>3 DEF Active, Present
<1>5. Active' = {} => content' = committed'
  BY DEF Active
<1>6. \A u \in Txns : ~Present(u)' => txns'[u] = NoDirectory
  BY <1>2 DEF Present
<1>7. \A u \in Active' : ActiveInv(u)'
  BY <1>4
<1> QED
  BY <1>1, <1>3, <1>5, <1>6, <1>7 DEF TxnsInv

LEMMA OwnTxn ==
  ASSUME WorkInv, NEW p \in Callers, caller[p].pc \in Owning \cup {"clean"}
  PROVE  /\ caller[p].txn \in Txns /\ Present(caller[p].txn) /\ txns[caller[p].txn] \in Txn /\ Inside(p)
         /\ \A u \in Txns : u # caller[p].txn => ~Present(u)
         /\ caller[p].call \in Calls /\ PlanOf(p) \in Plans /\ GateOf(p) \in Gates
         /\ GateOf(p) \notin {"absent", "torn"}
         /\ caller[p].pc \in Owning => /\ caller[p].txn \in Active /\ txns[caller[p].txn].plan = PlanOf(p)
                                       /\ ActiveInv(caller[p].txn)
<1>1. PlaceInv(p) /\ Inside(p)
  BY DEF WorkInv, Inside, Owning
<1>2. caller[p].txn \in Txns /\ Present(caller[p].txn)
  BY <1>1 DEF PlaceInv, Present
<1>3. caller[p].pc \in Owning => caller[p].txn \in Active /\ txns[caller[p].txn].plan = PlanOf(p)
  BY <1>1 DEF PlaceInv, Active, PlanOf
<1>4. caller[p].call \in Calls
  BY <1>1 DEF PlaceInv, Inside
<1> QED
  BY <1>1, <1>2, <1>3, <1>4, CallFacts, ActiveFacts DEF WorkInv, WorkTypeOK, TxnsInv, PlanOf, GateOf

-----------------------------------------------------------------------------
(* From inspectCommit to the durable record. *)

(* A plan that changes nothing is final where it is as it was built. *)
LEMMA TrivialIsFinal ==
  ASSUME WorkInv, NEW plan \in Plans, ~Effective(plan), GuardsBefore(plan),
         \A i \in DOMAIN plan.changes : HoldsBefore(plan.changes[i])
  PROVE  (\A i \in DOMAIN plan.changes : HoldsFinal(plan.changes[i])) /\ GuardsAfter(plan)
<1>1. ASSUME NEW i \in DOMAIN plan.changes
      PROVE  HoldsFinal(plan.changes[i])
  BY <1>1 DEF Effective, HoldsBefore, HoldsFinal
<1>2. ASSUME NEW g \in plan.guards PROVE Capture(g) = MembersAfter(plan, g)
  <2> DEFINE changed == {plan.changes[i] : i \in DOMAIN plan.changes}
             gone == {ch.path : ch \in {c \in changed : Final(c) = Missing}}
             kept == {ch.path : ch \in {c \in changed : Final(c) # Missing}}
             parents == UNION {Range(Above[f]) : f \in kept \cap Tree(g)}
  <2>1. Capture(g) = MembersBefore(plan, g)
    BY DEF GuardsBefore
  <2>2. ASSUME NEW f \in gone PROVE f \notin Capture(g)
    <3>1. PICK i \in DOMAIN plan.changes : f = plan.changes[i].path /\ Final(plan.changes[i]) = Missing
      BY <2>2
    <3>2. f \in Paths /\ content[f] = Missing
      BY <1>1, <3>1, ChangeFacts DEF HoldsFinal
    <3> QED
      BY <3>2 DEF Capture, Exists
  <2>3. ASSUME NEW f \in kept, f \in Tree(g) PROVE f \in Capture(g) /\ Range(Above[f]) \cap Tree(g) \subseteq Capture(g)
    <3>1. PICK i \in DOMAIN plan.changes : f = plan.changes[i].path /\ Final(plan.changes[i]) # Missing
      BY <2>3
    <3>2. f \in Paths /\ content[f] # Missing
      BY <1>1, <3>1, ChangeFacts DEF HoldsFinal
    <3>3. Range(Above[f]) \subseteq dirs /\ dirs \subseteq Dirs
      BY <3>2 DEF WorkInv, TreeInv, WorkTypeOK
    <3> QED
      BY <2>3, <3>2, <3>3, FilesAssumption DEF Capture, Exists
  <2>4. Capture(g) \subseteq Tree(g)
    BY DEF Capture
  <2>5. MembersAfter(plan, g) = ((Capture(g) \ gone) \cup kept \cup parents) \cap Tree(g)
    BY <2>1 DEF MembersAfter
  <2> HIDE DEF gone, kept
  <2>6. ASSUME NEW x \in parents, x \in Tree(g) PROVE x \in Capture(g)
    <3>1. PICK f \in kept \cap Tree(g) : x \in Range(Above[f])
      BY <2>6
    <3> QED
      BY <2>3, <2>6, <3>1
  <2> HIDE DEF parents
  <2> QED
    BY <2>2, <2>3, <2>4, <2>5, <2>6
<1> QED
  BY <1>1, <1>2 DEF GuardsAfter

LEMMA InspectInv ==
  ASSUME WorkInv, NEW p \in Callers, Inspect(p)
  PROVE  WorkInv'
<1>1. /\ UNCHANGED <<content, dirs, lock, reader, built, committed, edits>>
      /\ Inside(p) /\ caller[p].pc = "inspect"
  BY DEF Inspect, disk, budgets, Inside
<1>2. CASE /\ \E res \in {"refused", "replayed", "changed"} : Goto(p, "return", res)
           /\ UNCHANGED <<txns, vouched>>
  BY <1>1, <1>2, ToReturnInv DEF Results
<1>3. CASE /\ Classify(PlanOf(p)) = "before"
           /\ \E t \in Txns :
                /\ txns[t].kind = "none"
                /\ txns' = [txns EXCEPT ![t].kind = "active", ![t].plan = PlanOf(p)]
                /\ caller' = [caller EXCEPT ![p].pc = "stage", ![p].txn = t]
                /\ vouched' = vouched \ {t}
  <2>1. PICK t \in Txns :
          /\ txns[t].kind = "none"
          /\ txns' = [txns EXCEPT ![t].kind = "active", ![t].plan = PlanOf(p)]
          /\ caller' = [caller EXCEPT ![p].pc = "stage", ![p].txn = t]
          /\ vouched' = vouched \ {t}
    BY <1>3
  <2>2. /\ caller[p].call \in Calls /\ caller[p].journal = NoJournal /\ caller[p].made = <<>>
        /\ \A u \in Txns : ~Present(u)
    BY <1>1 DEF WorkInv, PlaceInv, Fresh
  <2>3. PICK n : n = [caller[p] EXCEPT !.pc = "stage", !.txn = t]
    OBVIOUS
  <2>4. /\ n \in Caller /\ n.pc = "stage" /\ n.txn = t /\ n.call = caller[p].call
        /\ n.journal = NoJournal /\ n.made = <<>>
    BY ZenonT(60), <2>2, <2>3, CallerType DEF Caller, Phases
  <2>5. Steps(p) /\ caller'[p] = n
    <3>1. caller' = [caller EXCEPT ![p] = n]
      BY <2>1, <2>3
    <3> QED
      BY <2>4, <3>1, SetsFacts
  <2>6. PlanOf(p) \in Plans /\ PlanOf(p) = caller[p].call.plan
    BY <2>2, CallFacts DEF PlanOf
  <2>7. PICK x : x = [txns[t] EXCEPT !.kind = "active", !.plan = PlanOf(p)]
    OBVIOUS
  <2>8. txns[t] = NoDirectory /\ txns[t] \in Txn
    BY <2>2 DEF WorkInv, TxnsInv, WorkTypeOK
  <2>9. x \in Txn /\ x.kind = "active" /\ x.plan = PlanOf(p) /\ x.record = "absent" /\ x.backup = NoBackup
    <3>1. x \in Txn /\ x.kind = "active" /\ x.plan = PlanOf(p) /\ x.record = txns[t].record /\ x.backup = txns[t].backup
      BY <2>6, <2>7, <2>8 DEF Txn
    <3> QED
      BY <2>8, <3>1 DEF NoDirectory
  <2>10. txns' \in [Txns -> Txn] /\ txns'[t] = x /\ \A u \in Txns : u # t => txns'[u] = txns[u]
    <3>1. txns' = [txns EXCEPT ![t] = x] /\ txns \in [Txns -> Txn]
      BY <2>1, <2>7 DEF WorkInv, WorkTypeOK
    <3> QED
      BY <2>9, <3>1
  <2>11. content = committed
    BY <2>2 DEF WorkInv, TxnsInv, Active, Present
  <2>12. ActiveInv(t)'
    <3>1. \A i \in DOMAIN PlanOf(p).changes :
            LET ch == PlanOf(p).changes[i] IN ch.path \in Paths /\ content[ch.path] = ch.before
      BY <1>3, <2>6, ClassifyFacts, ChangeFacts DEF HoldsBefore
    <3>2. \A i \in DOMAIN PlanOf(p).changes : Kept(t, i)'
      BY <1>1, <2>9, <2>10, <2>11, <3>1 DEF Kept
    <3>3. txns'[t].plan = PlanOf(p) /\ txns'[t].record = "absent" /\ content' = committed'
      BY <1>1, <2>9, <2>10, <2>11
    <3> QED
      BY <2>6, <3>2, <3>3, CallsAssumption DEF ActiveInv
  <2>13. TxnsInv'
    BY <1>1, <2>2, <2>9, <2>10, <2>12, OneTxnInv
  <2>14. TreeInv'
    BY <1>1 DEF WorkInv, TreeInv
  <2>15. PlaceInv(p)'
    BY <1>1, <2>2, <2>4, <2>5, <2>6, <2>9, <2>10, <2>11 DEF PlaceInv, Owning, Fresh
  <2>16. JournalInv(p)'
    BY <2>4, <2>5 DEF JournalInv
  <2>17. content' \in [Paths -> Contents] /\ committed' \in [Paths -> Contents] /\ dirs' \subseteq Dirs /\ vouched' \subseteq Txns
    BY <1>1, <2>1 DEF WorkInv, WorkTypeOK
  <2> QED
    BY <1>1, <2>4, <2>5, <2>10, <2>13, <2>14, <2>15, <2>16, <2>17, StepInv
<1> QED
  BY <1>2, <1>3 DEF Inspect

LEMMA AdmitInv ==
  ASSUME WorkInv, NEW p \in Callers, Admit(p)
  PROVE  WorkInv'
<1>1. /\ UNCHANGED <<content, dirs, txns, lock, reader, built, committed, vouched, edits>>
      /\ Inside(p) /\ caller[p].pc = "stage"
  BY DEF Admit, disk, history, budgets, Inside
<1>2. /\ caller[p].txn \in Txns /\ Present(caller[p].txn) /\ PlanOf(p) \in Plans
  BY <1>1, OwnTxn DEF Owning
<1>3. content = committed
  BY <1>1 DEF WorkInv, PlaceInv
<1>4. CASE \E res \in {"changed", "replayed", "refused"} : CleanThen(p, caller[p].txn, "return", res)
  BY <1>1, <1>2, <1>3, <1>4, ToCleanInv DEF Results
<1>5. CASE Classify(PlanOf(p)) = "before" /\ Goto(p, "record", "none")
  <2>1. Steps(p) /\ SameCall(p) /\ caller'[p].pc = "record" /\ caller'[p].txn = caller[p].txn
    BY <1>5, GotoFacts DEF Phases, Results
  <2>2. Effective(PlanOf(p))
    BY <1>2, <1>5, ClassifyFacts, TrivialIsFinal
  <2>3. PlaceInv(p)'
    BY <1>1, <2>1, <2>2 DEF WorkInv, PlaceInv, SameCall, Owning, Fresh, PlanOf
  <2>4. JournalInv(p)'
    BY <2>1 DEF JournalInv
  <2> QED
    BY <1>1, <2>1, <2>3, <2>4, LocalStepInv
<1> QED
  BY <1>4, <1>5 DEF Admit

LEMMA TxnSets ==
  ASSUME WorkInv, NEW t \in Txns, NEW x \in Txn, txns' = [txns EXCEPT ![t] = x]
  PROVE  txns' \in [Txns -> Txn] /\ txns'[t] = x /\ \A u \in Txns : u # t => txns'[u] = txns[u]
<1>1. txns \in [Txns -> Txn]
  BY DEF WorkInv, WorkTypeOK
<1> QED
  BY <1>1

LEMMA VouchedGrows ==
  ASSUME WorkInv, UNCHANGED <<content, dirs, committed, txns, reader>>, vouched \subseteq vouched'
  PROVE  TxnsInv' /\ TreeInv'
<1>1. Active' = Active
  BY DEF Active
<1>2. \A t \in Active : ActiveInv(t)'
  BY DEF WorkInv, TxnsInv, ActiveInv, Kept
<1> QED
  BY <1>1, <1>2 DEF WorkInv, TxnsInv, TreeInv, Present

(* Entries of the directory of a transaction come and go while the files    *)
(* are as committed.                                                        *)
LEMMA WholeActiveInv ==
  ASSUME NEW t, ActiveInv(t), content = committed, content' = content, committed' = committed,
         txns'[t].plan = txns[t].plan, txns'[t].record # "absent" => Effective(txns[t].plan)
  PROVE  ActiveInv(t)'
<1>1. \A i \in DOMAIN txns'[t].plan.changes : Kept(t, i)'
  BY DEF ActiveInv, Kept
<1> QED
  BY <1>1 DEF ActiveInv

LEMMA RecordInv ==
  ASSUME WorkInv, NEW p \in Callers, CreateRecord(p) \/ WriteRecord(p)
  PROVE  WorkInv'
<1>1. /\ UNCHANGED <<content, dirs, lock, reader, built, committed, vouched, edits>>
      /\ caller[p].pc \in {"record", "write"}
  BY DEF CreateRecord, WriteRecord, disk, history, budgets
<1>2. PICK t : t = caller[p].txn
  OBVIOUS
<1>3. /\ t \in Txns /\ txns[t] \in Txn /\ Inside(p) /\ (\A u \in Txns : u # t => ~Present(u))
      /\ txns[t].kind = "active" /\ txns[t].plan = PlanOf(p) /\ ActiveInv(t) /\ caller[p].call \in Calls
      /\ GateOf(p) \in Gates /\ GateOf(p) \notin {"absent", "torn"}
  BY <1>1, <1>2, OwnTxn DEF Owning, Active
<1>4. /\ content = committed /\ txns[t].backup = NoBackup /\ caller[p].journal = NoJournal /\ caller[p].made = <<>>
  BY <1>1, <1>2 DEF WorkInv, PlaceInv, Fresh
<1>5. Effective(txns[t].plan)
  BY <1>1, <1>2, <1>3 DEF WorkInv, PlaceInv, ActiveInv, PlanOf
<1>6. PICK rec : /\ CreateRecord(p) => rec = "torn"
                 /\ WriteRecord(p) => rec = GateOf(p)
  BY DEF CreateRecord, WriteRecord
<1>7. rec \in Records /\ txns' = [txns EXCEPT ![t].record = rec]
  BY <1>2, <1>3, <1>6 DEF CreateRecord, WriteRecord, Records
<1>8. PICK x : x = [txns[t] EXCEPT !.record = rec]
  OBVIOUS
<1>9. x \in Txn /\ x.kind = "active" /\ x.plan = txns[t].plan /\ x.record = rec /\ x.backup = NoBackup
  BY <1>3, <1>4, <1>7, <1>8 DEF Txn
<1>10. txns' \in [Txns -> Txn] /\ txns'[t] = x /\ \A u \in Txns : u # t => txns'[u] = txns[u]
  <2>1. txns' = [txns EXCEPT ![t] = x]
    BY <1>7, <1>8
  <2> QED
    BY <1>3, <1>9, <2>1, TxnSets
<1>11. TxnsInv'
  <2>1. ActiveInv(t)'
    BY <1>1, <1>3, <1>4, <1>5, <1>9, <1>10, WholeActiveInv
  <2> QED
    BY <1>1, <1>3, <1>9, <1>10, <2>1, OneTxnInv
<1>12. /\ Steps(p) /\ SameCall(p) /\ caller'[p].txn = t
       /\ \/ caller'[p].pc = "write" /\ rec = "torn"
          \/ caller'[p].pc = "guard" /\ rec = GateOf(p)
  <2>1. CASE CreateRecord(p)
    BY <1>2, <1>6, <2>1, GotoFacts DEF CreateRecord, Phases, Results
  <2>2. CASE WriteRecord(p)
    BY <1>2, <1>6, <2>2, GotoFacts DEF WriteRecord, Phases, Results
  <2> QED
    BY <2>1, <2>2
<1>13. PlaceInv(p)'
  BY <1>1, <1>3, <1>4, <1>9, <1>10, <1>12 DEF PlaceInv, SameCall, Owning, Fresh, PlanOf, GateOf
<1>14. JournalInv(p)'
  BY <1>12 DEF JournalInv
<1>15. /\ content' \in [Paths -> Contents] /\ committed' \in [Paths -> Contents] /\ dirs' \subseteq Dirs
       /\ vouched' \subseteq Txns /\ TreeInv'
  BY <1>1 DEF WorkInv, WorkTypeOK, TreeInv
<1> QED
  BY <1>1, <1>3, <1>10, <1>11, <1>12, <1>13, <1>14, <1>15, StepInv

LEMMA CheckGuardsInv ==
  ASSUME WorkInv, NEW p \in Callers, CheckGuards(p)
  PROVE  WorkInv'
<1>1. UNCHANGED <<content, dirs, txns, lock, reader, built, committed, edits>> /\ caller[p].pc = "guard"
  BY DEF CheckGuards, disk, budgets
<1>2. PICK t : t = caller[p].txn
  OBVIOUS
<1>3. t \in Txns /\ Present(t) /\ Inside(p) /\ caller[p].call \in Calls
  BY <1>1, <1>2, OwnTxn DEF Owning
<1>4. /\ content = committed /\ txns[t].backup = NoBackup /\ caller[p].journal = NoJournal /\ caller[p].made = <<>>
      /\ txns[t].kind = "active" /\ txns[t].plan = caller[p].call.plan /\ txns[t].record = caller[p].call.gate
  BY <1>1, <1>2 DEF WorkInv, PlaceInv, Fresh, Owning
<1>5. CASE \E res \in {"refused", "changed"} : CleanThen(p, t, "return", res) /\ UNCHANGED vouched
  BY <1>1, <1>3, <1>4, <1>5, ToCleanInv DEF Results
<1>6. CASE /\ caller' = [caller EXCEPT ![p].pc = "commit", ![p].i = 1,
                                       ![p].rechecked = PlanOf(p).guards # {} \/ GateOf(p) = NoGate]
           /\ vouched' = IF PlanOf(p).guards # {} THEN vouched \cup {t} ELSE vouched
  <2>1. PICK b \in BOOLEAN : b = (PlanOf(p).guards # {} \/ GateOf(p) = NoGate)
    OBVIOUS
  <2>2. PICK n : n = [caller[p] EXCEPT !.pc = "commit", !.i = 1, !.rechecked = b]
    OBVIOUS
  <2>3. /\ n \in Caller /\ n.pc = "commit" /\ n.txn = t /\ n.call = caller[p].call
        /\ n.journal = NoJournal /\ n.made = <<>> /\ n.rechecked = b
    <3>1. 1 \in 0 .. (MaxChanges + 1)
      BY IndexFacts
    <3>2. PICK m : m = [caller[p] EXCEPT !.pc = "commit", !.i = 1]
      OBVIOUS
    <3>3. m \in Caller
      BY ZenonT(60), <3>1, <3>2, CallerType DEF Caller, Phases
    <3>4. n = [m EXCEPT !.rechecked = b]
      BY <2>2, <3>2
    <3>5. n \in Caller
      BY <2>1, <3>3, <3>4 DEF Caller
    <3>6. /\ n.pc = "commit" /\ n.txn = caller[p].txn /\ n.call = caller[p].call
          /\ n.journal = caller[p].journal /\ n.made = caller[p].made /\ n.rechecked = b
      BY <2>2, CallerType DEF Caller
    <3> QED
      BY <1>2, <1>4, <3>5, <3>6
  <2>4. Steps(p) /\ caller'[p] = n
    <3>1. caller' = [caller EXCEPT ![p] = n]
      BY <1>6, <2>1, <2>2
    <3> QED
      BY <2>3, <3>1, SetsFacts
  <2>5. /\ vouched \subseteq vouched' /\ vouched' \subseteq Txns
        /\ b => t \in vouched' \/ caller[p].call.gate = NoGate
    BY <1>3, <1>6, <2>1 DEF WorkInv, WorkTypeOK, GateOf
  <2>6. TxnsInv' /\ TreeInv'
    BY <1>1, <2>5, VouchedGrows
  <2>7. PlaceInv(p)'
    BY <1>1, <1>3, <1>4, <2>3, <2>4 DEF PlaceInv, Owning, Fresh
  <2>8. JournalInv(p)'
    BY <1>1, <1>4, <2>3, <2>4, <2>5 DEF JournalInv, NoJournal, NoBackup
  <2>9. /\ content' \in [Paths -> Contents] /\ committed' \in [Paths -> Contents] /\ dirs' \subseteq Dirs
        /\ txns' \in [Txns -> Txn]
    BY <1>1 DEF WorkInv, WorkTypeOK
  <2> QED
    BY <1>1, <1>3, <2>3, <2>4, <2>5, <2>6, <2>7, <2>8, <2>9, StepInv
<1> QED
  BY <1>2, <1>5, <1>6 DEF CheckGuards

-----------------------------------------------------------------------------
(* The decision to commit, and the removal of a transaction. *)

LEMMA FinalIsAfterCommit ==
  ASSUME WorkInv, NEW t \in Active, \A i \in DOMAIN txns[t].plan.changes : HoldsFinal(txns[t].plan.changes[i])
  PROVE  AfterCommit(txns[t].plan) = content
<1>1. PICK plan : plan = txns[t].plan
  OBVIOUS
<1>2. ActiveInv(t) /\ plan \in Plans
  BY <1>1, ActiveFacts
<1>3. ASSUME NEW f \in Paths PROVE AfterCommit(plan)[f] = content[f]
  <2>1. CASE f \in Targets(plan)
    <3>1. \E i \in DOMAIN plan.changes : plan.changes[i].path = f
      BY <2>1 DEF Targets
    <3>2. PICK i \in DOMAIN plan.changes : i = (CHOOSE j \in DOMAIN plan.changes : plan.changes[j].path = f)
                                           /\ plan.changes[i].path = f
      BY <3>1
    <3>3. AfterCommit(plan)[f] = Final(plan.changes[i])
      BY <2>1, <3>2 DEF AfterCommit
    <3> QED
      BY <1>1, <3>2, <3>3 DEF HoldsFinal
  <2>2. CASE f \notin Targets(plan)
    BY <1>1, <1>2, <2>2 DEF AfterCommit, ActiveInv
  <2> QED
    BY <2>1, <2>2
<1>4. content \in [Paths -> Contents]
  BY DEF WorkInv, WorkTypeOK
<1>5. AfterCommit(plan) = [f \in Paths |-> AfterCommit(plan)[f]]
  BY DEF AfterCommit
<1> QED
  BY <1>1, <1>3, <1>4, <1>5

LEMMA FinalizeInv ==
  ASSUME WorkInv, NEW p \in Callers, Finalize(p)
  PROVE  WorkInv'
<1>1. UNCHANGED <<content, dirs, lock, reader, built, vouched, edits>> /\ caller[p].pc = "finalize"
  BY DEF Finalize, disk, budgets
<1>2. PICK t : t = caller[p].txn
  OBVIOUS
<1>3. /\ t \in Txns /\ t \in Active /\ txns[t] \in Txn /\ Inside(p) /\ (\A u \in Txns : u # t => ~Present(u))
      /\ txns[t].plan = PlanOf(p) /\ caller[p].call \in Calls
  BY <1>1, <1>2, OwnTxn DEF Owning
<1>4. \A i \in DOMAIN txns[t].plan.changes : HoldsFinal(txns[t].plan.changes[i])
  BY <1>1, <1>2, <1>3 DEF WorkInv, PlaceInv, PlanOf
<1>5. committed' = content
  BY <1>2, <1>3, <1>4, FinalIsAfterCommit DEF Finalize
<1>6. PICK x : x = [txns[t] EXCEPT !.kind = "done"]
  OBVIOUS
<1>7. x \in Txn /\ x.kind = "done"
  BY <1>3, <1>6 DEF Txn
<1>8. txns' \in [Txns -> Txn] /\ txns'[t] = x /\ \A u \in Txns : u # t => txns'[u] = txns[u]
  <2>1. txns' = [txns EXCEPT ![t] = x]
    BY <1>2, <1>6 DEF Finalize
  <2> QED
    BY <1>3, <1>7, <2>1, TxnSets
<1>9. TxnsInv'
  BY <1>1, <1>3, <1>5, <1>7, <1>8, OneTxnInv
<1>10. TreeInv'
  BY <1>1, <1>5 DEF WorkInv, TreeInv
<1>11. PICK then \in {"recover", "recovered", "inspect", "return"}, res \in Results :
         then = caller[p].then /\ res = caller[p].result
  BY CallerType DEF Caller
<1>12. /\ Steps(p) /\ SameCall(p) /\ caller'[p].pc = "clean" /\ caller'[p].txn = t /\ caller'[p].then = then
  BY <1>2, <1>3, <1>11, CleanThenFacts DEF Finalize
<1>13. then # "return" => caller[p].journal = NoJournal /\ caller[p].made = <<>>
  BY <1>1, <1>11 DEF WorkInv, PlaceInv
<1>14. PlaceInv(p)' /\ JournalInv(p)'
  BY <1>1, <1>3, <1>5, <1>7, <1>8, <1>12, <1>13 DEF PlaceInv, JournalInv, SameCall, Present, Owning, Fresh
<1>15. /\ content' \in [Paths -> Contents] /\ committed' \in [Paths -> Contents] /\ dirs' \subseteq Dirs
       /\ vouched' \subseteq Txns
  BY <1>1, <1>5 DEF WorkInv, WorkTypeOK
<1> QED
  BY <1>1, <1>3, <1>8, <1>9, <1>10, <1>12, <1>14, <1>15, StepInv

LEMMA CleanSomeInv ==
  ASSUME WorkInv, NEW p \in Callers, CleanSome(p)
  PROVE  WorkInv'
<1>1. UNCHANGED <<content, dirs, lock, caller, reader, built, committed, vouched, edits>> /\ caller[p].pc = "clean"
  BY DEF CleanSome, disk, history, budgets
<1>2. PICK t : t = caller[p].txn
  OBVIOUS
<1>3. /\ t \in Txns /\ Present(t) /\ txns[t] \in Txn /\ Inside(p) /\ (\A u \in Txns : u # t => ~Present(u))
      /\ caller[p].call \in Calls
  BY <1>1, <1>2, OwnTxn
<1>4. content = committed
  BY <1>1 DEF WorkInv, PlaceInv
<1>5. PICK x \in {[txns[t] EXCEPT !.record = "absent"], [txns[t] EXCEPT !.backup = NoBackup]} :
        txns' = [txns EXCEPT ![t] = x]
  BY <1>2 DEF CleanSome
<1>6. x \in Txn /\ x.kind = txns[t].kind /\ x.plan = txns[t].plan /\ x.record \in {txns[t].record, "absent"}
  <2>1. NoBackup \in [Index -> Contents] /\ "absent" \in Records
    BY FilesAssumption DEF NoBackup, Records
  <2> QED
    BY <1>3, <1>5, <2>1 DEF Txn
<1>7. txns' \in [Txns -> Txn] /\ txns'[t] = x /\ \A u \in Txns : u # t => txns'[u] = txns[u]
  BY <1>3, <1>5, <1>6, TxnSets
<1>8. txns[t].kind \in {"active", "done"}
  BY <1>3 DEF Present, Txn
<1>9. TxnsInv'
  <2>1. CASE txns[t].kind = "active"
    <3>1. ActiveInv(t)
      BY <1>3, <2>1, ActiveFacts DEF Active
    <3>2. ActiveInv(t)'
      <4>1. txns'[t].record # "absent" => Effective(txns[t].plan)
        BY <1>6, <1>7, <3>1 DEF ActiveInv
      <4> QED
        BY <1>1, <1>4, <1>6, <1>7, <3>1, <4>1, WholeActiveInv
    <3> QED
      BY <1>1, <1>3, <1>4, <1>6, <1>7, <2>1, <3>2, OneTxnInv
  <2>2. CASE txns[t].kind = "done"
    BY <1>1, <1>3, <1>4, <1>6, <1>7, <2>2, OneTxnInv
  <2> QED
    BY <1>8, <2>1, <2>2
<1>10. PlaceInv(p)' /\ JournalInv(p)'
  BY <1>1, <1>2, <1>3, <1>6, <1>7, <1>8 DEF WorkInv, PlaceInv, JournalInv, Present, Owning, Fresh
<1>11. /\ content' \in [Paths -> Contents] /\ committed' \in [Paths -> Contents] /\ dirs' \subseteq Dirs
       /\ vouched' \subseteq Txns /\ TreeInv' /\ Steps(p)
  BY <1>1 DEF WorkInv, WorkTypeOK, TreeInv, Steps
<1> QED
  BY <1>1, <1>3, <1>7, <1>9, <1>10, <1>11, StepInv

LEMMA CleanDoneInv ==
  ASSUME WorkInv, NEW p \in Callers, CleanDone(p)
  PROVE  WorkInv'
<1>1. UNCHANGED <<content, dirs, lock, reader, built, committed, vouched, edits>> /\ caller[p].pc = "clean"
  BY DEF CleanDone, disk, history, budgets
<1>2. PICK t : t = caller[p].txn
  OBVIOUS
<1>3. /\ t \in Txns /\ Inside(p) /\ (\A u \in Txns : u # t => ~Present(u)) /\ caller[p].call \in Calls
  BY <1>1, <1>2, OwnTxn
<1>4. content = committed
  BY <1>1 DEF WorkInv, PlaceInv
<1>5. NoDirectory \in Txn /\ NoDirectory.kind = "none"
  BY FilesAssumption DEF NoDirectory, Txn, NoBackup, Records
<1>6. txns' \in [Txns -> Txn] /\ txns'[t] = NoDirectory /\ \A u \in Txns : u # t => txns'[u] = txns[u]
  BY <1>2, <1>3, <1>5, TxnSets DEF CleanDone
<1>7. TxnsInv'
  BY <1>1, <1>3, <1>4, <1>5, <1>6, OneTxnInv
<1>8. PICK then \in {"recover", "recovered", "inspect", "return"}, res \in Results :
        then = caller[p].then /\ res = caller[p].result
  BY CallerType DEF Caller
<1>9. /\ Steps(p) /\ SameCall(p) /\ caller'[p].pc = then
  <2>1. then \in Phases
    BY <1>8 DEF Phases
  <2> QED
    BY <1>8, <2>1, GotoFacts DEF CleanDone
<1>10. then # "return" => caller[p].journal = NoJournal /\ caller[p].made = <<>>
  BY <1>1, <1>8 DEF WorkInv, PlaceInv
<1>11. \A u \in Txns : ~Present(u)'
  BY <1>3, <1>5, <1>6 DEF Present
<1>12. PlaceInv(p)'
  BY <1>1, <1>3, <1>8, <1>9, <1>10, <1>11 DEF PlaceInv, SameCall, Owning, Fresh, Present
<1>13. JournalInv(p)'
  BY <1>8, <1>9 DEF JournalInv
<1>14. /\ content' \in [Paths -> Contents] /\ committed' \in [Paths -> Contents] /\ dirs' \subseteq Dirs
       /\ vouched' \subseteq Txns /\ TreeInv'
  BY <1>1 DEF WorkInv, WorkTypeOK, TreeInv
<1> QED
  BY <1>1, <1>3, <1>6, <1>7, <1>8, <1>9, <1>12, <1>13, <1>14, StepInv

-----------------------------------------------------------------------------
(* Steps of the commit loop and of the rollback that change no file. *)

LEMMA CommittingPlace ==
  ASSUME WorkInv, NEW p \in Callers,
         caller[p].pc \in {"commit", "rollback"}, caller'[p].pc \in {"commit", "rollback"},
         caller'[p].call = caller[p].call, caller'[p].txn = caller[p].txn,
         txns'[caller[p].txn].kind = txns[caller[p].txn].kind,
         txns'[caller[p].txn].plan = txns[caller[p].txn].plan,
         txns'[caller[p].txn].record = txns[caller[p].txn].record
  PROVE  PlaceInv(p)'
<1>1. PlaceInv(p)
  BY DEF WorkInv
<1>2. /\ caller[p].call \in Calls /\ caller[p].txn \in Txns /\ txns[caller[p].txn].kind = "active"
      /\ txns[caller[p].txn].plan = caller[p].call.plan /\ txns[caller[p].txn].record = caller[p].call.gate
  BY <1>1 DEF PlaceInv, Owning
<1> QED
  BY <1>2 DEF PlaceInv, Owning, Fresh

LEMMA ToRollbackInv ==
  ASSUME WorkInv, NEW p \in Callers, caller[p].pc = "commit", NEW res \in Results, Goto(p, "rollback", res),
         UNCHANGED <<content, dirs, txns, lock, reader, built, committed, vouched, edits>>
  PROVE  WorkInv'
<1>1. Steps(p) /\ SameCall(p) /\ caller'[p].pc = "rollback" /\ caller'[p].txn = caller[p].txn
  BY GotoFacts DEF Phases
<1>2. PlaceInv(p)'
  BY <1>1, CommittingPlace DEF SameCall
<1>3. JournalInv(p)
  BY DEF WorkInv
<1>4. JournalInv(p)'
  BY <1>1, <1>3 DEF JournalInv, SameCall
<1> QED
  BY <1>1, <1>2, <1>4, LocalStepInv DEF Inside

LEMMA AssertTargetInv ==
  ASSUME WorkInv, NEW p \in Callers, AssertTarget(p)
  PROVE  WorkInv'
<1>1. PICK i \in Index : At(p, i) /\ Advance(p)
  BY DEF AssertTarget
<1>2. UNCHANGED <<content, dirs, txns, lock, reader, built, committed, vouched, edits>> /\ caller[p].pc = "commit"
  BY <1>1 DEF AssertTarget, At, disk, history, budgets
<1>3. PICK n : n = [caller[p] EXCEPT !.i = caller[p].i + 1]
  OBVIOUS
<1>4. n \in Caller
  <2>1. caller[p].i + 1 \in 0 .. (MaxChanges + 1)
    BY <1>1, IndexFacts DEF At, Index
  <2> QED
    BY <1>3, <2>1, CallerType DEF Caller
<1>5. /\ n.pc = caller[p].pc /\ n.txn = caller[p].txn /\ n.call = caller[p].call /\ n.journal = caller[p].journal
      /\ n.made = caller[p].made /\ n.rechecked = caller[p].rechecked
  BY <1>3, CallerType DEF Caller
<1>6. Steps(p) /\ caller'[p] = n
  <2>1. caller' = [caller EXCEPT ![p] = n]
    BY <1>1, <1>3 DEF Advance
  <2> QED
    BY <1>4, <2>1, SetsFacts
<1>7. PlaceInv(p)'
  BY <1>2, <1>5, <1>6, CommittingPlace
<1>8. JournalInv(p)
  BY DEF WorkInv
<1>9. JournalInv(p)'
  BY <1>2, <1>5, <1>6, <1>8 DEF JournalInv
<1> QED
  BY <1>2, <1>5, <1>6, <1>7, <1>9, LocalStepInv DEF Inside

LEMMA RecheckInv ==
  ASSUME WorkInv, NEW p \in Callers, Recheck(p)
  PROVE  WorkInv'
<1>1. UNCHANGED <<content, dirs, txns, lock, reader, built, committed, edits>> /\ caller[p].pc = "commit"
  BY DEF Recheck, Ready, At, disk, budgets
<1>2. PICK t : t = caller[p].txn
  OBVIOUS
<1>3. t \in Txns /\ Inside(p)
  BY <1>1, <1>2, OwnTxn DEF Owning
<1>4. CASE Goto(p, "rollback", "refused") /\ UNCHANGED vouched
  BY <1>1, <1>4, ToRollbackInv DEF Results
<1>5. CASE caller' = [caller EXCEPT ![p].rechecked = TRUE] /\ vouched' = vouched \cup {t}
  <2>1. PICK n : n = [caller[p] EXCEPT !.rechecked = TRUE]
    OBVIOUS
  <2>2. /\ n \in Caller /\ n.pc = caller[p].pc /\ n.txn = caller[p].txn /\ n.call = caller[p].call
        /\ n.journal = caller[p].journal /\ n.made = caller[p].made
    BY <2>1, CallerType DEF Caller
  <2>3. Steps(p) /\ caller'[p] = n
    <3>1. caller' = [caller EXCEPT ![p] = n]
      BY <1>5, <2>1
    <3> QED
      BY <2>2, <3>1, SetsFacts
  <2>4. vouched \subseteq vouched' /\ vouched' \subseteq Txns /\ t \in vouched'
    BY <1>3, <1>5 DEF WorkInv, WorkTypeOK
  <2>5. TxnsInv' /\ TreeInv'
    BY <1>1, <2>4, VouchedGrows
  <2>6. PlaceInv(p)'
    BY <1>1, <2>2, <2>3, CommittingPlace
  <2>7. JournalInv(p)
    BY DEF WorkInv
  <2>8. JournalInv(p)'
    BY <1>1, <1>2, <2>2, <2>3, <2>4, <2>7 DEF JournalInv
  <2>9. /\ content' \in [Paths -> Contents] /\ committed' \in [Paths -> Contents] /\ dirs' \subseteq Dirs
        /\ txns' \in [Txns -> Txn]
    BY <1>1 DEF WorkInv, WorkTypeOK
  <2> QED
    BY <1>1, <1>3, <2>2, <2>3, <2>4, <2>5, <2>6, <2>8, <2>9, StepInv
<1> QED
  BY <1>2, <1>4, <1>5 DEF Recheck

LEMMA VerifyFailsInv ==
  ASSUME WorkInv, NEW p \in Callers, VerifyFails(p)
  PROVE  WorkInv'
<1>1. /\ UNCHANGED <<content, dirs, txns, lock, reader, built, committed, vouched, edits>>
      /\ caller[p].pc = "commit" /\ Goto(p, "rollback", "changed")
  BY DEF VerifyFails, At, disk, history, budgets
<1> QED
  BY <1>1, ToRollbackInv DEF Results

LEMMA VerifyFinalInv ==
  ASSUME WorkInv, NEW p \in Callers, VerifyFinal(p)
  PROVE  WorkInv'
<1>1. UNCHANGED <<content, dirs, txns, lock, reader, built, committed, vouched, edits>> /\ caller[p].pc = "commit"
  BY DEF VerifyFinal, disk, history, budgets
<1>2. CASE Goto(p, "rollback", "changed")
  BY <1>1, <1>2, ToRollbackInv DEF Results
<1>3. CASE /\ Classify(PlanOf(p)) = "final"
           /\ caller' = [caller EXCEPT ![p].pc = "finalize", ![p].then = "return", ![p].result = "committed"]
  <2>1. PICK n : n = [caller[p] EXCEPT !.pc = "finalize", !.then = "return", !.result = "committed"]
    OBVIOUS
  <2>2. /\ n \in Caller /\ n.pc = "finalize" /\ n.txn = caller[p].txn /\ n.call = caller[p].call /\ n.then = "return"
    <3>1. caller[p] \in Caller
      BY CallerType
    <3>2. PICK c : c = caller[p]
      OBVIOUS
    <3>3. PICK m : m = [c EXCEPT !.pc = "finalize", !.result = "committed"]
      OBVIOUS
    <3>4. m \in Caller /\ m.pc = "finalize" /\ m.txn = c.txn /\ m.call = c.call
      BY <3>1, <3>2, <3>3 DEF Caller, Phases, Results
    <3>5. n = [m EXCEPT !.then = "return"]
      BY <2>1, <3>1, <3>2, <3>3 DEF Caller
    <3> QED
      BY <3>2, <3>4, <3>5 DEF Caller
  <2>3. Steps(p) /\ caller'[p] = n
    <3>1. caller' = [caller EXCEPT ![p] = n]
      BY <1>3, <2>1
    <3> QED
      BY <2>2, <3>1, SetsFacts
  <2>4. \A i \in DOMAIN PlanOf(p).changes : HoldsFinal(PlanOf(p).changes[i])
    BY <1>3, ClassifyFacts
  <2>5. /\ caller[p].call \in Calls /\ caller[p].txn \in Txns /\ txns[caller[p].txn].kind = "active"
        /\ txns[caller[p].txn].plan = caller[p].call.plan /\ txns[caller[p].txn].record = caller[p].call.gate
    BY <1>1 DEF WorkInv, PlaceInv, Owning
  <2>6. PlaceInv(p)' /\ JournalInv(p)'
    BY <1>1, <2>2, <2>3, <2>4, <2>5 DEF PlaceInv, JournalInv, Owning, Fresh, PlanOf, HoldsFinal
  <2> QED
    BY <1>1, <2>2, <2>3, <2>6, LocalStepInv DEF Inside
<1> QED
  BY <1>2, <1>3 DEF VerifyFinal

LEMMA RollbackDoneInv ==
  ASSUME WorkInv, NEW p \in Callers, RollbackDone(p)
  PROVE  WorkInv'
<1>1. /\ UNCHANGED <<content, dirs, txns, lock, reader, built, committed, vouched, edits>>
      /\ caller[p].pc = "rollback" /\ caller[p].result \in Results
  BY CallerType DEF RollbackDone, disk, history, budgets, Caller
<1>2. caller[p].txn \in Active /\ txns[caller[p].txn].plan = PlanOf(p) /\ Inside(p) /\ caller[p].txn \in Txns
      /\ Present(caller[p].txn)
  BY <1>1, OwnTxn DEF Owning
<1>3. CASE /\ \A i \in DOMAIN PlanOf(p).changes : HoldsBefore(PlanOf(p).changes[i])
           /\ CleanThen(p, caller[p].txn, "return", caller[p].result)
  <2>1. content = committed
    BY <1>2, <1>3, BeforeIsCommitted
  <2> QED
    BY <1>1, <1>2, <1>3, <2>1, ToCleanInv
<1>4. CASE Goto(p, "return", caller[p].result)
  BY <1>1, <1>2, <1>4, ToReturnInv
<1> QED
  BY <1>3, <1>4 DEF RollbackDone

LEMMA FaultInv ==
  ASSUME WorkInv, NEW p \in Callers, Fault(p)
  PROVE  WorkInv'
<1>1. /\ UNCHANGED <<content, dirs, txns, lock, reader, built, committed, vouched, edits>>
      /\ Inside(p)
  BY DEF Fault, disk, history, Inside
<1>2. CASE \E res \in Results : Goto(p, "return", res)
  BY <1>1, <1>2, ToReturnInv
<1>3. CASE caller[p].pc \in {"stage", "record", "write", "guard"} /\ CleanThen(p, caller[p].txn, "return", "failed")
  <2>1. caller[p].txn \in Txns /\ Present(caller[p].txn) /\ content = committed
    BY <1>3, OwnTxn DEF Owning, WorkInv, PlaceInv
  <2> QED
    BY <1>1, <1>3, <2>1, ToCleanInv DEF Results
<1>4. CASE caller[p].pc = "commit" /\ Goto(p, "rollback", "failed")
  BY <1>1, <1>4, ToRollbackInv DEF Results
<1>5. (IF caller[p].result = "none" THEN "recovery" ELSE caller[p].result) \in Results
  BY CallerType DEF Caller, Results
<1>6. "recovery" \in Results /\ "failed" \in Results
  BY DEF Results
<1> QED
  BY <1>2, <1>3, <1>4, <1>5, <1>6 DEF Fault

-----------------------------------------------------------------------------
(* Steps that change one target. *)

(* The transaction t is as before but for the backup of target i. *)
OnlyBackup(t, i) ==
  /\ txns' \in [Txns -> Txn]
  /\ txns'[t].kind = txns[t].kind /\ txns'[t].plan = txns[t].plan /\ txns'[t].record = txns[t].record
  /\ \A j \in Index : j # i => txns'[t].backup[j] = txns[t].backup[j]
  /\ \A u \in Txns : u # t => txns'[u] = txns[u]

LEMMA BackupSets ==
  ASSUME WorkInv, NEW t \in Txns, NEW i \in Index, NEW b \in Contents, txns' = [txns EXCEPT ![t].backup[i] = b]
  PROVE  OnlyBackup(t, i) /\ txns'[t].backup[i] = b
<1>1. txns \in [Txns -> Txn] /\ txns[t] \in Txn
  BY DEF WorkInv, WorkTypeOK
<1>2. PICK back : back = [txns[t].backup EXCEPT ![i] = b]
  OBVIOUS
<1>3. txns[t].backup \in [Index -> Contents]
  BY <1>1 DEF Txn
<1>4. back \in [Index -> Contents] /\ back[i] = b /\ \A j \in Index : j # i => back[j] = txns[t].backup[j]
  BY <1>2, <1>3
<1>5. PICK x : x = [txns[t] EXCEPT !.backup = back]
  OBVIOUS
<1>6. /\ x \in Txn /\ x.backup = back
      /\ x.kind = txns[t].kind /\ x.plan = txns[t].plan /\ x.record = txns[t].record
  BY <1>1, <1>4, <1>5 DEF Txn
<1>7. txns' = [txns EXCEPT ![t] = x]
  BY <1>2, <1>5
<1>8. txns' \in [Txns -> Txn] /\ txns'[t] = x /\ \A u \in Txns : u # t => txns'[u] = txns[u]
  BY <1>6, <1>7, TxnSets
<1> QED
  BY <1>4, <1>6, <1>8 DEF OnlyBackup

LEMMA BackupStays ==
  ASSUME WorkInv, NEW t, NEW i, txns' = txns
  PROVE  OnlyBackup(t, i)
  BY DEF OnlyBackup, WorkInv, WorkTypeOK

(* The target of change i gets content v: its content before the plan, or   *)
(* one the transaction leads to while that content is in the backup.        *)
LEMMA TargetInv ==
  ASSUME WorkInv, NEW p \in Callers, caller[p].pc \in {"commit", "rollback", "undo"},
         NEW i \in DOMAIN PlanOf(p).changes, NEW v \in Contents,
         content' = [content EXCEPT ![PlanOf(p).changes[i].path] = v],
         OnlyBackup(caller[p].txn, i),
         UNCHANGED <<dirs, reader, committed, vouched>>,
         committed[PlanOf(p).changes[i].path] = PlanOf(p).changes[i].before,
         \/ v = PlanOf(p).changes[i].before
         \/ /\ txns'[caller[p].txn].backup[i] = PlanOf(p).changes[i].before
            /\ v \in {Missing, Final(PlanOf(p).changes[i])},
         caller[p].txn \in vouched \/ GateOf(p) = NoGate,
         v # Missing => Range(Above[PlanOf(p).changes[i].path]) \subseteq dirs
  PROVE  /\ content' \in [Paths -> Contents] /\ committed' \in [Paths -> Contents] /\ dirs' \subseteq Dirs
         /\ txns' \in [Txns -> Txn] /\ vouched' \subseteq Txns /\ TxnsInv' /\ TreeInv'
<1>1. PICK t, plan, ch : t = caller[p].txn /\ plan = PlanOf(p) /\ ch = plan.changes[i]
  OBVIOUS
<1>2. /\ t \in Txns /\ t \in Active /\ txns[t] \in Txn /\ (\A u \in Txns : u # t => ~Present(u))
      /\ txns[t].plan = plan /\ ActiveInv(t) /\ plan \in Plans /\ Inside(p) /\ txns[t].kind = "active"
  BY <1>1, OwnTxn DEF Owning, Active
<1>3. txns[t].record = GateOf(p) /\ GateOf(p) \notin {"absent", "torn"}
  <2>1. PlaceInv(p)
    BY DEF WorkInv
  <2> QED
    BY <1>1, <2>1, OwnTxn DEF PlaceInv, GateOf, Owning
<1>4. /\ ch.path \in Paths /\ ch.path \in Targets(plan) /\ i \in Index
      /\ \A j \in DOMAIN plan.changes : plan.changes[j].path = ch.path => j = i
  BY <1>1, <1>2, ChangeFacts
<1>5. /\ content' \in [Paths -> Contents] /\ committed' \in [Paths -> Contents] /\ dirs' \subseteq Dirs
      /\ vouched' \subseteq Txns
      /\ content'[ch.path] = v /\ \A f \in Paths : f # ch.path => content'[f] = content[f]
  BY <1>1, <1>4 DEF WorkInv, WorkTypeOK
<1>6. ASSUME NEW j \in DOMAIN plan.changes PROVE Kept(t, j)'
  <2>1. txns'[t].plan = plan
    BY <1>1, <1>2 DEF OnlyBackup
  <2>2. CASE j = i
    <3>1. /\ committed'[ch.path] = ch.before
          /\ \/ content'[ch.path] = ch.before
             \/ txns'[t].backup[j] = ch.before /\ content'[ch.path] \in {Missing, Final(ch)}
      BY <1>1, <1>5, <2>2
    <3> QED
      BY <1>1, <2>1, <2>2, <3>1 DEF Kept
  <2>3. CASE j # i
    <3>1. plan.changes[j].path \in Paths /\ plan.changes[j].path # ch.path /\ j \in Index
      BY <1>2, <1>4, <2>3, ChangeFacts
    <3>2. content'[plan.changes[j].path] = content[plan.changes[j].path]
          /\ txns'[t].backup[j] = txns[t].backup[j]
      BY <1>1, <1>5, <2>3, <3>1 DEF OnlyBackup
    <3>3. Kept(t, j)
      BY <1>2 DEF ActiveInv
    <3> QED
      BY <1>1, <1>2, <2>1, <3>2, <3>3 DEF Kept
  <2> QED
    BY <2>2, <2>3
<1>7. ActiveInv(t)'
  <2>1. txns'[t].plan = plan /\ txns'[t].record = GateOf(p)
    BY <1>1, <1>2, <1>3 DEF OnlyBackup
  <2>2. \A f \in Paths \ Targets(plan) : content'[f] = committed'[f]
    BY <1>2, <1>4, <1>5 DEF ActiveInv
  <2>3. Effective(plan)
    BY <1>2, <1>3 DEF ActiveInv
  <2>4. GateOf(p) # NoGate => t \in vouched'
    BY <1>1
  <2> QED
    BY <1>2, <1>3, <1>6, <2>1, <2>2, <2>3, <2>4 DEF ActiveInv
<1>8. TxnsInv'
  <2>1. /\ \A u \in Txns : u # t => txns'[u] = txns[u] /\ ~Present(u)
        /\ txns'[t].kind = "active"
    BY <1>1, <1>2 DEF OnlyBackup
  <2> QED
    BY <1>2, <1>7, <2>1, OneTxnInv
<1>9. TreeInv'
  <2>1. TreeInv
    BY DEF WorkInv
  <2> QED
    BY <1>1, <1>4, <1>5, <2>1 DEF TreeInv
<1> QED
  BY <1>5, <1>8, <1>9 DEF OnlyBackup

(* Recovery. *)
LEMMA UndoInv ==
  ASSUME WorkInv, NEW p \in Callers, UndoRemove(p) \/ UndoRestore(p)
  PROVE  WorkInv'
<1>1. /\ UNCHANGED <<dirs, lock, caller, reader, built, committed, vouched, edits>>
      /\ caller[p].pc = "undo" /\ ToUndo(p) # {}
  BY DEF UndoRemove, UndoRestore, history, budgets
<1>2. PICK t, plan, i, ch : t = caller[p].txn /\ plan = PlanOf(p) /\ i = Max(ToUndo(p)) /\ ch = plan.changes[i]
  OBVIOUS
<1>3. /\ t \in Txns /\ txns[t] \in Txn /\ txns[t].plan = plan /\ ActiveInv(t) /\ plan \in Plans /\ Inside(p)
      /\ caller[p].call \in Calls /\ GateOf(p) \in Gates
  BY <1>1, <1>2, OwnTxn DEF Owning
<1>4. i \in DOMAIN plan.changes /\ ~HoldsBefore(ch)
  <2>1. ToUndo(p) \subseteq 1 .. Len(plan.changes) /\ Len(plan.changes) \in Nat
    BY <1>2, <1>3, IndexFacts DEF ToUndo
  <2>2. i \in ToUndo(p)
    BY <1>1, <1>2, <2>1, MaxIsMember
  <2> QED
    BY <1>2, <2>2 DEF ToUndo
<1>5. PlaceInv(p) /\ txns[t].record = GateOf(p)
  BY <1>1, <1>2 DEF WorkInv, PlaceInv, GateOf
<1>6. committed[ch.path] = ch.before /\ content[ch.path] # ch.before
  BY <1>1, <1>2, <1>4, <1>5 DEF PlaceInv, PlanOf, HoldsBefore
<1>7. t \in vouched \/ GateOf(p) = NoGate
  BY <1>3, <1>5, <1>6 DEF ActiveInv
<1>8. ch.path \in Paths /\ ch.before \in Contents /\ Missing \in Contents /\ i \in Index
  BY <1>2, <1>3, <1>4, ChangeFacts, FilesAssumption
<1>9. Kept(t, i)
  BY <1>3, <1>4 DEF ActiveInv
<1>10. /\ content' \in [Paths -> Contents] /\ committed' \in [Paths -> Contents] /\ dirs' \subseteq Dirs
       /\ txns' \in [Txns -> Txn] /\ vouched' \subseteq Txns /\ TxnsInv' /\ TreeInv'
       /\ OnlyBackup(t, i)
  <2>1. CASE UndoRemove(p)
    <3>1. txns' = txns /\ content' = [content EXCEPT ![ch.path] = Missing]
      BY <1>2, <2>1 DEF UndoRemove
    <3>2. OnlyBackup(t, i) /\ txns'[t].backup[i] = ch.before
      BY <1>2, <1>3, <1>6, <1>9, <3>1, BackupStays DEF Kept
    <3> QED
      BY <1>1, <1>2, <1>4, <1>6, <1>7, <1>8, <3>1, <3>2, TargetInv
  <2>2. CASE UndoRestore(p)
    <3>1. /\ content' = [content EXCEPT ![ch.path] = ch.before]
          /\ txns' = [txns EXCEPT ![t].backup[i] = Missing]
      BY <1>2, <2>2 DEF UndoRestore
    <3>2. OnlyBackup(t, i)
      BY <1>3, <1>8, <3>1, BackupSets
    <3>3. ch.before # Missing => Range(Above[ch.path]) \subseteq dirs
      BY <1>6, <1>8 DEF WorkInv, TreeInv
    <3> QED
      BY <1>1, <1>2, <1>4, <1>6, <1>7, <1>8, <3>1, <3>2, <3>3, TargetInv
  <2> QED
    BY <2>1, <2>2
<1>11. PlaceInv(p)'
  <2>1. txns'[t].kind = txns[t].kind /\ txns'[t].plan = txns[t].plan /\ txns'[t].record = txns[t].record
    BY <1>10 DEF OnlyBackup
  <2> QED
    BY <1>1, <1>2, <1>5, <2>1 DEF PlaceInv, Owning, Fresh
<1>12. JournalInv(p)' /\ Steps(p) /\ caller'[p].pc # "idle"
  BY <1>1, CallerType DEF JournalInv, Steps
<1> QED
  BY <1>1, <1>3, <1>10, <1>11, <1>12, StepInv

(* One entry of the journal changes. *)
LEMMA JournalStep ==
  ASSUME WorkInv, NEW p \in Callers, caller[p].pc \in {"commit", "rollback"}, caller'[p].pc = caller[p].pc,
         caller'[p].call = caller[p].call, caller'[p].txn = caller[p].txn, caller'[p].made = caller[p].made,
         caller'[p].rechecked = caller[p].rechecked, NEW i \in Index, OnlyBackup(caller[p].txn, i),
         committed' = committed, vouched' = vouched,
         \A j \in Index : j # i => caller'[p].journal[j] = caller[p].journal[j],
         caller'[p].journal[i] # {} =>
           /\ i \in DOMAIN PlanOf(p).changes
           /\ txns'[caller[p].txn].backup[i] = PlanOf(p).changes[i].before
           /\ committed[PlanOf(p).changes[i].path] = PlanOf(p).changes[i].before
           /\ caller[p].txn \in vouched \/ GateOf(p) = NoGate,
         "moved" \in caller'[p].journal[i] => PlanOf(p).changes[i].before # Missing,
         caller[p].pc = "commit" => caller'[p].journal[i] # {}
  PROVE  PlaceInv(p)' /\ JournalInv(p)'
<1>1. PlaceInv(p)'
  BY CommittingPlace DEF OnlyBackup
<1>2. JournalInv(p)
  BY DEF WorkInv
<1>3. \A j \in Index : j # i => txns'[caller[p].txn].backup[j] = txns[caller[p].txn].backup[j]
  BY DEF OnlyBackup
<1>4. \A j \in Index : caller'[p].journal[j] # {} =>
         /\ j \in DOMAIN caller[p].call.plan.changes
         /\ txns'[caller[p].txn].backup[j] = caller[p].call.plan.changes[j].before
         /\ committed[caller[p].call.plan.changes[j].path] = caller[p].call.plan.changes[j].before
         /\ caller[p].txn \in vouched \/ caller[p].call.gate = NoGate
  BY <1>2, <1>3 DEF JournalInv, PlanOf, GateOf
<1>5. \A j \in Index : "moved" \in caller'[p].journal[j] => caller[p].call.plan.changes[j].before # Missing
  BY <1>2 DEF JournalInv, PlanOf
<1>6. caller[p].pc = "commit" => \A j \in Index : caller'[p].journal[j] = {} => txns'[caller[p].txn].backup[j] = Missing
  BY <1>2, <1>3 DEF JournalInv
<1>7. /\ caller[p].pc = "commit" /\ caller[p].rechecked => caller[p].txn \in vouched \/ caller[p].call.gate = NoGate
      /\ \A k \in DOMAIN caller[p].made, f \in Paths : caller[p].made[k] \in Range(Above[f]) => committed[f] = Missing
  BY <1>2 DEF JournalInv
<1> QED
  BY <1>1, <1>4, <1>5, <1>6, <1>7 DEF JournalInv

(* The caller notes that it did something to target i, and may go on. *)
LEMMA JournalSets ==
  ASSUME WorkInv, NEW p \in Callers, NEW i \in Index, NEW done \in {"moved", "installed"},
         NEW k \in 0 .. (MaxChanges + 1),
         caller' = [caller EXCEPT ![p].journal = Journal(p, i, done), ![p].i = k]
  PROVE  /\ Steps(p)
         /\ caller'[p].pc = caller[p].pc /\ caller'[p].call = caller[p].call /\ caller'[p].txn = caller[p].txn
         /\ caller'[p].made = caller[p].made /\ caller'[p].rechecked = caller[p].rechecked
         /\ caller'[p].result = caller[p].result
         /\ caller'[p].journal[i] = caller[p].journal[i] \cup {done}
         /\ \A j \in Index : j # i => caller'[p].journal[j] = caller[p].journal[j]
<1>1. PICK js : js = Journal(p, i, done)
  OBVIOUS
<1>2. caller[p].journal \in [Index -> SUBSET {"moved", "installed"}]
  BY CallerType DEF Caller
<1>3. /\ js \in [Index -> SUBSET {"moved", "installed"}] /\ js[i] = caller[p].journal[i] \cup {done}
      /\ \A j \in Index : j # i => js[j] = caller[p].journal[j]
  BY <1>1, <1>2 DEF Journal
<1>4. PICK n : n = [caller[p] EXCEPT !.journal = js, !.i = k]
  OBVIOUS
<1>5. /\ n \in Caller /\ n.journal = js /\ n.pc = caller[p].pc /\ n.call = caller[p].call /\ n.txn = caller[p].txn
      /\ n.made = caller[p].made /\ n.rechecked = caller[p].rechecked /\ n.result = caller[p].result
  <2>1. PICK m : m = [caller[p] EXCEPT !.journal = js]
    OBVIOUS
  <2>2. m \in Caller
    <3>1. js \in [Index -> SUBSET {"moved", "installed"}]
      BY <1>3
    <3>2. caller[p] \in Caller
      BY CallerType
    <3> QED
      BY <2>1, <3>1, <3>2 DEF Caller
  <2>3. /\ m.journal = js /\ m.pc = caller[p].pc /\ m.call = caller[p].call /\ m.txn = caller[p].txn
        /\ m.made = caller[p].made /\ m.rechecked = caller[p].rechecked /\ m.result = caller[p].result
    BY <2>1, CallerType DEF Caller
  <2>4. n = [m EXCEPT !.i = k]
    BY <1>4, <2>1
  <2> QED
    BY <2>2, <2>3, <2>4 DEF Caller
<1>6. caller' = [caller EXCEPT ![p] = n]
  BY <1>1, <1>4
<1>7. Steps(p) /\ caller'[p] = n
  BY <1>5, <1>6, SetsFacts
<1> QED
  BY <1>3, <1>5, <1>7

(* A caller at target i in the commit loop. *)
LEMMA AtFacts ==
  ASSUME WorkInv, NEW p \in Callers, NEW i \in Index, At(p, i)
  PROVE  /\ caller[p].pc = "commit" /\ Inside(p) /\ PlanOf(p) \in Plans /\ i \in DOMAIN PlanOf(p).changes
         /\ caller[p].i = i /\ i \in 0 .. (MaxChanges + 1) /\ i + 1 \in 0 .. (MaxChanges + 1)
         /\ caller[p].txn \in Txns /\ ActiveInv(caller[p].txn) /\ txns[caller[p].txn].plan = PlanOf(p)
         /\ txns[caller[p].txn] \in Txn
<1>1. caller[p].pc = "commit" /\ caller[p].i = i /\ i \in DOMAIN PlanOf(p).changes
  BY DEF At
<1>2. i \in 0 .. (MaxChanges + 1) /\ i + 1 \in 0 .. (MaxChanges + 1)
  BY IndexFacts DEF Index
<1> QED
  BY <1>1, <1>2, OwnTxn DEF Owning

(* A target that is as planned is as it was committed. *)
LEMMA ReadyFacts ==
  ASSUME WorkInv, NEW p \in Callers, NEW i \in Index, Ready(p, i), caller[p].rechecked
  PROVE  LET ch == PlanOf(p).changes[i] IN
         /\ At(p, i) /\ content[ch.path] = ch.before /\ committed[ch.path] = ch.before
         /\ caller[p].journal[i] = {} /\ txns[caller[p].txn].backup[i] = Missing
         /\ caller[p].txn \in vouched \/ GateOf(p) = NoGate
         /\ Range(Above[ch.path]) \subseteq dirs
<1>1. PICK ch : ch = PlanOf(p).changes[i]
  OBVIOUS
<1>2. /\ At(p, i) /\ caller[p].journal[i] = {} /\ content[ch.path] = ch.before /\ MissingParents(ch.path) = {}
  BY <1>1 DEF Ready, Untouched, HoldsBefore
<1>3. /\ caller[p].pc = "commit" /\ PlanOf(p) \in Plans /\ i \in DOMAIN PlanOf(p).changes
      /\ ActiveInv(caller[p].txn) /\ txns[caller[p].txn].plan = PlanOf(p)
  BY <1>2, AtFacts
<1>4. JournalInv(p)
  BY DEF WorkInv
<1>5. txns[caller[p].txn].backup[i] = Missing /\ (caller[p].txn \in vouched \/ GateOf(p) = NoGate)
  BY <1>2, <1>3, <1>4 DEF JournalInv, GateOf
<1>6. Kept(caller[p].txn, i) /\ ch.before # Foreign
  BY <1>1, <1>3, ChangeFacts DEF ActiveInv
<1>7. committed[ch.path] = ch.before
  BY <1>1, <1>2, <1>3, <1>6 DEF Kept
<1>8. Range(Above[ch.path]) \subseteq dirs
  BY <1>2 DEF MissingParents, Range
<1> QED
  BY <1>1, <1>2, <1>5, <1>7, <1>8

LEMMA BackupInv ==
  ASSUME WorkInv, NEW p \in Callers, Backup(p)
  PROVE  WorkInv'
<1>1. PICK i \in Index : LET ch == PlanOf(p).changes[i] IN
        /\ Ready(p, i) /\ caller[p].rechecked /\ ch.before # Missing
        /\ content' = [content EXCEPT ![ch.path] = Missing]
        /\ txns' = [txns EXCEPT ![caller[p].txn].backup[i] = content[ch.path]]
        /\ caller' = [caller EXCEPT ![p].journal = Journal(p, i, "moved"),
                                    ![p].i = IF ch.op = "delete" THEN @ + 1 ELSE @]
        /\ UNCHANGED <<dirs, lock, reader, built, history, budgets>>
  BY DEF Backup
<1>2. PICK ch, t : ch = PlanOf(p).changes[i] /\ t = caller[p].txn
  OBVIOUS
<1>3. /\ At(p, i) /\ content[ch.path] = ch.before /\ committed[ch.path] = ch.before
      /\ t \in vouched \/ GateOf(p) = NoGate
  BY <1>1, <1>2, ReadyFacts
<1>4. /\ caller[p].pc = "commit" /\ Inside(p) /\ i \in DOMAIN PlanOf(p).changes /\ t \in Txns
      /\ caller[p].i = i /\ i \in 0 .. (MaxChanges + 1) /\ i + 1 \in 0 .. (MaxChanges + 1)
      /\ PlanOf(p) \in Plans
  BY <1>2, <1>3, AtFacts
<1>5. ch.before \in Contents /\ Missing \in Contents
  BY <1>2, <1>4, ChangeFacts, FilesAssumption
<1>6. OnlyBackup(t, i) /\ txns'[t].backup[i] = ch.before
  <2>1. txns[t] \in Txn
    BY <1>4 DEF WorkInv, WorkTypeOK
  <2>2. PICK back : back = [txns[t].backup EXCEPT ![i] = ch.before]
    OBVIOUS
  <2>3. txns[t].backup \in [Index -> Contents]
    BY <2>1 DEF Txn
  <2>4. /\ back \in [Index -> Contents] /\ back[i] = ch.before
        /\ \A j \in Index : j # i => back[j] = txns[t].backup[j]
    BY <1>5, <2>2, <2>3
  <2>5. PICK x : x = [txns[t] EXCEPT !.backup = back]
    OBVIOUS
  <2>6. /\ x \in Txn /\ x.backup = back
        /\ x.kind = txns[t].kind /\ x.plan = txns[t].plan /\ x.record = txns[t].record
    BY <2>1, <2>4, <2>5 DEF Txn
  <2>7. txns' = [txns EXCEPT ![t] = x]
    BY <1>1, <1>2, <1>3, <2>2, <2>5
  <2>8. txns' \in [Txns -> Txn] /\ txns'[t] = x /\ \A u \in Txns : u # t => txns'[u] = txns[u]
    BY <1>4, <2>6, <2>7, TxnSets
  <2> QED
    BY <2>4, <2>6, <2>8 DEF OnlyBackup
<1>7. UNCHANGED <<dirs, lock, reader, built, committed, vouched, edits>>
  BY <1>1 DEF history, budgets
<1>8. /\ content' \in [Paths -> Contents] /\ committed' \in [Paths -> Contents] /\ dirs' \subseteq Dirs
      /\ txns' \in [Txns -> Txn] /\ vouched' \subseteq Txns /\ TxnsInv' /\ TreeInv'
  BY <1>1, <1>2, <1>3, <1>4, <1>5, <1>6, <1>7, TargetInv
<1>9. PICK k \in 0 .. (MaxChanges + 1) : k = IF ch.op = "delete" THEN caller[p].i + 1 ELSE caller[p].i
  BY <1>4
<1>10. caller' = [caller EXCEPT ![p].journal = Journal(p, i, "moved"), ![p].i = k]
  BY <1>1, <1>2, <1>9
<1>11. /\ Steps(p)
       /\ caller'[p].pc = caller[p].pc /\ caller'[p].call = caller[p].call /\ caller'[p].txn = caller[p].txn
       /\ caller'[p].made = caller[p].made /\ caller'[p].rechecked = caller[p].rechecked
       /\ caller'[p].journal[i] = caller[p].journal[i] \cup {"moved"}
       /\ \A j \in Index : j # i => caller'[p].journal[j] = caller[p].journal[j]
  BY <1>10, JournalSets
<1>12. PlaceInv(p)' /\ JournalInv(p)'
  <2>1. PlanOf(p).changes[i].before # Missing /\ caller'[p].journal[i] # {} /\ caller[p].pc \in {"commit", "rollback"}
    BY <1>1, <1>4, <1>11
  <2> QED
    BY <1>2, <1>3, <1>4, <1>6, <1>7, <1>11, <2>1, JournalStep
<1> QED
  BY <1>4, <1>7, <1>8, <1>11, <1>12, StepInv

LEMMA InstallInv ==
  ASSUME WorkInv, NEW p \in Callers, Install(p)
  PROVE  WorkInv'
<1>1. PICK i \in Index : LET ch == PlanOf(p).changes[i] IN
        /\ \/ Ready(p, i) /\ caller[p].rechecked /\ ch.before = Missing
           \/ At(p, i) /\ caller[p].journal[i] = {"moved"}
        /\ content' = [content EXCEPT ![ch.path] = ch.after]
        /\ caller' = [caller EXCEPT ![p].journal = Journal(p, i, "installed"), ![p].i = @ + 1]
        /\ UNCHANGED <<dirs, txns, lock, reader, built, history, budgets>>
  BY DEF Install
<1>2. PICK ch, t : ch = PlanOf(p).changes[i] /\ t = caller[p].txn
  OBVIOUS
<1>3. At(p, i)
  BY <1>1 DEF Ready
<1>4. /\ caller[p].pc = "commit" /\ Inside(p) /\ i \in DOMAIN PlanOf(p).changes /\ t \in Txns
      /\ caller[p].i = i /\ i + 1 \in 0 .. (MaxChanges + 1) /\ PlanOf(p) \in Plans
  BY <1>2, <1>3, AtFacts
<1>5. ch.after \in Contents /\ ch.after \in {Missing, Final(ch)} /\ ch.path \in Paths
  <2>1. ch.op \in {"create", "update"} <=> ch.after # Missing
    BY <1>2, <1>4, PlansAssumption DEF Valid
  <2> QED
    BY <1>2, <1>4, <2>1, ChangeFacts
<1>6. /\ committed[ch.path] = ch.before /\ txns[t].backup[i] = ch.before
      /\ t \in vouched \/ GateOf(p) = NoGate
      /\ ch.after # Missing => Range(Above[ch.path]) \subseteq dirs
      /\ "moved" \in caller[p].journal[i] => ch.before # Missing
  <2>1. CASE Ready(p, i) /\ caller[p].rechecked /\ ch.before = Missing
    BY <1>2, <2>1, ReadyFacts
  <2>2. CASE caller[p].journal[i] = {"moved"}
    <3>1. JournalInv(p) /\ TreeInv
      BY DEF WorkInv
    <3>2. /\ committed[ch.path] = ch.before /\ txns[t].backup[i] = ch.before
          /\ t \in vouched \/ GateOf(p) = NoGate
          /\ ch.before # Missing
      BY <1>2, <1>4, <2>2, <3>1 DEF JournalInv, PlanOf, GateOf
    <3> QED
      BY <1>5, <3>1, <3>2 DEF TreeInv
  <2> QED
    BY <1>1, <1>2, <2>1, <2>2
<1>7. OnlyBackup(t, i) /\ txns'[t].backup[i] = ch.before
  BY <1>1, <1>6, BackupStays
<1>8. UNCHANGED <<dirs, lock, reader, built, committed, vouched, edits>>
  BY <1>1 DEF history, budgets
<1>9. /\ content' \in [Paths -> Contents] /\ committed' \in [Paths -> Contents] /\ dirs' \subseteq Dirs
      /\ txns' \in [Txns -> Txn] /\ vouched' \subseteq Txns /\ TxnsInv' /\ TreeInv'
  BY <1>1, <1>2, <1>4, <1>5, <1>6, <1>7, <1>8, TargetInv
<1>10. caller' = [caller EXCEPT ![p].journal = Journal(p, i, "installed"), ![p].i = i + 1]
  BY <1>1, <1>4
<1>11. /\ Steps(p)
       /\ caller'[p].pc = caller[p].pc /\ caller'[p].call = caller[p].call /\ caller'[p].txn = caller[p].txn
       /\ caller'[p].made = caller[p].made /\ caller'[p].rechecked = caller[p].rechecked
       /\ caller'[p].journal[i] = caller[p].journal[i] \cup {"installed"}
       /\ \A j \in Index : j # i => caller'[p].journal[j] = caller[p].journal[j]
  BY ZenonT(60), <1>4, <1>10, JournalSets
<1>12. PlaceInv(p)' /\ JournalInv(p)'
  BY <1>1, <1>2, <1>4, <1>6, <1>7, <1>8, <1>11, JournalStep
<1> QED
  BY <1>4, <1>8, <1>9, <1>11, <1>12, StepInv

(* One attempt of the rollback. *)
LEMMA UndoneFacts ==
  ASSUME WorkInv, NEW p \in Callers, NEW i \in Index, NEW done \in {"moved", "installed"}, NEW fails \in BOOLEAN,
         Undone(p, i, done, fails)
  PROVE  /\ Steps(p)
         /\ caller'[p].pc = caller[p].pc /\ caller'[p].call = caller[p].call /\ caller'[p].txn = caller[p].txn
         /\ caller'[p].made = caller[p].made /\ caller'[p].rechecked = caller[p].rechecked
         /\ caller'[p].result = caller[p].result
         /\ caller'[p].journal[i] = caller[p].journal[i] \ {done}
         /\ \A j \in Index : j # i => caller'[p].journal[j] = caller[p].journal[j]
<1>1. PICK js : js = [caller[p].journal EXCEPT ![i] = caller[p].journal[i] \ {done}]
  OBVIOUS
<1>2. caller[p] \in Caller
  BY CallerType
<1>3. caller[p].journal \in [Index -> SUBSET {"moved", "installed"}] /\ caller[p].failures \in BOOLEAN
  BY <1>2 DEF Caller
<1>4. /\ js \in [Index -> SUBSET {"moved", "installed"}] /\ js[i] = caller[p].journal[i] \ {done}
      /\ \A j \in Index : j # i => js[j] = caller[p].journal[j]
  BY <1>1, <1>3
<1>5. PICK fl \in BOOLEAN : fl = (caller[p].failures \/ fails)
  OBVIOUS
<1>6. PICK m : m = [caller[p] EXCEPT !.journal = js]
  OBVIOUS
<1>7. m \in Caller
  <2>1. js \in [Index -> SUBSET {"moved", "installed"}]
    BY <1>4
  <2> QED
    BY <1>2, <1>6, <2>1 DEF Caller
<1>8. /\ m.journal = js /\ m.pc = caller[p].pc /\ m.call = caller[p].call /\ m.txn = caller[p].txn
      /\ m.made = caller[p].made /\ m.rechecked = caller[p].rechecked /\ m.result = caller[p].result
  BY <1>2, <1>6 DEF Caller
<1>9. PICK n : n = [m EXCEPT !.failures = fl]
  OBVIOUS
<1>10. /\ n \in Caller /\ n.journal = js /\ n.pc = caller[p].pc /\ n.call = caller[p].call /\ n.txn = caller[p].txn
       /\ n.made = caller[p].made /\ n.rechecked = caller[p].rechecked /\ n.result = caller[p].result
  BY <1>5, <1>7, <1>8, <1>9 DEF Caller
<1>11. caller' = [caller EXCEPT ![p] = n]
  BY <1>1, <1>5, <1>6, <1>9 DEF Undone
<1>12. Steps(p) /\ caller'[p] = n
  BY <1>10, <1>11, SetsFacts
<1> QED
  BY <1>4, <1>10, <1>12

(* The journal tells the rollback where the content is. *)
LEMMA LastMovedFacts ==
  ASSUME WorkInv, NEW p \in Callers, NEW done \in {"moved", "installed"}, LastMoved(p, done),
         NEW i, i = Max(Moved(p))
  PROVE  /\ i \in Index /\ caller[p].pc = "rollback" /\ Inside(p) /\ caller[p].txn \in Txns /\ PlanOf(p) \in Plans
         /\ i \in DOMAIN PlanOf(p).changes
         /\ txns[caller[p].txn].backup[i] = PlanOf(p).changes[i].before
         /\ committed[PlanOf(p).changes[i].path] = PlanOf(p).changes[i].before
         /\ caller[p].txn \in vouched \/ GateOf(p) = NoGate
         /\ "moved" \in caller[p].journal[i] => PlanOf(p).changes[i].before # Missing
         /\ done = "moved" => caller[p].journal[i] = {"moved"}
         /\ PlanOf(p).changes[i].path \in Paths /\ PlanOf(p).changes[i].before \in Contents
<1>1. caller[p].pc = "rollback" /\ Moved(p) # {}
  BY DEF LastMoved
<1>2. i \in Index /\ caller[p].journal[i] # {}
  <2>1. Moved(p) \subseteq 1 .. MaxChanges
    BY DEF Moved, Index
  <2>2. i \in Moved(p)
    BY <1>1, <2>1, IndexFacts, MaxIsMember
  <2> QED
    BY <2>2 DEF Moved
<1>3. JournalInv(p)
  BY DEF WorkInv
<1>4. /\ i \in DOMAIN PlanOf(p).changes
      /\ txns[caller[p].txn].backup[i] = PlanOf(p).changes[i].before
      /\ committed[PlanOf(p).changes[i].path] = PlanOf(p).changes[i].before
      /\ caller[p].txn \in vouched \/ GateOf(p) = NoGate
      /\ "moved" \in caller[p].journal[i] => PlanOf(p).changes[i].before # Missing
  BY <1>1, <1>2, <1>3 DEF JournalInv, PlanOf, GateOf
<1>5. done = "moved" => caller[p].journal[i] = {"moved"}
  <2>1. caller[p].journal[i] \in SUBSET {"moved", "installed"}
    BY <1>2, CallerType DEF Caller
  <2>2. done = "moved" => "installed" \notin caller[p].journal[i]
    BY DEF LastMoved
  <2> QED
    BY <1>2, <2>1, <2>2
<1>6. Inside(p) /\ caller[p].txn \in Txns /\ PlanOf(p) \in Plans
  BY <1>1, OwnTxn DEF Owning
<1> QED
  BY <1>1, <1>2, <1>4, <1>5, <1>6, ChangeFacts

LEMMA RollbackRemoveInv ==
  ASSUME WorkInv, NEW p \in Callers, RollbackRemove(p)
  PROVE  WorkInv'
<1>1. PICK i : i = Max(Moved(p))
  OBVIOUS
<1>2. PICK ch, t : ch = PlanOf(p).changes[i] /\ t = caller[p].txn
  OBVIOUS
<1>3. /\ LastMoved(p, "installed") /\ content' = [content EXCEPT ![ch.path] = Missing]
      /\ Undone(p, i, "installed", FALSE)
      /\ UNCHANGED <<dirs, txns, lock, reader, built, committed, vouched, edits>>
  BY <1>1, <1>2 DEF RollbackRemove, history, budgets
<1>4. /\ i \in Index /\ caller[p].pc = "rollback" /\ Inside(p) /\ t \in Txns
      /\ i \in DOMAIN PlanOf(p).changes /\ txns[t].backup[i] = ch.before /\ committed[ch.path] = ch.before
      /\ t \in vouched \/ GateOf(p) = NoGate
      /\ "moved" \in caller[p].journal[i] => ch.before # Missing
  BY <1>1, <1>2, <1>3, LastMovedFacts
<1>5. OnlyBackup(t, i) /\ txns'[t].backup[i] = ch.before /\ Missing \in Contents
  BY <1>3, <1>4, BackupStays, FilesAssumption
<1>6. /\ content' \in [Paths -> Contents] /\ committed' \in [Paths -> Contents] /\ dirs' \subseteq Dirs
      /\ txns' \in [Txns -> Txn] /\ vouched' \subseteq Txns /\ TxnsInv' /\ TreeInv'
  BY <1>2, <1>3, <1>4, <1>5, TargetInv
<1>7. /\ Steps(p)
      /\ caller'[p].pc = caller[p].pc /\ caller'[p].call = caller[p].call /\ caller'[p].txn = caller[p].txn
      /\ caller'[p].made = caller[p].made /\ caller'[p].rechecked = caller[p].rechecked
      /\ caller'[p].journal[i] = caller[p].journal[i] \ {"installed"}
      /\ \A j \in Index : j # i => caller'[p].journal[j] = caller[p].journal[j]
  BY <1>3, <1>4, UndoneFacts
<1>8. PlaceInv(p)' /\ JournalInv(p)'
  BY <1>2, <1>3, <1>4, <1>5, <1>7, JournalStep
<1> QED
  BY <1>3, <1>4, <1>6, <1>7, <1>8, StepInv

LEMMA RollbackRestoreInv ==
  ASSUME WorkInv, NEW p \in Callers, RollbackRestore(p)
  PROVE  WorkInv'
<1>1. PICK i : i = Max(Moved(p))
  OBVIOUS
<1>2. PICK ch, t : ch = PlanOf(p).changes[i] /\ t = caller[p].txn
  OBVIOUS
<1>3. /\ LastMoved(p, "moved") /\ content' = [content EXCEPT ![ch.path] = txns[t].backup[i]]
      /\ txns' = [txns EXCEPT ![t].backup[i] = Missing]
      /\ Undone(p, i, "moved", FALSE)
      /\ UNCHANGED <<dirs, lock, reader, built, committed, vouched, edits>>
  BY <1>1, <1>2 DEF RollbackRestore, history, budgets
<1>4. /\ i \in Index /\ caller[p].pc = "rollback" /\ Inside(p) /\ t \in Txns
      /\ i \in DOMAIN PlanOf(p).changes /\ txns[t].backup[i] = ch.before /\ committed[ch.path] = ch.before
      /\ t \in vouched \/ GateOf(p) = NoGate
      /\ caller[p].journal[i] = {"moved"} /\ ch.path \in Paths /\ ch.before \in Contents
  BY <1>1, <1>2, <1>3, LastMovedFacts
<1>5. OnlyBackup(t, i)
  BY <1>3, <1>4, BackupSets, FilesAssumption
<1>6. ch.before # Missing => Range(Above[ch.path]) \subseteq dirs
  BY <1>4 DEF WorkInv, TreeInv
<1>7. /\ content' \in [Paths -> Contents] /\ committed' \in [Paths -> Contents] /\ dirs' \subseteq Dirs
      /\ txns' \in [Txns -> Txn] /\ vouched' \subseteq Txns /\ TxnsInv' /\ TreeInv'
  <2>1. content' = [content EXCEPT ![ch.path] = ch.before]
    BY <1>3, <1>4
  <2> QED
    BY <1>2, <1>3, <1>4, <1>5, <1>6, <2>1, TargetInv
<1>8. /\ Steps(p)
      /\ caller'[p].pc = caller[p].pc /\ caller'[p].call = caller[p].call /\ caller'[p].txn = caller[p].txn
      /\ caller'[p].made = caller[p].made /\ caller'[p].rechecked = caller[p].rechecked
      /\ caller'[p].journal[i] = caller[p].journal[i] \ {"moved"}
      /\ \A j \in Index : j # i => caller'[p].journal[j] = caller[p].journal[j]
  BY <1>3, <1>4, UndoneFacts
<1>9. PlaceInv(p)' /\ JournalInv(p)'
  <2>1. caller'[p].journal[i] = {}
    BY <1>4, <1>8
  <2> QED
    BY <1>2, <1>3, <1>4, <1>5, <1>8, <2>1, JournalStep
<1> QED
  BY <1>3, <1>4, <1>7, <1>8, <1>9, StepInv

-----------------------------------------------------------------------------
(* Steps that change directories. *)

LEMMA TxnsStay ==
  ASSUME WorkInv, UNCHANGED <<content, committed, txns, reader, vouched>>
  PROVE  TxnsInv'
<1>1. Active' = Active
  BY DEF Active
<1>2. \A t \in Active : ActiveInv(t)'
  BY DEF WorkInv, TxnsInv, ActiveInv, Kept
<1> QED
  BY <1>1, <1>2 DEF WorkInv, TxnsInv, Present

LEMMA MadeStep ==
  ASSUME WorkInv, NEW p \in Callers, caller[p].pc \in {"commit", "rollback"}, caller'[p].pc = caller[p].pc,
         caller'[p].call = caller[p].call, caller'[p].txn = caller[p].txn, caller'[p].journal = caller[p].journal,
         caller'[p].rechecked = caller[p].rechecked, UNCHANGED <<txns, committed, vouched>>,
         \A k \in DOMAIN caller'[p].made, f \in Paths :
           caller'[p].made[k] \in Range(Above[f]) => committed[f] = Missing
  PROVE  PlaceInv(p)' /\ JournalInv(p)'
<1>1. PlaceInv(p)'
  BY CommittingPlace
<1>2. JournalInv(p)
  BY DEF WorkInv
<1> QED
  BY <1>1, <1>2 DEF JournalInv

LEMMA ShorterFacts ==
  ASSUME NEW s \in Seq(Dirs), s # <<>>
  PROVE  /\ SubSeq(s, 1, Len(s) - 1) \in Seq(Dirs)
         /\ \A k \in DOMAIN SubSeq(s, 1, Len(s) - 1) : k \in DOMAIN s /\ SubSeq(s, 1, Len(s) - 1)[k] = s[k]
         /\ Len(s) \in DOMAIN s /\ s[Len(s)] \in Dirs
  OBVIOUS

(* The directories the caller made are fewer by the last one. *)
LEMMA UnmadeFacts ==
  ASSUME WorkInv, NEW p \in Callers, caller[p].pc = "rollback", caller[p].made # <<>>, NEW fl \in BOOLEAN,
         caller' = [caller EXCEPT ![p].made = SubSeq(@, 1, Len(@) - 1), ![p].failures = fl],
         UNCHANGED <<txns, committed, vouched>>
  PROVE  /\ Steps(p) /\ caller'[p].pc = caller[p].pc /\ PlaceInv(p)' /\ JournalInv(p)'
         /\ caller'[p].result = caller[p].result
         /\ caller[p].made[Len(caller[p].made)] \in Dirs
         /\ \A f \in Paths : caller[p].made[Len(caller[p].made)] \in Range(Above[f]) => committed[f] = Missing
<1>1. caller[p] \in Caller /\ caller[p].made \in Seq(Dirs)
  BY CallerType DEF Caller
<1>2. PICK ms : ms = SubSeq(caller[p].made, 1, Len(caller[p].made) - 1)
  OBVIOUS
<1>3. /\ ms \in Seq(Dirs) /\ \A k \in DOMAIN ms : k \in DOMAIN caller[p].made /\ ms[k] = caller[p].made[k]
      /\ Len(caller[p].made) \in DOMAIN caller[p].made /\ caller[p].made[Len(caller[p].made)] \in Dirs
  BY <1>1, <1>2, ShorterFacts
<1>4. PICK m : m = [caller[p] EXCEPT !.made = ms]
  OBVIOUS
<1>5. m \in Caller
  BY <1>1, <1>3, <1>4 DEF Caller
<1>6. /\ m.made = ms /\ m.pc = caller[p].pc /\ m.call = caller[p].call /\ m.txn = caller[p].txn
      /\ m.journal = caller[p].journal /\ m.rechecked = caller[p].rechecked /\ m.result = caller[p].result
  BY <1>1, <1>4 DEF Caller
<1>7. PICK n : n = [m EXCEPT !.failures = fl]
  OBVIOUS
<1>8. /\ n \in Caller /\ n.made = ms /\ n.pc = caller[p].pc /\ n.call = caller[p].call /\ n.txn = caller[p].txn
      /\ n.journal = caller[p].journal /\ n.rechecked = caller[p].rechecked /\ n.result = caller[p].result
  BY <1>5, <1>6, <1>7 DEF Caller
<1>9. caller' = [caller EXCEPT ![p] = n]
  BY <1>2, <1>4, <1>7
<1>10. Steps(p) /\ caller'[p] = n
  BY <1>8, <1>9, SetsFacts
<1>11. \A k \in DOMAIN caller[p].made, f \in Paths : caller[p].made[k] \in Range(Above[f]) => committed[f] = Missing
  BY DEF WorkInv, JournalInv
<1>12. PlaceInv(p)' /\ JournalInv(p)'
  BY <1>3, <1>8, <1>10, <1>11, MadeStep
<1> QED
  BY <1>3, <1>8, <1>10, <1>11, <1>12

LEMMA RollbackFaultInv ==
  ASSUME WorkInv, NEW p \in Callers, RollbackFault(p)
  PROVE  WorkInv'
<1>1. UNCHANGED <<content, dirs, txns, lock, reader, built, committed, vouched, edits>>
  BY DEF RollbackFault, disk, history
<1>2. CASE \E done \in {"installed", "moved"} : LastMoved(p, done) /\ Undone(p, Max(Moved(p)), done, TRUE)
  <2>1. PICK done \in {"moved", "installed"} : LastMoved(p, done) /\ Undone(p, Max(Moved(p)), done, TRUE)
    BY <1>2
  <2>2. PICK i : i = Max(Moved(p))
    OBVIOUS
  <2>3. /\ i \in Index /\ caller[p].pc = "rollback" /\ Inside(p)
        /\ i \in DOMAIN PlanOf(p).changes
        /\ txns[caller[p].txn].backup[i] = PlanOf(p).changes[i].before
        /\ committed[PlanOf(p).changes[i].path] = PlanOf(p).changes[i].before
        /\ caller[p].txn \in vouched \/ GateOf(p) = NoGate
        /\ "moved" \in caller[p].journal[i] => PlanOf(p).changes[i].before # Missing
    BY <2>1, <2>2, LastMovedFacts
  <2>4. /\ Steps(p)
        /\ caller'[p].pc = caller[p].pc /\ caller'[p].call = caller[p].call /\ caller'[p].txn = caller[p].txn
        /\ caller'[p].made = caller[p].made /\ caller'[p].rechecked = caller[p].rechecked
        /\ caller'[p].journal[i] = caller[p].journal[i] \ {done}
        /\ \A j \in Index : j # i => caller'[p].journal[j] = caller[p].journal[j]
    <3>1. PICK fails \in BOOLEAN : fails = TRUE
      OBVIOUS
    <3>2. Undone(p, i, done, fails) /\ i \in Index
      BY <2>1, <2>2, <2>3, <3>1
    <3> QED
      BY <3>2, UndoneFacts
  <2>5. OnlyBackup(caller[p].txn, i)
    BY <1>1, BackupStays
  <2>6. PlaceInv(p)' /\ JournalInv(p)'
    BY <1>1, <2>3, <2>4, <2>5, JournalStep
  <2> QED
    BY <1>1, <2>3, <2>4, <2>6, LocalStepInv
<1>3. CASE /\ caller[p].pc = "rollback" /\ caller[p].made # <<>>
           /\ caller' = [caller EXCEPT ![p].made = SubSeq(@, 1, Len(@) - 1), ![p].failures = TRUE]
  <2>1. Steps(p) /\ caller'[p].pc = caller[p].pc /\ PlaceInv(p)' /\ JournalInv(p)'
    BY <1>1, <1>3, UnmadeFacts
  <2> QED
    BY <1>1, <1>3, <2>1, LocalStepInv DEF Inside
<1> QED
  BY <1>2, <1>3 DEF RollbackFault

LEMMA RollbackDirectoryInv ==
  ASSUME WorkInv, NEW p \in Callers, RollbackDirectory(p)
  PROVE  WorkInv'
<1>1. PICK d : d = caller[p].made[Len(caller[p].made)]
  OBVIOUS
<1>2. /\ caller[p].pc = "rollback" /\ caller[p].made # <<>>
      /\ dirs' = IF Capture(d) = {d} THEN dirs \ {d} ELSE dirs
      /\ UNCHANGED <<content, txns, lock, reader, built, committed, vouched, edits>>
  BY <1>1 DEF RollbackDirectory, history, budgets
<1>3. PICK fl \in BOOLEAN : fl = (caller[p].failures \/ Capture(d) # {d})
  OBVIOUS
<1>4. caller' = [caller EXCEPT ![p].made = SubSeq(@, 1, Len(@) - 1), ![p].failures = fl]
  BY <1>1, <1>3 DEF RollbackDirectory
<1>5. /\ Steps(p) /\ caller'[p].pc = caller[p].pc /\ PlaceInv(p)' /\ JournalInv(p)'
      /\ d \in Dirs /\ \A f \in Paths : d \in Range(Above[f]) => committed[f] = Missing
  BY <1>1, <1>2, <1>4, UnmadeFacts
<1>6. TreeInv'
  <2>1. CASE Capture(d) = {d}
    <3>1. ASSUME NEW f \in Paths, content[f] # Missing PROVE d \notin Range(Above[f])
      <4>1. f # d
        BY <1>5, FilesAssumption
      <4>2. f \notin Capture(d)
        BY <2>1, <4>1
      <4> QED
        BY <3>1, <4>2 DEF Capture, Tree, Exists
    <3> QED
      BY <1>2, <1>5, <2>1, <3>1 DEF WorkInv, TreeInv
  <2>2. CASE Capture(d) # {d}
    BY <1>2, <2>2 DEF WorkInv, TreeInv
  <2> QED
    BY <2>1, <2>2
<1>7. /\ content' \in [Paths -> Contents] /\ committed' \in [Paths -> Contents] /\ dirs' \subseteq Dirs
      /\ txns' \in [Txns -> Txn] /\ vouched' \subseteq Txns
  BY <1>2 DEF WorkInv, WorkTypeOK
<1>8. TxnsInv'
  BY <1>2, TxnsStay
<1> QED
  BY <1>2, <1>5, <1>6, <1>7, <1>8, StepInv DEF Inside

(* removeRecoveredDirectories removes only directories without files. *)
LEMMA UndoDirectoryInv ==
  ASSUME WorkInv, NEW p \in Callers, UndoDirectory(p)
  PROVE  WorkInv'
<1>1. /\ caller[p].pc = "undo" /\ ToUndo(p) = {}
      /\ UNCHANGED <<content, txns, lock, caller, reader, built, committed, vouched, edits>>
  BY DEF UndoDirectory, history, budgets
<1>2. PICK d \in dirs : Capture(d) = {d} /\ dirs' = dirs \ {d}
  BY DEF UndoDirectory, RemoveDirectory, CreatedParents
<1>3. caller[p].txn \in Active /\ txns[caller[p].txn].plan = PlanOf(p) /\ Inside(p)
  BY <1>1, OwnTxn DEF Owning
<1>4. content = committed
  BY <1>1, <1>3, BeforeIsCommitted DEF ToUndo
<1>5. d \in Dirs
  BY <1>2 DEF WorkInv, WorkTypeOK
<1>6. TreeInv'
  <2>1. ASSUME NEW f \in Paths, content[f] # Missing PROVE d \notin Range(Above[f])
    <3>1. f # d
      BY <1>5, FilesAssumption
    <3>2. f \notin Capture(d)
      BY <1>2, <3>1
    <3> QED
      BY <2>1, <3>2 DEF Capture, Tree, Exists
  <2> QED
    BY <1>1, <1>2, <1>4, <2>1 DEF WorkInv, TreeInv
<1>7. /\ content' \in [Paths -> Contents] /\ committed' \in [Paths -> Contents] /\ dirs' \subseteq Dirs
      /\ txns' \in [Txns -> Txn] /\ vouched' \subseteq Txns
  BY <1>1, <1>2 DEF WorkInv, WorkTypeOK
<1>8. TxnsInv'
  BY <1>1, TxnsStay
<1>9. PlaceInv(p) /\ Steps(p) /\ caller'[p].pc # "idle"
  BY <1>1, CallerType DEF WorkInv, Steps
<1>10. PlaceInv(p)'
  BY <1>1, <1>9 DEF PlaceInv, Owning, Fresh
<1>11. JournalInv(p)'
  BY <1>1 DEF JournalInv
<1> QED
  BY <1>1, <1>3, <1>6, <1>7, <1>8, <1>9, <1>10, <1>11, StepInv

(* A parent that is made is no directory of a file that was there. *)
LEMMA MakeParentInv ==
  ASSUME WorkInv, NEW p \in Callers, MakeParent(p)
  PROVE  WorkInv'
<1>1. PICK i \in Index : LET ch == PlanOf(p).changes[i]
                             d == Above[ch.path][Min(MissingParents(ch.path))]
        IN  /\ At(p, i) /\ MissingParents(ch.path) # {}
            /\ dirs' = dirs \cup {d}
            /\ caller' = [caller EXCEPT ![p].made = Append(@, d)]
            /\ UNCHANGED <<content, txns, lock, reader, built, history, budgets>>
  BY DEF MakeParent
<1>2. PICK f, d : f = PlanOf(p).changes[i].path /\ d = Above[f][Min(MissingParents(f))]
  OBVIOUS
<1>3. caller[p].pc = "commit" /\ Inside(p) /\ PlanOf(p) \in Plans /\ i \in DOMAIN PlanOf(p).changes
  BY <1>1, AtFacts
<1>4. f \in Paths
  BY <1>2, <1>3, ChangeFacts
<1>5. d \in Dirs /\ d \notin dirs
  <2>1. Above[f] \in Seq(Dirs)
    BY <1>4, FilesAssumption
  <2>2. MissingParents(f) \subseteq DOMAIN Above[f] /\ MissingParents(f) # {}
    BY <1>1, <1>2 DEF MissingParents
  <2>3. DOMAIN Above[f] \subseteq Nat
    BY <2>1
  <2>4. PICK k \in MissingParents(f) : k = Min(MissingParents(f))
    BY <2>2, <2>3, MinIsMember
  <2>5. k \in DOMAIN Above[f] /\ Above[f][k] \notin dirs
    BY DEF MissingParents
  <2> QED
    BY <1>2, <2>1, <2>4, <2>5
<1>6. /\ dirs' = dirs \cup {d} /\ caller' = [caller EXCEPT ![p].made = Append(@, d)]
      /\ UNCHANGED <<content, txns, lock, reader, built, committed, vouched, edits>>
  BY <1>1, <1>2 DEF history, budgets
<1>7. caller[p] \in Caller /\ caller[p].made \in Seq(Dirs)
  BY CallerType DEF Caller
<1>8. PICK ms : ms = Append(caller[p].made, d)
  OBVIOUS
<1>9. ms \in Seq(Dirs) /\ \A k \in DOMAIN ms : ms[k] = d \/ (k \in DOMAIN caller[p].made /\ ms[k] = caller[p].made[k])
  BY <1>5, <1>7, <1>8
<1>10. PICK n : n = [caller[p] EXCEPT !.made = ms]
  OBVIOUS
<1>11. n \in Caller
  BY <1>7, <1>9, <1>10 DEF Caller
<1>12. /\ n.made = ms /\ n.pc = caller[p].pc /\ n.call = caller[p].call /\ n.txn = caller[p].txn
       /\ n.journal = caller[p].journal /\ n.rechecked = caller[p].rechecked
  BY <1>7, <1>10 DEF Caller
<1>13. Steps(p) /\ caller'[p] = n
  <2>1. caller' = [caller EXCEPT ![p] = n]
    BY <1>6, <1>8, <1>10
  <2> QED
    BY <1>11, <2>1, SetsFacts
<1>14. \A g \in Paths : d \in Range(Above[g]) => committed[g] = Missing
  BY <1>5 DEF WorkInv, TreeInv
<1>15. \A k \in DOMAIN caller[p].made, g \in Paths : caller[p].made[k] \in Range(Above[g]) => committed[g] = Missing
  BY <1>3 DEF WorkInv, JournalInv
<1>16. PlaceInv(p)' /\ JournalInv(p)'
  <2>1. \A k \in DOMAIN caller'[p].made, g \in Paths :
          caller'[p].made[k] \in Range(Above[g]) => committed[g] = Missing
    BY <1>9, <1>12, <1>13, <1>14, <1>15
  <2> QED
    BY <1>3, <1>6, <1>12, <1>13, <2>1, MadeStep
<1>17. /\ content' \in [Paths -> Contents] /\ committed' \in [Paths -> Contents] /\ dirs' \subseteq Dirs
       /\ txns' \in [Txns -> Txn] /\ vouched' \subseteq Txns /\ TreeInv'
  BY <1>5, <1>6 DEF WorkInv, WorkTypeOK, TreeInv
<1>18. TxnsInv'
  BY <1>6, TxnsStay
<1> QED
  BY <1>3, <1>6, <1>12, <1>13, <1>16, <1>17, <1>18, StepInv

-----------------------------------------------------------------------------
(* Who takes and drops the lock. *)

(* Steps that touch no file and no transaction. *)
LEMMA OutsideInv ==
  ASSUME WorkInv, UNCHANGED <<content, dirs, txns, committed, vouched, edits>>,
         caller' \in [Callers -> Caller], reader' \in [Readers -> {"idle", "locked", "reading"}],
         built' \subseteq Plans, LockInv',
         \A r \in Readers : reader'[r] = "reading" => Active = {},
         \A p \in Callers : PlaceInv(p)' /\ JournalInv(p)'
  PROVE  WorkInv'
<1>1. WorkTypeOK'
  BY DEF WorkInv, WorkTypeOK
<1>2. TreeInv'
  BY DEF WorkInv, TreeInv
<1>3. TxnsInv'
  <2>1. Active' = Active
    BY DEF Active
  <2>2. \A t \in Active : ActiveInv(t)'
    BY DEF WorkInv, TxnsInv, ActiveInv, Kept
  <2> QED
    BY <2>1, <2>2 DEF WorkInv, TxnsInv, Present
<1> QED
  BY <1>1, <1>2, <1>3 DEF WorkInv

(* A caller that does not step keeps what it knows. *)
LEMMA PlaceStays ==
  ASSUME WorkInv, NEW q \in Callers, caller'[q] = caller[q], UNCHANGED <<content, txns, committed, vouched>>
  PROVE  PlaceInv(q)' /\ JournalInv(q)'
<1>1. PlaceInv(q) /\ JournalInv(q)
  BY DEF WorkInv
<1>2. PlaceInv(q)'
  BY <1>1 DEF PlaceInv, HoldsFinal, Present
<1>3. JournalInv(q)'
  BY <1>1 DEF JournalInv
<1> QED
  BY <1>2, <1>3

LEMMA IdleIsCaller == IdleCaller \in Caller /\ IdleCaller.pc = "idle"
  BY IndexFacts DEF IdleCaller, Caller, NoCall, NoJournal, Phases, Results

LEMMA BeginInv ==
  ASSUME WorkInv, NEW p \in Callers, NEW c \in Calls, Begin(p, c)
  PROVE  WorkInv'
<1>1. /\ caller[p].pc = "idle" /\ lock = {} /\ lock' = {p}
      /\ caller' = [caller EXCEPT ![p] = [IdleCaller EXCEPT !.pc = "recover", !.call = c]]
      /\ UNCHANGED <<content, dirs, txns, reader, built, committed, vouched, edits>>
  BY DEF Begin, LockForApply, disk, history, budgets
<1>2. PICK n : n = [IdleCaller EXCEPT !.pc = "recover", !.call = c]
  OBVIOUS
<1>3. n \in Caller /\ n.pc = "recover" /\ n.call = c /\ n.journal = NoJournal /\ n.made = <<>>
  <2>1. n \in Caller /\ n.pc = "recover" /\ n.call = c /\ n.journal = IdleCaller.journal /\ n.made = IdleCaller.made
    BY <1>2, IdleIsCaller DEF Caller, Phases
  <2> QED
    BY <2>1 DEF IdleCaller
<1>4. Steps(p) /\ caller'[p] = n
  BY <1>1, <1>2, <1>3, SetsFacts
<1>5. (\A q \in Callers : ~Inside(q)) /\ (\A r \in Readers : reader[r] = "idle")
  BY <1>1 DEF WorkInv, LockInv
<1>6. LockInv'
  <2>1. \A q \in Callers : Inside(q)' <=> q = p
    BY <1>3, <1>4, <1>5 DEF Inside, Steps
  <2> QED
    BY <1>1, <1>5, <2>1 DEF LockInv
<1>7. PlaceInv(p)' /\ JournalInv(p)'
  BY <1>3, <1>4 DEF PlaceInv, JournalInv, Owning, Fresh
<1>8. \A q \in Callers : PlaceInv(q)' /\ JournalInv(q)'
  BY <1>1, <1>4, <1>7, PlaceStays DEF Steps
<1>9. \A r \in Readers : reader'[r] = "reading" => Active = {}
  BY <1>1, <1>5
<1> QED
  BY <1>1, <1>4, <1>6, <1>8, <1>9, OutsideInv DEF Steps, WorkInv, WorkTypeOK

LEMMA LeaveInv ==
  ASSUME WorkInv, NEW p \in Callers, Return(p) \/ Crash(p)
  PROVE  WorkInv'
<1>1. /\ Inside(p) /\ lock' = lock \ {p} /\ caller' = [caller EXCEPT ![p] = IdleCaller]
      /\ UNCHANGED <<content, dirs, txns, reader, built, committed, vouched, edits>>
  BY DEF Return, Crash, Inside, disk, history, budgets
<1>2. Steps(p) /\ caller'[p] = IdleCaller /\ caller'[p].pc = "idle"
  BY <1>1, SetsFacts, IdleIsCaller
<1>3. LockInv'
  <2>1. LockInv /\ p \notin Readers
    BY CallsAssumption DEF WorkInv
  <2>2. \A q \in Callers : ~Inside(q)'
    BY <1>1, <1>2, <2>1 DEF Inside, Steps, LockInv
  <2>3. lock' = {r \in Readers : reader[r] # "idle"}
    BY <1>1, <2>1 DEF LockInv
  <2> QED
    BY <1>1, <2>2, <2>3 DEF LockInv
<1>4. PlaceInv(p)' /\ JournalInv(p)'
  BY <1>2 DEF PlaceInv, JournalInv, Owning, Fresh
<1>5. \A q \in Callers : PlaceInv(q)' /\ JournalInv(q)'
  BY <1>1, <1>2, <1>4, PlaceStays DEF Steps
<1>6. \A r \in Readers : reader'[r] = "reading" => Active = {}
  BY <1>1 DEF WorkInv, TxnsInv
<1> QED
  BY <1>1, <1>2, <1>3, <1>5, <1>6, OutsideInv DEF Steps, WorkInv, WorkTypeOK

(* A write by another program, where the code promises to notice it. *)
LEMMA EditInv ==
  ASSUME WorkInv, NEW f \in Paths, Edit(f)
  PROVE  WorkInv'
<1>1. /\ lock = {} \/ \A t \in Active : txns[t].record = "absent"
      /\ Range(Above[f]) \subseteq dirs
      /\ content' = [content EXCEPT ![f] = Foreign] /\ committed' = [committed EXCEPT ![f] = Foreign]
      /\ edits' = edits + 1
      /\ UNCHANGED <<dirs, txns, lock, caller, reader, built, vouched>>
  BY DEF Edit
<1>2. /\ content \in [Paths -> Contents] /\ committed \in [Paths -> Contents]
      /\ content' \in [Paths -> Contents] /\ committed' \in [Paths -> Contents]
      /\ content'[f] = Foreign /\ committed'[f] = Foreign
      /\ \A g \in Paths : g # f => content'[g] = content[g] /\ committed'[g] = committed[g]
  BY <1>1, FilesAssumption DEF WorkInv, WorkTypeOK
<1>3. content = committed => content' = committed'
  BY <1>1
<1>4. WorkTypeOK'
  BY <1>1, <1>2 DEF WorkInv, WorkTypeOK
<1>5. LockInv'
  BY <1>1 DEF WorkInv, LockInv, Inside
<1>6. TreeInv'
  BY <1>1, <1>2 DEF WorkInv, TreeInv
<1>7. Active' = Active
  BY <1>1 DEF Active
<1>8. ASSUME NEW t \in Active PROVE ActiveInv(t)'
  <2>1. ActiveInv(t) /\ txns[t].plan \in Plans
    BY ActiveFacts
  <2>2. ASSUME NEW i \in DOMAIN txns[t].plan.changes PROVE Kept(t, i)'
    <3>1. txns[t].plan.changes[i].path \in Paths /\ Kept(t, i)
      BY <2>1, ChangeFacts DEF ActiveInv
    <3>2. CASE txns[t].plan.changes[i].path = f
      BY <1>1, <1>2, <3>2 DEF Kept
    <3>3. CASE txns[t].plan.changes[i].path # f
      BY <1>1, <1>2, <3>1, <3>3 DEF Kept
    <3> QED
      BY <3>2, <3>3
  <2>3. \A g \in Paths \ Targets(txns[t].plan) : content'[g] = committed'[g]
    BY <1>2, <2>1 DEF ActiveInv
  <2> QED
    BY <1>1, <1>3, <2>1, <2>2, <2>3 DEF ActiveInv
<1>9. TxnsInv'
  BY <1>1, <1>3, <1>7, <1>8 DEF WorkInv, TxnsInv, Present
<1>10. ASSUME NEW q \in Callers PROVE PlaceInv(q)' /\ JournalInv(q)'
  <2>1. PlaceInv(q)
    BY DEF WorkInv
  <2>2. CASE caller[q].pc \in Owning
    <3>1. caller[q].txn \in Active /\ GateOf(q) # "absent" /\ Inside(q)
      BY <2>2, OwnTxn
    <3>2. q \in lock
      BY <3>1 DEF WorkInv, LockInv
    <3>3. txns[caller[q].txn].record = "absent"
      BY <1>1, <3>1, <3>2
    <3>4. caller[q].pc \in {"stage", "record"}
      BY <2>1, <2>2, <3>1, <3>3 DEF PlaceInv, Owning, GateOf
    <3> QED
      BY <1>1, <1>3, <2>1, <3>4 DEF PlaceInv, JournalInv, Owning, Fresh
  <2>3. CASE caller[q].pc \notin Owning
    BY <1>1, <1>3, <2>1, <2>3 DEF PlaceInv, JournalInv, Owning, Fresh, Present
  <2> QED
    BY <2>2, <2>3
<1> QED
  BY <1>4, <1>5, <1>6, <1>9, <1>10 DEF WorkInv

-----------------------------------------------------------------------------
(* WithReadLock *)

LEMMA ReaderInv ==
  ASSUME WorkInv, UNCHANGED <<content, dirs, txns, caller, committed, vouched, edits>>,
         NEW r \in Readers, NEW at \in {"idle", "locked", "reading"}, reader' = [reader EXCEPT ![r] = at],
         built' \subseteq Plans,
         lock' = IF at = "idle" THEN lock \ {r} ELSE lock \cup {r},
         reader[r] = "idle" => lock \cap Callers = {},
         at = "reading" => Active = {}
  PROVE  WorkInv'
<1>1. /\ reader' \in [Readers -> {"idle", "locked", "reading"}] /\ reader'[r] = at
      /\ \A s \in Readers : s # r => reader'[s] = reader[s]
  BY DEF WorkInv, WorkTypeOK
<1>2. caller' \in [Callers -> Caller] /\ \A q \in Callers : PlaceInv(q)' /\ JournalInv(q)'
  BY PlaceStays DEF WorkInv, WorkTypeOK
<1>3. \A s \in Readers : reader'[s] = "reading" => Active = {}
  BY <1>1 DEF WorkInv, TxnsInv
<1>4. LockInv /\ r \notin Callers
  BY CallsAssumption DEF WorkInv
<1>5. \A q \in Callers : (Inside(q)' <=> Inside(q)) /\ (Inside(q) => q \in lock)
  BY <1>4 DEF Inside, LockInv
<1>6. \A q \in Callers : Inside(q) => reader[r] = "idle" /\ lock \cap Callers # {}
  BY <1>4, <1>5 DEF LockInv
<1>7. \A q \in Callers : ~Inside(q)
  BY <1>6
<1>8. LockInv'
  <2>1. lock = {s \in Readers : reader[s] # "idle"}
    BY <1>4, <1>7 DEF LockInv
  <2>2. lock' = {s \in Readers : reader'[s] # "idle"}
    <3>1. CASE at = "idle"
      BY <1>1, <2>1, <3>1
    <3>2. CASE at # "idle"
      BY <1>1, <2>1, <3>2
    <3> QED
      BY <3>1, <3>2
  <2> QED
    BY <1>5, <1>7, <2>2 DEF LockInv
<1> QED
  BY <1>1, <1>2, <1>3, <1>8, OutsideInv

LEMMA ReadInv ==
  ASSUME WorkInv, NEW r \in Readers, ReadLock(r) \/ ReadStep(r)
  PROVE  WorkInv'
<1>1. reader \in [Readers -> {"idle", "locked", "reading"}] /\ built \subseteq Plans
  BY DEF WorkInv, WorkTypeOK
<1>2. reader[r] # "idle" => r \in lock
  BY DEF WorkInv, LockInv
<1>3. CASE ReadLock(r)
  BY <1>1, <1>3, ReaderInv DEF ReadLock, LockForRead, disk, history, budgets
<1>4. CASE ReadUnlock(r) /\ reader[r] # "idle" /\ built' \subseteq Plans
  BY <1>1, <1>4, ReaderInv DEF ReadUnlock, disk, history, budgets
<1>5. CASE ReadStart(r)
  <2>1. lock' = lock \cup {r} /\ reader[r] # "idle"
    BY <1>2, <1>5 DEF ReadStart
  <2> QED
    BY <1>1, <1>5, <2>1, ReaderInv DEF ReadStart, disk, history, budgets
<1>6. ReadRejected(r) \/ BuildPlan(r) \/ ReadDone(r) => ReadUnlock(r) /\ reader[r] # "idle" /\ built' \subseteq Plans
  BY <1>1 DEF ReadRejected, BuildPlan, ReadDone
<1> QED
  BY <1>3, <1>4, <1>5, <1>6 DEF ReadStep

LEMMA WorkNextInv == WorkInv /\ [Next]_vars => WorkInv'
<1> SUFFICES ASSUME WorkInv, [Next]_vars PROVE WorkInv'
  OBVIOUS
<1>1. CASE UNCHANGED vars
  <2>1. UNCHANGED <<content, dirs, txns, lock, caller, reader, built, committed, vouched, edits>>
    BY <1>1 DEF vars
  <2>2. LockInv' /\ \A q \in Callers : PlaceInv(q)' /\ JournalInv(q)'
    BY <2>1, PlaceStays DEF WorkInv, LockInv, Inside
  <2> QED
    BY <2>1, <2>2, OutsideInv DEF WorkInv, WorkTypeOK, TxnsInv
<1>2. CASE \E p \in Callers : RecoverStep(p)
  BY <1>2, RecoverLooksInv, RecoverActiveInv, UndoInv, UndoDirectoryInv, UndoDoneInv, RecoveredInv
      DEF RecoverStep
<1>3. CASE \E p \in Callers : PrepareStep(p)
  BY <1>3, InspectInv, AdmitInv, RecordInv, CheckGuardsInv DEF PrepareStep
<1>4. CASE \E p \in Callers : CommitStep(p)
  BY <1>4, AssertTargetInv, MakeParentInv, RecheckInv, BackupInv, InstallInv, VerifyFailsInv, VerifyFinalInv,
     FinalizeInv DEF CommitStep
<1>5. CASE \E p \in Callers : RollbackStep(p)
  BY <1>5, RollbackRemoveInv, RollbackRestoreInv, RollbackDirectoryInv, RollbackDoneInv DEF RollbackStep
<1>6. CASE \E p \in Callers : CleanSome(p) \/ CleanDone(p) \/ Return(p) \/ Crash(p) \/ Fault(p) \/ RollbackFault(p)
  BY <1>6, CleanSomeInv, CleanDoneInv, LeaveInv, FaultInv, RollbackFaultInv
<1>7. CASE \E p \in Callers, c \in Calls : Begin(p, c)
  BY <1>7, BeginInv
<1>8. CASE \E r \in Readers : ReadLock(r) \/ ReadStep(r)
  BY <1>8, ReadInv
<1>9. CASE \E f \in Paths : Edit(f)
  BY <1>9, EditInv
<1> QED
  BY <1>1, <1>2, <1>3, <1>4, <1>5, <1>6, <1>7, <1>8, <1>9 DEF Next, ApplyStep

LEMMA WorkIsInv == Spec => []WorkInv
  BY WorkInitInv, WorkNextInv, PTL DEF Spec

-----------------------------------------------------------------------------
(* The properties. *)

(* Whatever crashes, failed operations, failed rollbacks, interrupted       *)
(* recoveries and edits by other programs happen, for any plans, callers    *)
(* and readers: without an active transaction the files are those of whole  *)
(* plans, no content is lost, there is one transaction directory at most,   *)
(* and a reader sees no plan half applied (apply.go, recovery.go, read.go). *)
THEOREM FilesStayWhole == Spec => []FilesAreWhole
<1>1. WorkInv => FilesAreWhole
  <2> SUFFICES ASSUME WorkInv PROVE FilesAreWhole
    OBVIOUS
  <2>1. LockInv /\ TxnsInv /\ WorkTypeOK
    BY DEF WorkInv
  <2>2. Cardinality(lock \cap Callers) <= 1
    <3>1. lock \cap Callers = {p \in Callers : Inside(p)}
      BY <2>1, CallsAssumption DEF LockInv
    <3>2. CASE \E p \in Callers : Inside(p)
      <4>1. PICK p \in Callers : Inside(p)
        BY <3>2
      <4>2. lock \cap Callers = {p}
        BY <2>1, <3>1, <4>1 DEF LockInv
      <4>3. Cardinality({p}) = 1
        BY FS_Singleton
      <4> QED
        BY <4>2, <4>3
    <3>3. CASE ~\E p \in Callers : Inside(p)
      <4>1. lock \cap Callers = {}
        BY <3>1, <3>3
      <4>2. Cardinality({}) = 0
        BY FS_EmptySet
      <4> QED
        BY <4>1, <4>2
    <3> QED
      BY <3>2, <3>3
  <2>3. TypeOK
    BY <2>1, <2>2 DEF TypeOK, WorkTypeOK, LockInv, Inside
  <2>4. WholeOrNothing
    BY <2>1 DEF WholeOrNothing, TxnsInv
  <2>5. NothingLost
    <3> SUFFICES ASSUME NEW t \in Active, NEW i \in DOMAIN txns[t].plan.changes
                 PROVE  committed[txns[t].plan.changes[i].path]
                          \in {content[txns[t].plan.changes[i].path], txns[t].backup[i]}
      BY DEF NothingLost
    <3>1. Kept(t, i)
      BY <2>1 DEF TxnsInv, ActiveInv
    <3> QED
      BY <3>1 DEF Kept
  <2>6. OneTransaction
    <3>1. \A t, u \in Active \cup Debris : t = u
      BY <2>1 DEF TxnsInv, Active, Debris, Present
    <3>2. CASE Active \cup Debris = {}
      <4>1. Cardinality({}) = 0
        BY FS_EmptySet
      <4> QED
        BY <3>2, <4>1 DEF OneTransaction
    <3>3. CASE Active \cup Debris # {}
      <4>1. PICK t \in Active \cup Debris : TRUE
        BY <3>3
      <4>2. Active \cup Debris = {t}
        BY <3>1
      <4>3. Cardinality({t}) = 1
        BY FS_Singleton
      <4> QED
        BY <4>2, <4>3 DEF OneTransaction
    <3> QED
      BY <3>2, <3>3
  <2>7. ReadersSeeWhole
    <3>1. ASSUME NEW r \in Readers, reader[r] = "reading" PROVE content = committed /\ lock \cap Callers = {}
      <4>1. content = committed
        BY <2>1, <3>1 DEF TxnsInv
      <4>2. \A p \in Callers : ~Inside(p)
        BY <2>1, <3>1 DEF LockInv
      <4>3. lock \cap Callers = {}
        BY <2>1, <4>2, CallsAssumption DEF LockInv
      <4> QED
        BY <4>1, <4>3
    <3> QED
      BY <3>1 DEF ReadersSeeWhole
  <2> QED
    BY <2>3, <2>4, <2>5, <2>6, <2>7 DEF FilesAreWhole
<1> QED
  BY <1>1, WorkIsInv, PTL

(* The steps that change a public file, apart from edits by others. *)
ChangesTarget(p, i, v) ==
  /\ caller[p].pc \in {"commit", "rollback", "undo"}
  /\ i \in DOMAIN PlanOf(p).changes
  /\ committed[PlanOf(p).changes[i].path] = PlanOf(p).changes[i].before
  /\ content' = [content EXCEPT ![PlanOf(p).changes[i].path] = v]

LEMMA ContentSteps ==
  ASSUME WorkInv, Next
  PROVE  \/ content' = content
         \/ \E f \in Paths : Edit(f)
         \/ \E p \in Callers : \E i, v : ChangesTarget(p, i, v)
<1>1. ASSUME NEW p \in Callers, RecoverStep(p)
      PROVE  content' = content \/ \E i, v : ChangesTarget(p, i, v)
  <2>1. CASE UndoRemove(p) \/ UndoRestore(p)
    <3>1. PICK i, ch : i = Max(ToUndo(p)) /\ ch = PlanOf(p).changes[i]
      OBVIOUS
    <3>2. caller[p].pc = "undo" /\ ToUndo(p) # {} /\ \E v : content' = [content EXCEPT ![ch.path] = v]
      BY <2>1, <3>1 DEF UndoRemove, UndoRestore
    <3>3. PlanOf(p) \in Plans
      BY <3>2, OwnTxn DEF Owning
    <3>4. i \in DOMAIN PlanOf(p).changes
      <4>1. ToUndo(p) \subseteq 1 .. Len(PlanOf(p).changes) /\ Len(PlanOf(p).changes) \in Nat
        BY <3>3, IndexFacts DEF ToUndo
      <4>2. i \in ToUndo(p)
        BY <3>1, <3>2, <4>1, MaxIsMember
      <4> QED
        BY <4>2 DEF ToUndo
    <3>5. committed[ch.path] = ch.before
      BY <3>1, <3>2, <3>4 DEF WorkInv, PlaceInv, PlanOf
    <3>6. PICK v : content' = [content EXCEPT ![ch.path] = v]
      BY <3>2
    <3>7. ChangesTarget(p, i, v)
      BY <3>1, <3>2, <3>4, <3>5, <3>6 DEF ChangesTarget
    <3> QED
      BY <3>7
  <2> QED
    BY <1>1, <2>1 DEF RecoverStep, RecoverDebris, RecoverNothing, RecoverRefused, RecoverActive,
        UndoDirectory, UndoDone,
                      Recovered, disk
<1>2. ASSUME NEW p \in Callers, CommitStep(p)
      PROVE  content' = content \/ \E i, v : ChangesTarget(p, i, v)
  <2>1. CASE Backup(p)
    <3>1. PICK i \in Index : /\ Ready(p, i) /\ caller[p].rechecked
                             /\ content' = [content EXCEPT ![PlanOf(p).changes[i].path] = Missing]
      BY <2>1 DEF Backup
    <3>2. At(p, i) /\ committed[PlanOf(p).changes[i].path] = PlanOf(p).changes[i].before
      BY <3>1, ReadyFacts
    <3>3. ChangesTarget(p, i, Missing)
      BY <3>1, <3>2 DEF ChangesTarget, At
    <3> QED
      BY <3>3
  <2>2. CASE Install(p)
    <3>1. PICK i \in Index : /\ \/ Ready(p, i) /\ caller[p].rechecked
                                \/ At(p, i) /\ caller[p].journal[i] = {"moved"}
                             /\ content' = [content EXCEPT ![PlanOf(p).changes[i].path] = PlanOf(p).changes[i].after]
      BY <2>2 DEF Install
    <3>2. At(p, i) /\ caller[p].pc = "commit" /\ i \in DOMAIN PlanOf(p).changes
      BY <3>1 DEF Ready, At
    <3>3. committed[PlanOf(p).changes[i].path] = PlanOf(p).changes[i].before
      BY <3>1, <3>2, ReadyFacts DEF WorkInv, JournalInv, PlanOf
    <3>4. ChangesTarget(p, i, PlanOf(p).changes[i].after)
      BY <3>1, <3>2, <3>3 DEF ChangesTarget
    <3> QED
      BY <3>4
  <2> QED
    BY <1>2, <2>1, <2>2 DEF CommitStep, AssertTarget, MakeParent, Recheck, VerifyFails, VerifyFinal,
        Finalize, disk
<1>3. ASSUME NEW p \in Callers, RollbackStep(p)
      PROVE  content' = content \/ \E i, v : ChangesTarget(p, i, v)
  <2>1. CASE RollbackRemove(p) \/ RollbackRestore(p)
    <3>1. PICK i : i = Max(Moved(p))
      OBVIOUS
    <3>2. PICK done \in {"moved", "installed"} : LastMoved(p, done)
      BY <2>1 DEF RollbackRemove, RollbackRestore
    <3>3. PICK v : content' = [content EXCEPT ![PlanOf(p).changes[i].path] = v]
      BY <2>1, <3>1 DEF RollbackRemove, RollbackRestore
    <3>4. /\ caller[p].pc = "rollback" /\ i \in DOMAIN PlanOf(p).changes
          /\ committed[PlanOf(p).changes[i].path] = PlanOf(p).changes[i].before
      BY <3>1, <3>2, LastMovedFacts
    <3>5. ChangesTarget(p, i, v)
      BY <3>3, <3>4 DEF ChangesTarget
    <3> QED
      BY <3>5
  <2> QED
    BY <1>3, <2>1 DEF RollbackStep, RollbackDirectory, RollbackDone, disk
<1>4. ASSUME NEW p \in Callers, NEW c \in Calls, Begin(p, c) PROVE content' = content
  BY <1>4 DEF Begin, disk
<1>5. ASSUME NEW p \in Callers,
             \/ PrepareStep(p) \/ CleanSome(p) \/ CleanDone(p) \/ Return(p)
             \/ Fault(p) \/ RollbackFault(p) \/ Crash(p)
      PROVE  content' = content
  BY <1>5 DEF PrepareStep, Inspect, Admit, CreateRecord, WriteRecord, CheckGuards, CleanSome,
      CleanDone, Return,
              Fault, RollbackFault, Crash, disk
<1>6. ASSUME NEW r \in Readers, ReadLock(r) \/ ReadStep(r) PROVE content' = content
  BY <1>6 DEF ReadLock, ReadStep, ReadRejected, ReadStart, BuildPlan, ReadDone, ReadUnlock, disk
<1> QED
  BY <1>1, <1>2, <1>3, <1>4, <1>5, <1>6 DEF Next, ApplyStep

(* Only finalizeTransaction makes an active transaction a done one. *)
LEMMA CommitSteps ==
  ASSUME WorkInv, Next, NEW t \in Txns, txns[t].kind = "active", txns'[t].kind = "done"
  PROVE  \E p \in Callers : Finalize(p) /\ caller[p].txn = t
<1>1. txns \in [Txns -> Txn] /\ txns[t] \in Txn
  BY DEF WorkInv, WorkTypeOK
<1>2. txns' # txns
  OBVIOUS
<1>3. ASSUME NEW p \in Callers, RecoverStep(p) PROVE FALSE
  <2>1. UndoRestore(p)
    BY <1>2, <1>3 DEF RecoverStep, RecoverDebris, RecoverNothing, RecoverRefused, RecoverActive, UndoRemove,
                      UndoDirectory, UndoDone, Recovered
  <2> QED
    BY <1>1, <2>1 DEF UndoRestore, Txn
<1>4. ASSUME NEW p \in Callers, PrepareStep(p) PROVE FALSE
  <2>1. CASE Inspect(p)
    BY <1>1, <2>1 DEF Inspect, Txn
  <2>2. CASE CreateRecord(p) \/ WriteRecord(p)
    BY <1>1, <2>2 DEF CreateRecord, WriteRecord, Txn
  <2> QED
    BY <1>2, <1>4, <2>1, <2>2 DEF PrepareStep, Admit, CheckGuards
<1>5. ASSUME NEW p \in Callers, CommitStep(p) PROVE Finalize(p) /\ caller[p].txn = t
  <2>1. CASE Backup(p)
    BY <1>1, <2>1 DEF Backup, Txn
  <2>2. CASE Finalize(p)
    BY <1>1, <2>2 DEF Finalize, Txn
  <2> QED
    BY <1>2, <1>5, <2>1, <2>2 DEF CommitStep, AssertTarget, MakeParent, Recheck, Install,
        VerifyFails, VerifyFinal
<1>6. ASSUME NEW p \in Callers, RollbackStep(p) PROVE FALSE
  <2>1. RollbackRestore(p)
    BY <1>2, <1>6 DEF RollbackStep, RollbackRemove, RollbackDirectory, RollbackDone
  <2> QED
    BY <1>1, <2>1 DEF RollbackRestore, Txn
<1>7. ASSUME NEW p \in Callers,
             CleanSome(p) \/ CleanDone(p) \/ Return(p) \/ Fault(p) \/ RollbackFault(p) \/ Crash(p)
      PROVE  FALSE
  <2>1. CASE CleanSome(p)
    BY <1>1, <2>1 DEF CleanSome, Txn
  <2>2. CASE CleanDone(p)
    BY <1>1, <2>2 DEF CleanDone, NoDirectory
  <2> QED
    BY <1>2, <1>7, <2>1, <2>2 DEF Return, Fault, RollbackFault, Crash
<1>8. ASSUME NEW p \in Callers, NEW c \in Calls, Begin(p, c) PROVE FALSE
  BY <1>2, <1>8 DEF Begin
<1>9. ASSUME NEW r \in Readers, ReadLock(r) \/ ReadStep(r) PROVE FALSE
  BY <1>2, <1>9 DEF ReadLock, ReadStep, ReadRejected, ReadStart, BuildPlan, ReadDone, ReadUnlock
<1>10. ASSUME NEW f \in Paths, Edit(f) PROVE FALSE
  BY <1>2, <1>10 DEF Edit
<1> QED
  BY <1>3, <1>4, <1>5, <1>6, <1>7, <1>8, <1>9, <1>10 DEF Next, ApplyStep

(* A step of caller p sets its result to one that says the plan is applied. *)
Disposes(p) == caller'[p].result \in {"committed", "replayed"} /\ caller'[p].result # caller[p].result

LEMMA GotoDisposes ==
  ASSUME WorkInv, NEW p \in Callers, NEW pc \in Phases, NEW res \in Results, Goto(p, pc, res)
  PROVE  Disposes(p) => res \in {"committed", "replayed"} /\ res # caller[p].result
  BY GotoFacts DEF Disposes

LEMMA CleanThenDisposes ==
  ASSUME WorkInv, NEW p \in Callers, NEW t \in Txns,
         NEW then \in {"recover", "recovered", "inspect", "return"}, NEW res \in Results,
         CleanThen(p, t, then, res)
  PROVE  Disposes(p) => res \in {"committed", "replayed"} /\ res # caller[p].result
  BY CleanThenFacts DEF Disposes

LEMMA RecoverDisposes ==
  ASSUME WorkInv, NEW p \in Callers, RecoverStep(p), Disposes(p)
  PROVE  Classify(PlanOf(p)) = "final"
<1>0. caller[p] \in Caller /\ caller \in [Callers -> Caller]
  BY CallerType
<1>1. CASE RecoverDebris(p)
  BY <1>1, CleanThenDisposes DEF RecoverDebris, Debris, Results
<1>2. CASE RecoverNothing(p) \/ RecoverRefused(p)
  BY <1>2, GotoDisposes DEF RecoverNothing, RecoverRefused, Phases, Results
<1>3. CASE RecoverActive(p)
  <2>1. PICK t \in Txns :
       \/ CleanThen(p, t, "inspect", "none") \/ CleanThen(p, t, "recovered", "none")
       \/ caller' = [caller EXCEPT ![p].pc = "finalize", ![p].txn = t, ![p].then = "recovered"]
       \/ caller' = [caller EXCEPT ![p].pc = "undo", ![p].txn = t]
    BY <1>3 DEF RecoverActive, Active
  <2>2. CASE CleanThen(p, t, "inspect", "none") \/ CleanThen(p, t, "recovered", "none")
    BY <2>2, CleanThenDisposes DEF Results
  <2>3. CASE \/ caller' = [caller EXCEPT ![p].pc = "finalize", ![p].txn = t, ![p].then = "recovered"]
             \/ caller' = [caller EXCEPT ![p].pc = "undo", ![p].txn = t]
    BY <1>0, <2>3 DEF Disposes, Caller
  <2> QED
    BY <2>1, <2>2, <2>3
<1>4. CASE UndoRemove(p) \/ UndoRestore(p) \/ UndoDirectory(p)
  BY <1>4 DEF UndoRemove, UndoRestore, UndoDirectory, Disposes
<1>5. CASE UndoDone(p)
  <2>1. caller[p].txn \in Txns
    BY <1>5, OwnTxn DEF UndoDone, Owning
  <2>2. CASE CleanThen(p, caller[p].txn, "recovered", "none")
    BY <2>1, <2>2, CleanThenDisposes DEF Results
  <2>3. CASE Goto(p, "return", "recovery")
    BY <2>3, GotoDisposes DEF Phases, Results
  <2> QED
    BY <1>5, <2>2, <2>3 DEF UndoDone
<1>6. CASE Recovered(p)
  <2>1. CASE \E pc \in Phases, res \in {"none", "restart", "changed"} : Goto(p, pc, res)
    BY <2>1, GotoDisposes DEF Results
  <2>2. "inspect" \in Phases /\ "return" \in Phases
    BY DEF Phases
  <2> QED
    BY <1>6, <2>1, <2>2, ClassifyFacts DEF Recovered
<1> QED
  BY <1>1, <1>2, <1>3, <1>4, <1>5, <1>6 DEF RecoverStep

LEMMA PrepareDisposes ==
  ASSUME WorkInv, NEW p \in Callers, PrepareStep(p), Disposes(p)
  PROVE  Classify(PlanOf(p)) = "final"
<1>0. caller[p] \in Caller /\ caller \in [Callers -> Caller]
  BY CallerType
<1>1. CASE Inspect(p)
  <2>1. CASE \E res \in {"refused", "changed"} : Goto(p, "return", res)
    BY <2>1, GotoDisposes DEF Phases, Results
  <2>2. CASE \E t : caller' = [caller EXCEPT ![p].pc = "stage", ![p].txn = t]
    BY <1>0, <2>2 DEF Disposes, Caller
  <2> QED
    BY <1>1, <2>1, <2>2 DEF Inspect
<1>2. CASE Admit(p)
  <2>1. caller[p].txn \in Txns
    BY <1>2, OwnTxn DEF Admit, Owning
  <2>2. CASE \E res \in {"refused", "changed"} : CleanThen(p, caller[p].txn, "return", res)
    BY <2>1, <2>2, CleanThenDisposes DEF Results
  <2>3. CASE Goto(p, "record", "none")
    BY <2>3, GotoDisposes DEF Phases, Results
  <2> QED
    BY <1>2, <2>2, <2>3 DEF Admit
<1>3. CASE CreateRecord(p) \/ WriteRecord(p)
  BY <1>3, GotoDisposes DEF CreateRecord, WriteRecord, Phases, Results
<1>4. CASE CheckGuards(p)
  <2>1. caller[p].txn \in Txns
    BY <1>4, OwnTxn DEF CheckGuards, Owning
  <2>2. CASE \E res \in {"refused", "changed"} : CleanThen(p, caller[p].txn, "return", res)
    BY <2>1, <2>2, CleanThenDisposes DEF Results
  <2>3. CASE \E b : caller' = [caller EXCEPT ![p].pc = "commit", ![p].i = 1, ![p].rechecked = b]
    BY <1>0, <2>3 DEF Disposes, Caller
  <2> QED
    BY <1>4, <2>2, <2>3 DEF CheckGuards
<1> QED
  BY <1>1, <1>2, <1>3, <1>4 DEF PrepareStep

LEMMA CommitDisposes ==
  ASSUME WorkInv, NEW p \in Callers, CommitStep(p), Disposes(p)
  PROVE  Classify(PlanOf(p)) = "final"
<1>0. caller[p] \in Caller /\ caller \in [Callers -> Caller]
  BY CallerType
<1>1. CASE AssertTarget(p) \/ MakeParent(p) \/ Backup(p) \/ Install(p)
  <2>1. CASE AssertTarget(p) \/ MakeParent(p)
    BY <1>0, <2>1 DEF AssertTarget, Advance, MakeParent, Disposes, Caller
  <2>2. CASE Backup(p)
    <3>1. PICK i \in Index :
            caller' = [caller EXCEPT ![p].journal = Journal(p, i, "moved"),
                                     ![p].i = IF PlanOf(p).changes[i].op = "delete" THEN @ + 1 ELSE @]
      BY <2>2 DEF Backup
    <3> QED
      BY <1>0, <3>1 DEF Disposes, Caller
  <2>3. CASE Install(p)
    <3>1. PICK i \in Index :
            caller' = [caller EXCEPT ![p].journal = Journal(p, i, "installed"), ![p].i = @ + 1]
      BY <2>3 DEF Install
    <3> QED
      BY <1>0, <3>1 DEF Disposes, Caller
  <2> QED
    BY <1>1, <2>1, <2>2, <2>3
<1>2. CASE Recheck(p)
  <2>1. CASE caller' = [caller EXCEPT ![p].rechecked = TRUE]
    BY <1>0, <2>1 DEF Disposes, Caller
  <2>2. CASE Goto(p, "rollback", "refused")
    BY <2>2, GotoDisposes DEF Phases, Results
  <2> QED
    BY <1>2, <2>1, <2>2 DEF Recheck
<1>3. CASE VerifyFails(p)
  BY <1>3, GotoDisposes DEF VerifyFails, Phases, Results
<1>4. CASE VerifyFinal(p)
  <2>1. CASE Goto(p, "rollback", "changed")
    BY <2>1, GotoDisposes DEF Phases, Results
  <2> QED
    BY <1>4, <2>1 DEF VerifyFinal
<1>5. CASE Finalize(p)
  <2>1. caller[p].txn \in Txns
    BY <1>5, OwnTxn DEF Finalize, Owning
  <2>2. caller[p].then \in {"recover", "recovered", "inspect", "return"} /\ caller[p].result \in Results
    BY <1>0 DEF Caller
  <2> QED
    BY <1>5, <2>1, <2>2, CleanThenDisposes DEF Finalize
<1> QED
  BY <1>1, <1>2, <1>3, <1>4, <1>5 DEF CommitStep

LEMMA OtherDisposes ==
  ASSUME WorkInv, NEW p \in Callers,
         RollbackStep(p) \/ CleanSome(p) \/ CleanDone(p) \/ Return(p) \/ Fault(p) \/ RollbackFault(p) \/ Crash(p)
  PROVE  ~Disposes(p)
<1>0. caller[p] \in Caller /\ caller \in [Callers -> Caller] /\ caller[p].result \in Results
  BY CallerType DEF Caller
<1>1. CASE RollbackRemove(p) \/ RollbackRestore(p) \/ RollbackDirectory(p)
  BY <1>0, <1>1 DEF RollbackRemove, RollbackRestore, RollbackDirectory, Undone, Disposes, Caller
<1>2. CASE RollbackDone(p)
  <2>1. caller[p].txn \in Txns
    BY <1>2, OwnTxn DEF RollbackDone, Owning
  <2> QED
    BY <1>0, <1>2, <2>1, GotoDisposes, CleanThenDisposes DEF RollbackDone, Phases
<1>3. CASE CleanSome(p)
  BY <1>3 DEF CleanSome, Disposes
<1>4. CASE CleanDone(p)
  <2>1. caller[p].then \in Phases
    BY <1>0 DEF Caller, Phases
  <2> QED
    BY <1>0, <1>4, <2>1, GotoDisposes DEF CleanDone
<1>5. CASE Return(p) \/ Crash(p)
  BY <1>0, <1>5 DEF Return, Crash, Disposes, IdleCaller
<1>6. CASE Fault(p)
  <2>1. CASE \E pc \in {"return", "rollback"}, res \in {"recovery", "failed", caller[p].result} : Goto(p, pc, res)
    BY <1>0, <2>1, GotoDisposes DEF Phases, Results
  <2>2. CASE caller[p].pc \in {"stage", "record", "write", "guard"} /\ CleanThen(p, caller[p].txn, "return", "failed")
    <3>1. caller[p].txn \in Txns
      BY <2>2, OwnTxn DEF Owning
    <3> QED
      BY <2>2, <3>1, CleanThenDisposes DEF Results
  <2> QED
    BY <1>6, <2>1, <2>2 DEF Fault
<1>7. CASE RollbackFault(p)
  BY <1>0, <1>7 DEF RollbackFault, Undone, Disposes, Caller
<1> QED
  BY <1>1, <1>2, <1>3, <1>4, <1>5, <1>6, <1>7 DEF RollbackStep

(* A step of one caller leaves the others alone. *)
LEMMA OthersStay ==
  ASSUME WorkInv, NEW p \in Callers, NEW q \in Callers, p # q,
         ApplyStep(q) \/ Fault(q) \/ RollbackFault(q) \/ Crash(q) \/ \E c \in Calls : Begin(q, c)
  PROVE  caller'[p] = caller[p]
<1>0. caller \in [Callers -> Caller]
  BY CallerType
<1>1. CASE RecoverStep(q)
  <2>1. CASE RecoverDebris(q) \/ RecoverNothing(q) \/ RecoverRefused(q) \/ UndoDone(q)
    BY <1>0, <2>1 DEF RecoverDebris, RecoverNothing, RecoverRefused, UndoDone, Goto, CleanThen
  <2>2. CASE RecoverActive(q)
    BY <1>0, <2>2 DEF RecoverActive, CleanThen
  <2>3. CASE UndoRemove(q) \/ UndoRestore(q) \/ UndoDirectory(q)
    BY <2>3 DEF UndoRemove, UndoRestore, UndoDirectory
  <2>4. CASE Recovered(q)
    <3>1. \E pc, res : Goto(q, pc, res)
      BY <2>4, ClassifyFacts DEF Recovered
    <3> QED
      BY <1>0, <3>1 DEF Goto
  <2> QED
    BY <1>1, <2>1, <2>2, <2>3, <2>4 DEF RecoverStep
<1>2. CASE PrepareStep(q)
  BY <1>0, <1>2 DEF PrepareStep, Inspect, Admit, CreateRecord, WriteRecord, CheckGuards, Goto, CleanThen
<1>3. CASE CommitStep(q)
  BY <1>0, <1>3 DEF CommitStep, AssertTarget, Advance, MakeParent, Recheck, Backup, Install,
      VerifyFails, VerifyFinal,
                    Finalize, Goto, CleanThen
<1>4. CASE RollbackStep(q)
  BY <1>0, <1>4 DEF RollbackStep, RollbackRemove, RollbackRestore, RollbackDirectory, RollbackDone,
      Undone, Goto,
                    CleanThen
<1>5. CASE CleanSome(q) \/ CleanDone(q) \/ Return(q) \/ Crash(q) \/ Fault(q) \/ RollbackFault(q)
  BY <1>0, <1>5 DEF CleanSome, CleanDone, Return, Crash, Fault, RollbackFault, Undone, Goto, CleanThen
<1>6. CASE \E c \in Calls : Begin(q, c)
  BY <1>0, <1>6 DEF Begin
<1> QED
  BY <1>1, <1>2, <1>3, <1>4, <1>5, <1>6 DEF ApplyStep

LEMMA DisposesTruly ==
  ASSUME WorkInv, Next, NEW p \in Callers, Disposes(p)
  PROVE  \A i \in DOMAIN PlanOf(p).changes : HoldsFinal(PlanOf(p).changes[i])
<1>1. caller'[p] # caller[p]
  BY DEF Disposes
<1>2. ASSUME NEW r \in Readers, ReadLock(r) \/ ReadStep(r) PROVE FALSE
  BY <1>1, <1>2 DEF ReadLock, ReadStep, ReadRejected, ReadStart, BuildPlan, ReadDone, ReadUnlock
<1>3. ASSUME NEW f \in Paths, Edit(f) PROVE FALSE
  BY <1>1, <1>3 DEF Edit
<1>4. ASSUME NEW c \in Calls, Begin(p, c) PROVE FALSE
  <2>1. caller'[p].result = "none"
    BY <1>4, CallerType DEF Begin, IdleCaller
  <2> QED
    BY <2>1 DEF Disposes
<1>5. \/ ApplyStep(p) \/ Fault(p) \/ RollbackFault(p) \/ Crash(p)
  BY <1>1, <1>2, <1>3, <1>4, OthersStay DEF Next
<1>6. Classify(PlanOf(p)) = "final"
  BY <1>5, RecoverDisposes, PrepareDisposes, CommitDisposes, OtherDisposes DEF ApplyStep
<1> QED
  BY <1>6, ClassifyFacts

(* A transaction that is complete was made from the state its plan was      *)
(* built for, and its gate passed Recheck.                                  *)
LEMMA FinalizeIsSound ==
  ASSUME WorkInv, NEW p \in Callers, Finalize(p), NEW t, t = caller[p].txn
  PROVE  /\ \A i \in DOMAIN txns[t].plan.changes :
              committed[txns[t].plan.changes[i].path] = txns[t].plan.changes[i].before
         /\ txns[t].record # NoGate => t \in vouched
<1>1. caller[p].pc = "finalize"
  BY DEF Finalize
<1>2. txns[t].plan = PlanOf(p) /\ ActiveInv(t) /\ PlanOf(p) \in Plans /\ GateOf(p) \in Gates
      /\ GateOf(p) \notin {"absent", "torn"}
  BY <1>1, OwnTxn DEF Owning
<1>3. /\ txns[t].record = GateOf(p)
      /\ \A i \in DOMAIN PlanOf(p).changes : HoldsFinal(PlanOf(p).changes[i])
  BY <1>1 DEF WorkInv, PlaceInv, PlanOf, GateOf
<1>4. ASSUME NEW i \in DOMAIN PlanOf(p).changes
      PROVE  committed[PlanOf(p).changes[i].path] = PlanOf(p).changes[i].before
  <2>1. Kept(t, i) /\ HoldsFinal(PlanOf(p).changes[i])
    BY <1>2, <1>3 DEF ActiveInv
  <2>2. Final(PlanOf(p).changes[i]) # Foreign /\ PlanOf(p).changes[i].before # Foreign
    BY <1>2, ChangeFacts
  <2> QED
    BY <1>2, <2>1, <2>2 DEF Kept, HoldsFinal
<1>5. ASSUME txns[t].record # NoGate PROVE t \in vouched
  <2>1. Effective(PlanOf(p))
    BY <1>2, <1>3 DEF ActiveInv
  <2>2. PICK i \in DOMAIN PlanOf(p).changes : PlanOf(p).changes[i].before # Final(PlanOf(p).changes[i])
    BY <2>1 DEF Effective
  <2>3. content[PlanOf(p).changes[i].path] # committed[PlanOf(p).changes[i].path]
    BY <1>3, <1>4, <2>2 DEF HoldsFinal
  <2> QED
    BY <1>2, <1>3, <1>5, <2>3 DEF ActiveInv
<1> QED
  BY <1>2, <1>4, <1>5

(* Every change of a public file is made under the lock by the call that    *)
(* the durable record belongs to; a commit is made from the state the plan  *)
(* was built for and vouched for by its gate, also when recovery finishes   *)
(* it; a result that says "applied" is true; and what another program wrote *)
(* is never overwritten (apply.go:130-311, recovery.go:160-290).            *)
THEOREM CommitsStaySound == Spec => CommitsAreSound
<1>1. ASSUME WorkInv, Next
      PROVE  (content' # content /\ edits' = edits) =>
               \E t \in Active, p \in lock :
                 /\ txns[t].record \in Gates /\ caller[p].txn = t
                 /\ caller[p].call = [plan |-> txns[t].plan, gate |-> txns[t].record]
  <2> SUFFICES ASSUME content' # content, edits' = edits
               PROVE  \E t \in Active, p \in lock :
                        /\ txns[t].record \in Gates /\ caller[p].txn = t
                        /\ caller[p].call = [plan |-> txns[t].plan, gate |-> txns[t].record]
    OBVIOUS
  <2>1. \A f \in Paths : ~Edit(f)
    BY <1>1 DEF Edit, WorkInv, WorkTypeOK
  <2>2. PICK p \in Callers : caller[p].pc \in {"commit", "rollback", "undo"}
    BY <1>1, <2>1, ContentSteps DEF ChangesTarget
  <2>3. PICK t : t = caller[p].txn
    OBVIOUS
  <2>4. /\ t \in Active /\ txns[t].plan = PlanOf(p) /\ GateOf(p) \in Gates /\ caller[p].call \in Calls /\ Inside(p)
    BY <1>1, <2>2, <2>3, OwnTxn DEF Owning
  <2>5. txns[t].record = GateOf(p)
    BY <1>1, <2>2, <2>3 DEF WorkInv, PlaceInv, GateOf
  <2>6. p \in lock
    BY <1>1, <2>4 DEF WorkInv, LockInv
  <2>7. caller[p].call = [plan |-> txns[t].plan, gate |-> txns[t].record]
    BY <2>4, <2>5, CallFacts DEF PlanOf, GateOf
  <2> QED
    BY <2>3, <2>4, <2>5, <2>6, <2>7
<1>2. ASSUME WorkInv, Next, NEW t \in Txns, txns[t].kind = "active", txns'[t].kind = "done"
      PROVE  /\ \A i \in DOMAIN txns[t].plan.changes :
                  committed[txns[t].plan.changes[i].path] = txns[t].plan.changes[i].before
             /\ txns[t].record # NoGate => t \in vouched
  BY <1>2, CommitSteps, FinalizeIsSound
<1>3. ASSUME WorkInv, Next, NEW f \in Paths, content[f] = Foreign PROVE content'[f] = Foreign
  <2>1. CASE \E g \in Paths : Edit(g)
    BY <1>3, <2>1 DEF Edit, WorkInv, WorkTypeOK
  <2>2. CASE \E p \in Callers : \E i, v : ChangesTarget(p, i, v)
    <3>0. PICK p \in Callers : \E i, v : ChangesTarget(p, i, v)
      BY <2>2
    <3>1. PICK i, v : ChangesTarget(p, i, v)
      BY <3>0
    <3>2. PICK ch, t : ch = PlanOf(p).changes[i] /\ t = caller[p].txn
      OBVIOUS
    <3>3. /\ caller[p].pc \in {"commit", "rollback", "undo"} /\ i \in DOMAIN PlanOf(p).changes
          /\ committed[ch.path] = ch.before /\ content' = [content EXCEPT ![ch.path] = v]
      BY <3>1, <3>2 DEF ChangesTarget
    <3>4. ActiveInv(t) /\ txns[t].plan = PlanOf(p) /\ PlanOf(p) \in Plans
      BY <1>3, <3>2, <3>3, OwnTxn DEF Owning
    <3>5. Kept(t, i) /\ ch.path \in Paths /\ ch.before # Foreign /\ Final(ch) # Foreign
      BY <3>2, <3>3, <3>4, ChangeFacts DEF ActiveInv
    <3>6. content[ch.path] # Foreign
      BY <3>2, <3>3, <3>4, <3>5, FilesAssumption DEF Kept
    <3> QED
      BY <1>3, <3>3, <3>6 DEF WorkInv, WorkTypeOK
  <2>3. CASE content' = content
    BY <1>3, <2>3
  <2> QED
    BY <1>3, <2>1, <2>2, <2>3, ContentSteps
<1>4. ASSUME WorkInv, [Next]_vars
      PROVE  /\ [(content' # content /\ edits' = edits) =>
                   \E t \in Active, p \in lock :
                     txns[t].record \in Gates /\ caller[p].txn = t
                       /\ caller[p].call = [plan |-> txns[t].plan, gate |-> txns[t].record]]_vars
             /\ [\A t \in Txns : (txns[t].kind = "active" /\ txns'[t].kind = "done") =>
                   \A i \in DOMAIN txns[t].plan.changes :
                     committed[txns[t].plan.changes[i].path] = txns[t].plan.changes[i].before]_vars
             /\ [\A t \in Txns : (txns[t].kind = "active" /\ txns'[t].kind = "done" /\ txns[t].record # NoGate) =>
                   t \in vouched]_vars
             /\ [\A p \in Callers :
                   (caller'[p].result \in {"committed", "replayed"} /\ caller'[p].result # caller[p].result) =>
                     \A i \in DOMAIN PlanOf(p).changes : HoldsFinal(PlanOf(p).changes[i])]_vars
             /\ [\A f \in Paths : content[f] = Foreign => content'[f] = Foreign]_vars
  <2>1. CASE UNCHANGED vars
    BY <2>1
  <2>2. CASE Next
    <3>1. \A p \in Callers :
             (caller'[p].result \in {"committed", "replayed"} /\ caller'[p].result # caller[p].result) =>
               \A i \in DOMAIN PlanOf(p).changes : HoldsFinal(PlanOf(p).changes[i])
      BY <1>4, <2>2, DisposesTruly DEF Disposes
    <3> QED
      BY <1>1, <1>2, <1>3, <1>4, <2>2, <3>1
  <2> QED
    BY <1>4, <2>1, <2>2
<1> QED
  BY <1>4, WorkIsInv, PTL DEF Spec, CommitsAreSound, MutationsAreJournalled, CommitsAreFresh,
      CommitsAreVouched,
                              DispositionMeansFinal, EditsAreKept
=============================================================================
