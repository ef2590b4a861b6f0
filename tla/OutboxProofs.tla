---------------------------- MODULE OutboxProofs -----------------------------
(***************************************************************************)
(* Proofs about Outbox, for any number of replicas, events, consumers and  *)
(* tokens, and about OutboxBackoff, for any width of the integers, any cap *)
(* and any number of failures.                                             *)
(***************************************************************************)
EXTENDS Outbox, OutboxBackoff, WellFoundedInduction, TLAPS

-----------------------------------------------------------------------------
(* The parts of the inductive invariant. *)

Working == {"delivering", "handling"}

(* The locals of a replica fit together: what was delivered and what failed *)
(* are disjoint parts of the batch, a replica at work has an event left,    *)
(* and it holds a token once its claim has committed.                       *)
Shape(r) ==
  /\ rep[r].done \subseteq rep[r].batch
  /\ rep[r].bad \subseteq rep[r].batch \ rep[r].done
  /\ rep[r].pc \in Working => rep[r].batch \ rep[r].done # {}
  /\ rep[r].next # 0
  /\ rep[r].pc = "handling" => HandlersLeft(r)
  /\ rep[r].pc = "claiming" => rep[r].batch # {} /\ rep[r].next = 1
  /\ rep[r].pc \in {"idle", "claiming", "delivering", "handling"} => rep[r].bad = {}
  /\ rep[r].pc \in {"idle", "claiming"} => rep[r].done = {}
  /\ rep[r].token = NoToken <=> rep[r].pc \in {"idle", "claiming"}

ReplicaShape == \A r \in Replicas : Shape(r)

(* Every subscriber of e has committed its handling. *)
Handled(e) ==
  /\ ~Undeliverable(e)
  /\ \A i \in 1..Len(Subs[e]) : <<Subs[e][i], e>> \in inbox

(* What a replica counts as delivered was handled by every subscriber; of   *)
(* the event it is at, the handlers it has passed without an error.         *)
Delivered(r) ==
  /\ \A e \in rep[r].done : Handled(e)
  /\ rep[r].pc \in Working /\ ~rep[r].err =>
       \A i \in 1..Len(Subs[Current(r)]) :
         i < rep[r].next => <<Subs[Current(r)][i], Current(r)>> \in inbox

DeliveredWasHandled == \A r \in Replicas : Delivered(r)

(* The inbox table counts the effects, and the transactions in progress     *)
(* hold different keys that are not in it.                                  *)
InboxCounts ==
  /\ \A d \in Deliveries : effects[d] = IF d \in inbox THEN 1 ELSE 0
  /\ \A r \in Replicas : rep[r].pc = "handling" => Handler(r) \notin inbox
  /\ \A r, q \in Replicas : rep[r].pc = "handling" /\ rep[q].pc = "handling"
                              /\ Handler(r) = Handler(q) => r = q

(* The rows an open claim transaction has selected stay as it saw them, and *)
(* no other transaction has selected them.                                  *)
AsSelected(r, e) ==
  /\ Pending(e) /\ rows[e].due /\ rows[e].lease # "live"
  /\ rep[r].seen[e] = rows[e].attempts

Selects(r, e) == rep[r].pc = "claiming" /\ e \in rep[r].batch

ClaimLocks ==
  \A r \in Replicas, e \in Events : Selects(r, e) =>
    /\ AsSelected(r, e)
    /\ \A q \in Replicas : Selects(q, e) => q = r

(* The attempts read at claim time are current as long as the row carries   *)
(* the token, and a claimed row is due.                                     *)
TokenGuardsRow ==
  /\ \A r \in Replicas, e \in Events :
       rep[r].token # NoToken /\ rows[e].token = rep[r].token =>
         rep[r].seen[e] = rows[e].attempts
  /\ \A e \in Events : rows[e].token # NoToken => rows[e].present /\ rows[e].due

(* A published or dead row exists and is due, so nothing is left to change. *)
SettledIsDue ==
  \A e \in Events : rows[e].published \/ rows[e].failed => rows[e].present /\ rows[e].due

-----------------------------------------------------------------------------
(* Lemmas about the operators. *)

(* Every non-empty set of events has a first one. *)
LEMMA FirstInIsMember ==
  ASSUME NEW S, S \subseteq Events, S # {}
  PROVE  FirstIn(S) \in S
<1>1. S \subseteq Nat
  BY OutboxAssumption DEF Events
<1>2. PICK x \in S : \A y \in S : ~(<<y, x>> \in OpToRel(<, Nat))
  BY <1>1, NatLessThanWellFounded, WFMin, Zenon
<1>3. \A y \in S : x <= y
  <2>1. SUFFICES ASSUME NEW y \in S, y < x PROVE FALSE
    BY <1>1
  <2>2. <<y, x>> \in OpToRel(<, Nat)
    BY <1>1, <2>1 DEF OpToRel
  <2>3. QED
    BY <1>2, <2>2
<1>4. QED
  BY <1>3 DEF FirstIn

(* A replica at work is at an event of its batch that it has not delivered. *)
LEMMA CurrentIsLeft ==
  ASSUME TypeOK, ReplicaShape, NEW r \in Replicas, rep[r].pc \in Working
  PROVE  /\ Current(r) \in rep[r].batch
         /\ Current(r) \notin rep[r].done
         /\ Current(r) \in Events
<1>1. rep[r].batch \subseteq Events
  BY DEF TypeOK, Replica
<1>2. rep[r].batch \ rep[r].done # {}
  BY DEF ReplicaShape, Shape
<1>3. Current(r) \in rep[r].batch \ rep[r].done
  BY <1>1, <1>2, FirstInIsMember DEF Current
<1>4. QED
  BY <1>1, <1>3

(* The handler it calls next is a subscriber of that event. *)
LEMMA HandlerIsDelivery ==
  ASSUME TypeOK, ReplicaShape, NEW r \in Replicas, rep[r].pc \in Working, HandlersLeft(r)
  PROVE  Handler(r) \in Deliveries
<1>1. Current(r) \in Events
  BY CurrentIsLeft
<1>2. Subs[Current(r)] \in Seq(Consumers)
  BY <1>1, OutboxAssumption
<1>3. rep[r].next \in 1..Len(Subs[Current(r)])
  <2>1. rep[r].next \in Nat \ {0}
    BY DEF TypeOK, Replica, ReplicaShape, Shape
  <2>2. QED
    BY <1>2, <2>1 DEF HandlersLeft
<1>4. Subs[Current(r)][rep[r].next] \in Consumers
  BY <1>2, <1>3
<1>5. QED
  BY <1>1, <1>4 DEF Handler, Deliveries

-----------------------------------------------------------------------------
(* How a step changes one row. *)

RowStep(e) ==
  \/ rows'[e] = rows[e]
  \/ ~rows[e].present /\ rows'[e] = [AbsentRow EXCEPT !.present = TRUE]
  \/ \E r \in Replicas, t \in FreshTokens :
       /\ rep[r].pc = "claiming" /\ rep'[r].pc # "claiming" /\ e \in rep[r].batch
       /\ rows'[e] = [rows[e] EXCEPT !.lease = "live", !.token = t]
  \/ \E r \in Replicas :
       /\ Owns(r, e) /\ ~LockedByClaim(e) /\ rep'[r] # rep[r]
       /\ \/ rep[r].pc = "publish" /\ e \in rep[r].done /\ rows'[e] = PublishedRow(rows[e])
          \/ rep[r].pc = "record" /\ rows'[e] = FailedRow(rows[e], rep[r].seen[e])
          \/ rep[r].pc = "release" /\ rows'[e] = Unclaimed(rows[e])
  \/ rows[e].lease = "live" /\ rows'[e] = [rows[e] EXCEPT !.lease = "expired"]
  \/ rows[e].present /\ ~rows[e].due /\ rows'[e] = [rows[e] EXCEPT !.due = TRUE]
  \/ rows[e].failed /\ ~rows[e].published /\ rows'[e] = RevivedRow(rows[e])

(* Every step of the system changes a row in one of these ways. *)
LEMMA NextChangesRows ==
  ASSUME TypeOK, [Next]_vars, NEW e \in Events
  PROVE  RowStep(e)
<1>1. ASSUME NEW r \in Replicas, ClaimCommit(r) \/ ClaimCommitLost(r)
      PROVE  RowStep(e)
  <2>1. rep'[r].pc # "claiming"
    BY <1>1 DEF TypeOK, Replica, ClaimCommit, ClaimCommitLost, IdleReplica
  <2>2. QED
    BY <1>1, <2>1 DEF ClaimCommit, ClaimCommitLost, Leased, RowStep
<1>2. ASSUME NEW r \in Replicas, MarkPublished(r) PROVE RowStep(e)
  <2>1. rep'[r] # rep[r]
    BY <1>2 DEF TypeOK, Replica, MarkPublished
  <2>2. rows'[e] = IF e \in rep[r].done /\ Owns(r, e) THEN PublishedRow(rows[e]) ELSE rows[e]
    BY <1>2 DEF MarkPublished, Statement
  <2>3. e \in rep[r].done => ~LockedByClaim(e)
    BY <1>2 DEF MarkPublished, Statement, RowsFree
  <2>4. QED
    BY <1>2, <2>1, <2>2, <2>3 DEF MarkPublished, RowStep
<1>3. ASSUME NEW r \in Replicas, RecordFailure(r) PROVE RowStep(e)
  <2>1. rep'[r] # rep[r]
    BY <1>3 DEF TypeOK, Replica, RecordFailure
  <2>2. CASE UNCHANGED rows
    BY <2>2 DEF RowStep
  <2>3. ASSUME NEW f \in rep[r].bad,
               RowsFree({f}),
               rows' = [g \in Events |-> IF g \in {f} /\ Owns(r, g)
                                         THEN FailedRow(rows[g], rep[r].seen[f]) ELSE rows[g]]
        PROVE  RowStep(e)
    <3>1. CASE e = f /\ Owns(r, f)
      <4>1. rows'[e] = FailedRow(rows[e], rep[r].seen[e])
        BY <2>3, <3>1
      <4>2. ~LockedByClaim(e)
        BY <2>3, <3>1 DEF RowsFree
      <4>3. QED
        BY <1>3, <2>1, <3>1, <4>1, <4>2 DEF RecordFailure, RowStep
    <3>2. CASE ~(e = f /\ Owns(r, f))
      BY <2>3, <3>2 DEF RowStep
    <3>3. QED
      BY <3>1, <3>2
  <2>4. QED
    BY <1>3, <2>2, <2>3 DEF RecordFailure, Statement
<1>4. ASSUME NEW r \in Replicas, ReleaseRest(r) PROVE RowStep(e)
  <2>1. rep'[r] # rep[r]
    BY <1>4 DEF TypeOK, Replica, ReleaseRest, IdleReplica
  <2>2. rows'[e] = IF e \in Rest(r) /\ Owns(r, e) THEN Unclaimed(rows[e]) ELSE rows[e]
    BY <1>4 DEF ReleaseRest, Statement
  <2>3. e \in Rest(r) => ~LockedByClaim(e)
    BY <1>4 DEF ReleaseRest, Statement, RowsFree
  <2>4. QED
    BY <1>4, <2>1, <2>2, <2>3 DEF ReleaseRest, RowStep
<1>5. ASSUME NEW f \in Events, Enqueue(f) \/ BackoffElapses(f) PROVE RowStep(e)
  BY <1>5 DEF TypeOK, Row, Enqueue, BackoffElapses, RowStep
<1>6. ASSUME NEW t \in Tokens, LeaseExpires(t) PROVE RowStep(e)
  BY <1>6 DEF LeaseExpires, RowStep
<1>7. ASSUME NEW ids \in SUBSET Events, Retry(ids) PROVE RowStep(e)
  BY <1>7 DEF Retry, RowStep
<1>8. ASSUME UNCHANGED rows PROVE RowStep(e)
  BY <1>8 DEF RowStep
<1>9. ASSUME NEW r \in Replicas, Claim(r) \/ Deliver(r) \/ Finalise(r) \/ Fault(r)
      PROVE  RowStep(e)
  BY <1>1, <1>2, <1>3, <1>4, <1>8, <1>9 DEF Claim, ClaimSelect, Deliver, Finalise, Fault,
     ClaimAbort, HandlerDuplicate, HandlerBegin, HandlerCommit, HandlerFail, HandlerPanic,
     DeliverOk, DeliverError, StatementFails, Crash
<1>10. QED
  BY <1>5, <1>6, <1>7, <1>8, <1>9 DEF Next, vars

-----------------------------------------------------------------------------
(* Type correctness and the shape of the replicas. *)

(* The first state is well typed and every replica idle. *)
LEMMA InitShape == Init => TypeOK /\ ReplicaShape
<1>1. ASSUME Init PROVE TypeOK
  BY <1>1, OutboxAssumption DEF Init, TypeOK, Row, AbsentRow, Replica, IdleReplica, Phases
<1>2. ASSUME Init PROVE ReplicaShape
  BY <1>2 DEF Init, ReplicaShape, Shape, IdleReplica, Working
<1>3. QED
  BY <1>1, <1>2

(* What the statements make of a row is a row again. *)
LEMMA RowOperators ==
  ASSUME NEW row \in Row, NEW seen \in Nat
  PROVE  /\ [AbsentRow EXCEPT !.present = TRUE] \in Row
         /\ Unclaimed(row) \in Row
         /\ PublishedRow(row) \in Row
         /\ FailedRow(row, seen) \in Row
         /\ RevivedRow(row) \in Row
<1>1. [AbsentRow EXCEPT !.present = TRUE] \in Row
  BY DEF AbsentRow, Row
<1>2. Unclaimed(row) \in Row
  BY DEF Unclaimed, Row
<1>3. PublishedRow(row) \in Row
  BY <1>2 DEF PublishedRow, Row
<1>4. row.attempts + 1 \in Nat
  BY DEF Row
<1>5. \A n \in Nat : /\ [Unclaimed(row) EXCEPT !.attempts = n, !.failed = TRUE] \in Row
                     /\ [Unclaimed(row) EXCEPT !.attempts = n, !.due = FALSE] \in Row
  BY <1>2, Zenon DEF Row
<1>6. FailedRow(row, seen) \in Row
  BY <1>4, <1>5 DEF FailedRow
<1>7. RevivedRow(row) \in Row
  BY <1>2 DEF RevivedRow, Row
<1>8. QED
  BY <1>1, <1>2, <1>3, <1>6, <1>7

(* The rows stay well typed. *)
LEMMA RowsTyped ==
  ASSUME TypeOK, [Next]_vars
  PROVE  rows' \in [Events -> Row]
<1>1. ASSUME NEW e \in Events PROVE rows'[e] \in Row
  <2>1. rows[e] \in Row
    BY DEF TypeOK
  <2>2. \A t \in FreshTokens : t \in Tokens
    BY DEF FreshTokens
  <2>3. RowStep(e)
    BY NextChangesRows
  <2>4. \A t \in Tokens : [rows[e] EXCEPT !.lease = "live", !.token = t] \in Row
    BY <2>1 DEF Row
  <2>5. [rows[e] EXCEPT !.lease = "expired"] \in Row /\ [rows[e] EXCEPT !.due = TRUE] \in Row
    BY <2>1 DEF Row
  <2>6. \A r \in Replicas : rep[r].seen[e] \in Nat
    BY DEF TypeOK, Replica
  <2>7. /\ [AbsentRow EXCEPT !.present = TRUE] \in Row /\ Unclaimed(rows[e]) \in Row
        /\ PublishedRow(rows[e]) \in Row /\ RevivedRow(rows[e]) \in Row
    BY <2>1, RowOperators
  <2>8. \A r \in Replicas : FailedRow(rows[e], rep[r].seen[e]) \in Row
    BY <2>1, <2>6, RowOperators
  <2>9. ASSUME NEW r \in Replicas, NEW t \in FreshTokens,
               rows'[e] = [rows[e] EXCEPT !.lease = "live", !.token = t]
        PROVE  rows'[e] \in Row
    BY <2>2, <2>4, <2>9
  <2>10. ASSUME NEW r \in Replicas,
                \/ rows'[e] = PublishedRow(rows[e])
                \/ rows'[e] = FailedRow(rows[e], rep[r].seen[e])
                \/ rows'[e] = Unclaimed(rows[e])
         PROVE  rows'[e] \in Row
    BY <2>7, <2>8, <2>10
  <2>11. QED
    BY <2>1, <2>3, <2>5, <2>7, <2>9, <2>10, Zenon DEF RowStep
<1>2. \E f : rows' = [e \in Events |-> f[e]]
  <2>1. rows = [e \in Events |-> rows[e]]
    BY DEF TypeOK
  <2>2. UNCHANGED rows \/ \E f : rows' = [e \in Events |-> f[e]]
    BY <2>1 DEF Next, vars, Claim, ClaimSelect, ClaimCommit, Deliver, Finalise, Fault, ClaimAbort,
       ClaimCommitLost, HandlerDuplicate, HandlerBegin, HandlerCommit, HandlerFail, HandlerPanic,
       DeliverOk, DeliverError, MarkPublished, RecordFailure, ReleaseRest, StatementFails, Crash,
       Enqueue, BackoffElapses, LeaseExpires, Retry, Statement, Leased
  <2>3. QED
    BY <2>1, <2>2
<1>3. QED
  BY <1>1, <1>2

(* What the relay makes of its locals has their type again. *)
LEMMA ReplicaOperators ==
  ASSUME NEW p \in Replica, NEW x \in Phases
  PROVE  /\ [p EXCEPT !.pc = x] \in Replica
         /\ \A t \in Tokens : [p EXCEPT !.pc = x, !.token = t] \in Replica
         /\ \A n \in Nat, b \in BOOLEAN : [p EXCEPT !.pc = x, !.next = n, !.err = b] \in Replica
         /\ \A B \in SUBSET Events : [p EXCEPT !.pc = x, !.bad = B] \in Replica
         /\ \A B \in SUBSET Events, n \in Nat :
              [p EXCEPT !.done = B, !.next = n, !.pc = x] \in Replica
         /\ \A B \in SUBSET Events, f \in [Events -> Nat] :
              [p EXCEPT !.pc = x, !.batch = B, !.seen = f] \in Replica
BY Zenon DEF Replica

(* The phases, so that the set itself can stay unexpanded. *)
LEMMA PhaseNames ==
  /\ "idle" \in Phases /\ "claiming" \in Phases /\ "delivering" \in Phases
  /\ "handling" \in Phases /\ "publish" \in Phases /\ "record" \in Phases
  /\ "release" \in Phases
BY DEF Phases

(* The replicas stay well typed. *)
LEMMA ReplicasTyped ==
  ASSUME TypeOK, ReplicaShape, [Next]_vars
  PROVE  rep' \in [Replicas -> Replica]
<1>1. IdleReplica \in Replica
  BY OutboxAssumption DEF IdleReplica, Replica, Phases
<1>2. SUFFICES ASSUME NEW r \in Replicas, Claim(r) \/ Deliver(r) \/ Finalise(r) \/ Fault(r)
               PROVE  rep' \in [Replicas -> Replica]
  BY DEF Next, vars, Enqueue, BackoffElapses, LeaseExpires, Retry, TypeOK
<1>3. rep \in [Replicas -> Replica] /\ rep[r] \in Replica
  BY DEF TypeOK
<1>4. SUFFICES \/ UNCHANGED rep
               \/ \E p \in Replica : rep' = [rep EXCEPT ![r] = p]
  BY <1>3
<1>5. CASE ClaimSelect(r)
  <2> DEFINE S == FirstOf({e \in Events : Claimable(e) /\ ~LockedByClaim(e)}, Batch)
             seen == [e \in Events |-> IF e \in S THEN rows[e].attempts ELSE 0]
  <2>1. S \in SUBSET Events
    BY DEF FirstOf
  <2>2. seen \in [Events -> Nat]
    BY DEF TypeOK, Row
  <2>3. [IdleReplica EXCEPT !.pc = "claiming", !.batch = S, !.seen = seen] \in Replica
    BY <1>1, <2>1, <2>2, ReplicaOperators, PhaseNames
  <2>4. UNCHANGED rep \/ rep' = [rep EXCEPT ![r] =
          [IdleReplica EXCEPT !.pc = "claiming", !.batch = S, !.seen = seen]]
    BY <1>5 DEF ClaimSelect
  <2>5. QED
    BY <2>3, <2>4
<1>6. CASE ClaimCommit(r)
  <2>1. PICK t \in Tokens : rep' = [rep EXCEPT ![r].pc = "delivering", ![r].token = t]
    BY <1>6 DEF ClaimCommit, FreshTokens
  <2>2. rep' = [rep EXCEPT ![r] = [rep[r] EXCEPT !.pc = "delivering", !.token = t]]
    BY <1>3, <2>1
  <2>3. QED
    BY <1>3, <2>2, ReplicaOperators, PhaseNames
<1>7. ASSUME NEW failed \in BOOLEAN, HandlerReturns(r, failed)
      PROVE  \E p \in Replica : rep' = [rep EXCEPT ![r] = p]
  <2>1. rep[r].next + 1 \in Nat /\ (rep[r].err \/ failed) \in BOOLEAN
    BY <1>3 DEF Replica
  <2>2. rep' = [rep EXCEPT ![r] = [rep[r] EXCEPT !.pc = "delivering",
                  !.next = rep[r].next + 1, !.err = rep[r].err \/ failed]]
    BY <1>7 DEF HandlerReturns
  <2>3. QED
    BY <1>3, <2>1, <2>2, ReplicaOperators, PhaseNames
<1>8. ASSUME rep[r].pc \in Working, StopBatch(r)
      PROVE  \E p \in Replica : rep' = [rep EXCEPT ![r] = p]
  <2>1. {Current(r)} \in SUBSET Events
    BY <1>8, CurrentIsLeft
  <2>2. rep' = [rep EXCEPT ![r] = [rep[r] EXCEPT !.pc = "publish", !.bad = {Current(r)}]]
    BY <1>8 DEF StopBatch
  <2>3. QED
    BY <1>3, <2>1, <2>2, ReplicaOperators, PhaseNames
<1>9. CASE DeliverOk(r)
  <2> DEFINE done == rep[r].done \cup {Current(r)}
             pc == IF done = rep[r].batch THEN "publish" ELSE "delivering"
  <2>1. done \in SUBSET Events
    BY <1>3, <1>9, CurrentIsLeft DEF DeliverOk, Working, Replica
  <2>2. pc \in Phases
    BY PhaseNames
  <2>3. rep' = [rep EXCEPT ![r] = [rep[r] EXCEPT !.done = done, !.next = 1, !.pc = pc]]
    BY <1>9 DEF DeliverOk
  <2>4. QED
    BY <1>3, <2>1, <2>2, <2>3, ReplicaOperators
<1>10. ASSUME NEW x \in Phases, rep' = [rep EXCEPT ![r].pc = x]
      PROVE  \E p \in Replica : rep' = [rep EXCEPT ![r] = p]
  <2>1. rep' = [rep EXCEPT ![r] = [rep[r] EXCEPT !.pc = x]]
    BY <1>10
  <2>2. QED
    BY <1>3, <2>1, ReplicaOperators
<1>11. CASE Deliver(r) \/ HandlerCommit(r, TRUE)
  BY <1>7, <1>8, <1>9, <1>10, <1>11, PhaseNames
     DEF Deliver, HandlerDuplicate, HandlerBegin, HandlerCommit,
         HandlerFail, HandlerPanic, DeliverError, Working
<1>12. CASE Finalise(r)
  BY <1>1, <1>10, <1>12, PhaseNames DEF Finalise, MarkPublished, RecordFailure, ReleaseRest
<1>13. CASE Fault(r)
  BY <1>1, <1>10, <1>11, <1>13, PhaseNames
     DEF Fault, ClaimCommitLost, ClaimAbort, StatementFails, Crash
<1>14. QED
  BY <1>2, <1>5, <1>6, <1>11, <1>12, <1>13 DEF Claim

Acts(r) == Claim(r) \/ Deliver(r) \/ Finalise(r) \/ Fault(r)

(* The other replicas keep their locals. *)
LEMMA OnlyOneActs ==
  ASSUME TypeOK, NEW r \in Replicas, Acts(r), NEW q \in Replicas, q # r
  PROVE  rep'[q] = rep[q]
BY DEF TypeOK, Acts, Claim, ClaimSelect, ClaimCommit, Deliver, Finalise, Fault, ClaimAbort,
   ClaimCommitLost, HandlerDuplicate, HandlerBegin, HandlerCommit, HandlerFail, HandlerPanic,
   HandlerReturns, StopBatch, DeliverOk, DeliverError, MarkPublished, RecordFailure,
   ReleaseRest, StatementFails, Crash

(* Every step keeps the locals of relayOnce together. *)
LEMMA ShapeStep ==
  ASSUME TypeOK, ReplicaShape, [Next]_vars
  PROVE  ReplicaShape'
<1>1. ASSUME NEW q \in Replicas, rep'[q] = rep[q] PROVE Shape(q)'
  BY <1>1 DEF ReplicaShape, Shape, HandlersLeft, Current
<1>2. SUFFICES ASSUME NEW r \in Replicas, Acts(r) PROVE Shape(r)'
  BY <1>1, OnlyOneActs
     DEF ReplicaShape, Acts, Next, vars, Enqueue, BackoffElapses, LeaseExpires, Retry
<1>3. rep \in [Replicas -> Replica] /\ rep[r] \in Replica /\ Shape(r)
  BY DEF TypeOK, ReplicaShape
<1>4. CASE ClaimSelect(r)
  <2> DEFINE S == FirstOf({e \in Events : Claimable(e) /\ ~LockedByClaim(e)}, Batch)
             seen == [e \in Events |-> IF e \in S THEN rows[e].attempts ELSE 0]
  <2>1. CASE UNCHANGED rep
    BY <1>1, <2>1
  <2>2. CASE S # {} /\ rep'[r] = [IdleReplica EXCEPT !.pc = "claiming", !.batch = S, !.seen = seen]
    BY <2>2 DEF Shape, IdleReplica, Working
  <2>3. QED
    BY <1>3, <1>4, <2>1, <2>2 DEF ClaimSelect
<1>5. CASE ClaimCommit(r)
  <2>1. PICK t \in Tokens : rep'[r] = [rep[r] EXCEPT !.pc = "delivering", !.token = t]
    BY <1>3, <1>5 DEF ClaimCommit, FreshTokens
  <2>2. rep[r].pc = "claiming" /\ t # NoToken
    BY <1>5, OutboxAssumption DEF ClaimCommit
  <2>3. QED
    BY <1>3, <2>1, <2>2 DEF Shape, Replica, Working
<1>6. ASSUME NEW failed \in BOOLEAN, rep[r].pc \in Working, HandlerReturns(r, failed)
      PROVE  Shape(r)'
  <2>1. rep'[r] = [rep[r] EXCEPT !.pc = "delivering", !.next = rep[r].next + 1,
                                 !.err = rep[r].err \/ failed]
    BY <1>3, <1>6 DEF HandlerReturns
  <2>2. rep[r].next + 1 # 0
    BY <1>3 DEF Replica
  <2>3. QED
    BY <1>3, <1>6, <2>1, <2>2 DEF Shape, Replica, Working
<1>7. ASSUME rep[r].pc \in Working, StopBatch(r) PROVE Shape(r)'
  <2>1. rep'[r] = [rep[r] EXCEPT !.pc = "publish", !.bad = {Current(r)}]
    BY <1>3, <1>7 DEF StopBatch
  <2>2. Current(r) \in rep[r].batch /\ Current(r) \notin rep[r].done
    BY <1>7, CurrentIsLeft
  <2>3. QED
    BY <1>3, <1>7, <2>1, <2>2 DEF Shape, Replica, Working
<1>8. CASE DeliverOk(r)
  <2> DEFINE done == rep[r].done \cup {Current(r)}
             pc == IF done = rep[r].batch THEN "publish" ELSE "delivering"
  <2>1. rep'[r] = [rep[r] EXCEPT !.done = done, !.next = 1, !.pc = pc]
    BY <1>3, <1>8 DEF DeliverOk
  <2>2. Current(r) \in rep[r].batch /\ rep[r].pc = "delivering"
    BY <1>8, CurrentIsLeft DEF DeliverOk, Working
  <2>3. /\ rep'[r].done = done /\ rep'[r].next = 1 /\ rep'[r].pc = pc
        /\ rep'[r].batch = rep[r].batch /\ rep'[r].bad = rep[r].bad
        /\ rep'[r].token = rep[r].token
    BY <1>3, <2>1 DEF Replica
  <2>4. QED
    BY <1>3, <2>2, <2>3 DEF Shape, Working
<1>9. CASE HandlerBegin(r)
  <2>1. rep'[r] = [rep[r] EXCEPT !.pc = "handling"]
    BY <1>3, <1>9 DEF HandlerBegin
  <2>2. rep[r].pc = "delivering" /\ HandlersLeft(r)
    BY <1>9 DEF HandlerBegin
  <2>3. HandlersLeft(r)'
    BY <1>3, <2>1, <2>2 DEF HandlersLeft, Current, Replica
  <2>4. QED
    BY <1>3, <2>1, <2>2, <2>3 DEF Shape, Replica, Working
<1>10. ASSUME rep'[r] = IdleReplica PROVE Shape(r)'
  BY <1>10 DEF Shape, IdleReplica, Working
<1>11. ASSUME NEW x \in {"publish", "record", "release"},
              rep[r].pc \in {"publish", "record", "release"},
              rep'[r] = [rep[r] EXCEPT !.pc = x]
       PROVE  Shape(r)'
  BY <1>3, <1>11 DEF Shape, Replica, Working
<1>12. CASE Deliver(r) \/ HandlerCommit(r, TRUE)
  BY <1>6, <1>7, <1>8, <1>9, <1>12 DEF Deliver, HandlerDuplicate, HandlerCommit,
     HandlerFail, HandlerPanic, DeliverError, Working
<1>13. CASE Finalise(r)
  BY <1>3, <1>10, <1>11, <1>13 DEF Finalise, MarkPublished, RecordFailure, ReleaseRest
<1>14. CASE Fault(r)
  BY <1>3, <1>10, <1>11, <1>12, <1>14
     DEF Fault, ClaimCommitLost, ClaimAbort, StatementFails, Crash
<1>15. QED
  BY <1>2, <1>4, <1>5, <1>12, <1>13, <1>14 DEF Acts, Claim

(* Every step keeps the types. *)
LEMMA TypeStep ==
  ASSUME TypeOK, ReplicaShape, [Next]_vars
  PROVE  TypeOK'
<1>1. ASSUME NEW r \in Replicas, NEW lost \in BOOLEAN, HandlerCommit(r, lost)
      PROVE  inbox' \subseteq Deliveries /\ effects' \in [Deliveries -> Nat]
  <2>1. Handler(r) \in Deliveries
    BY <1>1, HandlerIsDelivery DEF HandlerCommit, ReplicaShape, Shape, Working
  <2>2. QED
    BY <1>1, <2>1 DEF HandlerCommit, TypeOK
<1>2. inbox' \subseteq Deliveries /\ effects' \in [Deliveries -> Nat]
  BY <1>1 DEF TypeOK, Next, vars, Claim, ClaimSelect, ClaimCommit, Deliver, Finalise, Fault,
     ClaimAbort, ClaimCommitLost, HandlerDuplicate, HandlerBegin, HandlerFail, HandlerPanic,
     DeliverOk, DeliverError, MarkPublished, RecordFailure, ReleaseRest, StatementFails, Crash,
     Enqueue, BackoffElapses, LeaseExpires, Retry
<1>3. QED
  BY <1>2, RowsTyped, ReplicasTyped DEF TypeOK

(* Type correctness: the tables and the locals of every relay keep their    *)
(* shape, in particular relayOnce always finds an event to deliver and a    *)
(* handler to call where it indexes one.                                    *)
THEOREM TypeCorrect == Spec => []TypeOK
<1>1. TypeOK /\ ReplicaShape /\ [Next]_vars => TypeOK' /\ ReplicaShape'
  BY TypeStep, ShapeStep
<1>2. QED
  BY <1>1, InitShape, PTL DEF Spec

-----------------------------------------------------------------------------
(* Nothing is published that was not handled. *)

(* Nothing removes an inbox key, so what was handled stays handled. *)
LEMMA InboxGrows ==
  ASSUME [Next]_vars
  PROVE  inbox \subseteq inbox' /\ \A e \in Events : Handled(e) => Handled(e)'
<1>1. inbox \subseteq inbox'
  BY DEF Next, vars, Claim, ClaimSelect, ClaimCommit, Deliver, Finalise, Fault, HandlerCommit,
     ClaimAbort, ClaimCommitLost, HandlerDuplicate, HandlerBegin, HandlerFail, HandlerPanic,
     DeliverOk, DeliverError, MarkPublished, RecordFailure, ReleaseRest, StatementFails, Crash,
     Enqueue, BackoffElapses, LeaseExpires, Retry
<1>2. QED
  BY <1>1 DEF Handled, Undeliverable

(* A replica passes a handler without error only when it has committed. *)
LEMMA DeliveredStep ==
  ASSUME TypeOK, ReplicaShape, DeliveredWasHandled, [Next]_vars
  PROVE  DeliveredWasHandled'
<1>1. ASSUME NEW q \in Replicas, rep'[q] = rep[q] PROVE Delivered(q)'
  <2>1. rep[q].done \subseteq Events
    BY DEF TypeOK, Replica
  <2>2. QED
    BY <1>1, <2>1, InboxGrows DEF DeliveredWasHandled, Delivered, Current
<1>2. SUFFICES ASSUME NEW r \in Replicas, Acts(r) PROVE Delivered(r)'
  BY <1>1, OnlyOneActs
     DEF DeliveredWasHandled, Acts, Next, vars, Enqueue, BackoffElapses, LeaseExpires, Retry
<1>3. /\ rep \in [Replicas -> Replica] /\ rep[r] \in Replica
      /\ rep[r].done \subseteq Events
      /\ Shape(r) /\ Delivered(r)
      /\ \A e \in rep[r].done : Handled(e)'
  BY InboxGrows DEF TypeOK, Replica, ReplicaShape, DeliveredWasHandled, Delivered
<1>4. ASSUME rep'[r].pc \notin Working, rep'[r].done \subseteq rep[r].done PROVE Delivered(r)'
  BY <1>3, <1>4 DEF Delivered
<1>5. CASE ClaimSelect(r)
  <2>1. UNCHANGED rep \/ (rep'[r].pc = "claiming" /\ rep'[r].done = {})
    BY <1>3, <1>5 DEF ClaimSelect, IdleReplica
  <2>2. QED
    BY <1>1, <1>4, <2>1 DEF Working
<1>6. CASE ClaimCommit(r)
  <2>1. rep'[r].next = 1 /\ rep'[r].done = {}
    BY <1>3, <1>6 DEF ClaimCommit, Shape, Replica
  <2>2. \A i \in Nat \ {0} : ~(i < 1)
    OBVIOUS
  <2>3. QED
    BY <2>1, <2>2 DEF Delivered
<1>7. ASSUME NEW failed \in BOOLEAN, rep[r].pc \in Working, HandlersLeft(r),
             HandlerReturns(r, failed), failed \/ Handler(r) \in inbox'
      PROVE  Delivered(r)'
  <2>1. /\ rep'[r].pc = "delivering" /\ rep'[r].next = rep[r].next + 1
        /\ rep'[r].err <=> (rep[r].err \/ failed)
        /\ rep'[r].done = rep[r].done /\ rep'[r].batch = rep[r].batch
    BY <1>3, <1>7 DEF HandlerReturns, Replica
  <2>2. Current(r)' = Current(r)
    BY <2>1 DEF Current
  <2>3. ASSUME ~rep'[r].err, NEW i \in 1..Len(Subs[Current(r)]), i < rep[r].next + 1
        PROVE  <<Subs[Current(r)][i], Current(r)>> \in inbox'
    <3>1. Len(Subs[Current(r)]) \in Nat /\ rep[r].next \in Nat
      BY <1>3, <1>7, CurrentIsLeft, OutboxAssumption DEF Replica
    <3>2. CASE i < rep[r].next
      BY <1>3, <1>7, <2>1, <2>3, <3>2, InboxGrows DEF Delivered
    <3>3. CASE i = rep[r].next
      BY <1>7, <2>1, <2>3, <3>3 DEF Handler
    <3>4. QED
      BY <2>3, <3>1, <3>2, <3>3
  <2>4. QED
    BY <1>3, <2>1, <2>2, <2>3 DEF Delivered
<1>8. ASSUME rep[r].pc \in Working, StopBatch(r) PROVE Delivered(r)'
  <2>1. rep'[r].pc = "publish" /\ rep'[r].done = rep[r].done
    BY <1>3, <1>8 DEF StopBatch, Replica
  <2>2. QED
    BY <1>4, <2>1 DEF Working
<1>9. CASE DeliverOk(r)
  <2>1. PICK c \in Events : c = Current(r)
    BY <1>9, CurrentIsLeft DEF DeliverOk, Working
  <2>2. rep'[r].done = rep[r].done \cup {c} /\ rep'[r].next = 1
    BY <1>3, <1>9, <2>1 DEF DeliverOk, Replica
  <2>3. Len(Subs[c]) \in Nat /\ rep[r].next \in Nat
    BY <1>3, OutboxAssumption DEF Replica
  <2>4. ~Undeliverable(c) /\ ~(rep[r].next <= Len(Subs[c]))
    BY <1>9, <2>1 DEF DeliverOk, HandlersLeft
  <2>5. \A i \in 1..Len(Subs[c]) : <<Subs[c][i], c>> \in inbox
    BY <1>3, <1>9, <2>1, <2>3, <2>4 DEF DeliverOk, Delivered, Working
  <2>6. Handled(c)'
    BY <2>4, <2>5, InboxGrows DEF Handled
  <2>7. \A i \in Nat \ {0} : ~(i < 1)
    OBVIOUS
  <2>8. QED
    BY <1>3, <2>2, <2>6, <2>7 DEF Delivered
<1>10. CASE HandlerBegin(r)
  <2>1. /\ rep'[r].err = rep[r].err /\ rep'[r].next = rep[r].next
        /\ rep'[r].done = rep[r].done /\ rep'[r].batch = rep[r].batch
    BY <1>3, <1>10 DEF HandlerBegin, Replica
  <2>2. Current(r)' = Current(r) /\ rep[r].pc \in Working
    BY <1>10, <2>1 DEF Current, HandlerBegin, Working
  <2>3. QED
    BY <1>3, <2>1, <2>2, InboxGrows DEF Delivered
<1>11. CASE Deliver(r) \/ HandlerCommit(r, TRUE)
  <2>1. rep[r].pc = "handling" => HandlersLeft(r)
    BY <1>3 DEF Shape
  <2>2. QED
    BY <1>7, <1>8, <1>9, <1>10, <1>11, <2>1 DEF Deliver, HandlerDuplicate, HandlerCommit,
       HandlerFail, HandlerPanic, DeliverError, Working
<1>12. ASSUME rep'[r] = IdleReplica PROVE Delivered(r)'
  BY <1>4, <1>12 DEF IdleReplica, Working
<1>13. ASSUME NEW x \in {"publish", "record", "release"}, rep'[r] = [rep[r] EXCEPT !.pc = x]
       PROVE  Delivered(r)'
  BY <1>3, <1>4, <1>13 DEF Replica, Working
<1>14. CASE Finalise(r)
  BY <1>3, <1>12, <1>13, <1>14 DEF Finalise, MarkPublished, RecordFailure, ReleaseRest
<1>15. CASE Fault(r)
  BY <1>3, <1>11, <1>12, <1>13, <1>15
     DEF Fault, ClaimCommitLost, ClaimAbort, StatementFails, Crash
<1>16. QED
  BY <1>2, <1>5, <1>6, <1>11, <1>14, <1>15 DEF Acts, Claim

(* Only MarkPublished publishes, and only what its replica delivered. *)
LEMMA PublishedStep ==
  ASSUME TypeOK, ReplicaShape, DeliveredWasHandled, PublishedWasHandled, [Next]_vars
  PROVE  PublishedWasHandled'
<1>1. SUFFICES ASSUME NEW e \in Events, rows'[e].published PROVE Handled(e)'
  BY DEF PublishedWasHandled, Handled
<1>2. CASE rows[e].published
  BY <1>2, InboxGrows DEF PublishedWasHandled, Handled
<1>3. CASE ~rows[e].published
  <2>1. rows[e] \in Row /\ RowStep(e)
    BY NextChangesRows DEF TypeOK
  <2>2. \E r \in Replicas : e \in rep[r].done
    BY <1>1, <1>3, <2>1
       DEF RowStep, Row, AbsentRow, FailedRow, RevivedRow, Unclaimed
  <2>3. QED
    BY <2>2, InboxGrows DEF DeliveredWasHandled, Delivered
<1>4. QED
  BY <1>2, <1>3

(* Nothing is delivered or published at first. *)
LEMMA InitDelivered == Init => DeliveredWasHandled /\ PublishedWasHandled
BY DEF Init, DeliveredWasHandled, Delivered, IdleReplica, Working, PublishedWasHandled, AbsentRow

(* An event that counts as published was handled by every subscriber.       *)
THEOREM PublishedMeansHandled == Spec => []PublishedWasHandled
<1> DEFINE I == TypeOK /\ ReplicaShape /\ DeliveredWasHandled /\ PublishedWasHandled
<1>1. Init => I
  BY InitShape, InitDelivered
<1>2. I /\ [Next]_vars => I'
  BY TypeStep, ShapeStep, DeliveredStep, PublishedStep
<1>3. QED
  BY <1>1, <1>2, PTL DEF Spec

-----------------------------------------------------------------------------
(* No business write is committed twice. *)

(* An inbox transaction is opened by HandlerBegin only. *)
LEMMA HandlingBegins ==
  ASSUME TypeOK, NEW r \in Replicas, Acts(r), rep'[r].pc = "handling"
  PROVE  HandlerBegin(r) \/ UNCHANGED rep
<1>1. rep \in [Replicas -> Replica] /\ rep[r] \in Replica
  BY DEF TypeOK
<1>2. ~Finalise(r)
  <2>1. /\ MarkPublished(r) => rep' = [rep EXCEPT ![r].pc = "record"]
        /\ RecordFailure(r) => rep' = [rep EXCEPT ![r].pc = "release"]
        /\ ReleaseRest(r) => rep' = [rep EXCEPT ![r] = IdleReplica]
    BY DEF MarkPublished, RecordFailure, ReleaseRest
  <2>2. /\ rep' # [rep EXCEPT ![r].pc = "record"]
        /\ rep' # [rep EXCEPT ![r].pc = "release"]
        /\ rep' # [rep EXCEPT ![r] = IdleReplica]
    BY <1>1 DEF Replica, IdleReplica
  <2>3. QED
    BY <2>1, <2>2 DEF Finalise
<1>3. ASSUME NEW failed \in BOOLEAN PROVE ~HandlerReturns(r, failed)
  BY <1>1 DEF HandlerReturns, Replica
<1>4. ~StopBatch(r) /\ ~DeliverOk(r)
  BY <1>1 DEF StopBatch, DeliverOk, Replica
<1>5. ~ClaimCommit(r)
  BY <1>1 DEF ClaimCommit, Replica
<1>6. ClaimSelect(r) => UNCHANGED rep
  BY <1>1 DEF ClaimSelect, IdleReplica
<1>7. ~ClaimCommitLost(r) /\ ~ClaimAbort(r) /\ ~StatementFails(r) /\ ~Crash(r)
  BY <1>1 DEF ClaimCommitLost, ClaimAbort, StatementFails, Crash, IdleReplica, Replica
<1>8. QED
  BY <1>2, <1>3, <1>4, <1>5, <1>6, <1>7 DEF Acts, Claim, Deliver, Fault, HandlerDuplicate,
     HandlerCommit, HandlerFail, HandlerPanic, DeliverError

(* An effect and its inbox key are committed together, under the key. *)
LEMMA InboxCountsStep ==
  ASSUME TypeOK, ReplicaShape, InboxCounts, [Next]_vars
  PROVE  InboxCounts'
<1>1. ASSUME NEW q \in Replicas, rep'[q] = rep[q] PROVE Handler(q)' = Handler(q)
  BY <1>1 DEF Handler, Current
<1>2. ASSUME UNCHANGED rep, UNCHANGED <<inbox, effects>> PROVE InboxCounts'
  <2>1. \A q \in Replicas : Handler(q)' = Handler(q)
    BY <1>1, <1>2
  <2>2. QED
    BY <1>2, <2>1 DEF InboxCounts
<1>3. ASSUME NEW r \in Replicas, HandlerCommit(r, TRUE) \/ HandlerCommit(r, FALSE)
      PROVE  InboxCounts'
  <2>1. Acts(r) /\ rep[r].pc = "handling" /\ rep'[r].pc # "handling"
    BY <1>3 DEF Acts, Deliver, Fault, HandlerCommit, HandlerReturns, TypeOK, Replica
  <2>2. PICK d \in Deliveries : d = Handler(r)
    BY <2>1, HandlerIsDelivery DEF ReplicaShape, Shape, Working
  <2>3. inbox' = inbox \cup {d} /\ effects' = [effects EXCEPT ![d] = effects[d] + 1]
    BY <1>3, <2>2 DEF HandlerCommit
  <2>4. d \notin inbox /\ effects[d] = 0
    BY <2>1, <2>2 DEF InboxCounts
  <2>5. \A c \in Deliveries : effects'[c] = IF c \in inbox' THEN 1 ELSE 0
    BY <2>3, <2>4 DEF InboxCounts, TypeOK
  <2>6. ASSUME NEW q \in Replicas, rep'[q].pc = "handling"
        PROVE  /\ q # r /\ rep[q].pc = "handling"
               /\ Handler(q)' = Handler(q) /\ Handler(q) # d /\ Handler(q) \notin inbox
    BY <1>1, <2>1, <2>2, <2>6, OnlyOneActs DEF InboxCounts
  <2>7. QED
    BY <2>3, <2>5, <2>6 DEF InboxCounts
<1>4. ASSUME NEW r \in Replicas, HandlerBegin(r) PROVE InboxCounts'
  <2>1. Acts(r) /\ UNCHANGED <<inbox, effects>>
    BY <1>4 DEF Acts, Deliver, HandlerBegin
  <2>2. Handler(r)' = Handler(r)
    BY <1>4 DEF HandlerBegin, Handler, Current, TypeOK, Replica
  <2>3. \A q \in Replicas : /\ Handler(q)' = Handler(q)
                            /\ q # r => rep'[q].pc = rep[q].pc
    BY <1>1, <2>1, <2>2, OnlyOneActs
  <2>4. Handler(r) \notin inbox
    BY <1>4 DEF HandlerBegin
  <2>5. \A q \in Replicas : rep[q].pc = "handling" => Handler(q) # Handler(r)
    BY <1>4 DEF HandlerBegin, InboxKeyHeld
  <2>6. QED
    BY <2>1, <2>3, <2>4, <2>5 DEF InboxCounts
<1>5. ASSUME NEW r \in Replicas, Acts(r), UNCHANGED <<inbox, effects>>, ~HandlerBegin(r)
      PROVE  InboxCounts'
  <2>1. CASE UNCHANGED rep
    BY <1>2, <1>5, <2>1
  <2>2. CASE ~UNCHANGED rep
    <3>1. rep'[r].pc # "handling"
      BY <1>5, <2>2, HandlingBegins
    <3>2. \A q \in Replicas : rep'[q].pc = "handling" =>
            rep[q].pc = "handling" /\ Handler(q)' = Handler(q)
      BY <1>1, <1>5, <3>1, OnlyOneActs
    <3>3. QED
      BY <1>5, <3>2 DEF InboxCounts
  <2>3. QED
    BY <2>1, <2>2
<1>6. ASSUME NEW r \in Replicas, Acts(r) PROVE InboxCounts'
  <2>1. HandlerCommit(r, TRUE) \/ HandlerCommit(r, FALSE) \/ UNCHANGED <<inbox, effects>>
    BY <1>6 DEF Acts, Claim, ClaimSelect, ClaimCommit, Deliver, Finalise, Fault, ClaimAbort,
       ClaimCommitLost, HandlerDuplicate, HandlerBegin, HandlerFail, HandlerPanic,
       DeliverOk, DeliverError, MarkPublished, RecordFailure, ReleaseRest, StatementFails, Crash
  <2>2. QED
    BY <1>3, <1>4, <1>5, <1>6, <2>1
<1>7. QED
  BY <1>2, <1>6 DEF Acts, Next, vars, Enqueue, BackoffElapses, LeaseExpires, Retry

(* No effect and no key at first. *)
LEMMA InitInbox == Init => InboxCounts
BY DEF Init, InboxCounts, IdleReplica

(* A consumer's business write is committed at most once, whatever leases   *)
(* run out, replies get lost and replicas crash.                            *)
THEOREM EffectsHappenOnce == Spec => []EffectAtMostOnce
<1> DEFINE I == TypeOK /\ ReplicaShape /\ InboxCounts
<1>1. Init => I
  BY InitShape, InitInbox
<1>2. I /\ [Next]_vars => I'
  BY TypeStep, ShapeStep, InboxCountsStep
<1>3. I => EffectAtMostOnce
  BY DEF InboxCounts, EffectAtMostOnce
<1>4. QED
  BY <1>1, <1>2, <1>3, PTL DEF Spec

-----------------------------------------------------------------------------
(* Claims. *)

(* What the statements write into the columns of a row. *)
LEMMA RowColumns ==
  ASSUME NEW row \in Row, NEW seen \in Nat
  PROVE  /\ \A new \in {Unclaimed(row), PublishedRow(row), FailedRow(row, seen), RevivedRow(row)} :
              new.lease = "none" /\ new.token = NoToken /\ new.present = row.present
         /\ Unclaimed(row).published = row.published /\ Unclaimed(row).failed = row.failed
         /\ Unclaimed(row).attempts = row.attempts /\ Unclaimed(row).due = row.due
         /\ PublishedRow(row).published /\ PublishedRow(row).failed = row.failed
         /\ PublishedRow(row).attempts = row.attempts /\ PublishedRow(row).due = row.due
         /\ FailedRow(row, seen).attempts = row.attempts + 1
         /\ FailedRow(row, seen).published = row.published
         /\ seen + 1 >= MaxAttempts => /\ FailedRow(row, seen).failed
                                       /\ FailedRow(row, seen).due = row.due
         /\ seen + 1 < MaxAttempts => FailedRow(row, seen).failed = row.failed
         /\ ~RevivedRow(row).failed /\ RevivedRow(row).published = row.published
         /\ RevivedRow(row).attempts = 0 /\ RevivedRow(row).due
<1>1. /\ Unclaimed(row) \in Row
      /\ Unclaimed(row).lease = "none" /\ Unclaimed(row).token = NoToken
      /\ Unclaimed(row).present = row.present /\ Unclaimed(row).published = row.published
      /\ Unclaimed(row).failed = row.failed /\ Unclaimed(row).attempts = row.attempts
      /\ Unclaimed(row).due = row.due
  BY DEF Row, Unclaimed
<1>2. PICK u \in Row : u = Unclaimed(row)
  BY <1>1
<1>3. /\ PublishedRow(row) = [u EXCEPT !.published = TRUE]
      /\ RevivedRow(row) = [u EXCEPT !.failed = FALSE, !.attempts = 0, !.due = TRUE]
      /\ FailedRow(row, seen) =
           IF seen + 1 >= MaxAttempts
           THEN [u EXCEPT !.attempts = row.attempts + 1, !.failed = TRUE]
           ELSE [u EXCEPT !.attempts = row.attempts + 1, !.due = FALSE]
  BY <1>2 DEF PublishedRow, RevivedRow, FailedRow
<1>4. /\ PublishedRow(row).lease = u.lease /\ PublishedRow(row).token = u.token
      /\ PublishedRow(row).present = u.present /\ PublishedRow(row).published
      /\ PublishedRow(row).failed = u.failed /\ PublishedRow(row).attempts = u.attempts
      /\ PublishedRow(row).due = u.due
  BY <1>3 DEF Row
<1>5. /\ RevivedRow(row).lease = u.lease /\ RevivedRow(row).token = u.token
      /\ RevivedRow(row).present = u.present /\ RevivedRow(row).published = u.published
      /\ ~RevivedRow(row).failed /\ RevivedRow(row).attempts = 0 /\ RevivedRow(row).due
  BY <1>3 DEF Row
<1>6. /\ FailedRow(row, seen).lease = u.lease /\ FailedRow(row, seen).token = u.token
      /\ FailedRow(row, seen).present = u.present
      /\ FailedRow(row, seen).published = u.published
      /\ FailedRow(row, seen).attempts = row.attempts + 1
      /\ seen + 1 >= MaxAttempts => /\ FailedRow(row, seen).failed
                                    /\ FailedRow(row, seen).due = u.due
      /\ ~(seen + 1 >= MaxAttempts) => FailedRow(row, seen).failed = u.failed
  BY <1>3 DEF Row
<1>7. ~(seen + 1 >= MaxAttempts) <=> seen + 1 < MaxAttempts
  BY OutboxAssumption
<1>8. QED
  BY <1>1, <1>2, <1>4, <1>5, <1>6, <1>7

(* A claim transaction is opened by ClaimSelect only. *)
LEMMA ClaimingBegins ==
  ASSUME TypeOK, [Next]_vars, NEW r \in Replicas, rep'[r].pc = "claiming", rep'[r] # rep[r]
  PROVE  ClaimSelect(r)
<1>1. Acts(r)
  BY OnlyOneActs DEF Acts, Next, vars, Enqueue, BackoffElapses, LeaseExpires, Retry
<1>2. rep \in [Replicas -> Replica] /\ rep[r] \in Replica
  BY DEF TypeOK
<1>3. \A failed \in BOOLEAN : ~HandlerReturns(r, failed)
  BY <1>2 DEF HandlerReturns, Replica
<1>4. ~StopBatch(r) /\ ~DeliverOk(r) /\ ~HandlerBegin(r)
  BY <1>2 DEF StopBatch, DeliverOk, HandlerBegin, Replica
<1>5. ~ClaimCommit(r)
  BY <1>2 DEF ClaimCommit, Replica
<1>6. /\ rep' # [rep EXCEPT ![r].pc = "record"]
      /\ rep' # [rep EXCEPT ![r].pc = "release"]
      /\ rep' # [rep EXCEPT ![r] = IdleReplica]
  BY <1>2 DEF Replica, IdleReplica
<1>7. QED
  BY <1>1, <1>3, <1>4, <1>5, <1>6 DEF Acts, Claim, Deliver, Finalise, Fault, HandlerDuplicate,
     HandlerCommit, HandlerFail, HandlerPanic, DeliverError, MarkPublished, RecordFailure,
     ReleaseRest, ClaimCommitLost, ClaimAbort, StatementFails, Crash

(* What the SELECT of a claim leaves in the locals. *)
LEMMA SelectFacts ==
  ASSUME TypeOK, NEW r \in Replicas, ClaimSelect(r), rep' # rep
  PROVE  /\ UNCHANGED rows
         /\ rep'[r].token = NoToken /\ rep'[r].done = {} /\ rep'[r].pc = "claiming"
         /\ \A e \in rep'[r].batch :
              /\ e \in Events /\ Claimable(e) /\ ~LockedByClaim(e)
              /\ rep'[r].seen[e] = rows[e].attempts
<1> DEFINE S == FirstOf({e \in Events : Claimable(e) /\ ~LockedByClaim(e)}, Batch)
           seen == [e \in Events |-> IF e \in S THEN rows[e].attempts ELSE 0]
<1>1. /\ UNCHANGED rows
      /\ rep'[r] = [IdleReplica EXCEPT !.pc = "claiming", !.batch = S, !.seen = seen]
  BY DEF ClaimSelect, TypeOK
<1>2. S \subseteq {e \in Events : Claimable(e) /\ ~LockedByClaim(e)}
  BY DEF FirstOf
<1>3. /\ rep'[r].token = NoToken /\ rep'[r].done = {} /\ rep'[r].pc = "claiming"
      /\ rep'[r].batch = S /\ rep'[r].seen = seen
  BY <1>1 DEF IdleReplica
<1>4. QED
  BY <1>1, <1>2, <1>3

(* The row locks keep others from what a claim has selected. *)
LEMMA ClaimLocksStep ==
  ASSUME TypeOK, ClaimLocks, [Next]_vars
  PROVE  ClaimLocks'
<1>1. SUFFICES ASSUME NEW r \in Replicas, NEW e \in Events, Selects(r, e)'
               PROVE  AsSelected(r, e)' /\ \A q \in Replicas : Selects(q, e)' => q = r
  BY DEF ClaimLocks
<1>2. ASSUME NEW p \in Replicas, Selects(p, e)'
      PROVE  \/ rep'[p] = rep[p] /\ Selects(p, e)
             \/ rep'[p] # rep[p] /\ ClaimSelect(p) /\ ~LockedByClaim(e)
  <2>1. CASE rep'[p] = rep[p]
    BY <1>2, <2>1 DEF Selects
  <2>2. CASE rep'[p] # rep[p]
    <3>1. ClaimSelect(p)
      BY <1>2, <2>2, ClaimingBegins DEF Selects
    <3>2. rep' # rep
      BY <2>2
    <3>3. QED
      BY <1>2, <2>2, <3>1, <3>2, SelectFacts DEF Selects
  <2>3. QED
    BY <2>1, <2>2
<1>3. \A q \in Replicas : Selects(q, e)' => q = r
  <2>1. SUFFICES ASSUME NEW q \in Replicas, Selects(q, e)', q # r PROVE FALSE
    OBVIOUS
  <2>2. \A p \in Replicas : Selects(p, e) => LockedByClaim(e)
    BY DEF Selects, LockedByClaim
  <2>3. ASSUME NEW p \in Replicas, ClaimSelect(p) PROVE \A o \in Replicas : o # p => rep'[o] = rep[o]
    BY <2>3, OnlyOneActs DEF Acts, Claim
  <2>4. QED
    BY <1>1, <1>2, <2>1, <2>2, <2>3 DEF ClaimLocks
<1>4. AsSelected(r, e)'
  <2>1. CASE rep'[r] = rep[r] /\ Selects(r, e)
    <3>1. AsSelected(r, e) /\ LockedByClaim(e) /\ rows[e] \in Row
      BY <2>1 DEF ClaimLocks, Selects, LockedByClaim, TypeOK
    <3>2. RowStep(e)
      BY NextChangesRows
    <3>3. rows'[e] = rows[e]
      BY ZenonT(60), <2>1, <3>1, <3>2 DEF RowStep, AsSelected, Pending, ClaimLocks, Selects
    <3>4. QED
      BY <2>1, <3>1, <3>3 DEF AsSelected, Pending
  <2>2. CASE rep'[r] # rep[r] /\ ClaimSelect(r)
    <3>1. /\ UNCHANGED rows /\ e \in rep'[r].batch
          /\ Claimable(e) /\ rep'[r].seen[e] = rows[e].attempts
      BY <1>1, <2>2, SelectFacts DEF Selects
    <3>2. QED
      BY <3>1 DEF AsSelected, Pending, Claimable
  <2>3. QED
    BY <1>1, <1>2, <2>1, <2>2
<1>5. QED
  BY <1>3, <1>4

(* Every statement sets or clears lease and token together. *)
LEMMA ClaimIsWholeStep ==
  ASSUME TypeOK, ClaimLocks, ClaimIsWhole, [Next]_vars
  PROVE  ClaimIsWhole'
<1>1. SUFFICES ASSUME NEW e \in Events
               PROVE  /\ (rows'[e].token = NoToken) <=> (rows'[e].lease = "none")
                      /\ rows'[e].published \/ rows'[e].failed => rows'[e].token = NoToken
                      /\ ~(rows'[e].published /\ rows'[e].failed)
  BY DEF ClaimIsWhole
<1>2. /\ rows[e] \in Row /\ RowStep(e)
      /\ (rows[e].token = NoToken) <=> (rows[e].lease = "none")
      /\ rows[e].published \/ rows[e].failed => rows[e].token = NoToken
      /\ ~(rows[e].published /\ rows[e].failed)
  BY NextChangesRows DEF TypeOK, ClaimIsWhole
<1>3. \A r \in Replicas : rep[r].seen[e] \in Nat
  BY DEF TypeOK, Replica
<1>4. CASE rows'[e] = rows[e]
  BY <1>2, <1>4
<1>5. CASE rows'[e] = [AbsentRow EXCEPT !.present = TRUE]
  BY <1>5 DEF AbsentRow
<1>6. ASSUME NEW r \in Replicas, NEW t \in FreshTokens, Selects(r, e),
             rows'[e] = [rows[e] EXCEPT !.lease = "live", !.token = t]
      PROVE  rows'[e].token # NoToken /\ rows'[e].lease # "none"
             /\ ~rows'[e].published /\ ~rows'[e].failed
  <2>1. ~rows[e].published /\ ~rows[e].failed
    BY <1>6 DEF ClaimLocks, AsSelected, Pending
  <2>2. t # NoToken
    BY OutboxAssumption DEF FreshTokens
  <2>3. QED
    BY <1>2, <1>6, <2>1, <2>2 DEF Row
<1>7. ASSUME NEW r \in Replicas, Owns(r, e),
             \/ rows'[e] = PublishedRow(rows[e])
             \/ rows'[e] = FailedRow(rows[e], rep[r].seen[e])
             \/ rows'[e] = Unclaimed(rows[e])
      PROVE  /\ rows'[e].token = NoToken /\ rows'[e].lease = "none"
             /\ ~(rows'[e].published /\ rows'[e].failed)
  BY <1>2, <1>3, <1>7, RowColumns DEF Owns, Pending
<1>8. CASE rows[e].lease = "live" /\ rows'[e] = [rows[e] EXCEPT !.lease = "expired"]
  BY <1>2, <1>8 DEF Row
<1>9. CASE rows'[e] = [rows[e] EXCEPT !.due = TRUE]
  BY <1>2, <1>9 DEF Row
<1>10. CASE rows[e].failed /\ ~rows[e].published /\ rows'[e] = RevivedRow(rows[e])
  BY <1>2, <1>10, RowColumns
<1>11. QED
  BY <1>2, <1>4, <1>5, <1>6, <1>7, <1>8, <1>9, <1>10 DEF RowStep, Selects

(* A replica that holds a token after a step held it before, or has just    *)
(* committed its claim.                                                     *)
LEMMA TokenComesFromClaim ==
  ASSUME TypeOK, ReplicaShape, [Next]_vars, NEW r \in Replicas, rep'[r].token # NoToken
  PROVE  \/ rep'[r].token = rep[r].token /\ rep'[r].seen = rep[r].seen
         \/ ClaimCommit(r)
<1>1. rep \in [Replicas -> Replica] /\ rep[r] \in Replica
  BY DEF TypeOK
<1>2. CASE rep'[r] = rep[r]
  BY <1>2
<1>3. ASSUME rep'[r] # rep[r] PROVE Acts(r)
  BY <1>3, OnlyOneActs DEF Acts, Next, vars, Enqueue, BackoffElapses, LeaseExpires, Retry
<1>4. ASSUME rep'[r] # rep[r], ClaimSelect(r) PROVE FALSE
  <2>1. rep' # rep
    BY <1>4
  <2>2. QED
    BY <1>4, <2>1, SelectFacts
<1>5. rep' # [rep EXCEPT ![r] = IdleReplica]
  BY <1>1 DEF IdleReplica
<1>6. ASSUME \/ \E failed \in BOOLEAN : HandlerReturns(r, failed)
             \/ StopBatch(r) \/ DeliverOk(r)
             \/ \E x \in Phases : rep' = [rep EXCEPT ![r].pc = x]
      PROVE  rep'[r].token = rep[r].token /\ rep'[r].seen = rep[r].seen
  BY <1>1, <1>6 DEF HandlerReturns, StopBatch, DeliverOk, Replica
<1>7. ASSUME Acts(r), ~ClaimSelect(r), ~ClaimCommit(r)
      PROVE  \/ \E failed \in BOOLEAN : HandlerReturns(r, failed)
             \/ StopBatch(r) \/ DeliverOk(r)
             \/ \E x \in Phases : rep' = [rep EXCEPT ![r].pc = x]
  BY <1>5, <1>7, PhaseNames DEF Acts, Claim, Deliver, Finalise, Fault, HandlerDuplicate,
     HandlerBegin, HandlerCommit, HandlerFail, HandlerPanic, DeliverError, MarkPublished,
     RecordFailure, ReleaseRest, ClaimCommitLost, ClaimAbort, StatementFails, Crash
<1>8. QED
  BY <1>2, <1>3, <1>4, <1>6, <1>7

(* Only the owner of its token changes the attempts of a claimed row. *)
LEMMA TokenGuardsRowStep ==
  ASSUME TypeOK, ReplicaShape, ClaimLocks, TokenGuardsRow, [Next]_vars
  PROVE  TokenGuardsRow'
<1>1. ASSUME NEW e \in Events, rows'[e].token # NoToken
      PROVE  /\ rows'[e].present /\ rows'[e].due
             /\ \/ rows'[e].token = rows[e].token /\ rows'[e].attempts = rows[e].attempts
                \/ rows'[e].token \in FreshTokens
  <2>1. rows[e] \in Row /\ RowStep(e)
    BY NextChangesRows DEF TypeOK
  <2>2. \A r \in Replicas : rep[r].seen[e] \in Nat
    BY DEF TypeOK, Replica
  <2>3. rows[e].token # NoToken => rows[e].present /\ rows[e].due
    BY DEF TokenGuardsRow
  <2>4. ASSUME NEW r \in Replicas, NEW t \in FreshTokens, Selects(r, e),
               rows'[e] = [rows[e] EXCEPT !.lease = "live", !.token = t]
        PROVE  rows'[e].present /\ rows'[e].due /\ rows'[e].token \in FreshTokens
    BY <2>1, <2>4 DEF ClaimLocks, AsSelected, Pending, Row
  <2>5. ASSUME \E r \in Replicas : \/ rows'[e] = PublishedRow(rows[e])
                                   \/ rows'[e] = FailedRow(rows[e], rep[r].seen[e])
                                   \/ rows'[e] = Unclaimed(rows[e])
        PROVE  FALSE
    BY <1>1, <2>1, <2>2, <2>5, RowColumns
  <2>6. rows'[e] # RevivedRow(rows[e]) /\ rows'[e] # [AbsentRow EXCEPT !.present = TRUE]
    BY <1>1, <2>1, RowColumns DEF AbsentRow
  <2>7. CASE \/ rows'[e] = rows[e] \/ rows'[e] = [rows[e] EXCEPT !.lease = "expired"]
             \/ rows'[e] = [rows[e] EXCEPT !.due = TRUE]
    BY <1>1, <2>1, <2>3, <2>7 DEF Row
  <2>8. QED
    BY <2>1, <2>4, <2>5, <2>6, <2>7 DEF RowStep, Selects
<1>2. ASSUME NEW r \in Replicas, NEW e \in Events,
             rep'[r].token # NoToken, rows'[e].token = rep'[r].token
      PROVE  rep'[r].seen[e] = rows'[e].attempts
  <2>1. CASE rep'[r].token = rep[r].token /\ rep'[r].seen = rep[r].seen
    <3>1. rows'[e].token \notin FreshTokens
      BY <1>2, <2>1 DEF FreshTokens
    <3>2. QED
      BY <1>1, <1>2, <2>1, <3>1 DEF TokenGuardsRow
  <2>2. CASE ClaimCommit(r)
    <3>1. PICK t \in FreshTokens :
            /\ rows' = Leased(rep[r].batch, t)
            /\ rep' = [rep EXCEPT ![r].pc = "delivering", ![r].token = t]
      BY <2>2 DEF ClaimCommit
    <3>2. rep'[r].token = t /\ rep'[r].seen = rep[r].seen
      BY <3>1 DEF TypeOK, Replica
    <3>3. e \in rep[r].batch
      BY <1>2, <3>1, <3>2 DEF Leased, FreshTokens
    <3>4. rows'[e].attempts = rows[e].attempts
      BY <3>1, <3>3 DEF Leased, TypeOK, Row
    <3>5. rep[r].seen[e] = rows[e].attempts
      BY <2>2, <3>3 DEF ClaimLocks, Selects, AsSelected, ClaimCommit
    <3>6. QED
      BY <3>2, <3>4, <3>5
  <2>3. QED
    BY <1>2, <2>1, <2>2, TokenComesFromClaim
<1>3. QED
  BY <1>1, <1>2 DEF TokenGuardsRow

(* recordFailure decides with the current number of attempts. *)
LEMMA DeadStep ==
  ASSUME TypeOK, ReplicaShape, TokenGuardsRow, DeadIffBudgetSpent, [Next]_vars
  PROVE  DeadIffBudgetSpent'
<1>1. SUFFICES ASSUME NEW e \in Events
               PROVE  /\ rows'[e].attempts <= MaxAttempts
                      /\ rows'[e].failed <=> rows'[e].attempts = MaxAttempts
  BY DEF DeadIffBudgetSpent
<1>2. /\ rows[e] \in Row /\ RowStep(e)
      /\ rows[e].attempts \in Nat /\ rows[e].attempts <= MaxAttempts
      /\ rows[e].failed <=> rows[e].attempts = MaxAttempts
      /\ MaxAttempts \in Nat \ {0}
  BY NextChangesRows, OutboxAssumption DEF TypeOK, Row, DeadIffBudgetSpent
<1>3. ASSUME rows'[e].attempts = rows[e].attempts, rows'[e].failed = rows[e].failed
      PROVE  /\ rows'[e].attempts <= MaxAttempts
             /\ rows'[e].failed <=> rows'[e].attempts = MaxAttempts
  BY <1>2, <1>3
<1>4. ASSUME NEW t, \/ rows'[e] = rows[e]
                    \/ rows'[e] = [rows[e] EXCEPT !.lease = "live", !.token = t]
                    \/ rows'[e] = [rows[e] EXCEPT !.lease = "expired"]
                    \/ rows'[e] = [rows[e] EXCEPT !.due = TRUE]
      PROVE  rows'[e].attempts = rows[e].attempts /\ rows'[e].failed = rows[e].failed
  BY <1>2, <1>4 DEF Row
<1>5. ASSUME rows'[e] = PublishedRow(rows[e]) \/ rows'[e] = Unclaimed(rows[e])
      PROVE  rows'[e].attempts = rows[e].attempts /\ rows'[e].failed = rows[e].failed
  <2>1. 0 \in Nat
    OBVIOUS
  <2>2. QED
    BY <1>2, <1>5, <2>1, RowColumns
<1>6. ASSUME rows'[e] = RevivedRow(rows[e]) \/ rows'[e] = [AbsentRow EXCEPT !.present = TRUE]
      PROVE  rows'[e].attempts = 0 /\ ~rows'[e].failed
  <2>1. 0 \in Nat
    OBVIOUS
  <2>2. QED
    BY <1>2, <1>6, <2>1, RowColumns DEF AbsentRow
<1>7. ASSUME NEW r \in Replicas, rep[r].pc = "record", Owns(r, e),
             rows'[e] = FailedRow(rows[e], rep[r].seen[e])
      PROVE  /\ rows'[e].attempts <= MaxAttempts
             /\ rows'[e].failed <=> rows'[e].attempts = MaxAttempts
  <2>1. rep[r].token # NoToken /\ rows[e].token = rep[r].token
    BY <1>7 DEF ReplicaShape, Shape, Owns
  <2>2. rep[r].seen[e] = rows[e].attempts
    BY <2>1 DEF TokenGuardsRow
  <2>3. ~rows[e].failed
    BY <1>7 DEF Owns, Pending
  <2>4. /\ rows'[e].attempts = rows[e].attempts + 1
        /\ rows[e].attempts + 1 >= MaxAttempts => rows'[e].failed
        /\ rows[e].attempts + 1 < MaxAttempts => rows'[e].failed = rows[e].failed
    BY <1>2, <1>7, <2>2, RowColumns
  <2>5. QED
    BY <1>2, <2>3, <2>4
<1>8. ASSUME rows'[e].attempts = 0, ~rows'[e].failed
      PROVE  /\ rows'[e].attempts <= MaxAttempts
             /\ rows'[e].failed <=> rows'[e].attempts = MaxAttempts
  BY <1>2, <1>8
<1>9. QED
  BY <1>2, <1>3, <1>4, <1>5, <1>6, <1>7, <1>8 DEF RowStep

(* No claim and no attempt at first. *)
LEMMA InitClaims ==
  Init => ClaimLocks /\ TokenGuardsRow /\ ClaimIsWhole /\ DeadIffBudgetSpent
<1> SUFFICES ASSUME Init PROVE ClaimLocks /\ TokenGuardsRow /\ ClaimIsWhole /\ DeadIffBudgetSpent
  OBVIOUS
<1>1. ClaimLocks /\ TokenGuardsRow
  BY DEF Init, ClaimLocks, Selects, TokenGuardsRow, AbsentRow, IdleReplica
<1>2. ClaimIsWhole
  BY DEF Init, ClaimIsWhole, AbsentRow
<1>3. DeadIffBudgetSpent
  BY OutboxAssumption DEF Init, DeadIffBudgetSpent, AbsentRow
<1>4. QED
  BY <1>1, <1>2, <1>3

ClaimInv == TypeOK /\ ReplicaShape /\ ClaimLocks /\ TokenGuardsRow /\ ClaimIsWhole
              /\ DeadIffBudgetSpent

(* The parts about claims hold together. *)
LEMMA ClaimInvHolds == Spec => []ClaimInv
<1>1. Init => ClaimInv
  BY InitShape, InitClaims DEF ClaimInv
<1>2. ClaimInv /\ [Next]_vars => ClaimInv'
  BY TypeStep, ShapeStep, ClaimLocksStep, TokenGuardsRowStep, ClaimIsWholeStep, DeadStep
     DEF ClaimInv
<1>3. QED
  BY <1>1, <1>2, PTL DEF Spec

(* An event is dead exactly when its delivery budget is spent.              *)
THEOREM DeadMeansBudgetSpent == Spec => []DeadIffBudgetSpent
BY ClaimInvHolds, PTL DEF ClaimInv

(* No statement leaves half a claim on a row.                               *)
THEOREM ClaimsAreWhole == Spec => []ClaimIsWhole
BY ClaimInvHolds, PTL DEF ClaimInv

(* A live lease excludes every statement but those of its owner.            *)
THEOREM LiveClaimsExclude == Spec => LiveClaimIsExclusive
<1>1. ASSUME ClaimInv, [Next]_vars, NEW e \in Events, rows[e].lease = "live"
      PROVE  \/ rows'[e] = rows[e]
             \/ rows'[e] = [rows[e] EXCEPT !.lease = "expired"]
             \/ \E r \in Replicas : rep[r].token = rows[e].token /\ rep'[r] # rep[r]
  <2>1. /\ rows[e].token # NoToken /\ ~rows[e].failed
        /\ rows[e].present /\ rows[e].due
        /\ \A r \in Replicas : ~Selects(r, e)
    BY <1>1 DEF ClaimInv, ClaimIsWhole, TokenGuardsRow, ClaimLocks, AsSelected
  <2>2. RowStep(e)
    BY <1>1, NextChangesRows DEF ClaimInv
  <2>3. QED
    BY <2>1, <2>2 DEF RowStep, Selects, Owns
<1>2. ClaimInv /\ [Next]_vars =>
        [\A e \in Events : rows[e].lease = "live" =>
           \/ rows'[e] = rows[e]
           \/ rows'[e] = [rows[e] EXCEPT !.lease = "expired"]
           \/ \E r \in Replicas : rep[r].token = rows[e].token /\ rep'[r] # rep[r]]_vars
  BY <1>1
<1>3. QED
  BY <1>2, ClaimInvHolds, PTL DEF Spec, LiveClaimIsExclusive

-----------------------------------------------------------------------------
(* Published and dead rows. *)

(* A row is published or given up only while it is due. *)
LEMMA SettledStep ==
  ASSUME TypeOK, ReplicaShape, ClaimLocks, TokenGuardsRow, SettledIsDue, [Next]_vars
  PROVE  SettledIsDue'
<1>1. SUFFICES ASSUME NEW e \in Events, rows'[e].published \/ rows'[e].failed
               PROVE  rows'[e].present /\ rows'[e].due
  BY DEF SettledIsDue
<1>2. /\ rows[e] \in Row /\ RowStep(e)
      /\ rows[e].published \/ rows[e].failed => rows[e].present /\ rows[e].due
  BY NextChangesRows DEF TypeOK, SettledIsDue
<1>3. \A r \in Replicas : rep[r].seen[e] \in Nat
  BY DEF TypeOK, Replica
<1>4. ASSUME NEW t, \/ rows'[e] = rows[e]
                    \/ rows'[e] = [rows[e] EXCEPT !.lease = "live", !.token = t]
                    \/ rows'[e] = [rows[e] EXCEPT !.lease = "expired"]
                    \/ rows'[e] = [rows[e] EXCEPT !.due = TRUE]
      PROVE  rows'[e].present /\ rows'[e].due
  BY <1>1, <1>2, <1>4 DEF Row
<1>5. ASSUME NEW r \in Replicas, Owns(r, e),
             rep[r].pc \in {"publish", "record", "release"},
             \/ rows'[e] = PublishedRow(rows[e])
             \/ rows'[e] = FailedRow(rows[e], rep[r].seen[e])
             \/ rows'[e] = Unclaimed(rows[e])
      PROVE  rows'[e].present /\ rows'[e].due
  <2>1. rows[e].token # NoToken
    BY <1>5 DEF Owns, ReplicaShape, Shape
  <2>2. rows[e].present /\ rows[e].due /\ ~rows[e].failed /\ ~rows[e].published
    BY <1>5, <2>1 DEF Owns, Pending, TokenGuardsRow
  <2>3. rep[r].seen[e] + 1 >= MaxAttempts \/ rep[r].seen[e] + 1 < MaxAttempts
    BY <1>3, OutboxAssumption
  <2>4. QED
    BY <1>1, <1>2, <1>3, <1>5, <2>2, <2>3, RowColumns
<1>6. ASSUME rows'[e] = RevivedRow(rows[e]), rows[e].failed
      PROVE  rows'[e].present /\ rows'[e].due
  BY <1>2, <1>6, RowColumns
<1>7. rows'[e] # [AbsentRow EXCEPT !.present = TRUE]
  BY <1>1 DEF AbsentRow
<1>8. QED
  BY <1>2, <1>4, <1>5, <1>6, <1>7 DEF RowStep

(* Nothing is settled at first. *)
LEMMA InitSettled == Init => SettledIsDue
BY DEF Init, SettledIsDue, AbsentRow

(* The same along every behaviour. *)
LEMMA SettledHolds == Spec => [](ClaimInv /\ SettledIsDue)
<1>1. ClaimInv /\ SettledIsDue /\ [Next]_vars => SettledIsDue'
  BY SettledStep DEF ClaimInv
<1>2. QED
  BY <1>1, InitSettled, ClaimInvHolds, PTL DEF Spec

(* published_at is final, and only DeadLetters.Retry revives a dead event,  *)
(* as a fresh one.                                                          *)
THEOREM TerminalRowsStay == Spec => TerminalRowsAreFinal
<1> DEFINE I == ClaimInv /\ SettledIsDue
           Stay == \A e \in Events :
                     /\ rows[e].published => rows'[e] = rows[e]
                     /\ rows[e].failed => \/ rows'[e] = rows[e]
                                          \/ rows'[e] = [AbsentRow EXCEPT !.present = TRUE]
<1>1. Spec => []I
  BY SettledHolds
<1>2. ASSUME I, [Next]_vars, NEW e \in Events, rows[e].published \/ rows[e].failed
      PROVE  \/ rows'[e] = rows[e]
             \/ rows[e].failed /\ ~rows[e].published /\ rows'[e] = RevivedRow(rows[e])
  <2>1. /\ rows[e].present /\ rows[e].due /\ ~Pending(e) /\ rows[e].lease = "none"
        /\ \A r \in Replicas : ~Selects(r, e)
    BY <1>2 DEF ClaimInv, ClaimIsWhole, SettledIsDue, ClaimLocks, AsSelected, Pending
  <2>2. RowStep(e)
    BY <1>2, NextChangesRows DEF ClaimInv
  <2>3. QED
    BY <2>1, <2>2 DEF RowStep, Selects, Owns
<1>3. ASSUME I, NEW e \in Events, rows[e].failed
      PROVE  RevivedRow(rows[e]) = [AbsentRow EXCEPT !.present = TRUE]
  <2>1. rows[e] \in Row /\ rows[e].present /\ ~rows[e].published
    BY <1>3 DEF ClaimInv, TypeOK, SettledIsDue, ClaimIsWhole
  <2>2. PICK row \in Row : row = RevivedRow(rows[e])
    BY <2>1, RowOperators, 0 \in Nat
  <2>3. /\ row.present = TRUE /\ row.published = FALSE /\ row.failed = FALSE
        /\ row.attempts = 0 /\ row.due = TRUE /\ row.lease = "none" /\ row.token = NoToken
    <3>1. rows[e].present = TRUE /\ rows[e].published = FALSE
      BY <2>1 DEF Row
    <3>2. QED
      BY <2>1, <2>2, <3>1 DEF RevivedRow, Unclaimed, Row
  <2>4. PICK blank \in Row : blank = [AbsentRow EXCEPT !.present = TRUE]
    BY <2>1, RowOperators, 0 \in Nat
  <2>5. /\ blank.present = TRUE /\ blank.published = FALSE /\ blank.failed = FALSE
        /\ blank.attempts = 0 /\ blank.due = TRUE /\ blank.lease = "none"
        /\ blank.token = NoToken
    BY <2>4 DEF AbsentRow
  <2>6. QED
    BY <2>2, <2>3, <2>4, <2>5 DEF Row
<1>4. I /\ [Next]_vars => [Stay]_vars
  BY <1>2, <1>3
<1>5. QED
  BY <1>1, <1>4, PTL DEF Spec, TerminalRowsAreFinal

-----------------------------------------------------------------------------
(* Outbox implements OutboxAbs. *)

(* A batch holds rows that exist: nothing removes a row. *)
BatchIsPresent == \A r \in Replicas : \A e \in rep[r].batch : rows[e].present

RefInv ==
  /\ ClaimInv /\ SettledIsDue
  /\ DeliveredWasHandled /\ PublishedWasHandled /\ InboxCounts
  /\ BatchIsPresent

-----------------------------------------------------------------------------
(* The inductive invariant of the refinement. *)

(* A row stays once it is inserted. *)
LEMMA PresentStays ==
  ASSUME TypeOK, [Next]_vars, NEW e \in Events, rows[e].present
  PROVE  rows'[e].present
<1>1. rows[e] \in Row /\ RowStep(e) /\ \A r \in Replicas : rep[r].seen[e] \in Nat
  BY NextChangesRows DEF TypeOK, Replica
<1>2. \A t : [rows[e] EXCEPT !.lease = "live", !.token = t].present = rows[e].present
  BY <1>1 DEF Row
<1>3. /\ [rows[e] EXCEPT !.lease = "expired"].present = rows[e].present
      /\ [rows[e] EXCEPT !.due = TRUE].present = rows[e].present
  BY <1>1 DEF Row
<1>4. /\ PublishedRow(rows[e]).present = rows[e].present
      /\ Unclaimed(rows[e]).present = rows[e].present
      /\ RevivedRow(rows[e]).present = rows[e].present
  BY ZenonT(60), <1>1, RowColumns, 0 \in Nat
<1>5. \A r \in Replicas : FailedRow(rows[e], rep[r].seen[e]).present = rows[e].present
  BY <1>1, RowColumns
<1>6. ASSUME NEW t, rows'[e] = [rows[e] EXCEPT !.lease = "live", !.token = t]
      PROVE  rows'[e].present
  BY <1>2, <1>6
<1>7. ASSUME NEW r \in Replicas,
             \/ rows'[e] = PublishedRow(rows[e])
             \/ rows'[e] = FailedRow(rows[e], rep[r].seen[e])
             \/ rows'[e] = Unclaimed(rows[e])
      PROVE  rows'[e].present
  BY <1>4, <1>5, <1>7
<1>8. ASSUME \/ rows'[e] = rows[e]
             \/ rows'[e] = [rows[e] EXCEPT !.lease = "expired"]
             \/ rows'[e] = [rows[e] EXCEPT !.due = TRUE]
             \/ rows'[e] = RevivedRow(rows[e])
      PROVE  rows'[e].present
  BY <1>3, <1>4, <1>8
<1>9. QED
  BY <1>1, <1>6, <1>7, <1>8, Zenon DEF RowStep

(* Only the SELECT of a claim puts an event into a batch. *)
LEMMA BatchComesFromSelect ==
  ASSUME TypeOK, [Next]_vars, NEW r \in Replicas
  PROVE  rep'[r].batch \subseteq rep[r].batch \/ (ClaimSelect(r) /\ rep' # rep)
<1>1. rep \in [Replicas -> Replica] /\ rep[r] \in Replica
  BY DEF TypeOK
<1>2. CASE rep'[r] = rep[r]
  BY <1>2
<1>3. CASE rep'[r] # rep[r]
  <2>1. Acts(r)
    BY <1>3, OnlyOneActs DEF Acts, Next, vars, Enqueue, BackoffElapses, LeaseExpires, Retry
  <2>2. \A failed \in BOOLEAN : HandlerReturns(r, failed) => rep'[r].batch = rep[r].batch
    BY <1>1 DEF HandlerReturns, Replica
  <2>3. StopBatch(r) \/ DeliverOk(r) \/ HandlerBegin(r) => rep'[r].batch = rep[r].batch
    BY <1>1 DEF StopBatch, DeliverOk, HandlerBegin, Replica
  <2>4. ClaimCommit(r) => rep'[r].batch = rep[r].batch
    BY <1>1 DEF ClaimCommit, Replica
  <2>5. /\ rep' = [rep EXCEPT ![r].pc = "record"] => rep'[r].batch = rep[r].batch
        /\ rep' = [rep EXCEPT ![r].pc = "release"] => rep'[r].batch = rep[r].batch
        /\ rep' = [rep EXCEPT ![r] = IdleReplica] => rep'[r].batch = {}
    BY <1>1 DEF Replica, IdleReplica
  <2>6. QED
    BY <1>3, <2>1, <2>2, <2>3, <2>4, <2>5 DEF Acts, Claim, Deliver, Finalise, Fault,
       HandlerDuplicate, HandlerCommit, HandlerFail, HandlerPanic, DeliverError, MarkPublished,
       RecordFailure, ReleaseRest, ClaimCommitLost, ClaimAbort, StatementFails, Crash
<1>4. QED
  BY <1>2, <1>3

(* Every step keeps the batches within the table. *)
LEMMA BatchStep ==
  ASSUME TypeOK, BatchIsPresent, [Next]_vars
  PROVE  BatchIsPresent'
<1>1. SUFFICES ASSUME NEW r \in Replicas, NEW e \in rep'[r].batch PROVE rows'[e].present
  BY DEF BatchIsPresent
<1>2. CASE rep'[r].batch \subseteq rep[r].batch
  <2>1. e \in Events /\ rows[e].present
    BY <1>2 DEF BatchIsPresent, TypeOK, Replica
  <2>2. QED
    BY <2>1, PresentStays
<1>3. CASE ClaimSelect(r) /\ rep' # rep
  BY <1>3, SelectFacts DEF Claimable, Pending
<1>4. QED
  BY <1>2, <1>3, BatchComesFromSelect

(* The parts of the invariant hold together. *)
LEMMA RefInvHolds == Spec => []RefInv
<1> DEFINE I == TypeOK /\ ReplicaShape /\ DeliveredWasHandled /\ PublishedWasHandled
                  /\ InboxCounts /\ BatchIsPresent
<1>1. Init => I
  <2>1. Init => BatchIsPresent
    BY DEF Init, BatchIsPresent, IdleReplica
  <2>2. QED
    BY <2>1, InitShape, InitDelivered, InitInbox
<1>2. I /\ [Next]_vars => I'
  BY TypeStep, ShapeStep, DeliveredStep, PublishedStep, InboxCountsStep, BatchStep
<1>3. Spec => []I
  BY <1>1, <1>2, PTL DEF Spec
<1>4. ClaimInv /\ SettledIsDue /\ I => RefInv
  BY DEF RefInv
<1>5. QED
  BY <1>3, <1>4, SettledHolds, PTL

-----------------------------------------------------------------------------
(* The steps of the relays as steps of the abstract specification. *)

(* A row that keeps these three columns keeps its status. *)
LEMMA SameStatus ==
  ASSUME NEW e \in Events,
         rows'[e].present = rows[e].present, rows'[e].published = rows[e].published,
         rows'[e].failed = rows[e].failed
  PROVE  Status(e)' = Status(e)
BY DEF Status

(* The status columns survive what claims, releases and the clock do. *)
LEMMA QuietRows ==
  ASSUME NEW row \in Row
  PROVE  /\ \A t : /\ [row EXCEPT !.lease = "live", !.token = t].present = row.present
                   /\ [row EXCEPT !.lease = "live", !.token = t].published = row.published
                   /\ [row EXCEPT !.lease = "live", !.token = t].failed = row.failed
         /\ \A new \in {[row EXCEPT !.lease = "expired"], [row EXCEPT !.due = TRUE],
                        Unclaimed(row)} :
              /\ new.present = row.present /\ new.published = row.published
              /\ new.failed = row.failed
<1>1. \A t : /\ [row EXCEPT !.lease = "live", !.token = t].present = row.present
             /\ [row EXCEPT !.lease = "live", !.token = t].published = row.published
             /\ [row EXCEPT !.lease = "live", !.token = t].failed = row.failed
  BY DEF Row
<1>2. /\ [row EXCEPT !.lease = "expired"].present = row.present
      /\ [row EXCEPT !.lease = "expired"].published = row.published
      /\ [row EXCEPT !.lease = "expired"].failed = row.failed
      /\ [row EXCEPT !.due = TRUE].present = row.present
      /\ [row EXCEPT !.due = TRUE].published = row.published
      /\ [row EXCEPT !.due = TRUE].failed = row.failed
  BY DEF Row
<1>3. /\ Unclaimed(row).present = row.present /\ Unclaimed(row).published = row.published
      /\ Unclaimed(row).failed = row.failed
  BY RowColumns, 0 \in Nat
<1>4. QED
  BY <1>1, <1>2, <1>3

AbsStep == Abs!AbsNext \/ UNCHANGED Abs!absVars

(* A step that changes neither a status nor the inbox is a stutter. *)
LEMMA Stutter ==
  ASSUME \A e \in Events : Status(e)' = Status(e), UNCHANGED <<inbox, effects>>
  PROVE  AbsStep
BY DEF AbsStep, Abs!absVars

(* Enqueue. *)
LEMMA EnqueueRefines ==
  ASSUME RefInv, NEW e \in Events, Enqueue(e)
  PROVE  AbsStep
<1>1. rows \in [Events -> Row] /\ rows[e] \in Row
  BY DEF RefInv, ClaimInv, TypeOK
<1>2. \A f \in Events : Status(f)' = IF f = e THEN "queued" ELSE Status(f)
  BY <1>1 DEF Enqueue, Status, AbsentRow
<1>3. Status(e) = "absent"
  BY DEF Enqueue, Status
<1>4. UNCHANGED <<inbox, effects>>
  BY DEF Enqueue
<1>5. Abs!AbsEnqueue(e)
  BY <1>2, <1>3, <1>4 DEF Abs!AbsEnqueue
<1>6. QED
  BY <1>5 DEF AbsStep, Abs!AbsNext

(* A committed handler: its key is new, so its event is not published. *)
LEMMA CommitRefines ==
  ASSUME RefInv, NEW r \in Replicas, NEW lost \in BOOLEAN, HandlerCommit(r, lost)
  PROVE  AbsStep
<1>1. TypeOK /\ ReplicaShape /\ rep[r].pc = "handling" /\ HandlersLeft(r)
  BY DEF RefInv, ClaimInv, HandlerCommit, ReplicaShape, Shape
<1>2. PICK e \in Events : e = Current(r) /\ e \in rep[r].batch
  BY <1>1, CurrentIsLeft DEF Working
<1>3. ~Undeliverable(e) /\ Subs[e] \in Seq(Consumers)
  BY <1>1, <1>2, OutboxAssumption DEF HandlersLeft
<1>4. PICK i \in 1..Len(Subs[e]) : i = rep[r].next
  <2>1. rep[r].next \in Nat \ {0}
    BY <1>1 DEF TypeOK, Replica, ReplicaShape, Shape
  <2>2. QED
    BY <1>1, <1>2, <1>3, <2>1 DEF HandlersLeft
<1>5. PICK c \in Consumers : c = Subs[e][i]
  BY <1>3, <1>4
<1>6. Handler(r) = <<c, e>>
  BY <1>2, <1>4, <1>5 DEF Handler
<1>7. <<c, e>> \notin inbox
  BY <1>1, <1>6 DEF RefInv, InboxCounts
<1>8. rows[e].present /\ ~rows[e].published
  BY <1>2, <1>5, <1>7 DEF RefInv, BatchIsPresent, PublishedWasHandled
<1>9. Status(e) \in {"queued", "dead"}
  BY <1>8 DEF Status
<1>10. \A f \in Events : Status(f)' = Status(f)
  BY DEF HandlerCommit, Status
<1>11. /\ inbox' = inbox \cup {<<c, e>>}
       /\ effects' = [effects EXCEPT ![<<c, e>>] = effects[<<c, e>>] + 1]
  BY <1>6 DEF HandlerCommit
<1>12. Abs!Deliverable(e) /\ c \in Abs!Subscribers(e)
  BY <1>3, <1>5 DEF Abs!Deliverable, Abs!Subscribers, Undeliverable
<1>13. Abs!AbsHandle(c, e)
  BY <1>7, <1>9, <1>10, <1>11, <1>12 DEF Abs!AbsHandle
<1>14. QED
  BY <1>13 DEF AbsStep, Abs!AbsNext

(* markPublished: what it confirms is pending and was delivered. *)
LEMMA PublishRefines ==
  ASSUME RefInv, NEW r \in Replicas, MarkPublished(r)
  PROVE  AbsStep
<1> DEFINE S == {e \in rep[r].done : Owns(r, e)}
<1>1. /\ rows \in [Events -> Row] /\ rep[r].done \subseteq Events
      /\ \A e \in Events : rows[e] \in Row
  BY DEF RefInv, ClaimInv, TypeOK, Replica
<1>2. \A e \in Events : rows'[e] = IF e \in S THEN PublishedRow(rows[e]) ELSE rows[e]
  BY DEF MarkPublished, Statement
<1>3. ASSUME NEW e \in S
      PROVE  /\ e \in Events /\ Status(e) = "queued" /\ Status(e)' = "published"
             /\ Abs!Deliverable(e)
             /\ \A c \in Abs!Subscribers(e) : <<c, e>> \in inbox
  <2>1. e \in Events /\ rows[e] \in Row /\ Pending(e)
    BY <1>1 DEF Owns
  <2>2. Status(e) = "queued"
    BY <2>1 DEF Status, Pending
  <2>3. PublishedRow(rows[e]).published /\ PublishedRow(rows[e]).present = rows[e].present
    BY <2>1, RowColumns, 0 \in Nat
  <2>4. Status(e)' = "published"
    BY <1>2, <2>1, <2>3 DEF Status, Pending
  <2>5. Handled(e)
    BY DEF RefInv, DeliveredWasHandled, Delivered
  <2>6. Abs!Deliverable(e)
    BY <2>5 DEF Abs!Deliverable, Handled, Undeliverable
  <2>7. \A c \in Abs!Subscribers(e) : <<c, e>> \in inbox
    BY <2>5 DEF Abs!Subscribers, Handled
  <2>8. QED
    BY <2>1, <2>2, <2>4, <2>6, <2>7
<1>4. \A e \in Events : Status(e)' = IF e \in S THEN "published" ELSE Status(e)
  <2>1. \A e \in Events : e \notin S => Status(e)' = Status(e)
    BY <1>2 DEF Status
  <2>2. QED
    BY <1>3, <2>1
<1>5. UNCHANGED <<inbox, effects>>
  BY DEF MarkPublished
<1>6. Abs!AbsPublish(S)
  BY <1>3, <1>4, <1>5 DEF Abs!AbsPublish
<1>7. S \in SUBSET Events
  BY <1>1
<1>8. QED
  BY <1>6, <1>7 DEF AbsStep, Abs!AbsNext

(* recordFailure: the last attempt gives the event up, the others leave it  *)
(* queued.                                                                  *)
LEMMA FailureRefines ==
  ASSUME RefInv, NEW r \in Replicas, RecordFailure(r)
  PROVE  AbsStep
<1>1. UNCHANGED <<inbox, effects>>
  BY DEF RecordFailure
<1>2. CASE UNCHANGED rows
  BY <1>1, <1>2, Stutter DEF Status
<1>3. ASSUME NEW e \in rep[r].bad,
             rows' = [g \in Events |-> IF g \in {e} /\ Owns(r, g)
                                       THEN FailedRow(rows[g], rep[r].seen[e]) ELSE rows[g]]
      PROVE  AbsStep
  <2>1. /\ rows \in [Events -> Row] /\ e \in Events /\ rows[e] \in Row
        /\ rep[r].seen[e] \in Nat
    BY <1>3 DEF RefInv, ClaimInv, TypeOK, Replica
  <2>2. \A f \in Events : f # e => Status(f)' = Status(f)
    BY <1>3, <2>1 DEF Status
  <2>3. CASE ~Owns(r, e)
    <3>1. rows'[e] = rows[e]
      BY <1>3, <2>1, <2>3
    <3>2. Status(e)' = Status(e)
      BY <3>1 DEF Status
    <3>3. QED
      BY <1>1, <2>2, <3>2, Stutter
  <2>4. CASE Owns(r, e)
    <3>1. rows'[e] = FailedRow(rows[e], rep[r].seen[e])
      BY <1>3, <2>1, <2>4
    <3>2. Status(e) = "queued" /\ Pending(e)
      BY <2>4 DEF Status, Owns, Pending
    <3>3. /\ rows'[e].present = rows[e].present /\ rows'[e].published = rows[e].published
      BY <2>1, <3>1, RowColumns
    <3>4. CASE rep[r].seen[e] + 1 >= MaxAttempts
      <4>1. rows'[e].failed
        BY <2>1, <3>1, <3>4, RowColumns
      <4>2. Status(e)' = "dead"
        BY <3>2, <3>3, <4>1 DEF Status, Pending
      <4>3. \A f \in Events : Status(f)' = IF f = e THEN "dead" ELSE Status(f)
        BY <2>2, <4>2
      <4>4. Abs!AbsGiveUp(e)
        BY <1>1, <2>1, <3>2, <4>3 DEF Abs!AbsGiveUp
      <4>5. QED
        BY <2>1, <4>4 DEF AbsStep, Abs!AbsNext
    <3>5. CASE rep[r].seen[e] + 1 < MaxAttempts
      <4>1. rows'[e].failed = rows[e].failed
        BY <2>1, <3>1, <3>5, RowColumns
      <4>2. Status(e)' = Status(e)
        BY <2>1, <3>3, <4>1, SameStatus
      <4>3. QED
        BY <1>1, <2>2, <4>2, Stutter
    <3>6. QED
      BY <2>1, <3>4, <3>5, OutboxAssumption
  <2>5. QED
    BY <2>3, <2>4
<1>4. QED
  BY <1>2, <1>3 DEF RecordFailure, Statement

(* DeadLetters.Retry revives the dead events among its ids. *)
LEMMA RetryRefines ==
  ASSUME RefInv, NEW ids \in SUBSET Events, Retry(ids)
  PROVE  AbsStep
<1> DEFINE S == {e \in ids : rows[e].failed /\ ~rows[e].published}
<1>1. UNCHANGED <<inbox, effects>> /\ S \in SUBSET Events
  BY DEF Retry
<1>2. \A e \in Events : rows'[e] = IF e \in S THEN RevivedRow(rows[e]) ELSE rows[e]
  BY DEF Retry
<1>3. ASSUME NEW e \in S PROVE Status(e) = "dead" /\ Status(e)' = "queued"
  <2>1. e \in Events /\ rows[e] \in Row /\ rows[e].present /\ rows[e].failed /\ ~rows[e].published
    BY DEF RefInv, ClaimInv, TypeOK, SettledIsDue
  <2>2. /\ RevivedRow(rows[e]).present = rows[e].present /\ ~RevivedRow(rows[e]).failed
        /\ RevivedRow(rows[e]).published = rows[e].published
    BY <2>1, RowColumns, 0 \in Nat
  <2>3. QED
    BY <1>2, <2>1, <2>2 DEF Status
<1>4. \A e \in Events : e \notin S => Status(e)' = Status(e)
  BY <1>2 DEF Status
<1>5. \A e \in Events : Status(e)' = IF e \in S THEN "queued" ELSE Status(e)
  BY <1>3, <1>4
<1>6. \A e \in S : e \in Events /\ Status(e) = "dead"
  BY <1>3
<1>7. Abs!AbsRevive(S)
  BY <1>1, <1>5, <1>6 DEF Abs!AbsRevive
<1>8. QED
  BY <1>1, <1>7 DEF AbsStep, Abs!AbsNext

(* Claims, releases and the clock show nothing. *)
LEMMA QuietRefines ==
  ASSUME RefInv,
         \/ \E r \in Replicas : ClaimCommit(r) \/ ClaimCommitLost(r) \/ ReleaseRest(r)
         \/ \E e \in Events : BackoffElapses(e)
         \/ \E t \in Tokens : LeaseExpires(t)
  PROVE  AbsStep
<1>1. rows \in [Events -> Row] /\ \A e \in Events : rows[e] \in Row
  BY DEF RefInv, ClaimInv, TypeOK
<1>2. ASSUME NEW e \in Events
      PROVE  \/ rows'[e] = rows[e]
             \/ \E t : rows'[e] = [rows[e] EXCEPT !.lease = "live", !.token = t]
             \/ rows'[e] \in {[rows[e] EXCEPT !.lease = "expired"],
                              [rows[e] EXCEPT !.due = TRUE], Unclaimed(rows[e])}
  <2>1. ASSUME NEW r \in Replicas, ClaimCommit(r) \/ ClaimCommitLost(r)
        PROVE  rows'[e] = rows[e] \/ \E t : rows'[e] = [rows[e] EXCEPT !.lease = "live", !.token = t]
    BY <2>1 DEF ClaimCommit, ClaimCommitLost, Leased
  <2>2. ASSUME NEW r \in Replicas, ReleaseRest(r)
        PROVE  rows'[e] = rows[e] \/ rows'[e] = Unclaimed(rows[e])
    BY <2>2 DEF ReleaseRest, Statement
  <2>3. ASSUME NEW f \in Events, BackoffElapses(f)
        PROVE  rows'[e] = rows[e] \/ rows'[e] = [rows[e] EXCEPT !.due = TRUE]
    BY <1>1, <2>3 DEF BackoffElapses
  <2>4. ASSUME NEW t \in Tokens, LeaseExpires(t)
        PROVE  rows'[e] = rows[e] \/ rows'[e] = [rows[e] EXCEPT !.lease = "expired"]
    BY <2>4 DEF LeaseExpires
  <2>5. QED
    BY <2>1, <2>2, <2>3, <2>4
<1>3. ASSUME NEW e \in Events PROVE Status(e)' = Status(e)
  <2> DEFINE Same == /\ rows'[e].present = rows[e].present
                     /\ rows'[e].published = rows[e].published
                     /\ rows'[e].failed = rows[e].failed
  <2>1. Same
    <3>1. CASE rows'[e] = rows[e]
      BY <3>1
    <3>2. ASSUME NEW t, rows'[e] = [rows[e] EXCEPT !.lease = "live", !.token = t]
          PROVE  Same
      BY <1>1, <3>2, QuietRows
    <3>3. CASE rows'[e] \in {[rows[e] EXCEPT !.lease = "expired"],
                             [rows[e] EXCEPT !.due = TRUE], Unclaimed(rows[e])}
      BY <1>1, <3>3, QuietRows
    <3>4. QED
      BY <1>2, <3>1, <3>2, <3>3
  <2>2. QED
    BY <2>1, SameStatus
<1>4. UNCHANGED <<inbox, effects>>
  BY DEF ClaimCommit, ClaimCommitLost, ReleaseRest, BackoffElapses, LeaseExpires
<1>5. QED
  BY <1>3, <1>4, Stutter

(* Every step is a step of the abstract specification or a stutter. *)
LEMMA NextRefines ==
  ASSUME RefInv, [Next]_vars
  PROVE  AbsStep
<1>1. ASSUME UNCHANGED <<rows, inbox, effects>> PROVE AbsStep
  BY <1>1, Stutter DEF Status
<1>2. ASSUME NEW r \in Replicas, Acts(r) PROVE AbsStep
  BY <1>1, <1>2, CommitRefines, PublishRefines, FailureRefines, QuietRefines
     DEF Acts, Claim, ClaimSelect, Deliver, Finalise, Fault, ClaimAbort, HandlerDuplicate,
         HandlerBegin, HandlerFail, HandlerPanic, DeliverOk, DeliverError, StatementFails, Crash
<1>3. QED
  BY <1>1, <1>2, EnqueueRefines, QuietRefines, RetryRefines DEF Acts, Next, vars

(* The relays, the bus and the inbox together implement what package outbox *)
(* promises: effects exactly once per subscriber, published only when all   *)
(* have happened, dead only until an operator's Retry (relay.go:240-300,    *)
(* inbox.go:57-75).                                                         *)
THEOREM OutboxImplementsAbs == Spec => ImplementsAbs
<1>1. Init => Abs!AbsInit
  <2>1. ASSUME Init PROVE \A e \in Events : Status(e) = "absent"
    BY <2>1 DEF Init, Status, AbsentRow
  <2>2. QED
    BY <2>1 DEF Init, Abs!AbsInit, Deliveries
<1>2. RefInv /\ [Next]_vars => [Abs!AbsNext]_(Abs!absVars)
  BY NextRefines DEF AbsStep
<1>3. QED
  BY <1>1, <1>2, RefInvHolds, PTL DEF Spec, ImplementsAbs, Abs!AbsSpec

-----------------------------------------------------------------------------
(* OutboxBackoff: that Pow2 is the function its equation describes, which  *)
(* the definition of a recursive function does not say by itself, and what  *)
(* the loop keeps true.                                                     *)

LEMMA LeastNatural ==
  ASSUME NEW S, S \subseteq Nat, S # {}
  PROVE  \E x \in S : \A y \in S : x <= y
<1>1. PICK x \in S : \A y \in S : ~(<<y, x>> \in OpToRel(<, Nat))
  BY NatLessThanWellFounded, WFMin, Zenon
<1>2. ASSUME NEW y \in S PROVE x <= y
  <2>1. CASE y < x
    <3>1. <<y, x>> \in OpToRel(<, Nat)
      BY <2>1 DEF OpToRel
    <3> QED
      BY <1>1, <3>1
  <2> QED
    BY <2>1
<1> QED
  BY <1>2

(* g doubles from one up to n. *)
DoublesUpTo(n, g) ==
  /\ g \in [0..n -> Nat]
  /\ g[0] = 1
  /\ \A k \in 1..n : g[k] = 2 * g[k - 1]

LEMMA DoublingExists ==
  ASSUME NEW n \in Nat
  PROVE  \E g : DoublesUpTo(n, g)
<1> DEFINE Without == {k \in Nat : ~\E g : DoublesUpTo(k, g)}
<1>1. SUFFICES ASSUME Without # {} PROVE FALSE
  OBVIOUS
<1>2. PICK m \in Without : \A y \in Without : m <= y
  BY <1>1, LeastNatural
<1>3. CASE m = 0
  <2> DEFINE h == [k \in 0..0 |-> 1]
  <2>1. DoublesUpTo(0, h)
    BY DEF DoublesUpTo
  <2> QED
    BY <2>1, <1>2, <1>3
<1>4. CASE m # 0
  <2>0. m \in Nat /\ m - 1 \in Nat /\ ~(m <= m - 1)
    BY <1>2, <1>4
  <2>1. ~(m - 1 \in Without)
    BY <1>2, <2>0
  <2>2. PICK g : DoublesUpTo(m - 1, g)
    BY <2>0, <2>1
  <2> DEFINE h == [k \in 0..m |-> IF k = m THEN 2 * g[m - 1] ELSE g[k]]
  <2>3. g \in [0..(m - 1) -> Nat] /\ g[0] = 1 /\ \A k \in 1..(m - 1) : g[k] = 2 * g[k - 1]
    BY <2>2 DEF DoublesUpTo
  <2>4. h \in [0..m -> Nat]
    BY <2>0, <2>3
  <2>5. h[0] = 1
    BY <2>0, <2>3
  <2>6. ASSUME NEW k \in 1..m PROVE h[k] = 2 * h[k - 1]
    BY <2>0, <2>3
  <2>7. DoublesUpTo(m, h)
    BY <2>4, <2>5, <2>6 DEF DoublesUpTo
  <2> QED
    BY <2>7, <1>2
<1> QED
  BY <1>3, <1>4

LEMMA DoublingsAgree ==
  ASSUME NEW n \in Nat, NEW m \in Nat, NEW g, NEW h,
         DoublesUpTo(n, g), DoublesUpTo(m, h),
         NEW k \in Nat, k <= n, k <= m
  PROVE  g[k] = h[k]
<1> DEFINE Apart == {j \in Nat : j <= n /\ j <= m /\ g[j] # h[j]}
<1>1. SUFFICES ASSUME Apart # {} PROVE FALSE
  OBVIOUS
<1>2. PICK j \in Apart : \A y \in Apart : j <= y
  BY <1>1, LeastNatural
<1>3. j # 0
  BY <1>2 DEF DoublesUpTo
<1>4. j - 1 \in Nat /\ j - 1 <= n /\ j - 1 <= m /\ ~(j <= j - 1) /\ j \in 1..n /\ j \in 1..m
  BY <1>2, <1>3
<1>5. g[j - 1] = h[j - 1]
  BY <1>2, <1>4
<1>6. g[j] = 2 * g[j - 1] /\ h[j] = 2 * h[j - 1]
  BY <1>4 DEF DoublesUpTo
<1> QED
  BY <1>2, <1>5, <1>6

LEMMA Pow2Recurs ==
  Pow2 = [n \in Nat |-> IF n = 0 THEN 1 ELSE 2 * Pow2[n - 1]]
<1> DEFINE G(n) == CHOOSE g : DoublesUpTo(n, g)
           F == [n \in Nat |-> G(n)[n]]
           Unfolds(f) == f = [n \in Nat |-> IF n = 0 THEN 1 ELSE 2 * f[n - 1]]
<1>1. ASSUME NEW n \in Nat PROVE DoublesUpTo(n, G(n))
  BY DoublingExists
<1>2. ASSUME NEW n \in Nat PROVE F[n] = IF n = 0 THEN 1 ELSE 2 * F[n - 1]
  <2>1. CASE n = 0
    <3>1. DoublesUpTo(0, G(0))
      BY <1>1
    <3>2. G(0)[0] = 1
      BY <3>1 DEF DoublesUpTo
    <3> HIDE DEF G
    <3> QED
      BY <3>2, <2>1
  <2>2. CASE n # 0
    <3>1. n - 1 \in Nat /\ n - 1 <= n /\ n - 1 <= n - 1 /\ n \in 1..n
      BY <2>2
    <3>2. DoublesUpTo(n, G(n)) /\ DoublesUpTo(n - 1, G(n - 1))
      BY <1>1, <3>1
    <3> HIDE DEF G
    <3>3. G(n)[n - 1] = G(n - 1)[n - 1]
      BY <3>1, <3>2, DoublingsAgree
    <3>4. G(n)[n] = 2 * G(n)[n - 1]
      BY <3>1, <3>2 DEF DoublesUpTo
    <3> QED
      BY <3>1, <3>3, <3>4, <2>2
  <2> QED
    BY <2>1, <2>2
<1>3. Unfolds(F)
  <2> HIDE DEF G
  <2>1. F = [n \in Nat |-> F[n]]
    OBVIOUS
  <2> HIDE DEF F
  <2> QED
    BY <1>2, <2>1
<1>4. Pow2 = CHOOSE f : Unfolds(f)
  BY Zenon DEF Pow2
<1>5. Unfolds(Pow2)
  <2> HIDE DEF Unfolds, F
  <2> QED
    BY <1>3, <1>4, Zenon
<1> QED
  BY <1>5

LEMMA Pow2Facts ==
  /\ Pow2[0] = 1
  /\ \A n \in Nat : Pow2[n] \in Nat /\ Pow2[n] >= 1 /\ Pow2[n + 1] = 2 * Pow2[n]
<1>1. Pow2[0] = 1
  BY Pow2Recurs
<1>2. ASSUME NEW n \in Nat PROVE Pow2[n + 1] = 2 * Pow2[n]
  <2>1. n + 1 \in Nat /\ n + 1 # 0 /\ (n + 1) - 1 = n
    OBVIOUS
  <2> QED
    BY <2>1, Pow2Recurs
<1>3. ASSUME NEW n \in Nat PROVE Pow2[n] \in Nat /\ Pow2[n] >= 1
  <2> DEFINE Odd == {k \in Nat : ~(Pow2[k] \in Nat /\ Pow2[k] >= 1)}
  <2>1. SUFFICES ASSUME Odd # {} PROVE FALSE
    OBVIOUS
  <2>2. PICK m \in Odd : \A y \in Odd : m <= y
    BY <2>1, LeastNatural
  <2>3. m # 0
    BY <2>2, <1>1
  <2>4. m - 1 \in Nat /\ ~(m <= m - 1) /\ (m - 1) + 1 = m
    BY <2>2, <2>3
  <2>5. Pow2[m - 1] \in Nat /\ Pow2[m - 1] >= 1
    BY <2>2, <2>4
  <2>6. Pow2[(m - 1) + 1] = 2 * Pow2[m - 1]
    BY <1>2, <2>4
  <2> QED
    BY <2>2, <2>4, <2>5, <2>6
<1> QED
  BY <1>1, <1>2, <1>3

LEMMA TwiceTheProduct ==
  ASSUME NEW b \in Nat, NEW p \in Nat
  PROVE  b * p \in Nat /\ b * (2 * p) = 2 * (b * p) /\ b * 1 = b
OBVIOUS

(* base doubled n times. *)
Scaled(b) == [n \in Nat |-> b * Pow2[n]]

LEMMA ScaledFacts ==
  ASSUME NEW b \in Nat
  PROVE  /\ Scaled(b) \in [Nat -> Nat]
         /\ Scaled(b)[0] = b
         /\ \A n \in Nat : Scaled(b)[n + 1] = 2 * Scaled(b)[n]
<1>1. \A n \in Nat : b * Pow2[n] \in Nat
  BY Pow2Facts, TwiceTheProduct
<1>2. b * Pow2[0] = b
  BY Pow2Facts, TwiceTheProduct
<1>3. ASSUME NEW n \in Nat PROVE b * Pow2[n + 1] = 2 * (b * Pow2[n])
  <2>1. Pow2[n] \in Nat /\ Pow2[n + 1] = 2 * Pow2[n]
    BY Pow2Facts
  <2>2. b * (2 * Pow2[n]) = 2 * (b * Pow2[n])
    BY <2>1, TwiceTheProduct
  <2> QED
    BY <2>1, <2>2
<1>4. Scaled(b) \in [Nat -> Nat]
  BY <1>1 DEF Scaled
<1>5. \A n \in Nat : n + 1 \in Nat /\ Scaled(b)[n] = b * Pow2[n]
  BY DEF Scaled
<1>6. ASSUME NEW n \in Nat PROVE Scaled(b)[n + 1] = 2 * Scaled(b)[n]
  BY <1>3, <1>5, Zenon
<1> QED
  BY <1>2, <1>4, <1>5, <1>6

LEMMA ScaledGrows ==
  ASSUME NEW f \in [Nat -> Nat], \A n \in Nat : f[n + 1] = 2 * f[n],
         NEW m \in Nat, NEW n \in Nat, m <= n
  PROVE  f[m] <= f[n]
<1> DEFINE Short == {k \in Nat : m <= k /\ ~(f[m] <= f[k])}
<1>1. SUFFICES ASSUME Short # {} PROVE FALSE
  OBVIOUS
<1>2. PICK k \in Short : \A y \in Short : k <= y
  BY <1>1, LeastNatural
<1>3. k # m
  BY <1>2
<1>4. k - 1 \in Nat /\ m <= k - 1 /\ ~(k <= k - 1) /\ (k - 1) + 1 = k
  BY <1>2, <1>3
<1>5. f[m] <= f[k - 1]
  BY <1>2, <1>4
<1>6. f[(k - 1) + 1] = 2 * f[k - 1]
  BY <1>4
<1> QED
  BY <1>2, <1>4, <1>5, <1>6

LEMMA WidthFacts ==
  /\ Pow2[Width - 1] \in Nat
  /\ MaxBackoff \in Nat /\ 1 <= MaxBackoff /\ MaxBackoff < Pow2[Width - 1]
  /\ Pow2[Width] = 2 * Pow2[Width - 1]
<1>1. Width - 1 \in Nat /\ (Width - 1) + 1 = Width
  BY BackoffAssumption
<1>2. Pow2[Width - 1] \in Nat /\ Pow2[(Width - 1) + 1] = 2 * Pow2[Width - 1]
  BY <1>1, Pow2Facts
<1> QED
  BY <1>1, <1>2, BackoffAssumption

LEMMA SmallRemainder ==
  ASSUME NEW m \in Nat, NEW x \in Nat, x < m
  PROVE  x % m = x
OBVIOUS

LEMMA WrapOfDouble ==
  ASSUME NEW d \in Nat, 1 <= d, d < Pow2[Width - 1]
  PROVE  Wrap(2 * d) = IF 2 * d < Pow2[Width - 1] THEN 2 * d ELSE 2 * d - Pow2[Width]
<1>1. 2 * d \in Nat /\ Pow2[Width] \in Nat /\ 2 * d < Pow2[Width] /\ Pow2[Width - 1] \in Nat
  BY WidthFacts
<1>2. (2 * d) % Pow2[Width] = 2 * d
  BY <1>1, SmallRemainder
<1> QED
  BY <1>1, <1>2 DEF Wrap

(* What the loop keeps: delay is the exact product and has not overflowed. *)
DelayInv ==
  result = 0 => /\ delay \in Nat /\ 1 <= delay /\ delay < Pow2[Width - 1]
                /\ delay = Scaled(base)[doubled]

BackoffInv ==
  /\ base \in Nat /\ 1 <= base /\ base < Pow2[Width - 1]
  /\ attempts \in Nat /\ doubled \in Nat /\ doubled <= attempts
  /\ DelayInv
  /\ BackoffIsCappedPower

LEMMA DoublesTheDelay ==
  ASSUME BackoffInv, Double
  PROVE  BackoffInv'
<1> USE DEF BackoffInv
<1> DEFINE H == Pow2[Width - 1]
<1>1. /\ base' = base /\ attempts' = attempts /\ doubled < attempts /\ result = 0
      /\ delay' = Wrap(2 * delay)
      /\ \/ Capped(delay') /\ result' = MaxBackoff /\ doubled' = doubled
         \/ ~Capped(delay') /\ doubled' = doubled + 1 /\ result' = result
  BY DEF Double, Return
<1>2. H \in Nat /\ MaxBackoff \in Nat /\ 1 <= MaxBackoff /\ MaxBackoff < H /\ Pow2[Width] = 2 * H
  BY WidthFacts
<1>3. delay \in Nat /\ 1 <= delay /\ delay < H /\ delay = Scaled(base)[doubled]
  BY <1>1 DEF DelayInv
<1>4. delay' = IF 2 * delay < H THEN 2 * delay ELSE 2 * delay - Pow2[Width]
  BY <1>1, <1>3, WrapOfDouble
<1>5. /\ Scaled(base) \in [Nat -> Nat]
      /\ \A n \in Nat : Scaled(base)[n + 1] = 2 * Scaled(base)[n]
  BY ScaledFacts
<1>6. Scaled(base)[doubled + 1] = 2 * delay
  BY <1>3, <1>5
<1> HIDE DEF H
<1>7. CASE Capped(delay')
  <2>1. result' = MaxBackoff /\ doubled' = doubled /\ MaxBackoff # 0
    BY <1>1, <1>2, <1>7
  <2>2. 2 * delay >= MaxBackoff
    BY <1>2, <1>3, <1>4, <1>7 DEF Capped
  <2>3. doubled + 1 \in Nat /\ doubled + 1 <= attempts
    BY <1>1
  <2>4. Scaled(base)[doubled + 1] <= Scaled(base)[attempts]
    BY <1>5, <2>3, ScaledGrows
  <2>5. Scaled(base)[attempts] = base * Pow2[attempts] /\ Scaled(base)[attempts] \in Nat
    BY <1>5 DEF Scaled
  <2>6. ~(base * Pow2[attempts] < MaxBackoff)
    BY <1>2, <1>3, <1>6, <2>2, <2>4, <2>5
  <2>7. BackoffIsCappedPower'
    BY <1>1, <2>1, <2>6, Zenon DEF BackoffIsCappedPower
  <2> QED
    BY <1>1, <2>1, <2>7 DEF DelayInv
<1>8. CASE ~Capped(delay')
  <2>1. result' = 0 /\ doubled' = doubled + 1
    BY <1>1, <1>8
  <2>2. delay' = 2 * delay /\ delay' < H /\ 1 <= delay' /\ delay' \in Nat
    BY <1>2, <1>3, <1>4, <1>8 DEF Capped
  <2>3. DelayInv'
    BY <1>1, <1>6, <2>1, <2>2 DEF DelayInv, H
  <2>4. BackoffIsCappedPower'
    BY <2>1 DEF BackoffIsCappedPower
  <2> QED
    BY <1>1, <2>1, <2>3, <2>4
<1> QED
  BY <1>7, <1>8

LEMMA FinishesWithTheDelay ==
  ASSUME BackoffInv, Finish
  PROVE  BackoffInv'
<1> USE DEF BackoffInv
<1>1. /\ base' = base /\ attempts' = attempts /\ doubled' = doubled /\ delay' = delay
      /\ result = 0 /\ doubled = attempts
      /\ result' = IF delay < MaxBackoff THEN delay ELSE MaxBackoff
  BY DEF Finish, Return
<1>2. delay \in Nat /\ 1 <= delay /\ delay = Scaled(base)[attempts]
  BY <1>1 DEF DelayInv
<1>3. Scaled(base)[attempts] = base * Pow2[attempts]
  BY DEF Scaled
<1>4. BackoffIsCappedPower'
  BY <1>1, <1>2, <1>3, Zenon DEF BackoffIsCappedPower
<1>5. result' # 0
  BY <1>1, <1>2, WidthFacts
<1> QED
  BY <1>1, <1>4, <1>5 DEF DelayInv

(* backoff (relay.go:416-425) returns base * 2^attempts capped at           *)
(* maxBackoff for every width of the integers, every interval that fits in  *)
(* it and every number of failures: the first product to overflow is        *)
(* negative, so no delay is ever short, zero or negative.                   *)
THEOREM BackoffsAreCappedPowers == BackoffSpec => []BackoffIsCappedPower
<1>1. BackoffInit => BackoffInv
  <2> SUFFICES ASSUME BackoffInit PROVE BackoffInv
    OBVIOUS
  <2>1. /\ base \in 1..(Pow2[Width - 1] - 1) /\ attempts \in 0..MaxFailures
        /\ delay = base /\ doubled = 0 /\ result = 0
    BY DEF BackoffInit
  <2>2. base \in Nat /\ 1 <= base /\ base < Pow2[Width - 1] /\ attempts \in Nat
    BY <2>1, WidthFacts, BackoffAssumption
  <2>3. Scaled(base)[0] = base
    BY <2>2, ScaledFacts
  <2> QED
    BY <2>1, <2>2, <2>3 DEF BackoffInv, DelayInv, BackoffIsCappedPower
<1>2. BackoffInv /\ [BackoffNext]_backoffVars => BackoffInv'
  <2>1. ASSUME BackoffInv, UNCHANGED backoffVars PROVE BackoffInv'
    BY <2>1 DEF backoffVars, BackoffInv, DelayInv, BackoffIsCappedPower
  <2> QED
    BY <2>1, DoublesTheDelay, FinishesWithTheDelay DEF BackoffNext
<1>3. BackoffInv => BackoffIsCappedPower
  BY DEF BackoffInv
<1> QED
  BY <1>1, <1>2, <1>3, PTL DEF BackoffSpec

=============================================================================
