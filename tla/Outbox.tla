------------------------------- MODULE Outbox -------------------------------
(***************************************************************************)
(* The transactional outbox of package outbox: one outbox table, the       *)
(* replicas of Relay that claim, deliver and finalise its rows, the        *)
(* consumers behind DirectBus, each wrapped by Inbox, and the operator's   *)
(* DeadLetters.Retry.                                                      *)
(*                                                                         *)
(* An SQL statement is atomic and READ COMMITTED: an UPDATE that meets a   *)
(* row locked by another transaction waits, then evaluates its WHERE       *)
(* again.  Any statement or commit may fail, and a commit may take effect  *)
(* although its reply is lost.  Timestamps are abstracted to what the      *)
(* WHERE clauses compare: a lease is live or expired, a row is due or not. *)
(*                                                                         *)
(* An operator whose name begins with that of the definition after it is a *)
(* faulty variant of it, against which a property is tested.               *)
(***************************************************************************)
EXTENDS Integers, FiniteSets, Sequences

CONSTANTS
  Replicas,     \* processes that run Relay.Run
  NumEvents,    \* events are 1..NumEvents, numbered by (created_at, id)
  Consumers,    \* names given to outbox.Inbox
  Subs,         \* Subs[e]: the handlers subscribed to the topic of e, in order
  BadMeta,      \* events whose meta column is no JSON object of strings
  Batch,        \* Relay.batch
  MaxAttempts,  \* Relay.maxAttempts
  Tokens,       \* claim tokens (uuid.NewString)
  NoToken       \* SQL NULL in claim_token

Events == 1..NumEvents

ASSUME OutboxAssumption ==
  /\ NumEvents \in Nat
  /\ Batch \in Nat \ {0}
  /\ MaxAttempts \in Nat \ {0}
  /\ Subs \in [Events -> Seq(Consumers)]
  /\ BadMeta \subseteq Events
  /\ NoToken \notin Tokens

VARIABLES
  rows,     \* the outbox table
  inbox,    \* the inbox table: committed (consumer, event) pairs
  effects,  \* how often the business write of (consumer, event) was committed
  rep       \* the volatile state of every replica

vars == <<rows, inbox, effects, rep>>

Deliveries == Consumers \X Events

(* A row of the outbox table. present: the row exists; published and failed *)
(* stand for published_at and failed_at being non-NULL; due for             *)
(* next_attempt_at <= now(); lease for claimed_until.                       *)
Row == [present : BOOLEAN, published : BOOLEAN, failed : BOOLEAN,
        attempts : Nat, due : BOOLEAN,
        lease : {"none", "live", "expired"}, token : Tokens \cup {NoToken}]

AbsentRow == [present |-> FALSE, published |-> FALSE, failed |-> FALSE,
              attempts |-> 0, due |-> TRUE, lease |-> "none", token |-> NoToken]

(* The locals of relayOnce. batch: the claimed events, seen: the attempts   *)
(* column read with them, token: their claim token, done: delivered, bad:   *)
(* the event that failed (at most one), next: the handler DirectBus.Publish *)
(* calls next, err: whether a handler of the current event has failed.      *)
Phases == {"idle", "claiming", "delivering", "handling", "publish", "record", "release"}

Replica == [pc : Phases, batch : SUBSET Events, seen : [Events -> Nat],
            token : Tokens \cup {NoToken}, done : SUBSET Events,
            bad : SUBSET Events, next : Nat, err : BOOLEAN]

IdleReplica == [pc |-> "idle", batch |-> {}, seen |-> [e \in Events |-> 0],
                token |-> NoToken, done |-> {}, bad |-> {}, next |-> 1, err |-> FALSE]

Init ==
  /\ rows = [e \in Events |-> AbsentRow]
  /\ inbox = {}
  /\ effects = [d \in Deliveries |-> 0]
  /\ rep = [r \in Replicas |-> IdleReplica]

-----------------------------------------------------------------------------
(* Publishing: the row is inserted by the business transaction, so it       *)
(* appears when that transaction commits.                                   *)

Enqueue(e) ==
  /\ ~rows[e].present
  /\ rows' = [rows EXCEPT ![e] = [AbsentRow EXCEPT !.present = TRUE]]
  /\ UNCHANGED <<inbox, effects, rep>>

-----------------------------------------------------------------------------
(* Claiming. *)

PendingOrFailed(e) == rows[e].present /\ ~rows[e].published

Pending(e) == rows[e].present /\ ~rows[e].published /\ ~rows[e].failed

LockedByClaim(e) == \E q \in Replicas : rep[q].pc = "claiming" /\ e \in rep[q].batch

(* The first n elements of a set of numbers. *)
FirstOf(S, n) == {e \in S : Cardinality({f \in S : f < e}) < n}

Claimable(e) == Pending(e) /\ rows[e].due /\ rows[e].lease # "live"

(* SELECT ... FOR UPDATE SKIP LOCKED inside the claim transaction; an empty *)
(* result ends the round.                                                   *)
ClaimSelect(r) ==
  LET S == FirstOf({e \in Events : Claimable(e) /\ ~LockedByClaim(e)}, Batch)
  IN /\ rep[r].pc = "idle"
     /\ rep' = IF S = {} THEN rep
               ELSE [rep EXCEPT ![r] =
                       [IdleReplica EXCEPT !.pc = "claiming", !.batch = S,
                          !.seen = [e \in Events |-> IF e \in S THEN rows[e].attempts ELSE 0]]]
     /\ UNCHANGED <<rows, inbox, effects>>

(* uuid.NewString: a token no row and no replica holds. *)
FreshTokens == {t \in Tokens : /\ \A e \in Events : rows[e].token # t
                               /\ \A r \in Replicas : rep[r].token # t}

Leased(S, t) ==
  [e \in Events |-> IF e \in S THEN [rows[e] EXCEPT !.lease = "live", !.token = t]
                    ELSE rows[e]]

ClaimCommit(r) ==
  /\ rep[r].pc = "claiming"
  /\ \E t \in FreshTokens :
       /\ rows' = Leased(rep[r].batch, t)
       /\ rep' = [rep EXCEPT ![r].pc = "delivering", ![r].token = t]
  /\ UNCHANGED <<inbox, effects>>

(* The transaction committed and its reply was lost: the rows are leased to *)
(* a token nobody knows.                                                    *)
ClaimCommitLost(r) ==
  /\ rep[r].pc = "claiming"
  /\ \E t \in FreshTokens : rows' = Leased(rep[r].batch, t)
  /\ rep' = [rep EXCEPT ![r] = IdleReplica]
  /\ UNCHANGED <<inbox, effects>>

ClaimAbort(r) ==
  /\ rep[r].pc = "claiming"
  /\ rep' = [rep EXCEPT ![r] = IdleReplica]
  /\ UNCHANGED <<rows, inbox, effects>>

-----------------------------------------------------------------------------
(* Delivering: relayOnce's loop over the batch, deliver, DirectBus.Publish  *)
(* and the Inbox transaction of each handler.                               *)

FirstIn(S) == CHOOSE e \in S : \A f \in S : e <= f

Current(r) == FirstIn(rep[r].batch \ rep[r].done)

Handler(r) == <<Subs[Current(r)][rep[r].next], Current(r)>>

(* ErrNoSubscriber and the meta that does not unmarshal: no handler runs.   *)
Undeliverable(e) == Subs[e] = <<>> \/ e \in BadMeta

HandlersLeft(r) == ~Undeliverable(Current(r)) /\ rep[r].next <= Len(Subs[Current(r)])

InboxKeyHeldNever(d) == FALSE

(* INSERT ... ON CONFLICT DO NOTHING waits for an open transaction that     *)
(* inserted the same key.                                                   *)
InboxKeyHeld(d) == \E q \in Replicas : rep[q].pc = "handling" /\ Handler(q) = d

(* The handler returned: go on to the next one, remembering its error. *)
HandlerReturns(r, failed) ==
  rep' = [rep EXCEPT ![r].pc = "delivering", ![r].next = rep[r].next + 1,
                     ![r].err = rep[r].err \/ failed]

(* The inbox insert conflicts: the handler returns nil without running.     *)
HandlerDuplicate(r) ==
  /\ rep[r].pc = "delivering" /\ HandlersLeft(r)
  /\ ~InboxKeyHeld(Handler(r))
  /\ Handler(r) \in inbox
  /\ HandlerReturns(r, FALSE)
  /\ UNCHANGED <<rows, inbox, effects>>

(* The inbox insert wins: the transaction is open and next is running.      *)
HandlerBegin(r) ==
  /\ rep[r].pc = "delivering" /\ HandlersLeft(r)
  /\ ~InboxKeyHeld(Handler(r))
  /\ Handler(r) \notin inbox
  /\ rep' = [rep EXCEPT ![r].pc = "handling"]
  /\ UNCHANGED <<rows, inbox, effects>>

(* The inbox row and the business write commit together; replyLost: the     *)
(* commit took effect but reported an error.                                *)
HandlerCommit(r, replyLost) ==
  /\ rep[r].pc = "handling"
  /\ inbox' = inbox \cup {Handler(r)}
  /\ effects' = [effects EXCEPT ![Handler(r)] = effects[Handler(r)] + 1]
  /\ HandlerReturns(r, replyLost)
  /\ UNCHANGED rows

(* The transaction cannot begin, or next fails and it is rolled back.       *)
HandlerFail(r) ==
  /\ \/ rep[r].pc = "handling"
     \/ rep[r].pc = "delivering" /\ HandlersLeft(r)
  /\ HandlerReturns(r, TRUE)
  /\ UNCHANGED <<rows, inbox, effects>>

(* deliver failed: the batch stops here and finalisation begins. *)
StopBatch(r) ==
  rep' = [rep EXCEPT ![r].pc = "publish", ![r].bad = {Current(r)}]

(* next panics: the transaction rolls back, the panic skips the handlers    *)
(* after it and deliver turns it into an error.                             *)
HandlerPanic(r) ==
  /\ rep[r].pc = "handling"
  /\ StopBatch(r)
  /\ UNCHANGED <<rows, inbox, effects>>

DeliverOkIgnoringErrors(r) ==
  /\ rep[r].pc = "delivering"
  /\ ~Undeliverable(Current(r)) /\ ~HandlersLeft(r)
  /\ LET done == rep[r].done \cup {Current(r)}
     IN rep' = [rep EXCEPT ![r].done = done, ![r].next = 1, ![r].err = FALSE,
                  ![r].pc = IF done = rep[r].batch THEN "publish" ELSE "delivering"]
  /\ UNCHANGED <<rows, inbox, effects>>

(* Publish returned nil: the next event of the batch, or finalisation.      *)
DeliverOk(r) ==
  /\ rep[r].pc = "delivering"
  /\ ~Undeliverable(Current(r)) /\ ~HandlersLeft(r) /\ ~rep[r].err
  /\ LET done == rep[r].done \cup {Current(r)}
     IN rep' = [rep EXCEPT ![r].done = done, ![r].next = 1,
                  ![r].pc = IF done = rep[r].batch THEN "publish" ELSE "delivering"]
  /\ UNCHANGED <<rows, inbox, effects>>

DeliverError(r) ==
  /\ rep[r].pc = "delivering"
  /\ Undeliverable(Current(r)) \/ (~HandlersLeft(r) /\ rep[r].err)
  /\ StopBatch(r)
  /\ UNCHANGED <<rows, inbox, effects>>

-----------------------------------------------------------------------------
(* Finalising: three statements, each guarded by the claim token, each of   *)
(* which may fail without stopping the next.                                *)

OwnsWithoutToken(r, e) == Pending(e)

Owns(r, e) == Pending(e) /\ rows[e].token = rep[r].token

Unclaimed(row) == [row EXCEPT !.lease = "none", !.token = NoToken]

(* The statement waits while a claim transaction of another replica holds   *)
(* one of its rows.                                                         *)
RowsFree(S) == \A e \in S : ~LockedByClaim(e)

(* A statement that rewrites with New the rows of S still owned by r. *)
Statement(r, S, New(_)) ==
  /\ RowsFree(S)
  /\ rows' = [e \in Events |-> IF e \in S /\ Owns(r, e) THEN New(rows[e]) ELSE rows[e]]

PublishedRow(row) == [Unclaimed(row) EXCEPT !.published = TRUE]

MarkPublished(r) ==
  /\ rep[r].pc = "publish"
  /\ Statement(r, rep[r].done, PublishedRow)
  /\ rep' = [rep EXCEPT ![r].pc = "record"]
  /\ UNCHANGED <<inbox, effects>>

FailedRowNotCounted(row, seen) ==
  IF seen + 1 >= MaxAttempts
  THEN [Unclaimed(row) EXCEPT !.failed = TRUE]
  ELSE [Unclaimed(row) EXCEPT !.due = FALSE]

FailedRowOneLate(row, seen) ==
  IF seen >= MaxAttempts
  THEN [Unclaimed(row) EXCEPT !.attempts = row.attempts + 1, !.failed = TRUE]
  ELSE [Unclaimed(row) EXCEPT !.attempts = row.attempts + 1, !.due = FALSE]

(* recordFailure decides with the attempts read at claim time; the UPDATE   *)
(* increments the column.                                                   *)
FailedRow(row, seen) ==
  IF seen + 1 >= MaxAttempts
  THEN [Unclaimed(row) EXCEPT !.attempts = row.attempts + 1, !.failed = TRUE]
  ELSE [Unclaimed(row) EXCEPT !.attempts = row.attempts + 1, !.due = FALSE]

RecordFailure(r) ==
  /\ rep[r].pc = "record"
  /\ \/ rep[r].bad = {} /\ UNCHANGED rows
     \/ \E e \in rep[r].bad :
          LET New(row) == FailedRow(row, rep[r].seen[e])
          IN Statement(r, {e}, New)
  /\ rep' = [rep EXCEPT ![r].pc = "release"]
  /\ UNCHANGED <<inbox, effects>>

(* The claimed events the loop never reached. *)
Rest(r) == rep[r].batch \ (rep[r].done \cup rep[r].bad)

(* releaseSQL frees them; the round is over. *)
ReleaseRest(r) ==
  /\ rep[r].pc = "release"
  /\ Statement(r, Rest(r), Unclaimed)
  /\ rep' = [rep EXCEPT ![r] = IdleReplica]
  /\ UNCHANGED <<inbox, effects>>

(* One of the three statements fails; the error is only collected. *)
StatementFails(r) ==
  /\ \/ /\ rep[r].pc = "publish" /\ rep[r].done # {}
        /\ rep' = [rep EXCEPT ![r].pc = "record"]
     \/ /\ rep[r].pc = "record" /\ rep[r].bad # {}
        /\ rep' = [rep EXCEPT ![r].pc = "release"]
     \/ /\ rep[r].pc = "release" /\ Rest(r) # {}
        /\ rep' = [rep EXCEPT ![r] = IdleReplica]
  /\ UNCHANGED <<rows, inbox, effects>>

-----------------------------------------------------------------------------
(* The environment. *)

(* A replica dies and is started again: its locals are gone and its open    *)
(* transaction is rolled back by the database.                              *)
Crash(r) ==
  /\ rep[r].pc # "idle"
  /\ rep' = [rep EXCEPT ![r] = IdleReplica]
  /\ UNCHANGED <<rows, inbox, effects>>

(* now() passes claimed_until: the rows of one claim share the timestamp.   *)
LeaseExpires(t) ==
  /\ \E e \in Events : rows[e].token = t /\ rows[e].lease = "live"
  /\ rows' = [e \in Events |-> IF rows[e].token = t /\ rows[e].lease = "live"
                               THEN [rows[e] EXCEPT !.lease = "expired"] ELSE rows[e]]
  /\ UNCHANGED <<inbox, effects, rep>>

(* now() passes next_attempt_at. *)
BackoffElapses(e) ==
  /\ rows[e].present /\ ~rows[e].due
  /\ rows' = [rows EXCEPT ![e].due = TRUE]
  /\ UNCHANGED <<inbox, effects, rep>>

(* DeadLetters.Retry: one UPDATE over the given ids. *)
RevivedRow(row) ==
  [Unclaimed(row) EXCEPT !.failed = FALSE, !.attempts = 0, !.due = TRUE]

Retry(ids) ==
  /\ \E e \in ids : rows[e].failed /\ ~rows[e].published
  /\ rows' = [e \in Events |-> IF e \in ids /\ rows[e].failed /\ ~rows[e].published
                               THEN RevivedRow(rows[e]) ELSE rows[e]]
  /\ UNCHANGED <<inbox, effects, rep>>

-----------------------------------------------------------------------------
Claim(r) == ClaimSelect(r) \/ ClaimCommit(r)

Deliver(r) ==
  \/ HandlerDuplicate(r) \/ HandlerBegin(r) \/ HandlerCommit(r, FALSE)
  \/ HandlerFail(r) \/ HandlerPanic(r)
  \/ DeliverOk(r) \/ DeliverError(r)

Finalise(r) == MarkPublished(r) \/ RecordFailure(r) \/ ReleaseRest(r)

(* What the infrastructure does to a replica. *)
Fault(r) ==
  \/ ClaimCommitLost(r) \/ ClaimAbort(r) \/ HandlerCommit(r, TRUE)
  \/ StatementFails(r) \/ Crash(r)

Next ==
  \/ \E r \in Replicas : Claim(r) \/ Deliver(r) \/ Finalise(r) \/ Fault(r)
  \/ \E e \in Events : Enqueue(e) \/ BackoffElapses(e)
  \/ \E t \in Tokens : LeaseExpires(t)
  \/ \E ids \in SUBSET Events : Retry(ids)

Spec == Init /\ [][Next]_vars

(* Steps that undo or void work in progress: a fault, a lease that runs out *)
(* while its owner is still at work, an operator's intervention.  A step    *)
(* the replica may take by itself is none, also when a fault does the same: *)
(* to crash with nothing left to release is to end the round.               *)
Interruption ==
  \/ \E r \in Replicas : \/ Fault(r) /\ ~(Claim(r) \/ Deliver(r) \/ Finalise(r))
                         \/ LeaseExpires(rep[r].token) /\ rep[r].token # NoToken
  \/ \E ids \in SUBSET Events : Retry(ids)

-----------------------------------------------------------------------------
(* Properties. *)

(* Every variable keeps the shape the tables and relayOnce's locals have.   *)
TypeOK ==
  /\ rows \in [Events -> Row]
  /\ inbox \subseteq Deliveries
  /\ effects \in [Deliveries -> Nat]
  /\ rep \in [Replicas -> Replica]

(* Relay sets published_at only on an event whose every subscriber has      *)
(* committed its handling of it, and never on one that has no subscriber    *)
(* (relay.go:274-290, bus.go:46-65): whatever crashes, lost replies and     *)
(* takeovers happen, no consumer misses an event that counts as published.  *)
PublishedWasHandled ==
  \A e \in Events : rows[e].published =>
    /\ ~Undeliverable(e)
    /\ \A i \in 1..Len(Subs[e]) : <<Subs[e][i], e>> \in inbox

(* However often an event is delivered, and by however many replicas at     *)
(* once after a lease was taken over, a consumer's business write commits   *)
(* at most once (inbox.go:57-75).                                           *)
EffectAtMostOnce == \A d \in Deliveries : effects[d] <= 1

(* recordFailure compares the attempts it read at claim time with           *)
(* maxAttempts while the UPDATE increments the column (relay.go:388-413):   *)
(* the two never drift apart, so an event is dead exactly when its budget   *)
(* is used up and no event is retried beyond it.                            *)
DeadIffBudgetSpent ==
  \A e \in Events : /\ rows[e].attempts <= MaxAttempts
                    /\ rows[e].failed <=> rows[e].attempts = MaxAttempts

(* A row carries a claim token exactly while it carries a lease, and a      *)
(* published or dead row carries neither: no statement leaves half a claim  *)
(* behind that would hide the row or let a late owner finalise it.          *)
ClaimIsWhole ==
  \A e \in Events : /\ (rows[e].token = NoToken) <=> (rows[e].lease = "none")
                    /\ rows[e].published \/ rows[e].failed => rows[e].token = NoToken
                    /\ ~(rows[e].published /\ rows[e].failed)

(* While a lease is live nobody but the replica that holds its token        *)
(* changes the row, except for the lease running out: the late finalisation *)
(* of an earlier owner has no effect (relay.go:138-156, 250-251).           *)
LiveClaimIsExclusive ==
  [][\A e \in Events : rows[e].lease = "live" =>
       \/ rows'[e] = rows[e]
       \/ rows'[e] = [rows[e] EXCEPT !.lease = "expired"]
       \/ \E r \in Replicas : rep[r].token = rows[e].token /\ rep'[r] # rep[r]]_vars

(* published_at is final, and a dead event leaves that state only by        *)
(* DeadLetters.Retry with a fresh budget (deadletter.go:48-53).             *)
TerminalRowsAreFinal ==
  [][\A e \in Events :
       /\ rows[e].published => rows'[e] = rows[e]
       /\ rows[e].failed => \/ rows'[e] = rows[e]
                            \/ rows'[e] = [AbsentRow EXCEPT !.present = TRUE]]_vars

(* Every event in the table is one day published or dead: it cannot be      *)
(* stuck behind a lease whose owner is gone, behind another event's         *)
(* failures, or in an endless retry (relay.go:171-199, 240-252).            *)
EventSettles == []<>(\A e \in Events : ~Pending(e))

-----------------------------------------------------------------------------
(* Refinement: a row's columns give the status of its event, the inbox      *)
(* table is the record of what was handled.                                 *)

Status(e) ==
  IF ~rows[e].present THEN "absent"
  ELSE IF rows[e].published THEN "published"
  ELSE IF rows[e].failed THEN "dead" ELSE "queued"

Abs == INSTANCE OutboxAbs WITH
         status <- [e \in Events |-> Status(e)], handled <- inbox, count <- effects

(* The relays, the bus and the inbox together implement exactly-once        *)
(* effects on top of at-least-once delivery.                                *)
ImplementsAbs == Abs!AbsSpec
=============================================================================
