-------------------------------- MODULE Idem --------------------------------
(***************************************************************************)
(* The idempotency middleware of package idem: concurrent HTTP requests    *)
(* that carry one Idempotency-Key, the record of that key, and the Store   *)
(* operations on it.  Keys do not interact, so one key is modelled.        *)
(*                                                                         *)
(* Every Store operation is one auto-committed statement; the INSERT, the  *)
(* read and the takeover UPDATE of Claim are separate steps.  Any of them  *)
(* may fail, and may fail after it took effect.  The TTL is abstracted to  *)
(* whether created_at is older than it (record.old).                       *)
(*                                                                         *)
(* An operator whose name begins with that of the definition after it is a *)
(* faulty variant of it, against which a property is tested.               *)
(***************************************************************************)
EXTENDS Naturals, FiniteSets

CONSTANTS
  Requests,      \* HTTP requests, or direct users of Store, with the same key
  Payloads,      \* fingerprints
  Payload,       \* Payload[q]: payloadHash of request q
  MaxTries,      \* iterations of Claim's loop (3 in the code)
  DirectUse,     \* whether the requests may be direct users of Store, who call Release
  NoRequest      \* no response stored

ASSUME IdemAssumption ==
  /\ Payload \in [Requests -> Payloads]
  /\ MaxTries \in Nat \ {0}
  /\ DirectUse \subseteq BOOLEAN
  /\ NoRequest \notin Requests

VARIABLES
  rec,        \* the row of idempotency_keys
  req,        \* the locals of every request
  effects,    \* requests whose business write was committed
  takeovers,  \* history: how often the takeover UPDATE succeeded
  direct      \* the store is used directly, not through the middleware

vars == <<rec, req, effects, takeovers, direct>>

(* owner_token: every iteration of Claim draws a new one. *)
Tokens == Requests \X (1..MaxTries)

(* resp: the request whose response is stored. *)
Record == [state : {"absent", "in_progress", "completed", "executed"},
           hash : Payloads, token : Tokens, resp : Requests \cup {NoRequest},
           old : BOOLEAN]

Absent == [state |-> "absent"]

Phases == {"new", "insert", "get", "takeover", "running", "committed", "ended"}

Outcomes == {"none", "own", "replayed", "mismatch", "executed", "inflight", "error", "dead"}

(* try: the iteration of Claim's loop; outcome: what the client was told;   *)
(* from: the request whose response was replayed.                           *)
Request == [pc : Phases, try : 1..MaxTries, outcome : Outcomes,
            from : Requests \cup {NoRequest}]

Init ==
  /\ rec = Absent
  /\ req = [q \in Requests |-> [pc |-> "new", try |-> 1, outcome |-> "none",
                                from |-> NoRequest]]
  /\ effects = {}
  /\ takeovers = 0
  /\ direct \in DirectUse

-----------------------------------------------------------------------------
Token(q) == <<q, req[q].try>>

Goto(q, pc) == req' = [req EXCEPT ![q].pc = pc]

Ends(q, outcome) == req' = [req EXCEPT ![q].pc = "ended", ![q].outcome = outcome]

(* The next iteration of Claim's loop, or the error after the last one.     *)
Retries(q) ==
  IF req[q].try = MaxTries THEN Ends(q, "error")
  ELSE req' = [req EXCEPT ![q].pc = "insert", ![q].try = req[q].try + 1]

Claimed(q) == [state |-> "in_progress", hash |-> Payload[q], token |-> Token(q),
               resp |-> NoRequest, old |-> FALSE]

(* The middleware has read the body and computed the fingerprint. *)
Arrive(q) ==
  /\ req[q].pc = "new"
  /\ Goto(q, "insert")
  /\ UNCHANGED <<rec, effects, takeovers>>

(* INSERT ... ON CONFLICT DO NOTHING. *)
Insert(q) ==
  /\ req[q].pc = "insert"
  /\ IF rec.state = "absent"
     THEN rec' = Claimed(q) /\ Goto(q, "running")
     ELSE UNCHANGED rec /\ Goto(q, "get")
  /\ UNCHANGED <<effects, takeovers>>

TakeoverAllowed(q) ==
  rec.state = "in_progress" /\ rec.old /\ rec.hash = Payload[q]

(* replyExisting: the fingerprint is compared before the state. *)
ReplyExisting(q) ==
  IF rec.hash # Payload[q] THEN Ends(q, "mismatch")
  ELSE CASE rec.state = "completed" ->
              req' = [req EXCEPT ![q].pc = "ended", ![q].outcome = "replayed",
                                 ![q].from = rec.resp]
         [] rec.state = "executed" -> Ends(q, "executed")
         [] rec.state = "in_progress" -> Ends(q, "inflight")

(* Store.get and the decision Claim takes on what it read. *)
GetRereadingWhenGone(q) ==
  /\ req[q].pc = "get"
  /\ IF rec.state = "absent" THEN Goto(q, "get")
     ELSE IF TakeoverAllowed(q) THEN Goto(q, "takeover")
     ELSE ReplyExisting(q)
  /\ UNCHANGED <<rec, effects, takeovers>>

Get(q) ==
  /\ req[q].pc = "get"
  /\ IF rec.state = "absent" THEN Retries(q)
     ELSE IF TakeoverAllowed(q) THEN Goto(q, "takeover")
     ELSE ReplyExisting(q)
  /\ UNCHANGED <<rec, effects, takeovers>>

(* The WHERE clause of the takeover UPDATE. *)
TakeoverMatches == rec.state = "in_progress" /\ rec.old

Takeover(q) ==
  /\ req[q].pc = "takeover"
  /\ IF TakeoverMatches
     THEN /\ rec' = [rec EXCEPT !.token = Token(q), !.old = FALSE]
          /\ takeovers' = takeovers + 1
          /\ Goto(q, "running")
     ELSE Retries(q) /\ UNCHANGED <<rec, takeovers>>
  /\ UNCHANGED effects

(* A statement of Claim fails: 503.  The INSERT or the UPDATE may have      *)
(* taken effect all the same, leaving a claim nobody works on.              *)
ClaimFails(q) ==
  /\ req[q].pc \in {"insert", "get", "takeover"}
  /\ \/ UNCHANGED <<rec, takeovers>>
     \/ /\ req[q].pc = "insert" /\ rec.state = "absent"
        /\ rec' = Claimed(q) /\ UNCHANGED takeovers
     \/ /\ req[q].pc = "takeover" /\ TakeoverMatches
        /\ rec' = [rec EXCEPT !.token = Token(q), !.old = FALSE]
        /\ takeovers' = takeovers + 1
  /\ Ends(q, "error")
  /\ UNCHANGED effects

-----------------------------------------------------------------------------
(* The handler commits its business write, if it has one to make. *)
HandlerCommits(q) ==
  /\ req[q].pc = "running"
  /\ effects' = effects \cup {q}
  /\ Goto(q, "committed")
  /\ UNCHANGED <<rec, takeovers>>

(* The handler panics, or the process dies: no Complete, no MarkExecuted.   *)
Interrupted(q) ==
  /\ req[q].pc \in {"insert", "get", "takeover", "running", "committed"}
  /\ Ends(q, "dead")
  /\ UNCHANGED <<rec, effects, takeovers>>

OwnsWithoutToken(q) == rec.state = "in_progress"

Owns(q) == rec.state = "in_progress" /\ rec.token = Token(q)

(* The handler returned, with or without a business write, and Complete     *)
(* stores its response; a fencing rejection or an error is only logged.     *)
Complete(q) ==
  /\ req[q].pc \in {"running", "committed"}
  /\ \/ rec' = IF Owns(q) THEN [rec EXCEPT !.state = "completed", !.resp = q] ELSE rec
     \/ UNCHANGED rec
  /\ Ends(q, "own")
  /\ UNCHANGED <<effects, takeovers>>

(* The response overflowed the capture limit or could not be written.       *)
MarkExecuted(q) ==
  /\ req[q].pc \in {"running", "committed"}
  /\ \/ rec' = IF Owns(q) THEN [rec EXCEPT !.state = "executed"] ELSE rec
     \/ UNCHANGED rec
  /\ Ends(q, "own")
  /\ UNCHANGED <<effects, takeovers>>

(* Store.Release gives up a claim whose business write was not made.  The   *)
(* middleware never calls it; a domain that uses Store directly may.        *)
Release(q) ==
  /\ direct
  /\ req[q].pc = "running"
  /\ rec' = IF Owns(q) THEN Absent ELSE rec
  /\ Ends(q, "error")
  /\ UNCHANGED <<effects, takeovers>>

(* created_at passes the TTL. *)
Ages ==
  /\ rec.state = "in_progress" /\ ~rec.old
  /\ rec' = [rec EXCEPT !.old = TRUE]
  /\ UNCHANGED <<req, effects, takeovers>>

-----------------------------------------------------------------------------
(* The steps of the request itself; the rest is up to its environment. *)
Step(q) ==
  \/ Insert(q) \/ Get(q) \/ Takeover(q)
  \/ HandlerCommits(q) \/ Complete(q) \/ MarkExecuted(q) \/ Release(q)

AllEnded == \A q \in Requests : req[q].pc = "ended"

Next ==
  /\ \/ \E q \in Requests : Arrive(q) \/ Step(q) \/ ClaimFails(q) \/ Interrupted(q)
     \/ Ages
     \/ AllEnded /\ UNCHANGED <<rec, req, effects, takeovers>>
  /\ UNCHANGED direct

Spec == Init /\ [][Next]_vars

(* Handlers return and statements end; whether requests arrive, fail or die *)
(* is not assumed.                                                          *)
FairSpec == Spec /\ \A q \in Requests : WF_vars(Step(q) /\ UNCHANGED direct)

-----------------------------------------------------------------------------
(* Properties. *)

(* The record and the locals of every request keep their shape; Claim's     *)
(* loop makes MaxTries iterations at most (idem.go:171-173).                *)
TypeOK ==
  /\ rec = Absent \/ (rec \in Record /\ rec.state # "absent")
  /\ req \in [Requests -> Request]
  /\ effects \subseteq Requests
  /\ takeovers \in Nat
  /\ direct \in DirectUse

Executing(q) == req[q].pc \in {"running", "committed"}

(* However many requests race for the key, one executes the business unless *)
(* the TTL let another one take over: the number of requests that ever held *)
(* the right to execute is at most one more than the takeovers.             *)
(* (idem.go:3-11, 166-208)                                                  *)
OneExecutionPerClaim == Cardinality(effects) <= 1 + takeovers

(* A client is only ever shown the response to a request with the same      *)
(* fingerprint as its own (idem.go:525-550).                                *)
ReplayMatchesPayload ==
  \A q \in Requests : req[q].outcome = "replayed" =>
    /\ req[q].from \in Requests
    /\ Payload[req[q].from] = Payload[q]

(* The fingerprint stored with the record is that of the request that owns  *)
(* it: "a stale in_progress record with the same payload is taken over      *)
(* atomically" (idem.go:168).                                               *)
OwnerHasRecordPayload ==
  rec.state # "absent" => rec.hash = Payload[rec.token[1]]

(* The stored response was written by the last owner of the record: a late  *)
(* Complete of a request that lost the key is rejected (idem.go:229-244).   *)
StoredByOwner == rec.state = "completed" => rec.resp = rec.token[1]

(* completed and executed are final: nothing rewrites or removes them, and  *)
(* nobody starts to execute afterwards (idem.go:63-69).                     *)
TerminalIsFinal ==
  [][rec.state \in {"completed", "executed"} =>
       /\ rec' = rec
       /\ \A q \in Requests : Executing(q)' => Executing(q)]_vars

(* What the key stands for.  One execution per claim, the stored response   *)
(* is its owner's and final, however the store is used; through the         *)
(* middleware, which never calls Release, the record also belongs to its    *)
(* owner's payload and a client is only shown the answer to its own.        *)
(* (idem.go:166-276, 525-550)                                               *)
KeyIsKept ==
  /\ [](/\ TypeOK /\ OneExecutionPerClaim /\ StoredByOwner
        /\ direct \/ (OwnerHasRecordPayload /\ ReplayMatchesPayload))
  /\ TerminalIsFinal

(* Every request that reached Claim gets an answer, whatever the others do  *)
(* to the record: Claim's loop cannot be kept spinning (idem.go:171-207).   *)
RequestsEnd == []<>(\A q \in Requests : req[q].pc \in {"new", "ended"})
=============================================================================
