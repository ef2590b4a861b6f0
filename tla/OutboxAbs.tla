----------------------------- MODULE OutboxAbs ------------------------------
(***************************************************************************)
(* What package outbox promises to a domain: an event, once committed, is  *)
(* handled by each of its subscribers with effect exactly once, counts as  *)
(* published only when all of them have done so, or else ends as a dead    *)
(* letter that only an operator brings back.  There are no leases, tokens  *)
(* or replicas here.                                                       *)
(***************************************************************************)
EXTENDS Naturals, Sequences

CONSTANTS Events, Consumers, Subs, BadMeta

VARIABLES
  status,   \* status[e]: where the event is in its life
  handled,  \* the (consumer, event) pairs handled with effect
  count     \* how often each pair was handled with effect

absVars == <<status, handled, count>>

Subscribers(e) == {Subs[e][i] : i \in 1..Len(Subs[e])}

Deliverable(e) == Subs[e] # <<>> /\ e \notin BadMeta

AbsInit ==
  /\ status = [e \in Events |-> "absent"]
  /\ handled = {}
  /\ count = [d \in Consumers \X Events |-> 0]

AbsEnqueue(e) ==
  /\ status[e] = "absent"
  /\ status' = [status EXCEPT ![e] = "queued"]
  /\ UNCHANGED <<handled, count>>

(* A relay whose claim was taken over may still be delivering an event that *)
(* has meanwhile been given up.                                             *)
AbsHandle(c, e) ==
  /\ status[e] \in {"queued", "dead"}
  /\ Deliverable(e) /\ c \in Subscribers(e)
  /\ <<c, e>> \notin handled
  /\ handled' = handled \cup {<<c, e>>}
  /\ count' = [count EXCEPT ![<<c, e>>] = count[<<c, e>>] + 1]
  /\ UNCHANGED status

(* One statement confirms several events. *)
AbsPublish(S) ==
  /\ \A e \in S : /\ status[e] = "queued" /\ Deliverable(e)
                  /\ \A c \in Subscribers(e) : <<c, e>> \in handled
  /\ status' = [e \in Events |-> IF e \in S THEN "published" ELSE status[e]]
  /\ UNCHANGED <<handled, count>>

AbsGiveUp(e) ==
  /\ status[e] = "queued"
  /\ status' = [status EXCEPT ![e] = "dead"]
  /\ UNCHANGED <<handled, count>>

AbsRevive(S) ==
  /\ \A e \in S : status[e] = "dead"
  /\ status' = [e \in Events |-> IF e \in S THEN "queued" ELSE status[e]]
  /\ UNCHANGED <<handled, count>>

AbsNext ==
  \/ \E e \in Events : AbsEnqueue(e) \/ AbsGiveUp(e)
  \/ \E c \in Consumers, e \in Events : AbsHandle(c, e)
  \/ \E S \in SUBSET Events : AbsPublish(S) \/ AbsRevive(S)

AbsSpec == AbsInit /\ [][AbsNext]_absVars
=============================================================================
