----------------------------- MODULE StreamAbs -----------------------------
(***************************************************************************)
(* What a bidirectional contract stream promises (contract.Stream and      *)
(* ClientStream), without its goroutines, queues and contexts: each        *)
(* direction is two counters, accepted and delivered messages.             *)
(***************************************************************************)
EXTENDS Integers

VARIABLES
  capacity,   \* messages a direction may hold undelivered
  sent,       \* sent[d]: messages the endpoint d got a nil from Send for
  got,        \* got[d]: messages of d the other endpoint received
  halfClosed, \* CloseSend succeeded
  terminal,   \* how the stream ended
  promised,   \* sent at the moment the stream ended
  told,       \* endpoints whose Recv reported the terminal
  eof         \* the server's Recv reported the client's half-close

absVars == <<capacity, sent, got, halfClosed, terminal, promised, told, eof>>

Ends == {"client", "server"}
Peer(d) == IF d = "client" THEN "server" ELSE "client"

AbsInit ==
  /\ capacity \in Nat
  /\ sent = [d \in Ends |-> 0] /\ got = [d \in Ends |-> 0]
  /\ halfClosed = FALSE /\ terminal = "none"
  /\ promised = [d \in Ends |-> 0]
  /\ told = {} /\ eof = FALSE

(* One more message is accepted.  After the end of the stream that can      *)
(* only be the Send that was already under way when the stream ended.       *)
MayAccept(d) ==
  /\ d = "client" => ~halfClosed
  /\ terminal = "none" \/ sent[d] = promised[d]

AbsSend(d) ==
  /\ MayAccept(d) /\ sent[d] - got[d] < capacity
  /\ sent' = [sent EXCEPT ![d] = @ + 1]
  /\ UNCHANGED <<capacity, got, halfClosed, terminal, promised, told, eof>>

AbsRecv(d) ==
  /\ got[d] < sent[d]
  /\ got' = [got EXCEPT ![d] = @ + 1]
  /\ UNCHANGED <<capacity, sent, halfClosed, terminal, promised, told, eof>>

(* Sender and receiver meet. *)
AbsPass(d) ==
  /\ MayAccept(d) /\ sent[d] = got[d]
  /\ sent' = [sent EXCEPT ![d] = @ + 1]
  /\ got' = [got EXCEPT ![d] = @ + 1]
  /\ UNCHANGED <<capacity, halfClosed, terminal, promised, told, eof>>

(* CloseSend may race with the end of the stream. *)
AbsHalfClose ==
  /\ halfClosed' = TRUE
  /\ UNCHANGED <<capacity, sent, got, terminal, promised, told, eof>>

AbsEnd ==
  /\ terminal = "none"
  /\ terminal' \in {"eof", "app", "unavailable"}
  /\ promised' = sent
  /\ UNCHANGED <<capacity, sent, got, halfClosed, told, eof>>

(* The half-close is reported once every request was delivered. *)
AbsEof ==
  /\ halfClosed /\ got["client"] = sent["client"]
  /\ eof' = TRUE
  /\ UNCHANGED <<capacity, sent, got, halfClosed, terminal, promised, told>>

(* The terminal is reported to an endpoint once everything its peer was     *)
(* promised before the end was delivered to it.                             *)
AbsTell(e) ==
  /\ terminal # "none" /\ got[Peer(e)] >= promised[Peer(e)]
  /\ told' = told \cup {e}
  /\ UNCHANGED <<capacity, sent, got, halfClosed, terminal, promised, eof>>

AbsNext ==
  \/ \E d \in Ends : AbsSend(d) \/ AbsRecv(d) \/ AbsPass(d) \/ AbsTell(d)
  \/ AbsHalfClose \/ AbsEnd \/ AbsEof

AbsSpec == AbsInit /\ [][AbsNext]_absVars
=============================================================================
