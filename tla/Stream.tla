------------------------------- MODULE Stream -------------------------------
(***************************************************************************)
(* An in-process contract stream (contract/stream.go): one localSession    *)
(* with its two bounded directions, the goroutines that use the client and *)
(* the server endpoint, the handler, the idle watcher and Close.           *)
(*                                                                         *)
(* A direction is named by the endpoint that sends on it and holds         *)
(* sent[d] - got[d] messages; payloads and metrics are left out, and time  *)
(* is abstracted: the idle timer may fire at any moment.                   *)
(* The terminal error is abstracted to EOF, an error of the handler, or    *)
(* Unavailable (what normalize makes of any error once the context ended). *)
(* Channel force is closed only after done, by the same goroutine, and its *)
(* waiters do what done makes them do: close = "timeout" stands for it.    *)
(*                                                                         *)
(* An operator whose name begins with that of the definition after it is a *)
(* faulty variant of it, against which a property is tested.               *)
(***************************************************************************)
EXTENDS Integers, FiniteSets

CONSTANTS
  Clients,       \* goroutines that use the client endpoint
  Servers,       \* goroutines that use the server endpoint
  Calls,         \* Calls[g]: the operations goroutine g may call
  QueueSizes,    \* values of StreamConfig.QueueSize; 0 is rendezvous
  IdleDetection, \* IdleTimeout > 0
  MaxMessages    \* bound: messages sent on the two directions together

(* validateStreamConfig: MaxDuration and CloseTimeout are positive, so both *)
(* timers exist; a negative QueueSize is refused.                           *)
ValidStreamConfig == QueueSizes \subseteq Nat /\ IdleDetection \in BOOLEAN

ASSUME StreamAssumption ==
  /\ ValidStreamConfig /\ MaxMessages \in Nat /\ Clients \cap Servers = {}
  /\ Calls \in [Clients \cup Servers -> SUBSET {"Send", "Recv", "CloseSend"}]

VARIABLES
  queueSize,     \* StreamConfig.QueueSize
  sent, got,     \* per direction: accepted and received messages
  halfClosed,    \* sendState.closed of the client's direction
  terminal,      \* localSession.terminal; "none" until done is closed
  live,          \* the stream context is not done
  handler,       \* "running" or "returned" (handlerDone closed)
  close,         \* Close: "open", "waiting", "ok", "timeout"
  pc,            \* where each goroutine is in its operation
  promised, told, eof   \* history, see StreamAbs

vars == <<queueSize, sent, got, halfClosed, terminal, live, handler, close, pc,
          promised, told, eof>>
data == <<queueSize, sent, got>>
session == <<terminal, live, promised>>
history == <<told, eof>>
owners == <<handler, close>>

Sides == {"client", "server"}
Other(d) == IF d = "client" THEN "server" ELSE "client"
Procs == Clients \cup Servers
Side(g) == IF g \in Clients THEN "client" ELSE "server"

Sending == {"send_check", "send_wait"}
Receiving == {"recv_drain", "recv_check", "recv_last", "recv_wait", "recv_closed"}
Halving == {"half_check", "half_lock", "half_wait"}

(* OpenLocal: the handler and the watcher run. *)
Init ==
  /\ queueSize \in QueueSizes
  /\ sent = [d \in Sides |-> 0] /\ got = [d \in Sides |-> 0]
  /\ halfClosed = FALSE /\ terminal = "none" /\ live = TRUE
  /\ handler = "running" /\ close = "open"
  /\ pc = [g \in Procs |-> "idle"]
  /\ promised = [d \in Sides |-> 0] /\ told = {} /\ eof = FALSE

-----------------------------------------------------------------------------
Goto(g, l) == pc' = [pc EXCEPT ![g] = l]

(* sendState.busy and busyGate.busy. *)
SendBusy(d) == \E g \in Procs : Side(g) = d /\ pc[g] \in Sending
RecvBusy(e) == \E g \in Procs : Side(g) = e /\ pc[g] \in Receiving

Done == terminal # "none"
Queued(d) == sent[d] - got[d]

(* contract.normalize, and the nil or EOF a handler returned. *)
Normalize(err) ==
  CASE ~live -> "unavailable"
    [] live /\ err = "nil" -> "eof"
    [] OTHER -> err

(* finishWithTimeout: the first caller decides. *)
Finish(err) ==
  IF Done THEN UNCHANGED session
  ELSE /\ terminal' = Normalize(err)
       /\ promised' = sent
       /\ live' = FALSE

(* sendState.end of a Send on d: every CloseSend that waits for it loops.   *)
SendEnds(g) ==
  pc' = [h \in Procs |->
           IF h = g THEN "idle"
           ELSE IF g \in Clients /\ pc[h] = "half_wait" THEN "half_check" ELSE pc[h]]

-----------------------------------------------------------------------------
(* Send.  An operation context that is already cancelled, or a second       *)
(* concurrent Send or Recv, is refused without any effect.                  *)
SendBegin(g) ==
  /\ "Send" \in Calls[g] /\ pc[g] = "idle"
  /\ sent["client"] + sent["server"] < MaxMessages
  /\ Side(g) = "client" => ~halfClosed
  /\ ~SendBusy(Side(g))
  /\ Goto(g, "send_check")
  /\ UNCHANGED <<data, halfClosed, session, owners, history>>

(* currentTerminal finishes the session when it finds the context ended. *)
SendCheck(g) ==
  /\ pc[g] = "send_check"
  /\ IF ~Done /\ live THEN Goto(g, "send_wait") /\ UNCHANGED session
     ELSE Finish("unavailable") /\ SendEnds(g)
  /\ UNCHANGED <<data, halfClosed, owners, history>>

(* select: the queue takes the value. *)
SendAccepted(g) ==
  LET d == Side(g) IN
  /\ pc[g] = "send_wait"
  /\ Queued(d) < queueSize
  /\ sent' = [sent EXCEPT ![d] = @ + 1]
  /\ SendEnds(g)
  /\ UNCHANGED <<queueSize, got, halfClosed, session, owners, history>>

(* select: done, the context, or the send side closed. *)
SendStopped(g) ==
  /\ pc[g] = "send_wait"
  /\ Done \/ ~live \/ (Side(g) = "client" /\ halfClosed)
  /\ IF Done \/ ~live THEN Finish("unavailable") ELSE UNCHANGED session
  /\ SendEnds(g)
  /\ UNCHANGED <<data, halfClosed, owners, history>>

-----------------------------------------------------------------------------
(* Recv *)
RecvBegin(g) ==
  /\ "Recv" \in Calls[g] /\ pc[g] = "idle"
  /\ ~RecvBusy(Side(g))
  /\ Goto(g, "recv_drain")
  /\ UNCHANGED <<data, halfClosed, session, owners, history>>

(* A receive that finds a message; recordReceived. *)
RecvValue(g) ==
  LET d == Other(Side(g)) IN
  /\ pc[g] \in Receiving \ {"recv_check"}
  /\ Queued(d) > 0
  /\ got' = [got EXCEPT ![d] = @ + 1]
  /\ Goto(g, "idle")
  /\ UNCHANGED <<queueSize, sent, halfClosed, session, owners, history>>

(* An unbuffered channel: a Send in its select meets a Recv. *)
HandOver(s, r) ==
  LET d == Side(s) IN
  /\ queueSize = 0 /\ pc[s] = "send_wait"
  /\ Side(r) = Other(d) /\ pc[r] \in Receiving \ {"recv_check"}
  /\ sent' = [sent EXCEPT ![d] = @ + 1]
  /\ got' = [got EXCEPT ![d] = @ + 1]
  /\ pc' = [h \in Procs |->
             IF h \in {s, r} THEN "idle"
             ELSE IF s \in Clients /\ pc[h] = "half_wait" THEN "half_check" ELSE pc[h]]
  /\ UNCHANGED <<queueSize, halfClosed, session, owners, history>>

(* The first drain of the loop found nothing; then isDone. *)
RecvEmpty(g) ==
  /\ pc[g] = "recv_drain" /\ Queued(Other(Side(g))) = 0
  /\ Goto(g, "recv_check")
  /\ UNCHANGED <<data, halfClosed, session, owners, history>>

RecvCheck(g) ==
  /\ pc[g] = "recv_check"
  /\ Goto(g, IF Done THEN "recv_last" ELSE "recv_wait")
  /\ UNCHANGED <<data, halfClosed, session, owners, history>>

(* The drain after done: the terminal error is returned. *)
RecvTerminal(g) ==
  /\ pc[g] = "recv_last" /\ Queued(Other(Side(g))) = 0
  /\ told' = told \cup {Side(g)}
  /\ Goto(g, "idle")
  /\ UNCHANGED <<data, halfClosed, session, owners, eof>>

RecvHalfClosedEofAtOnce(g) ==
  /\ pc[g] = "recv_wait" /\ g \in Servers /\ halfClosed
  /\ Goto(g, "idle") /\ eof' = TRUE
  /\ UNCHANGED <<data, halfClosed, session, owners, told>>

(* select: the client half-closed. *)
RecvHalfClosed(g) ==
  /\ pc[g] = "recv_wait" /\ g \in Servers /\ halfClosed
  /\ Goto(g, "recv_closed")
  /\ UNCHANGED <<data, halfClosed, session, owners, history>>

RecvEof(g) ==
  /\ pc[g] = "recv_closed" /\ Queued("client") = 0
  /\ eof' = TRUE /\ Goto(g, "idle")
  /\ UNCHANGED <<data, halfClosed, session, owners, told>>

(* select: done or the context, and the loop starts over. *)
RecvWoken(g) ==
  /\ pc[g] = "recv_wait" /\ (Done \/ ~live)
  /\ Finish("unavailable") /\ Goto(g, "recv_drain")
  /\ UNCHANGED <<data, halfClosed, owners, history>>

-----------------------------------------------------------------------------
(* CloseSend waits for the Send under way without holding the mutex. *)
HalfBegin(g) ==
  /\ "CloseSend" \in Calls[g] /\ g \in Clients /\ pc[g] = "idle"
  /\ Goto(g, "half_check")
  /\ UNCHANGED <<data, halfClosed, session, owners, history>>

HalfCheck(g) ==
  /\ pc[g] = "half_check"
  /\ IF ~Done /\ live THEN Goto(g, "half_lock") /\ UNCHANGED session
     ELSE Finish("unavailable") /\ Goto(g, "idle")
  /\ UNCHANGED <<data, halfClosed, owners, history>>

HalfLock(g) ==
  /\ pc[g] = "half_lock"
  /\ IF halfClosed \/ ~SendBusy("client")
     THEN halfClosed' = TRUE /\ Goto(g, "idle")
     ELSE UNCHANGED halfClosed /\ Goto(g, "half_wait")
  /\ UNCHANGED <<data, session, owners, history>>

(* select: done or the context. *)
HalfStopped(g) ==
  /\ pc[g] = "half_wait" /\ (Done \/ ~live)
  /\ Finish("unavailable") /\ Goto(g, "idle")
  /\ UNCHANGED <<data, halfClosed, owners, history>>

(* The context of the operation ends while it waits; it affects only the    *)
(* operation.                                                               *)
OpCancelled(g) ==
  /\ pc[g] \in {"send_wait", "recv_wait", "half_lock", "half_wait"}
  /\ IF pc[g] = "send_wait" THEN SendEnds(g) ELSE Goto(g, "idle")
  /\ UNCHANGED <<data, halfClosed, session, owners, history>>

-----------------------------------------------------------------------------
(* The handler's goroutine: handler, finish, close(handlerDone). *)
HandlerReturns(err) ==
  /\ handler = "running"
  /\ Finish(err)
  /\ handler' = "returned"
  /\ UNCHANGED <<data, halfClosed, close, pc, history>>

(* MaxDuration passes or the caller's context is cancelled. *)
ContextEnds ==
  /\ live /\ live' = FALSE
  /\ UNCHANGED <<data, halfClosed, terminal, promised, owners, pc, history>>

(* watch: the context ended, or IdleTimeout has passed since lastActivity   *)
(* (finishTimeout).  The watcher ends with the session.                     *)
Watch ==
  /\ ~Done
  /\ ~live \/ IdleDetection
  /\ Finish("unavailable")
  /\ UNCHANGED <<data, halfClosed, owners, pc, history>>

(* Close: the first caller starts closeBounded, every caller waits for it.  *)
CloseBegins ==
  /\ close = "open"
  /\ Finish("unavailable") /\ close' = "waiting"
  /\ UNCHANGED <<data, halfClosed, handler, pc, history>>

CloseEnds ==
  /\ close = "waiting" /\ handler = "returned" /\ Done
  /\ close' = "ok"
  /\ UNCHANGED <<data, halfClosed, session, handler, pc, history>>

CloseTimesOutAfterHandler ==
  /\ close = "waiting" /\ handler = "returned" /\ close' = "timeout"
  /\ UNCHANGED <<data, halfClosed, session, handler, pc, history>>

CloseTimesOut ==
  /\ close = "waiting" /\ close' = "timeout"
  /\ UNCHANGED <<data, halfClosed, session, handler, pc, history>>

-----------------------------------------------------------------------------
Begin(g) == SendBegin(g) \/ RecvBegin(g) \/ HalfBegin(g)

(* The steps an operation takes without its own context. *)
Step(g) ==
  \/ SendCheck(g) \/ SendAccepted(g) \/ SendStopped(g)
  \/ RecvValue(g) \/ RecvEmpty(g) \/ RecvCheck(g) \/ RecvTerminal(g)
  \/ RecvHalfClosed(g) \/ RecvEof(g) \/ RecvWoken(g)
  \/ HalfCheck(g) \/ HalfLock(g) \/ HalfStopped(g)

Meet == \E s, r \in Procs : HandOver(s, r)

Next ==
  \/ \E g \in Procs : Begin(g) \/ Step(g) \/ OpCancelled(g)
  \/ Meet
  \/ \E err \in {"nil", "app"} : HandlerReturns(err)
  \/ ContextEnds \/ Watch
  \/ CloseBegins \/ CloseEnds \/ CloseTimesOut

Spec == Init /\ [][Next]_vars

(* The scheduler runs every goroutine and timers fire: MaxDuration ends the *)
(* context and CloseTimeout ends Close.  The handler need not return, and   *)
(* nobody need send, receive or cancel.                                     *)
FairSpec ==
  /\ Spec
  /\ \A g \in Procs : WF_vars(Step(g))
  /\ WF_vars(ContextEnds) /\ WF_vars(Watch /\ ~live)
  /\ WF_vars(CloseEnds \/ CloseTimesOut)

-----------------------------------------------------------------------------
(* Properties. *)

Abs == INSTANCE StreamAbs WITH capacity <- queueSize

(* The goroutines, gates and selects of stream.go implement the stream of   *)
(* StreamAbs: no message is accepted after the half-close; EOF is reported  *)
(* only when every request was delivered, and a terminal error only when    *)
(* everything accepted before the end was; the end is decided once; at most *)
(* one Send per direction slips in after it (stream.go:45-72, 429-541).     *)
ImplementsStreamAbs == Abs!AbsSpec

(* No Send, Recv, CloseSend or Close stays blocked: each ends at the latest *)
(* when MaxDuration or CloseTimeout does, even if the handler ignores its   *)
(* context (stream.go:216-252, 429-541, 582-612).                           *)
OperationsEnd ==
  /\ \A g \in Procs : pc[g] # "idle" ~> pc[g] = "idle"
  /\ close = "waiting" ~> close # "waiting"
=============================================================================
