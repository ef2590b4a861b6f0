--------------------------------- MODULE SSE ---------------------------------
(***************************************************************************)
(* One POST + SSE invocation of package httpserver, end to end: serveSSE   *)
(* with its receiving goroutine and the service handler, the HTTP response *)
(* and DialSecureSSE with the handler of its own stream.                   *)
(*                                                                         *)
(* Both sides hold a contract stream, modelled by what StreamAbs says of   *)
(* it.  Events are counted at every station; of the response, what matters *)
(* is whether its header is out, how many events are in it, whether an     *)
(* error event follows, and how the body ended.                            *)
(*                                                                         *)
(* An operator whose name begins with that of the definition after it is a *)
(* faulty variant of it, against which a property is tested.               *)
(***************************************************************************)
EXTENDS Naturals

CONSTANTS
  SSEEvents,   \* bound: events the service sends
  StreamQueue  \* StreamConfig.QueueSize on both sides

(* validateSSEConfig and validateSSEClientConfig: budgets are positive, so  *)
(* that writes and streams are bounded.                                     *)
ValidSSEConfig == StreamQueue \in Nat /\ SSEEvents \in Nat

ASSUME SSEAssumption == ValidSSEConfig

VARIABLES
  ev,       \* events: sent, fetched, written, accepted (by the client's stream), got
  st,       \* the server's stream: term, result (of the handler), promised, and whether
            \* the context of its request has not ended (request)
  rcv,      \* the receiving goroutine: pc, slot (channel received)
  main,     \* serveSSE
  out,      \* the response: committed, error (event), body
  dial,     \* DialSecureSSE: what it returned, and what it was told (ready)
  csm       \* the client's stream: pc of its handler, term, live, seen

sseVars == <<ev, st, rcv, main, out, dial, csm>>
serverState == <<st, rcv, main>>
clientState == <<dial, csm>>

SSEInit ==
  /\ ev = [sent |-> 0, fetched |-> 0, written |-> 0, accepted |-> 0, got |-> 0]
  /\ st = [term |-> "none", result |-> "none", promised |-> 0, request |-> TRUE]
  /\ rcv = [pc |-> "recv", slot |-> "empty"]
  /\ main = "start"
  /\ out = [committed |-> FALSE, error |-> "none", body |-> "open"]
  /\ dial = [result |-> "waiting", ready |-> "none"]
  /\ csm = [pc |-> "request", term |-> "none", live |-> TRUE, seen |-> "none"]

-----------------------------------------------------------------------------
(* The service. *)

StreamEnd(s, err) ==
  IF s.term # "none" THEN s
  ELSE [s EXCEPT !.term = IF s.request THEN err ELSE "unavailable", !.promised = ev.sent]

ServiceSends ==
  /\ main # "start"
  /\ st.term = "none" \/ ev.sent = st.promised
  /\ ev.sent < SSEEvents /\ ev.sent - ev.fetched <= StreamQueue
  /\ ev' = [ev EXCEPT !.sent = @ + 1]
  /\ UNCHANGED <<serverState, out, clientState>>

(* A panic of the handler is an error of it. *)
ServiceReturns(err) ==
  /\ main # "start" /\ st.result = "none"
  /\ st' = [StreamEnd(st, err) EXCEPT !.result = err]
  /\ UNCHANGED <<ev, rcv, main, out, clientState>>

(* MaxDuration, idle or the end of the request's context: the watcher of    *)
(* the stream ends it.                                                      *)
ServiceTimesOut ==
  /\ main # "start" /\ st.term = "none"
  /\ st' = StreamEnd(st, "unavailable")
  /\ UNCHANGED <<ev, rcv, main, out, clientState>>

-----------------------------------------------------------------------------
(* The request's context ends while the handler of net/http runs: its       *)
(* connection is gone, its body could not be read on (ReadTimeout), or a    *)
(* middleware limits it.  The response may still be written.                *)
RequestEnds ==
  /\ main # "returned" /\ st.request
  /\ st' = [st EXCEPT !.request = FALSE]
  /\ UNCHANGED <<ev, rcv, main, out, clientState>>

(* serveSSE: the request is refused (method, media type, body) or the       *)
(* stream is opened and the request sent on it.                             *)
Problem == out' = [out EXCEPT !.body = IF out.body = "open" THEN "problem" ELSE @]

ServeRefuses ==
  /\ main = "start" /\ Problem /\ main' = "returned"
  /\ UNCHANGED <<ev, st, rcv, clientState>>

ServeOpens ==
  /\ main = "start" /\ st.request /\ main' = "send"
  /\ UNCHANGED <<ev, st, rcv, out, clientState>>

(* Send of the request; CloseSend may fail, Recv decides.  Nobody is told   *)
(* of a failure once the context of the request is over.                    *)
ServeSends ==
  /\ main = "send"
  /\ \/ st.term = "none" /\ main' = "loop" /\ UNCHANGED <<out, rcv>>
     \/ /\ st.term # "none" \/ ~st.request
        /\ main' = "cleanup" /\ rcv' = [rcv EXCEPT !.pc = "done"]
        /\ IF st.request THEN Problem ELSE UNCHANGED out
  /\ UNCHANGED <<ev, st, clientState>>

(* The goroutine that receives while the handler writes. *)
RecvGets ==
  /\ main \in {"loop", "cleanup"} /\ rcv.pc = "recv"
  /\ \/ /\ ev.fetched < ev.sent
        /\ ev' = [ev EXCEPT !.fetched = @ + 1]
        /\ rcv' = [rcv EXCEPT !.pc = "put_event"]
     \/ /\ (ev.fetched = ev.sent /\ st.term # "none") \/ ~st.request
        /\ UNCHANGED ev
        /\ rcv' = [rcv EXCEPT !.pc = "put_end"]
  /\ UNCHANGED <<st, main, out, clientState>>

Putting == rcv.pc \in {"put_event", "put_end"}

RecvPuts ==
  /\ Putting /\ rcv.slot = "empty"
  /\ rcv' = [pc |-> IF rcv.pc = "put_event" THEN "recv" ELSE "done",
             slot |-> IF rcv.pc = "put_event" THEN "event" ELSE "end"]
  /\ UNCHANGED <<ev, st, main, out, clientState>>

RecvStopsWithRoom ==
  /\ main = "cleanup" /\ Putting /\ rcv.slot = "empty"
  /\ rcv' = [rcv EXCEPT !.pc = "done"]
  /\ UNCHANGED <<ev, st, main, out, clientState>>

(* stopRecv *)
RecvStops ==
  /\ main = "cleanup" /\ Putting
  /\ rcv' = [rcv EXCEPT !.pc = "done"]
  /\ UNCHANGED <<ev, st, main, out, clientState>>

(* writeSSEFrame: the first frame commits the header; a failed write leaves *)
(* the connection unusable.                                                 *)
Writes(o, field, val) ==
  IF o.body = "open" THEN [o EXCEPT !.committed = TRUE, ![field] = val] ELSE o

ServeHeartbeat ==
  /\ main = "loop"
  /\ \/ out' = Writes(out, "committed", TRUE) /\ UNCHANGED main
     \/ out' = [out EXCEPT !.body = "broken"] /\ main' = "cleanup"
  /\ UNCHANGED <<ev, st, rcv, clientState>>

ServeEvent ==
  /\ main = "loop" /\ rcv.slot = "event"
  /\ rcv' = [rcv EXCEPT !.slot = "empty"]
  /\ \/ /\ out.body = "open"
        /\ ev' = [ev EXCEPT !.written = @ + 1]
        /\ out' = Writes(out, "committed", TRUE) /\ UNCHANGED main
     \/ /\ UNCHANGED ev
        /\ out' = [out EXCEPT !.body = "broken"] /\ main' = "cleanup"
  /\ UNCHANGED <<st, clientState>>

(* An error before the header is a problem response, after it an event. *)
Reports(code) ==
  IF out.committed THEN out' = Writes(out, "error", code) ELSE Problem

(* An event that cannot be marshalled. *)
ServeUnmarshalable ==
  /\ main = "loop" /\ rcv.slot = "event"
  /\ rcv' = [rcv EXCEPT !.slot = "empty"]
  /\ Reports("internal") /\ main' = "cleanup"
  /\ UNCHANGED <<ev, st, clientState>>

(* The end of the stream: EOF leaves a possibly empty SSE body.  What Recv  *)
(* returned after the end of the request's context is not reported.         *)
ServeEnd ==
  /\ main = "loop" /\ rcv.slot = "end"
  /\ rcv' = [rcv EXCEPT !.slot = "empty"]
  /\ CASE ~st.request -> UNCHANGED out
       [] st.request /\ st.term = "eof" -> out' = Writes(out, "committed", TRUE)
       [] OTHER -> Reports(st.term)
  /\ main' = "cleanup"
  /\ UNCHANGED <<ev, st, clientState>>

(* serveSSE sees the end of the request's context and says nothing of it. *)
ServeContextEnds ==
  /\ main = "loop" /\ ~st.request /\ main' = "cleanup"
  /\ UNCHANGED <<ev, st, rcv, out, clientState>>

(* Deferred: stopRecv, stream.Close, and the wait for the goroutine.  When  *)
(* the handler has returned, net/http ends a body that is open, whatever    *)
(* the reason; one that has nothing in it is no event stream.               *)
ServeReturns ==
  /\ main = "cleanup"
  /\ \/ /\ st.term = "none" /\ st' = StreamEnd(st, "unavailable")
        /\ UNCHANGED <<main, out>>
     \/ /\ st.term # "none" /\ rcv.pc = "done"
        /\ main' = "returned"
        /\ out' = [out EXCEPT !.body = CASE @ # "open" -> @
                                        [] @ = "open" /\ out.committed -> "ended"
                                        [] OTHER -> "problem"]
        /\ UNCHANGED st
  /\ UNCHANGED <<ev, rcv, clientState>>

(* The connection is lost with what is under way. *)
ConnectionBreaks ==
  /\ out.body # "broken" /\ out' = [out EXCEPT !.body = "broken"]
  /\ UNCHANGED <<ev, serverState, clientState>>

-----------------------------------------------------------------------------
(* The client: the handler of its stream does the request. *)

(* The handler returns: ready, unless the response was established, and     *)
(* finish.  The body is closed.                                             *)
ClientEnds(err) ==
  /\ csm.pc \in {"request", "reading"}
  /\ csm' = [csm EXCEPT !.pc = "returned",
                        !.term = IF @ # "none" THEN @ ELSE IF csm.live THEN err ELSE "unavailable",
                        !.live = FALSE]
  /\ dial' = IF csm.pc = "request" THEN [dial EXCEPT !.ready = "error"] ELSE dial
  /\ UNCHANGED <<ev, serverState>>

ClientEstablishes ==
  /\ csm.pc = "request" /\ csm.live /\ out.committed
  /\ csm' = [csm EXCEPT !.pc = "reading"]
  /\ dial' = [dial EXCEPT !.ready = "ok"]
  /\ UNCHANGED <<ev, serverState, out>>

(* A problem response, a response that is no event stream, or none at all.  *)
ClientRefused ==
  /\ csm.pc = "request" /\ out.body \in {"problem", "broken"}
  /\ ClientEnds("unavailable") /\ UNCHANGED out

ClientReadsEvent ==
  /\ csm.pc = "reading" /\ csm.live /\ csm.term = "none"
  /\ ev.accepted < ev.written /\ ev.accepted - ev.got <= StreamQueue
  /\ ev' = [ev EXCEPT !.accepted = @ + 1]
  /\ UNCHANGED <<serverState, out, clientState>>

(* Past the last event: an error event, or the end of the body. *)
ClientReadsEnd ==
  /\ csm.pc = "reading" /\ ev.accepted = ev.written
  /\ \/ out.error # "none" /\ ClientEnds(out.error)
     \/ out.error = "none" /\ out.body = "ended" /\ ClientEnds("eof")
  /\ UNCHANGED out

ClientReadFails ==
  /\ csm.pc = "reading" /\ out.body = "broken"
  /\ ClientEnds("unavailable") /\ UNCHANGED out

(* A malformed event, or the credential's timer: ioCtx ends, the stream's   *)
(* context does not.                                                        *)
ClientGivesUp(err) ==
  /\ csm.pc = "reading" \/ err = "unauthenticated"
  /\ ClientEnds(err)
  /\ out' = [out EXCEPT !.body = "broken"]

(* MaxDuration, the caller's context, Close. *)
ClientContextOver ==
  /\ csm.live
  /\ csm' = [csm EXCEPT !.live = FALSE, !.term = IF @ = "none" THEN "unavailable" ELSE @]
  /\ UNCHANGED <<ev, serverState, out, dial>>

ClientStopsReading ==
  /\ ~csm.live /\ ClientEnds("unavailable")
  /\ out' = [out EXCEPT !.body = "broken"]

DialReturnsFirstSignal ==
  /\ dial.result = "waiting"
  /\ \/ dial.ready # "none" /\ dial' = [dial EXCEPT !.result = IF dial.ready = "ok" THEN "ok" ELSE "failed"]
     \/ ~csm.live /\ dial' = [dial EXCEPT !.result = "failed"]
  /\ UNCHANGED <<ev, serverState, out, csm>>

(* Dial waits for the handshake's result or the end of the stream, and then *)
(* looks once more for the result.                                          *)
DialReturns ==
  /\ dial.result = "waiting"
  /\ dial.ready # "none" \/ ~csm.live
  /\ dial' = [dial EXCEPT !.result = IF dial.ready = "ok" THEN "ok" ELSE "failed"]
  /\ csm' = IF dial.ready = "ok" \/ csm.term # "none" THEN csm
            ELSE [csm EXCEPT !.term = "unavailable", !.live = FALSE]
  /\ UNCHANGED <<ev, serverState, out>>

CallerReceives ==
  /\ dial.result = "ok" /\ ev.got < ev.accepted
  /\ ev' = [ev EXCEPT !.got = @ + 1]
  /\ UNCHANGED <<serverState, out, clientState>>

CallerSeesEnd ==
  /\ dial.result = "ok" /\ csm.term # "none" /\ csm.seen = "none" /\ ev.got = ev.accepted
  /\ csm' = [csm EXCEPT !.seen = csm.term]
  /\ UNCHANGED <<ev, serverState, out, dial>>

-----------------------------------------------------------------------------
ServeStep == ServeOpens \/ ServeSends \/ ServeEvent \/ ServeEnd \/ ServeReturns
RecvStep == RecvGets \/ RecvPuts \/ RecvStops
ClientStep == ClientEstablishes \/ ClientRefused \/ ClientReadsEnd \/ ClientReadFails
              \/ ClientStopsReading

SSENext ==
  \/ ServiceSends \/ ServiceTimesOut \/ \E err \in {"eof", "app"} : ServiceReturns(err)
  \/ RequestEnds \/ ServeRefuses \/ ServeStep \/ ServeHeartbeat \/ ServeUnmarshalable \/ ServeContextEnds
  \/ RecvStep \/ ConnectionBreaks
  \/ ClientStep \/ ClientReadsEvent \/ ClientContextOver
  \/ \E err \in {"invalid", "unauthenticated"} : ClientGivesUp(err)
  \/ DialReturns \/ CallerReceives \/ CallerSeesEnd

SSESpec == SSEInit /\ [][SSENext]_sseVars

-----------------------------------------------------------------------------
(* Properties. *)

(* The caller sees the service's error only if the handler returned it, and *)
(* EOF only if the handler did or the request's context ended while it ran  *)
(* (which the protocol cannot tell from an end, sse_client.go:50-52); what  *)
(* the handler ended is seen after every event accepted before, what the    *)
(* context ended after every event written; and Dial never reports as       *)
(* failed a stream that completed, however fast it did (sse.go:187-265,     *)
(* sse_client.go:43-55, 133-154).                                           *)
SSEEndsAreTrue ==
  /\ csm.seen = "app" \/ (csm.seen = "eof" /\ st.request) =>
       st.result = csm.seen /\ ev.got >= st.promised
  /\ csm.seen \in {"eof", "app"} => ev.got = ev.written /\ main \in {"cleanup", "returned"}
  /\ dial.result = "failed" => csm.term # "eof"

(* Both ends let go: serveSSE returns although its goroutine may hold an    *)
(* event nobody takes, Dial returns, and the client's handler too.          *)
(* (sse.go:163-196, sse_client.go:93-131)                                   *)
SSELetsGo ==
  []<>(main # "start" => main = "returned" /\ dial.result # "waiting" /\ csm.pc = "returned")
=============================================================================
