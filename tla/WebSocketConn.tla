--------------------------- MODULE WebSocketConn ---------------------------
(***************************************************************************)
(* One WebSocket bidi connection of package httpserver, end to end: the    *)
(* client application and DialSecureWebSocket's goroutines (runWebSocket-  *)
(* Client, its writer, reader and credential timer), the wire, and the     *)
(* server's goroutines (serveWebSocket's reader and writer, the expiry     *)
(* watcher, the hub's drain and force) with the service handler.           *)
(*                                                                         *)
(* Both sides hold a contract stream, modelled by what module StreamAbs    *)
(* says of it: bounded FIFO directions that drain before their end is      *)
(* reported.  A direction is the number of messages that reached each of   *)
(* its stations; payloads, metrics and the JSON envelope are left out.     *)
(*                                                                         *)
(* An operator whose name begins with that of the definition after it is a *)
(* faulty variant of it, against which a property is tested.               *)
(***************************************************************************)
EXTENDS Naturals

CONSTANTS
  Requests,    \* bound: messages the client application sends
  Responses,   \* bound: messages the service sends
  Queue        \* StreamConfig.QueueSize on both sides

(* validateWebSocketConfig and validateWebSocketClientConfig: every budget  *)
(* is positive, so that every wait below is bounded.                        *)
ValidWebSocketConfig == Queue \in Nat /\ Requests \in Nat /\ Responses \in Nat

ASSUME ConnAssumption == ValidWebSocketConfig

VARIABLES
  req,    \* requests: sent, written, taken (read off the wire), accepted, got
  resp,   \* responses: sent, fetched, written, accepted, got
  half,   \* half-close: by the application, on the wire, read, reported
  wire,   \* "up", "going_away" (the server closed it; what it wrote can still
          \* be read), "closed" (the client did, with a status), "broken"
  frame,  \* the server's terminal frame: "none", "end" or an error code
  cli,    \* client: term, live, seen (what the application's Recv reported)
  srv     \* server: the stream's end, the flags of managedWebSocket and the
          \* places of its goroutines

connVars == <<req, resp, half, wire, frame, cli, srv>>

ConnInit ==
  /\ req = [sent |-> 0, written |-> 0, taken |-> 0, accepted |-> 0, got |-> 0]
  /\ resp = [sent |-> 0, fetched |-> 0, written |-> 0, accepted |-> 0, got |-> 0]
  /\ half = [app |-> FALSE, written |-> FALSE, read |-> FALSE, eof |-> FALSE]
  /\ wire = "up" /\ frame = "none"
  /\ cli = [term |-> "none", live |-> TRUE, seen |-> "none"]
  /\ srv = [term |-> "none", result |-> "none", promised |-> 0, live |-> TRUE,
            code |-> "none", draining |-> FALSE, expired |-> FALSE, forced |-> FALSE,
            peerClose |-> FALSE, stopRate |-> FALSE,
            reader |-> "read", writer |-> "recv", left |-> FALSE]

-----------------------------------------------------------------------------
(* The client: the application, then runWebSocketClient. *)

AppSends ==
  /\ cli.term = "none" /\ cli.live /\ ~half.app
  /\ req.sent < Requests /\ req.sent - req.written <= Queue
  /\ req' = [req EXCEPT !.sent = @ + 1]
  /\ UNCHANGED <<resp, half, wire, frame, cli, srv>>

AppHalfCloses ==
  /\ cli.term = "none" /\ cli.live /\ ~half.app
  /\ half' = [half EXCEPT !.app = TRUE]
  /\ UNCHANGED <<req, resp, wire, frame, cli, srv>>

AppReceives ==
  /\ resp.got < resp.accepted
  /\ resp' = [resp EXCEPT !.got = @ + 1]
  /\ UNCHANGED <<req, half, wire, frame, cli, srv>>

(* The stream drains before Recv reports its end. *)
AppSeesEnd ==
  /\ cli.term # "none" /\ cli.seen = "none" /\ resp.got = resp.accepted
  /\ cli' = [cli EXCEPT !.seen = cli.term]
  /\ UNCHANGED <<req, resp, half, wire, frame, srv>>

(* The handler of the client's stream returns: CloseNow, then finish. *)
ClientReturns(err) ==
  /\ cli.term = "none"
  /\ cli' = [cli EXCEPT !.term = IF cli.live THEN err ELSE "unavailable", !.live = FALSE]
  /\ wire' = IF wire = "closed" THEN "closed" ELSE "broken"

(* writeWebSocketRequests: the next message through the gate, which refuses *)
(* it once the credential expired; a write may fail or time out.            *)
ClientWrites ==
  /\ cli.term = "none" /\ req.written < req.sent
  /\ \/ /\ wire = "up" /\ req' = [req EXCEPT !.written = @ + 1]
        /\ UNCHANGED <<wire, cli>>
     \/ /\ wire # "up" /\ UNCHANGED req /\ ClientReturns("unavailable")
  /\ UNCHANGED <<resp, half, frame, srv>>

(* The half-close is written after the last accepted message. *)
ClientWritesHalfClose ==
  /\ cli.term = "none" /\ half.app /\ ~half.written /\ req.written = req.sent
  /\ \/ /\ wire = "up" /\ half' = [half EXCEPT !.written = TRUE]
        /\ UNCHANGED <<wire, cli>>
     \/ /\ wire # "up" /\ UNCHANGED half /\ ClientReturns("unavailable")
  /\ UNCHANGED <<req, resp, frame, srv>>

(* readWebSocketResponses: data goes to the application in order. *)
ClientReadsData ==
  /\ cli.term = "none" /\ wire \in {"up", "going_away"}
  /\ resp.accepted < resp.written /\ resp.accepted - resp.got <= Queue
  /\ resp' = [resp EXCEPT !.accepted = @ + 1]
  /\ UNCHANGED <<req, half, wire, frame, cli, srv>>

(* The end frame makes the handler return nil, an error frame its code.     *)
ClientReadsTerminal ==
  /\ cli.term = "none" /\ wire \in {"up", "going_away"}
  /\ resp.accepted = resp.written /\ frame # "none"
  /\ ClientReturns(IF frame = "end" THEN "eof" ELSE frame)
  /\ UNCHANGED <<req, resp, half, frame, srv>>

ClientReadFails ==
  /\ \/ wire = "broken"
     \/ wire = "going_away" /\ resp.accepted = resp.written /\ frame = "none"
  /\ ClientReturns("unavailable")
  /\ UNCHANGED <<req, resp, half, frame, srv>>

(* The credential timer: no frame passes the gate any more, and the close   *)
(* carries a status.                                                        *)
ClientExpires ==
  /\ cli.term = "none"
  /\ cli' = [cli EXCEPT !.term = IF cli.live THEN "unauthenticated" ELSE "unavailable",
                        !.live = FALSE]
  /\ wire' = IF wire = "up" THEN "closed" ELSE "broken"
  /\ UNCHANGED <<req, resp, half, frame, srv>>

(* MaxDuration, the caller's context or the application's Close. *)
ClientContextEnds ==
  /\ cli.live /\ cli' = [cli EXCEPT !.live = FALSE]
  /\ UNCHANGED <<req, resp, half, wire, frame, srv>>

ClientStops ==
  /\ ~cli.live /\ ClientReturns("unavailable")
  /\ UNCHANGED <<req, resp, half, frame, srv>>

-----------------------------------------------------------------------------
(* The server's stream. *)

(* localSession.finish: the first end counts. *)
Finished(s, err) ==
  IF s.term # "none" THEN s
  ELSE [s EXCEPT !.term = IF s.live THEN err ELSE "unavailable", !.promised = resp.sent,
                 !.live = FALSE]

(* stream.Close *)
StreamClosed(s) == Finished(s, "unavailable")

(* setTerminal: the first code counts. *)
WithCode(s, code) == IF s.code = "none" THEN [s EXCEPT !.code = code] ELSE s

HandlerReceives ==
  /\ ~srv.left /\ req.got < req.accepted
  /\ req' = [req EXCEPT !.got = @ + 1]
  /\ UNCHANGED <<resp, half, wire, frame, cli, srv>>

HandlerSeesEof ==
  /\ half.read /\ ~half.eof /\ req.got = req.accepted /\ srv.term = "none"
  /\ half' = [half EXCEPT !.eof = TRUE]
  /\ UNCHANGED <<req, resp, wire, frame, cli, srv>>

(* As in StreamAbs, one Send may be accepted after the end. *)
HandlerSends ==
  /\ IF srv.term = "none" THEN srv.live ELSE resp.sent = srv.promised
  /\ resp.sent < Responses /\ resp.sent - resp.fetched <= Queue
  /\ resp' = [resp EXCEPT !.sent = @ + 1]
  /\ UNCHANGED <<req, half, wire, frame, cli, srv>>

ServiceReturns(err) ==
  /\ srv.result = "none"
  /\ srv' = [Finished(srv, err) EXCEPT !.result = err]
  /\ UNCHANGED <<req, resp, half, wire, frame, cli>>

ServerContextEnds ==
  /\ srv.live /\ srv' = [srv EXCEPT !.live = FALSE]
  /\ UNCHANGED <<req, resp, half, wire, frame, cli>>

(* The stream's watcher. *)
ServerFinishes ==
  /\ srv.term = "none" /\ ~srv.live
  /\ srv' = StreamClosed(srv)
  /\ UNCHANGED <<req, resp, half, wire, frame, cli>>

-----------------------------------------------------------------------------
(* readWebSocketRequests *)

Stopping == srv.draining \/ srv.expired

(* A data frame; one that arrives after a drain or an expiry is dropped. *)
ReadData ==
  /\ srv.reader = "read" /\ wire \in {"up", "closed"} /\ req.taken < req.written
  /\ req' = [req EXCEPT !.taken = @ + 1]
  /\ srv' = [srv EXCEPT !.reader = IF Stopping THEN "read" ELSE "rate"]
  /\ UNCHANGED <<resp, half, wire, frame, cli>>

(* waitInbound: the budget is granted ... *)
ReadRate ==
  /\ srv.reader = "rate" /\ ~srv.stopRate
  /\ srv' = [srv EXCEPT !.reader = "send"]
  /\ UNCHANGED <<req, resp, half, wire, frame, cli>>

(* ... or the wait ends with stopRateWait, MaxDuration or IdleTimeout. *)
ReadRateFails ==
  /\ srv.reader = "rate"
  /\ srv' = IF Stopping \/ srv.forced \/ srv.peerClose
            THEN [srv EXCEPT !.reader = "done", !.stopRate = TRUE]
            ELSE [StreamClosed(WithCode(srv, "unavailable"))
                    EXCEPT !.reader = "done", !.stopRate = TRUE]
  /\ UNCHANGED <<req, resp, half, wire, frame, cli>>

(* stream.Send of the frame's data waits for room. *)
ReadSends ==
  /\ srv.reader = "send"
  /\ \/ /\ srv.term = "none" /\ srv.live /\ req.accepted - req.got <= Queue
        /\ req' = [req EXCEPT !.accepted = @ + 1]
        /\ srv' = [srv EXCEPT !.reader = "read"]
     \/ /\ srv.term = "none" /\ ~srv.live
        /\ UNCHANGED req
        /\ srv' = [StreamClosed(IF Stopping THEN srv ELSE WithCode(srv, "unavailable"))
                     EXCEPT !.reader = "done", !.stopRate = TRUE]
     \/ /\ srv.term # "none"
        /\ UNCHANGED req
        /\ srv' = [(IF srv.term = "eof" \/ Stopping THEN srv ELSE WithCode(srv, srv.term))
                     EXCEPT !.reader = "done",
                            !.stopRate = @ \/ srv.term # "eof" \/ Stopping]
  /\ UNCHANGED <<resp, half, wire, frame, cli>>

(* half_close: CloseSend, unless the stream has ended. *)
ReadHalfClose ==
  /\ srv.reader = "read" /\ wire \in {"up", "closed"}
  /\ half.written /\ ~half.read /\ req.taken = req.written
  /\ IF Stopping THEN UNCHANGED <<half, srv>>
     ELSE /\ half' = [half EXCEPT !.read = srv.term = "none"]
          /\ srv' = [srv EXCEPT !.reader = IF srv.term = "none" THEN "read" ELSE "done",
                                !.stopRate = @ \/ srv.term # "none"]
  /\ UNCHANGED <<req, resp, wire, frame, cli>>

(* Frames no client of this package sends.  decodeWSFrame refuses what is   *)
(* too large, is not one JSON value or has fields its type does not have.   *)
InvalidFrames ==
  {"binary", "undecodable", "server_only"} \cup (IF half.read THEN {"after_half_close"} ELSE {})

ReadInvalid(fault) ==
  /\ srv.reader = "read" /\ wire = "up" /\ ~Stopping /\ fault \in InvalidFrames
  /\ srv' = [StreamClosed(WithCode(srv, "invalid"))
               EXCEPT !.reader = "done", !.stopRate = TRUE]
  /\ UNCHANGED <<req, resp, half, wire, frame, cli>>

(* conn.Read fails: the peer closed with a status, or the connection broke. *)
ReadFails ==
  /\ srv.reader = "read"
  /\ wire = "closed" => req.taken = req.written
  /\ wire # "up"
  /\ LET s == [srv EXCEPT !.reader = "done", !.stopRate = TRUE] IN
     srv' = IF Stopping \/ srv.forced THEN s
            ELSE IF wire = "closed" THEN StreamClosed([s EXCEPT !.peerClose = TRUE])
            ELSE StreamClosed(WithCode(s, "unavailable"))
  /\ UNCHANGED <<req, resp, half, wire, frame, cli>>

-----------------------------------------------------------------------------
(* writeWebSocketResponses *)

(* Recv; a message that comes after a drain or an expiry is dropped. *)
WriteFetch ==
  /\ srv.writer = "recv" /\ resp.fetched < resp.sent
  /\ resp' = [resp EXCEPT !.fetched = @ + 1]
  /\ srv' = [srv EXCEPT !.writer = IF Stopping THEN "recv" ELSE "rate"]
  /\ UNCHANGED <<req, half, wire, frame, cli>>

WriteRate ==
  /\ srv.writer = "rate" /\ ~srv.stopRate
  /\ srv' = [srv EXCEPT !.writer = "write"]
  /\ UNCHANGED <<req, resp, half, wire, frame, cli>>

(* writeWSFrame and writeTerminalFrame: bounded by WriteTimeout; what is    *)
(* written to a connection that is gone is lost.                            *)
TerminalWrite(code) == frame' = IF wire = "up" THEN code ELSE frame

Silent == srv.forced \/ srv.peerClose \/ srv.draining

WriteRateFailsUnlessSilent ==
  /\ srv.writer = "rate" /\ ~Silent
  /\ srv' = [StreamClosed(srv) EXCEPT !.writer = "done"]
  /\ UNCHANGED <<req, resp, half, wire, frame, cli>>

(* waitOutbound fails: the terminal frame that says why, unless the hub or  *)
(* the peer ended the connection.                                           *)
WriteRateFails ==
  /\ srv.writer = "rate"
  /\ LET code == IF srv.expired THEN "unauthenticated"
                 ELSE IF srv.code # "none" THEN srv.code ELSE "unavailable"
         s == IF srv.expired \/ srv.code # "none" THEN srv
              ELSE StreamClosed(WithCode(srv, "unavailable"))
     IN IF Silent THEN UNCHANGED frame /\ srv' = [srv EXCEPT !.writer = "done"]
        ELSE /\ TerminalWrite(code)
             /\ srv' = [s EXCEPT !.writer = "done"]
  /\ UNCHANGED <<req, resp, half, wire, cli>>

(* A data frame; a failed write closes the connection at once. *)
WriteData ==
  /\ srv.writer = "write"
  /\ \/ /\ wire = "up" /\ resp' = [resp EXCEPT !.written = @ + 1]
        /\ srv' = [srv EXCEPT !.writer = "recv"]
        /\ UNCHANGED wire
     \/ /\ UNCHANGED resp /\ wire' = "broken"
        /\ srv' = [WithCode(srv, "unavailable") EXCEPT !.writer = "done"]
  /\ UNCHANGED <<req, half, frame, cli>>

TerminalFrameEndFirst ==
  CASE srv.term = "eof" -> "end"
    [] srv.expired -> "unauthenticated"
    [] OTHER -> IF srv.code # "none" THEN srv.code ELSE srv.term

(* What the terminal of the stream becomes on the wire. *)
TerminalFrame ==
  CASE srv.expired -> "unauthenticated"
    [] ~srv.expired /\ srv.code # "none" -> srv.code
    [] OTHER -> IF srv.term = "eof" THEN "end" ELSE srv.term

(* Recv reports the end: everything accepted was fetched. *)
WriteEnd ==
  /\ srv.writer = "recv" /\ srv.term # "none" /\ resp.fetched = resp.sent
  /\ IF Silent THEN UNCHANGED frame ELSE TerminalWrite(TerminalFrame)
  /\ srv' = [srv EXCEPT !.writer = "done"]
  /\ UNCHANGED <<req, resp, half, wire, cli>>

(* serveWebSocket returns once the reader has, or after CloseTimeout: Close *)
(* of the stream and raw.Close.                                             *)
ServeReturns ==
  /\ srv.writer = "done" /\ ~srv.left
  /\ srv' = [StreamClosed(srv) EXCEPT !.left = TRUE, !.reader = "done"]
  /\ wire' = IF wire \in {"up", "going_away"} THEN "going_away" ELSE "broken"
  /\ UNCHANGED <<req, resp, half, frame, cli>>

-----------------------------------------------------------------------------
(* The expiry watcher: the flag and the code, then stream.Close. *)
ServerExpires ==
  /\ ~srv.expired /\ ~srv.left
  /\ srv' = [WithCode(srv, "unauthenticated") EXCEPT !.expired = TRUE, !.stopRate = TRUE]
  /\ UNCHANGED <<req, resp, half, wire, frame, cli>>

(* The hub: beginDrain, and forceClose with cancelIO. *)
HubDrains ==
  /\ ~srv.draining /\ ~srv.left
  /\ srv' = [srv EXCEPT !.draining = TRUE, !.stopRate = TRUE]
  /\ UNCHANGED <<req, resp, half, wire, frame, cli>>

HubForces ==
  /\ ~srv.forced /\ ~srv.left
  /\ srv' = [srv EXCEPT !.forced = TRUE, !.stopRate = TRUE, !.live = FALSE]
  /\ wire' = "broken"
  /\ UNCHANGED <<req, resp, half, frame, cli>>

(* stream.Close by closeApp or by the expiry watcher. *)
StreamCloses ==
  /\ srv.draining \/ srv.expired \/ srv.forced
  /\ srv.term = "none"
  /\ srv' = StreamClosed(srv)
  /\ UNCHANGED <<req, resp, half, wire, frame, cli>>

(* The GoingAway close of a drain. *)
GoingAway ==
  /\ srv.draining /\ wire = "up" /\ wire' = "going_away"
  /\ UNCHANGED <<req, resp, half, frame, cli, srv>>

(* The network: what is under way is lost. *)
Breaks ==
  /\ wire \in {"up", "going_away", "closed"} /\ wire' = "broken"
  /\ UNCHANGED <<req, resp, half, frame, cli, srv>>

-----------------------------------------------------------------------------
ClientStep == ClientWrites \/ ClientWritesHalfClose \/ ClientReadsTerminal
              \/ ClientReadFails \/ ClientStops
ReaderStep == ReadData \/ ReadRate \/ ReadRateFails \/ ReadSends \/ ReadHalfClose \/ ReadFails
WriterStep == WriteFetch \/ WriteRate \/ WriteRateFails \/ WriteData \/ WriteEnd

ConnNext ==
  \/ AppSends \/ AppHalfCloses \/ AppReceives \/ AppSeesEnd
  \/ ClientReadsData \/ ClientStep \/ ClientExpires \/ ClientContextEnds
  \/ HandlerReceives \/ HandlerSeesEof \/ HandlerSends
  \/ \E err \in {"eof", "app"} : ServiceReturns(err)
  \/ ServerContextEnds \/ ServerFinishes
  \/ ReaderStep \/ (\E fault \in InvalidFrames : ReadInvalid(fault)) \/ WriterStep \/ ServeReturns
  \/ ServerExpires \/ HubDrains \/ HubForces \/ StreamCloses \/ GoingAway \/ Breaks

ConnSpec == ConnInit /\ [][ConnNext]_connVars

(* Goroutines run, writes and rate waits are bounded, and MaxDuration ends  *)
(* the context of both streams.  Neither application does anything, and the *)
(* network need not break.                                                  *)
ConnFairness ==
  /\ WF_connVars(ClientStep) /\ WF_connVars(ClientContextEnds)
  /\ WF_connVars(ReaderStep) /\ WF_connVars(WriterStep) /\ WF_connVars(ServeReturns)
  /\ WF_connVars(ServerContextEnds) /\ WF_connVars(ServerFinishes)

ConnFairSpec == ConnSpec /\ ConnFairness

-----------------------------------------------------------------------------
(* Properties. *)

(* What the two applications are told of each other's end is true and       *)
(* complete, across two streams, two queues and the wire: the client sees   *)
(* EOF or the service's error only if the handler returned it, and EOF only *)
(* after every response accepted before; the handler sees the end of the    *)
(* requests only after the client half-closed and every request arrived.    *)
(* Drains, expiries and lost connections look like neither                  *)
(* (websocket.go:808-973).                                                  *)
EndsAreTrue ==
  /\ cli.seen \in {"eof", "app"} => srv.result = cli.seen
  /\ cli.seen = "eof" => resp.got >= srv.promised
  /\ half.eof => half.app /\ req.got = req.sent

(* Whatever the peer, the network and the applications do, both ends let go *)
(* of the connection (websocket.go:603-633, 1198-1239).                     *)
BothEndsLetGo == <>(srv.left /\ cli.term # "none")
=============================================================================
