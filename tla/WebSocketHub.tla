---------------------------- MODULE WebSocketHub ----------------------------
(***************************************************************************)
(* WebSocketHub of package httpserver: admission of upgrades under         *)
(* MaxConnections, the reservation that covers the handshake, the hijacked *)
(* net.Conn, and Start, Drain and Close as the Host calls them.  What a    *)
(* connection exchanges is in WebSocketConn; here it only ends.            *)
(*                                                                         *)
(* Everything done under Hub.mu is one step; the snapshots taken under it  *)
(* are worked off one element at a time after it is released.              *)
(*                                                                         *)
(* An operator whose name begins with that of the definition after it is a *)
(* faulty variant of it, against which a property is tested.               *)
(***************************************************************************)
EXTENDS Naturals, FiniteSets

CONSTANTS
  Upgrades,        \* upgrade requests
  HubLimits        \* values of WebSocketHubLimits.MaxConnections

(* validateWebSocketHubLimits: a hub without limits never starts. *)
ValidHubLimits == HubLimits \subseteq Nat \ {0}

ASSUME HubAssumption == ValidHubLimits /\ IsFiniteSet(Upgrades)

VARIABLES
  hub,        \* max (connections), started, accepting, closed
  pending,    \* reservations
  conns,      \* attached connections
  up,         \* per upgrade: the state of its serveWebSocket
  hostAt,     \* where the Host is: Start, Drain, Close
  todo        \* what is left of the snapshot Drain, Close or forceAll took

hubVars == <<hub, pending, conns, up, hostAt, todo>>

UpgradePhases == {"new", "reserved", "captured", "attached", "opened", "serving",
                  "leaving", "rejected", "left"}

Upgrade == [phase : UpgradePhases, raw : {"none", "open", "closed"}, stream : {"none", "open", "closed"},
            reservationForced : BOOLEAN, draining : BOOLEAN, forced : BOOLEAN,
            stopApp : BOOLEAN, closers : BOOLEAN]

HubInit ==
  /\ hub \in [max : HubLimits, started : {FALSE}, accepting : {FALSE}, closed : {FALSE}]
  /\ pending = {} /\ conns = {}
  /\ up = [u \in Upgrades |->
             [phase |-> "new", raw |-> "none", stream |-> "none",
              reservationForced |-> FALSE, draining |-> FALSE, forced |-> FALSE,
              stopApp |-> FALSE, closers |-> FALSE]]
  /\ hostAt = "new"
  /\ todo = [u \in Upgrades |-> "nothing"]

-----------------------------------------------------------------------------
Closed(raw) == IF raw = "open" THEN "closed" ELSE raw

(* beginDrain: the flag, the goroutine that runs closeApp, and the one that *)
(* starts the closing handshake (GoingAway).                                *)
BeginDrain(r) ==
  IF r.draining THEN r ELSE [r EXCEPT !.draining = TRUE, !.closers = TRUE]

(* forceClose: cancelIO ends the context of the stream too. *)
ForceClose(r) ==
  [r EXCEPT !.forced = TRUE, !.closers = TRUE, !.raw = Closed(r.raw),
            !.stream = Closed(r.stream)]

(* reservation.force *)
ForceReservation(r) == [r EXCEPT !.reservationForced = TRUE, !.raw = Closed(r.raw)]

-----------------------------------------------------------------------------
(* The HTTP handler: serveWebSocket. *)

Room == Cardinality(pending) + Cardinality(conns) < hub.max

(* Refused before the hub is asked: method, transaction, query or body,     *)
(* origin, handshake headers, identity or its expiry.                       *)
Refuse(u) ==
  /\ up[u].phase = "new"
  /\ up' = [up EXCEPT ![u].phase = "left"]
  /\ UNCHANGED <<hub, pending, conns, hostAt, todo>>

(* Hub.reserve *)
Reserve(u) ==
  /\ up[u].phase = "new"
  /\ IF hub.started /\ hub.accepting /\ ~hub.closed /\ Room
     THEN pending' = pending \cup {u} /\ up' = [up EXCEPT ![u].phase = "reserved"]
     ELSE UNCHANGED pending /\ up' = [up EXCEPT ![u].phase = "left"]
  /\ UNCHANGED <<hub, conns, hostAt, todo>>

(* websocket.Accept hijacks the connection: reservation.capture. *)
Capture(u) ==
  /\ up[u].phase = "reserved"
  /\ up' = [up EXCEPT ![u].phase = "captured",
                      ![u].raw = IF up[u].reservationForced THEN "closed" ELSE "open"]
  /\ UNCHANGED <<hub, pending, conns, hostAt, todo>>

(* Accept fails, or the hijacked connection cannot be prepared: the raw     *)
(* connection is closed and the reservation released.                       *)
AcceptFails(u) ==
  /\ up[u].phase \in {"reserved", "captured"}
  /\ pending' = pending \ {u}
  /\ up' = [up EXCEPT ![u].phase = "left", ![u].raw = Closed(@)]
  /\ UNCHANGED <<hub, conns, hostAt, todo>>

(* Hub.attach: refused by a closed hub, drained at once by a draining one.  *)
Attach(u) ==
  /\ up[u].phase = "captured"
  /\ pending' = pending \ {u}
  /\ IF hub.closed
     THEN UNCHANGED conns /\ up' = [up EXCEPT ![u].phase = "rejected"]
     ELSE /\ conns' = conns \cup {u}
          /\ up' = [up EXCEPT ![u] =
                      [(IF hub.accepting THEN @ ELSE BeginDrain(@)) EXCEPT !.phase = "attached"]]
  /\ UNCHANGED <<hub, hostAt, todo>>

(* A rejected connection is closed after Hub.attach returned. *)
Rejected(u) ==
  /\ up[u].phase = "rejected"
  /\ up' = [up EXCEPT ![u].phase = "left", ![u].raw = Closed(@)]
  /\ UNCHANGED <<hub, pending, conns, hostAt, todo>>

(* OpenLocal fails when cancelIO came first. *)
OpenStream(u) ==
  /\ up[u].phase = "attached"
  /\ up' = IF up[u].forced
           THEN [up EXCEPT ![u].phase = "leaving", ![u].raw = Closed(@)]
           ELSE [up EXCEPT ![u].phase = "opened", ![u].stream = "open"]
  /\ UNCHANGED <<hub, pending, conns, hostAt, todo>>

SetStopAppOnly(u) ==
  /\ up[u].phase = "opened"
  /\ up' = [up EXCEPT ![u].phase = "serving", ![u].stopApp = TRUE]
  /\ UNCHANGED <<hub, pending, conns, hostAt, todo>>

(* setStopApp looks again whether a drain or a force came before it. *)
SetStopApp(u) ==
  /\ up[u].phase = "opened"
  /\ up' = [up EXCEPT ![u].phase = "serving", ![u].stopApp = TRUE,
                      ![u].closers = @ \/ up[u].draining \/ up[u].forced]
  /\ UNCHANGED <<hub, pending, conns, hostAt, todo>>

(* A goroutine that runs closeApp: Close of the stream, if it is known.     *)
CloseApp(u) ==
  /\ up[u].closers
  /\ up' = [up EXCEPT ![u].closers = FALSE,
                      ![u].stream = IF up[u].stopApp THEN "closed" ELSE @]
  /\ UNCHANGED <<hub, pending, conns, hostAt, todo>>

(* The handler returns, MaxDuration or the credential ends. *)
StreamEnds(u) ==
  /\ up[u].phase = "serving" /\ up[u].stream = "open"
  /\ up' = [up EXCEPT ![u].stream = "closed"]
  /\ UNCHANGED <<hub, pending, conns, hostAt, todo>>

(* The peer goes away, or the closing handshake of a drain completes. *)
RawEnds(u) ==
  /\ up[u].phase \in {"attached", "opened", "serving"} /\ up[u].raw = "open"
  /\ up' = [up EXCEPT ![u].raw = "closed"]
  /\ UNCHANGED <<hub, pending, conns, hostAt, todo>>

(* readWebSocketRequests: a read error closes the stream, unless the        *)
(* connection is drained or forced; then closeApp does it.                  *)
ReadFails(u) ==
  /\ up[u].phase = "serving" /\ up[u].raw = "closed" /\ up[u].stream = "open"
  /\ ~up[u].draining /\ ~up[u].forced
  /\ up' = [up EXCEPT ![u].stream = "closed"]
  /\ UNCHANGED <<hub, pending, conns, hostAt, todo>>

LeaveRemovingFirst(u) ==
  /\ up[u].phase = "serving" /\ up[u].stream = "closed"
  /\ up' = [up EXCEPT ![u].phase = "rejected"]
  /\ conns' = conns \ {u}
  /\ UNCHANGED <<hub, pending, hostAt, todo>>

(* The writer returned; deferred: raw.Close, then Hub.remove. *)
Leave(u) ==
  /\ up[u].phase = "serving" /\ up[u].stream = "closed"
  /\ up' = [up EXCEPT ![u].phase = "leaving", ![u].raw = Closed(@)]
  /\ UNCHANGED <<hub, pending, conns, hostAt, todo>>

RemoveConn(u) ==
  /\ up[u].phase = "leaving"
  /\ conns' = conns \ {u}
  /\ up' = [up EXCEPT ![u].phase = "left"]
  /\ UNCHANGED <<hub, pending, hostAt, todo>>

-----------------------------------------------------------------------------
(* The Host. *)
Start ==
  /\ hostAt = "new" /\ hostAt' = "started"
  /\ hub' = [hub EXCEPT !.started = TRUE, !.accepting = TRUE]
  /\ UNCHANGED <<pending, conns, up, todo>>

Drain ==
  /\ hostAt = "started" /\ hostAt' = "draining"
  /\ hub' = [hub EXCEPT !.accepting = FALSE]
  /\ todo' = [u \in Upgrades |-> IF u \in conns THEN "drain" ELSE "nothing"]
  /\ UNCHANGED <<pending, conns, up>>

ToForce == [u \in Upgrades |-> IF u \in pending THEN "reservation"
                               ELSE IF u \in conns THEN "connection" ELSE "nothing"]

(* Close is called after Drain, or alone when the start of another service  *)
(* failed.                                                                  *)
Close ==
  /\ hostAt \in {"new", "started", "drained"} /\ hostAt' = "closing"
  /\ hub' = [hub EXCEPT !.accepting = FALSE, !.closed = TRUE]
  /\ todo' = ToForce
  /\ UNCHANGED <<pending, conns, up>>

(* One element of the snapshot. *)
WorkOff(u) ==
  /\ todo[u] # "nothing"
  /\ todo' = [todo EXCEPT ![u] = "nothing"]
  /\ up' = [up EXCEPT ![u] = CASE todo[u] = "drain" -> BeginDrain(@)
                               [] todo[u] = "reservation" -> ForceReservation(@)
                               [] todo[u] = "connection" -> ForceClose(@)]
  /\ UNCHANGED <<hub, pending, conns, hostAt>>

Waits == hostAt \in {"draining", "closing"} /\ \A u \in Upgrades : todo[u] = "nothing"

(* waitEmpty sees both maps empty. *)
WaitEmpty ==
  /\ Waits /\ pending = {} /\ conns = {}
  /\ hostAt' = IF hostAt = "draining" THEN "drained" ELSE "closed"
  /\ UNCHANGED <<hub, pending, conns, up, todo>>

(* waitEmpty runs out of budget: forceAll, and an error. *)
WaitTimesOut ==
  /\ Waits /\ (pending # {} \/ conns # {})
  /\ hostAt' = IF hostAt = "draining" THEN "drain_forcing" ELSE "close_forcing"
  /\ todo' = ToForce
  /\ UNCHANGED <<hub, pending, conns, up>>

ForcedAll ==
  /\ hostAt \in {"drain_forcing", "close_forcing"}
  /\ \A u \in Upgrades : todo[u] = "nothing"
  /\ hostAt' = IF hostAt = "drain_forcing" THEN "drained" ELSE "failed"
  /\ UNCHANGED <<hub, pending, conns, up, todo>>

-----------------------------------------------------------------------------
(* The steps the code takes by itself.  A peer that answers is not needed:  *)
(* the handshake is bounded by HandshakeTimeout, and the closing handshake  *)
(* of a drain by the library.                                               *)
HandlerStep(u) ==
  \/ Capture(u) \/ Attach(u) \/ Rejected(u) \/ OpenStream(u) \/ SetStopApp(u)
  \/ CloseApp(u) \/ ReadFails(u) \/ Leave(u) \/ RemoveConn(u)

HostStep == (\E u \in Upgrades : WorkOff(u)) \/ WaitEmpty \/ ForcedAll

HubNext ==
  \/ \E u \in Upgrades : Refuse(u) \/ Reserve(u) \/ AcceptFails(u) \/ HandlerStep(u)
                           \/ StreamEnds(u) \/ RawEnds(u)
  \/ Start \/ Drain \/ Close \/ HostStep \/ WaitTimesOut

HubSpec == HubInit /\ [][HubNext]_hubVars

-----------------------------------------------------------------------------
(* Properties. *)

OpenSockets == {u \in Upgrades : up[u].raw = "open"}

(* Hijacked sockets are the hub's to account for: there are never more open *)
(* than MaxConnections, and none is open once Close returned nil, however   *)
(* upgrades race with Drain, Close and forceAll (websocket.go:242-314,      *)
(* 340-370, 562-608).                                                       *)
SocketsAccounted ==
  /\ Cardinality(OpenSockets) <= hub.max
  /\ hostAt = "closed" => OpenSockets = {}

(* Drain and Close end by themselves: every connection of the hub leaves    *)
(* without the budget of the Host running out and without its handler       *)
(* returning first, also one that attaches or opens its stream during the   *)
(* drain (websocket.go:223-266, 437-480).                                   *)
ShutdownEnds == []<>(hostAt \notin {"draining", "closing"})
=============================================================================
