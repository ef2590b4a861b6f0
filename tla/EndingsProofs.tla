---------------------------- MODULE EndingsProofs ----------------------------
(***************************************************************************)
(* What comes to an end, and how: the WebSocket hub accounts for every     *)
(* hijacked socket, for any number of upgrades and any limit; an SSE       *)
(* stream ends for its caller the way it ended for the service, for any    *)
(* number of events; a shutdown of the workers is orderly, for any number  *)
(* of them; and a Core releases what it opened when nothing needs it any   *)
(* longer, for any number of callers.                                      *)
(***************************************************************************)
EXTENDS WebSocketHub, SSE, Workers, ProfileCore, FiniteSetTheorems, TLAPS

Todos == {"nothing", "drain", "reservation", "connection"}
HostStates == {"new", "started", "draining", "drain_forcing", "drained", "closing", "close_forcing",
               "closed", "failed"}
PendingPhases == {"reserved", "captured"}
ConnPhases == {"attached", "opened", "serving", "leaving"}

(* What every variable of the hub holds. *)
HubTypeOK ==
  /\ hub \in [max : HubLimits, started : BOOLEAN, accepting : BOOLEAN, closed : BOOLEAN]
  /\ up \in [Upgrades -> Upgrade]
  /\ hostAt \in HostStates
  /\ todo \in [Upgrades -> Todos]

(* The two maps of the hub hold what the handlers think they hold. *)
MapsAreRight ==
  /\ pending = {u \in Upgrades : up[u].phase \in PendingPhases}
  /\ conns = {u \in Upgrades : up[u].phase \in ConnPhases}

(* A socket is open only between its capture and the end of its handler;    *)
(* Hub.attach rejects it only once the hub is closed.                       *)
OpenIsHeld ==
  \A u \in Upgrades :
    /\ up[u].raw = "open" => up[u].phase \in {"captured", "rejected", "attached", "opened", "serving"}
    /\ up[u].phase = "rejected" => hub.closed

(* Once the hub is closed, an upgrade that has not attached is on the list  *)
(* that Close or forceAll works off, or its reservation was forced: its     *)
(* socket is closed, or will be at its capture.                             *)
ClosedForces ==
  hub.closed => \A u \in Upgrades :
    up[u].phase \in PendingPhases \cup {"rejected"} =>
      todo[u] = "reservation" \/ (up[u].reservationForced /\ up[u].raw # "open")

(* Upgrades that may have a socket. *)
Held == {u \in Upgrades : up[u].phase \in PendingPhases \cup ConnPhases \cup {"rejected"}}

HeldFits == Cardinality(Held) <= hub.max

(* Close sets the flag, and returns nil only over two empty maps. *)
ClosedIsEmpty ==
  /\ hub.closed <=> hostAt \in {"closing", "close_forcing", "closed", "failed"}
  /\ hostAt = "closed" => pending = {} /\ conns = {} /\ \A u \in Upgrades : todo[u] = "nothing"

HubInv == HubTypeOK /\ MapsAreRight /\ OpenIsHeld /\ ClosedForces /\ HeldFits /\ ClosedIsEmpty

-----------------------------------------------------------------------------
LEMMA InitHub == HubInit => HubInv
<1> SUFFICES ASSUME HubInit PROVE HubInv
  OBVIOUS
<1>1. HubTypeOK
  BY DEF HubInit, HubTypeOK, Upgrade, UpgradePhases, HostStates, Todos
<1>2. \A u \in Upgrades : up[u].phase = "new" /\ up[u].raw = "none"
  BY DEF HubInit
<1>3. MapsAreRight /\ OpenIsHeld /\ Held = {}
  BY <1>2 DEF HubInit, MapsAreRight, OpenIsHeld, Held, PendingPhases, ConnPhases
<1>4. hub.max \in Nat /\ ~hub.closed
  BY HubAssumption DEF HubInit, ValidHubLimits
<1>5. ClosedForces /\ HeldFits /\ ClosedIsEmpty
  BY <1>3, <1>4, FS_EmptySet DEF HubInit, ClosedForces, HeldFits, ClosedIsEmpty
<1>6. QED
  BY <1>1, <1>3, <1>5 DEF HubInv

(* Forcing and draining change neither the phase nor open a socket. *)
LEMMA ForceFacts ==
  ASSUME NEW r \in Upgrade
  PROVE  \A q \in {BeginDrain(r), ForceReservation(r), ForceClose(r)} :
           /\ q \in Upgrade /\ q.phase = r.phase
           /\ q.raw \in {r.raw, "closed"}
           /\ r.reservationForced => q.reservationForced
<1>1. \A raw \in {"none", "open", "closed"} : Closed(raw) \in {raw, "closed"} /\ Closed(raw) # "open"
  BY DEF Closed
<1>2. BeginDrain(r) = r \/ BeginDrain(r) = [r EXCEPT !.draining = TRUE, !.closers = TRUE]
  BY DEF BeginDrain
<1>3. BeginDrain(r) \in Upgrade /\ BeginDrain(r).phase = r.phase /\ BeginDrain(r).raw = r.raw
      /\ BeginDrain(r).reservationForced = r.reservationForced
  BY <1>2 DEF Upgrade
<1>4. /\ ForceReservation(r) \in Upgrade /\ ForceReservation(r).phase = r.phase
      /\ ForceReservation(r).raw = Closed(r.raw) /\ ForceReservation(r).reservationForced
  BY <1>1 DEF ForceReservation, Upgrade
<1>5. /\ ForceClose(r) \in Upgrade /\ ForceClose(r).phase = r.phase
      /\ ForceClose(r).raw = Closed(r.raw) /\ ForceClose(r).reservationForced = r.reservationForced
  BY <1>1 DEF ForceClose, Upgrade
<1>6. r.raw \in {"none", "open", "closed"}
  BY DEF Upgrade
<1>7. QED
  BY <1>1, <1>3, <1>4, <1>5, <1>6

LEMMA ForcedReservation ==
  ASSUME NEW r \in Upgrade
  PROVE  ForceReservation(r).reservationForced /\ ForceReservation(r).raw # "open"
BY DEF ForceReservation, Closed, Upgrade

(* What a step of one upgrade does to its record. *)
Handler(u) ==
  \/ Refuse(u) \/ Reserve(u) \/ AcceptFails(u) \/ HandlerStep(u) \/ StreamEnds(u) \/ RawEnds(u)

Phase(u, from, to) == up[u].phase \in from /\ up'[u].phase = to

(* The phases a handler goes through, and when its socket may be open. *)
UpStep(u) ==
  /\ up' \in [Upgrades -> Upgrade]
  /\ \A v \in Upgrades : v # u => up'[v] = up[v]
  /\ up[u].reservationForced => up'[u].reservationForced
  /\ \/ Phase(u, {"new"}, "left") /\ up'[u].raw = up[u].raw
     \/ Phase(u, {"new"}, "reserved") /\ up'[u].raw = up[u].raw
     \/ Phase(u, {"reserved"}, "captured") /\ (up[u].reservationForced => up'[u].raw # "open")
     \/ Phase(u, PendingPhases \cup {"rejected", "leaving"}, "left") /\ up'[u].raw # "open"
     \/ Phase(u, {"captured"}, "rejected") /\ up'[u].raw = up[u].raw /\ hub.closed
     \/ Phase(u, {"captured"}, "attached") /\ up'[u].raw = up[u].raw /\ ~hub.closed
     \/ Phase(u, {"attached", "serving"}, "leaving") /\ up'[u].raw # "open"
     \/ Phase(u, {"attached"}, "opened") /\ up'[u].raw = up[u].raw
     \/ Phase(u, {"opened"}, "serving") /\ up'[u].raw = up[u].raw
     \/ up'[u].phase = up[u].phase /\ up'[u].raw \in {up[u].raw, "closed"}

LEMMA HandlerChanges ==
  ASSUME HubTypeOK, OpenIsHeld, NEW u \in Upgrades, Handler(u)
  PROVE  UpStep(u)
<1>1. up \in [Upgrades -> Upgrade] /\ up[u] \in Upgrade
  BY DEF HubTypeOK
<1>2. CASE Refuse(u) \/ Reserve(u)
  BY <1>1, <1>2 DEF Refuse, Reserve, UpStep, Phase, Upgrade, UpgradePhases
<1>3. CASE Capture(u)
  BY <1>1, <1>3 DEF Capture, UpStep, Phase, Upgrade, UpgradePhases
<1>4. CASE AcceptFails(u) \/ Rejected(u)
  BY <1>1, <1>4 DEF AcceptFails, Rejected, Closed, UpStep, Phase, Upgrade, UpgradePhases, PendingPhases
<1>5. CASE Attach(u)
  <2>1. CASE hub.closed
    BY <1>1, <1>5, <2>1 DEF Attach, UpStep, Phase, Upgrade, UpgradePhases
  <2>2. CASE ~hub.closed
    <3> DEFINE r == IF hub.accepting THEN up[u] ELSE BeginDrain(up[u])
    <3>1. r \in Upgrade /\ r.raw = up[u].raw /\ (up[u].reservationForced => r.reservationForced)
      <4>1. BeginDrain(up[u]) \in Upgrade /\ BeginDrain(up[u]).raw = up[u].raw
            /\ (up[u].reservationForced => BeginDrain(up[u]).reservationForced)
        BY <1>1, ForceFacts DEF BeginDrain, Upgrade
      <4>2. QED
        BY <1>1, <4>1
    <3>2. up' = [up EXCEPT ![u] = [r EXCEPT !.phase = "attached"]]
      BY <1>5, <2>2 DEF Attach
    <3>3. up[u].phase = "captured"
      BY <1>5 DEF Attach
    <3> HIDE DEF r
    <3>4. [r EXCEPT !.phase = "attached"] \in Upgrade /\ [r EXCEPT !.phase = "attached"].raw = r.raw
          /\ [r EXCEPT !.phase = "attached"].phase = "attached"
          /\ [r EXCEPT !.phase = "attached"].reservationForced = r.reservationForced
      BY <3>1 DEF Upgrade, UpgradePhases
    <3>5. QED
      BY <1>1, <2>2, <3>1, <3>2, <3>3, <3>4 DEF UpStep, Phase
  <2>3. QED
    BY <2>1, <2>2
<1>6. CASE OpenStream(u)
  BY <1>1, <1>6 DEF OpenStream, Closed, UpStep, Phase, Upgrade, UpgradePhases
<1>7. CASE SetStopApp(u) \/ CloseApp(u)
  <2>1. CASE SetStopApp(u)
    <3> DEFINE b == up[u].closers \/ up[u].draining \/ up[u].forced
    <3>1. b \in BOOLEAN
      OBVIOUS
    <3>2. /\ up[u].phase = "opened"
          /\ up' = [up EXCEPT ![u].phase = "serving", ![u].stopApp = TRUE, ![u].closers = b]
      BY <2>1 DEF SetStopApp
    <3> HIDE DEF b
    <3>3. QED
      BY <1>1, <3>1, <3>2 DEF UpStep, Phase, Upgrade, UpgradePhases
  <2>2. CASE CloseApp(u)
    <3>1. up[u].stream \in {"none", "open", "closed"}
      BY <1>1 DEF Upgrade
    <3> DEFINE x == IF up[u].stopApp THEN "closed" ELSE up[u].stream
    <3>2. x \in {"none", "open", "closed"}
      BY <3>1
    <3>3. up' = [up EXCEPT ![u].closers = FALSE, ![u].stream = x]
      BY <1>1, <2>2 DEF CloseApp, Upgrade
    <3> HIDE DEF x
    <3>4. QED
      BY <1>1, <3>2, <3>3 DEF UpStep, Phase, Upgrade
  <2>3. QED
    BY <1>7, <2>1, <2>2
<1>8. CASE ReadFails(u) \/ StreamEnds(u) \/ RawEnds(u)
  BY <1>1, <1>8 DEF ReadFails, StreamEnds, RawEnds, UpStep, Phase, Upgrade, UpgradePhases
<1>9. CASE Leave(u)
  BY <1>1, <1>9 DEF Leave, Closed, UpStep, Phase, Upgrade, UpgradePhases
<1>10. CASE RemoveConn(u)
  BY <1>1, <1>10 DEF RemoveConn, OpenIsHeld, UpStep, Phase, Upgrade, UpgradePhases
<1>11. QED
  BY <1>2, <1>3, <1>4, <1>5, <1>6, <1>7, <1>8, <1>9, <1>10 DEF Handler, HandlerStep

(* The maps move with the phases. *)
LEMMA HandlerMaps ==
  ASSUME HubInv, NEW u \in Upgrades, Handler(u)
  PROVE  /\ MapsAreRight' /\ hub' = hub /\ hostAt' = hostAt /\ todo' = todo
         /\ up'[u].phase = "reserved" /\ up[u].phase = "new" => ~hub.closed /\ Room
<1>1. UpStep(u)
  BY HandlerChanges DEF HubInv
<1>2. /\ hub' = hub /\ hostAt' = hostAt /\ todo' = todo
  BY DEF Handler, HandlerStep, Refuse, Reserve, AcceptFails, StreamEnds, RawEnds, Capture, Attach,
     Rejected, OpenStream, SetStopApp, CloseApp, ReadFails, Leave, RemoveConn
<1>3. /\ \A v \in Upgrades : v # u => up'[v] = up[v]
      /\ up \in [Upgrades -> Upgrade] /\ up[u] \in Upgrade
  BY <1>1 DEF UpStep, HubInv, HubTypeOK
<1>4. ASSUME up'[u].phase \in PendingPhases <=> u \in pending',
             up'[u].phase \in ConnPhases <=> u \in conns',
             pending' \in {pending, pending \cup {u}, pending \ {u}},
             conns' \in {conns, conns \cup {u}, conns \ {u}}
      PROVE  MapsAreRight'
  BY <1>3, <1>4 DEF HubInv, MapsAreRight
<1>5. /\ up[u].phase \in PendingPhases <=> u \in pending
      /\ up[u].phase \in ConnPhases <=> u \in conns
  BY DEF HubInv, MapsAreRight
<1>6. CASE Refuse(u) \/ Reserve(u)
  BY <1>2, <1>3, <1>4, <1>5, <1>6 DEF Refuse, Reserve, PendingPhases, ConnPhases, Upgrade
<1>7. CASE AcceptFails(u) \/ Attach(u)
  <2>1. up'[u].phase \in {"left", "rejected", "attached"} /\ up[u].phase \in {"reserved", "captured"}
    BY <1>1, <1>3, <1>7 DEF UpStep, Phase, AcceptFails, Attach, PendingPhases, Upgrade
  <2>2. /\ pending' = pending \ {u}
        /\ up'[u].phase = "attached" => conns' = conns \cup {u}
        /\ up'[u].phase # "attached" => conns' = conns
    BY <1>1, <1>3, <1>7 DEF UpStep, Phase, AcceptFails, Attach, PendingPhases, Upgrade
  <2>3. QED
    BY <1>2, <1>4, <1>5, <2>1, <2>2 DEF PendingPhases, ConnPhases
<1>8. CASE RemoveConn(u)
  BY <1>2, <1>3, <1>4, <1>5, <1>8 DEF RemoveConn, PendingPhases, ConnPhases, Upgrade
<1>9. CASE \/ Capture(u) \/ Rejected(u) \/ OpenStream(u) \/ SetStopApp(u) \/ CloseApp(u)
           \/ ReadFails(u) \/ Leave(u) \/ StreamEnds(u) \/ RawEnds(u)
  <2>1. pending' = pending /\ conns' = conns
    BY <1>9 DEF Capture, Rejected, OpenStream, SetStopApp, CloseApp, ReadFails, Leave, StreamEnds, RawEnds
  <2>2. /\ up'[u].phase \in PendingPhases <=> up[u].phase \in PendingPhases
        /\ up'[u].phase \in ConnPhases <=> up[u].phase \in ConnPhases
        /\ up[u].phase = "new" => up'[u].phase = "new"
    BY <1>3, <1>9 DEF Capture, Rejected, OpenStream, SetStopApp, CloseApp, ReadFails, Leave, StreamEnds,
       RawEnds, PendingPhases, ConnPhases, Upgrade
  <2>3. QED
    BY <1>2, <1>4, <1>5, <2>1, <2>2
<1>10. QED
  BY <1>6, <1>7, <1>8, <1>9 DEF Handler, HandlerStep

(* A reservation is made only while there is room for one more. *)
LEMMA ReserveFits ==
  ASSUME HubInv, ~hub.closed, Room, NEW u \in Upgrades
  PROVE  Cardinality(Held \cup {u}) <= hub.max
<1>1. IsFiniteSet(pending) /\ IsFiniteSet(conns) /\ Held = pending \cup conns
  <2>1. pending \in SUBSET Upgrades /\ conns \in SUBSET Upgrades
    BY DEF HubInv, MapsAreRight
  <2>2. Held = pending \cup conns
    BY DEF HubInv, MapsAreRight, Held, OpenIsHeld
  <2>3. IsFiniteSet(pending) /\ IsFiniteSet(conns)
    BY <2>1, HubAssumption, FS_Subset
  <2>4. QED
    BY <2>2, <2>3
<1>2. /\ Cardinality(pending) \in Nat /\ Cardinality(conns) \in Nat
      /\ IsFiniteSet(pending \cap conns) /\ Cardinality(pending \cap conns) \in Nat
  <2>1. pending \cap conns \in SUBSET pending
    OBVIOUS
  <2>2. IsFiniteSet(pending \cap conns)
    BY <1>1, <2>1, FS_Subset
  <2>3. QED
    BY <1>1, <2>2, FS_CardinalityType
<1>3. IsFiniteSet(Held) /\ Cardinality(Held) <= Cardinality(pending) + Cardinality(conns)
  <2>1. /\ IsFiniteSet(pending \cup conns)
        /\ Cardinality(pending \cup conns)
             = Cardinality(pending) + Cardinality(conns) - Cardinality(pending \cap conns)
    BY <1>1, FS_Union
  <2>2. QED
    BY <1>1, <1>2, <2>1
<1>4. Cardinality(Held) \in Nat
  BY <1>3, FS_CardinalityType
<1>5. Cardinality(Held \cup {u}) \in {Cardinality(Held), Cardinality(Held) + 1}
  BY <1>3, FS_AddElement
<1>6. hub.max \in Nat
  BY HubAssumption DEF HubInv, HubTypeOK, ValidHubLimits
<1>7. QED
  BY <1>2, <1>3, <1>4, <1>5, <1>6 DEF Room

LEMMA HandlerKeepsInv ==
  ASSUME HubInv, NEW u \in Upgrades, Handler(u)
  PROVE  HubInv'
<1>1. /\ UpStep(u) /\ up \in [Upgrades -> Upgrade] /\ up[u] \in Upgrade
      /\ MapsAreRight' /\ hub' = hub /\ hostAt' = hostAt /\ todo' = todo
  BY HandlerChanges, HandlerMaps DEF HubInv, HubTypeOK
<1>2. HubTypeOK'
  BY <1>1 DEF UpStep, HubInv, HubTypeOK
<1>3. OpenIsHeld'
  <2>1. \A v \in Upgrades : v # u => up'[v] = up[v]
    BY <1>1 DEF UpStep
  <2>2. /\ up'[u].raw = "open" => up'[u].phase \in {"captured", "rejected", "attached", "opened", "serving"}
        /\ up'[u].phase = "rejected" => hub.closed
    BY <1>1 DEF UpStep, Phase, HubInv, OpenIsHeld, PendingPhases
  <2>3. QED
    BY <1>1, <2>1, <2>2 DEF HubInv, OpenIsHeld
<1>4. ClosedForces'
  <2> SUFFICES ASSUME hub.closed, NEW v \in Upgrades, up'[v].phase \in PendingPhases \cup {"rejected"}
               PROVE  todo[v] = "reservation" \/ (up'[v].reservationForced /\ up'[v].raw # "open")
    BY <1>1 DEF ClosedForces
  <2>1. CASE v # u
    BY <1>1, <2>1 DEF UpStep, HubInv, ClosedForces
  <2>2. CASE v = u
    <3>1. up[u].phase \in PendingPhases \cup {"rejected"}
      BY <1>1, <2>2, HandlerMaps DEF UpStep, Phase, PendingPhases
    <3>2. todo[u] = "reservation" \/ (up[u].reservationForced /\ up[u].raw # "open")
      BY <3>1 DEF HubInv, ClosedForces
    <3>3. QED
      BY <1>1, <2>2, <3>1, <3>2 DEF UpStep, Phase, PendingPhases
  <2>3. QED
    BY <2>1, <2>2
<1>5. HeldFits'
  <2>1. IsFiniteSet(Held) /\ IsFiniteSet(Held \cup {u})
    <3>1. Held \in SUBSET Upgrades
      BY DEF Held
    <3>2. QED
      BY <3>1, HubAssumption, FS_Subset, FS_AddElement
  <2>2. hub.max \in Nat /\ Cardinality(Held) \in Nat /\ Cardinality(Held) <= hub.max
    BY <2>1, HubAssumption, FS_CardinalityType DEF HubInv, HubTypeOK, ValidHubLimits, HeldFits
  <2>3. CASE up'[u].phase = "reserved" /\ up[u].phase = "new"
    <3>1. Held' \in SUBSET (Held \cup {u})
      BY <1>1 DEF UpStep, Held
    <3>2. Cardinality(Held \cup {u}) <= hub.max
      BY <2>3, HandlerMaps, ReserveFits
    <3>3. IsFiniteSet(Held') /\ Cardinality(Held') <= Cardinality(Held \cup {u})
      BY <2>1, <3>1, FS_Subset
    <3>4. QED
      BY <1>1, <2>1, <2>2, <3>2, <3>3, FS_CardinalityType DEF HeldFits
  <2>4. CASE ~(up'[u].phase = "reserved" /\ up[u].phase = "new")
    <3>1. u \in Held' => u \in Held
      BY <1>1, <2>4 DEF UpStep, Phase, Held, PendingPhases, ConnPhases
    <3>2. Held' \in SUBSET Held
      BY <1>1, <3>1 DEF UpStep, Held
    <3>3. IsFiniteSet(Held') /\ Cardinality(Held') <= Cardinality(Held)
      BY <2>1, <3>2, FS_Subset
    <3>4. QED
      BY <1>1, <2>1, <2>2, <3>3, FS_CardinalityType DEF HeldFits
  <2>5. QED
    BY <2>3, <2>4
<1>6. ClosedIsEmpty'
  <2>1. ASSUME hostAt = "closed" PROVE pending' = {} /\ conns' = {}
    <3>1. hub.closed /\ pending = {} /\ conns = {}
      BY <2>1 DEF HubInv, ClosedIsEmpty
    <3>2. up[u].phase \notin PendingPhases \cup ConnPhases
      BY <3>1 DEF HubInv, MapsAreRight
    <3>3. up'[u].phase \notin PendingPhases \cup ConnPhases
      BY <1>1, <3>1, <3>2, HandlerMaps DEF UpStep, Phase, PendingPhases, ConnPhases
    <3>4. QED
      BY <1>1, <3>1, <3>3 DEF UpStep, HubInv, MapsAreRight
  <2>2. QED
    BY <1>1, <2>1 DEF HubInv, ClosedIsEmpty
<1>7. QED
  BY <1>1, <1>2, <1>3, <1>4, <1>5, <1>6 DEF HubInv

-----------------------------------------------------------------------------
(* The steps of the Host that touch no upgrade. *)
LEMMA HostKeepsInv ==
  ASSUME HubInv, Start \/ Drain \/ Close \/ WaitEmpty \/ WaitTimesOut \/ ForcedAll
  PROVE  HubInv'
<1>1. /\ up' = up /\ pending' = pending /\ conns' = conns
      /\ up \in [Upgrades -> Upgrade]
      /\ hub \in [max : HubLimits, started : BOOLEAN, accepting : BOOLEAN, closed : BOOLEAN]
  BY DEF Start, Drain, Close, WaitEmpty, WaitTimesOut, ForcedAll, HubInv, HubTypeOK
<1>2. hub'.max = hub.max /\ (hub.closed => hub'.closed)
  BY <1>1 DEF Start, Drain, Close, WaitEmpty, WaitTimesOut, ForcedAll
<1>3. HubTypeOK'
  <2>1. hub' \in [max : HubLimits, started : BOOLEAN, accepting : BOOLEAN, closed : BOOLEAN]
    BY <1>1 DEF Start, Drain, Close, WaitEmpty, WaitTimesOut, ForcedAll
  <2>2. hostAt' \in HostStates
    BY DEF Start, Drain, Close, WaitEmpty, WaitTimesOut, ForcedAll, HostStates
  <2>3. todo' \in [Upgrades -> Todos]
    <3>1. ToForce \in [Upgrades -> Todos]
      BY DEF ToForce, Todos
    <3>2. [u \in Upgrades |-> IF u \in conns THEN "drain" ELSE "nothing"] \in [Upgrades -> Todos]
      BY DEF Todos
    <3>3. todo' \in {todo, ToForce, [u \in Upgrades |-> IF u \in conns THEN "drain" ELSE "nothing"]}
      BY DEF Start, Drain, Close, WaitEmpty, WaitTimesOut, ForcedAll
    <3>4. todo \in [Upgrades -> Todos]
      BY DEF HubInv, HubTypeOK
    <3>5. QED
      BY <3>1, <3>2, <3>3, <3>4
  <2>4. QED
    BY <1>1, <2>1, <2>2, <2>3 DEF HubTypeOK
<1>4. MapsAreRight' /\ OpenIsHeld'
  BY <1>1, <1>2 DEF HubInv, MapsAreRight, OpenIsHeld
<1>5. HeldFits'
  <2>1. Held' = Held
    BY <1>1 DEF Held
  <2>2. QED
    BY <1>2, <2>1 DEF HubInv, HeldFits
<1>6. ClosedForces'
  <2> SUFFICES ASSUME hub'.closed, NEW u \in Upgrades, up[u].phase \in PendingPhases \cup {"rejected"}
               PROVE  todo'[u] = "reservation" \/ (up[u].reservationForced /\ up[u].raw # "open")
    BY <1>1 DEF ClosedForces
  <2>1. CASE Start \/ Drain
    <3>1. ~hub.closed
      BY <2>1 DEF Start, Drain, HubInv, ClosedIsEmpty
    <3>2. hub'.closed = hub.closed
      BY <1>1, <2>1 DEF Start, Drain
    <3>3. QED
      BY <3>1, <3>2
  <2>2. CASE Close
    <3>1. ~hub.closed
      BY <2>2 DEF Close, HubInv, ClosedIsEmpty
    <3>2. up[u].phase \in PendingPhases
      BY <3>1 DEF HubInv, OpenIsHeld
    <3>3. u \in pending
      BY <3>2 DEF HubInv, MapsAreRight
    <3>4. QED
      BY <2>2, <3>3 DEF Close, ToForce
  <2>3. CASE WaitEmpty \/ ForcedAll
    BY <2>3 DEF WaitEmpty, ForcedAll, HubInv, ClosedForces
  <2>4. CASE WaitTimesOut
    <3>1. todo[u] = "nothing" /\ hub' = hub
      BY <2>4 DEF WaitTimesOut, Waits
    <3>2. QED
      BY <3>1 DEF HubInv, ClosedForces
  <2>5. QED
    BY <2>1, <2>2, <2>3, <2>4
<1>7. ClosedIsEmpty'
  <2>1. CASE Start
    BY <1>1, <2>1 DEF Start, HubInv, ClosedIsEmpty
  <2>2. CASE Drain
    BY <1>1, <2>2 DEF Drain, HubInv, ClosedIsEmpty
  <2>3. CASE Close
    BY <1>1, <2>3 DEF Close, HubInv, ClosedIsEmpty
  <2>4. CASE WaitEmpty \/ WaitTimesOut
    BY <1>1, <2>4 DEF WaitEmpty, WaitTimesOut, Waits, HubInv, ClosedIsEmpty
  <2>5. CASE ForcedAll
    BY <1>1, <2>5 DEF ForcedAll, HubInv, ClosedIsEmpty
  <2>6. QED
    BY <2>1, <2>2, <2>3, <2>4, <2>5
<1>8. QED
  BY <1>3, <1>4, <1>5, <1>6, <1>7 DEF HubInv

(* One element of a snapshot is worked off. *)
LEMMA WorkOffKeepsInv ==
  ASSUME HubInv, NEW u \in Upgrades, WorkOff(u)
  PROVE  HubInv'
<1>1. /\ up \in [Upgrades -> Upgrade] /\ up[u] \in Upgrade
      /\ todo \in [Upgrades -> Todos] /\ todo[u] \in {"drain", "reservation", "connection"}
      /\ hub' = hub /\ pending' = pending /\ conns' = conns /\ hostAt' = hostAt
      /\ todo' = [todo EXCEPT ![u] = "nothing"]
  BY DEF HubInv, HubTypeOK, WorkOff, Todos
<1> DEFINE q == CASE todo[u] = "drain" -> BeginDrain(up[u])
                  [] todo[u] = "reservation" -> ForceReservation(up[u])
                  [] todo[u] = "connection" -> ForceClose(up[u])
<1>2. up' = [up EXCEPT ![u] = q]
  BY DEF WorkOff
<1>3. q \in {BeginDrain(up[u]), ForceReservation(up[u]), ForceClose(up[u])}
  BY <1>1
<1>4. todo[u] = "reservation" => q = ForceReservation(up[u])
  BY <1>1
<1> HIDE DEF q
<1>5. /\ q \in Upgrade /\ q.phase = up[u].phase /\ q.raw \in {up[u].raw, "closed"}
      /\ up[u].reservationForced => q.reservationForced
  BY <1>1, <1>3, ForceFacts
<1>6. todo[u] = "reservation" => q.reservationForced /\ q.raw # "open"
  BY <1>1, <1>4, ForcedReservation
<1>7. /\ up' \in [Upgrades -> Upgrade]
      /\ \A v \in Upgrades : up'[v].phase = up[v].phase /\ (v # u => up'[v] = up[v] /\ todo'[v] = todo[v])
      /\ up'[u] = q /\ todo' \in [Upgrades -> Todos]
  BY <1>1, <1>2, <1>5 DEF Todos
<1>8. HubTypeOK'
  BY <1>1, <1>7 DEF HubInv, HubTypeOK
<1>9. MapsAreRight' /\ OpenIsHeld'
  BY <1>1, <1>5, <1>7 DEF HubInv, MapsAreRight, OpenIsHeld
<1>10. ClosedForces'
  <2> SUFFICES ASSUME hub.closed, NEW v \in Upgrades, up[v].phase \in PendingPhases \cup {"rejected"}
               PROVE  todo'[v] = "reservation" \/ (up'[v].reservationForced /\ up'[v].raw # "open")
    BY <1>1, <1>7 DEF ClosedForces
  <2>1. todo[v] = "reservation" \/ (up[v].reservationForced /\ up[v].raw # "open")
    BY DEF HubInv, ClosedForces
  <2>2. CASE v # u
    BY <1>7, <2>1, <2>2
  <2>3. CASE v = u
    BY <1>5, <1>6, <1>7, <2>1, <2>3
  <2>4. QED
    BY <2>2, <2>3
<1>11. HeldFits'
  <2>1. Held' = Held
    BY <1>7 DEF Held
  <2>2. QED
    BY <1>1, <2>1 DEF HubInv, HeldFits
<1>12. ClosedIsEmpty'
  BY <1>1 DEF HubInv, ClosedIsEmpty
<1>13. QED
  BY <1>8, <1>9, <1>10, <1>11, <1>12 DEF HubInv

LEMMA HubStepKeepsInv == HubInv /\ [HubNext]_hubVars => HubInv'
<1> SUFFICES ASSUME HubInv, [HubNext]_hubVars PROVE HubInv'
  OBVIOUS
<1>1. CASE UNCHANGED hubVars
  <2>1. Held' = Held
    BY <1>1 DEF hubVars, Held
  <2>2. QED
    BY <1>1, <2>1 DEF hubVars, HubInv, HubTypeOK, MapsAreRight, OpenIsHeld, ClosedForces, HeldFits,
        ClosedIsEmpty
<1>2. CASE \E u \in Upgrades : Handler(u)
  BY <1>2, HandlerKeepsInv
<1>3. CASE \E u \in Upgrades : WorkOff(u)
  BY <1>3, WorkOffKeepsInv
<1>4. CASE Start \/ Drain \/ Close \/ WaitEmpty \/ WaitTimesOut \/ ForcedAll
  BY <1>4, HostKeepsInv
<1>5. QED
  BY <1>1, <1>2, <1>3, <1>4 DEF HubNext, Handler, HandlerStep, HostStep

(* The bookkeeping of the hub: its two maps are exactly the handshakes and  *)
(* the connections under way, they fit MaxConnections, and an upgrade that  *)
(* Close overtook is on the list to be forced or already is.                *)
THEOREM HubInvariant == HubSpec => []HubInv
BY InitHub, HubStepKeepsInv, PTL DEF HubSpec

LEMMA InvAccounts == HubInv => SocketsAccounted
<1> SUFFICES ASSUME HubInv PROVE SocketsAccounted
  OBVIOUS
<1>1. OpenSockets \in SUBSET Held
  BY DEF HubInv, OpenIsHeld, OpenSockets, Held, PendingPhases, ConnPhases
<1>2. Held \in SUBSET Upgrades
  BY DEF Held
<1>3. IsFiniteSet(Held)
  BY <1>2, HubAssumption, FS_Subset
<1>4. IsFiniteSet(OpenSockets) /\ Cardinality(OpenSockets) <= Cardinality(Held)
  BY <1>1, <1>3, FS_Subset
<1>5. Cardinality(OpenSockets) \in Nat /\ Cardinality(Held) \in Nat
  BY <1>3, <1>4, FS_CardinalityType
<1>6. hub.max \in Nat
  BY HubAssumption DEF HubInv, HubTypeOK, ValidHubLimits
<1>7. Cardinality(OpenSockets) <= hub.max
  BY <1>4, <1>5, <1>6 DEF HubInv, HeldFits
<1>8. ASSUME hostAt = "closed", NEW u \in Upgrades, up[u].raw = "open" PROVE FALSE
  <2>1. hub.closed /\ u \notin pending /\ u \notin conns /\ todo[u] = "nothing"
    BY <1>8 DEF HubInv, ClosedIsEmpty
  <2>2. up[u].phase = "rejected"
    BY <1>8, <2>1 DEF HubInv, MapsAreRight, OpenIsHeld, PendingPhases, ConnPhases
  <2>3. QED
    BY <1>8, <2>1, <2>2 DEF HubInv, ClosedForces
<1>9. QED
  BY <1>7, <1>8 DEF SocketsAccounted, OpenSockets

(* Never more hijacked sockets are open than MaxConnections allows, and     *)
(* none is once Close returned nil (websocket.go:242-314, 340-370,          *)
(* 562-608): the reservation taken under Hub.mu bounds both, and the flag   *)
(* Close sets before its snapshot leaves no upgrade behind.                 *)
THEOREM SocketsAreAccounted == HubSpec => []SocketsAccounted
BY HubInvariant, InvAccounts, PTL

-----------------------------------------------------------------------------
(* POST + SSE: what the caller sees is what the service did. *)

ErrorCodes == {"none", "internal", "app", "unavailable"}
ClientTerms == ErrorCodes \cup {"eof", "invalid", "unauthenticated"}

SSETypeOK ==
  /\ ev \in [sent : Nat, fetched : Nat, written : Nat, accepted : Nat, got : Nat]
  /\ st \in [term : {"none", "eof", "app", "unavailable"}, result : {"none", "eof", "app"}, promised : Nat,
             request : BOOLEAN]
  /\ rcv \in [pc : {"recv", "put_event", "put_end", "done"}, slot : {"empty", "event", "end"}]
  /\ main \in {"start", "send", "loop", "cleanup", "returned"}
  /\ out \in [committed : BOOLEAN, error : ErrorCodes, body : {"open", "problem", "broken", "ended"}]
  /\ dial \in [result : {"waiting", "ok", "failed"}, ready : {"none", "ok", "error"}]
  /\ csm \in [pc : {"request", "reading", "returned"}, term : ClientTerms, live : BOOLEAN, seen : ClientTerms]

(* How the server's stream ended. *)
TermInv ==
  /\ st.term \in {"eof", "app"} => st.result = st.term
  /\ st.term # "none" => ev.sent >= st.promised

(* Every event that was fetched and not written is in the hands of the      *)
(* receiving goroutine or of the channel; the end comes after all of them.  *)
InHand == (IF rcv.pc = "put_event" THEN 1 ELSE 0) + (IF rcv.slot = "event" THEN 1 ELSE 0)

RecvInv ==
  /\ main \in {"start", "send", "loop"} => ev.fetched = ev.written + InHand
  /\ main \in {"start", "send"} => rcv.pc = "recv" /\ rcv.slot = "empty"
  /\ rcv.slot = "end" => rcv.pc = "done"
  /\ (rcv.pc = "put_end" \/ rcv.slot = "end") /\ st.request => st.term # "none" /\ ev.fetched >= st.promised

(* The stream ended so, and all that it had accepted is in the response. *)
Ended(term) == st.term = term /\ ev.written >= st.promised

(* The response says how the stream ended only once it has, or the context  *)
(* of the request.                                                          *)
OutInv ==
  /\ main \in {"start", "send", "loop"} => out.error = "none" /\ out.body \in {"open", "broken"}
  /\ out.error = "app" => Ended("app")
  /\ main = "cleanup" /\ out.body = "open" /\ out.error = "none" /\ st.request => Ended("eof")
  /\ out.body = "ended" => main = "returned" /\ (out.error = "none" /\ st.request => Ended("eof"))

(* serveSSE writes no more. *)
Answered == main \in {"cleanup", "returned"}

(* The client's stream, and what Dial said of it. *)
ClientInv ==
  /\ csm.term = "app" \/ (csm.term = "eof" /\ st.request) =>
       st.result = csm.term /\ st.term = csm.term /\ ev.accepted >= st.promised
  /\ csm.term \in {"eof", "app"} => dial.ready = "ok" /\ ev.accepted = ev.written /\ Answered
  /\ csm.pc = "request" => dial.ready = "none"
  /\ csm.pc = "reading" => dial.ready = "ok"
  /\ csm.live <=> csm.term = "none"
  /\ dial.result = "failed" => csm.term # "none" /\ csm.term # "eof"
  /\ csm.seen # "none" => csm.seen = csm.term
  /\ csm.seen \in {"eof", "app"} => ev.got = ev.written

SSEInv == SSETypeOK /\ TermInv /\ RecvInv /\ OutInv /\ ClientInv

LEMMA SSEInitInv == SSEInit => SSEInv
<1> SUFFICES ASSUME SSEInit PROVE SSEInv
  OBVIOUS
<1>1. SSETypeOK
  BY DEF SSEInit, SSETypeOK, ErrorCodes, ClientTerms
<1>2. TermInv /\ RecvInv
  BY DEF SSEInit, TermInv, RecvInv, InHand
<1>3. OutInv /\ ClientInv
  BY DEF SSEInit, OutInv, ClientInv
<1> QED
  BY <1>1, <1>2, <1>3 DEF SSEInv

(* A stream that ended keeps its end, and a context that ended is not alive *)
(* again.                                                                   *)
StKept ==
  /\ st.term # "none" =>
       st'.term = st.term /\ st'.promised = st.promised /\ (st.result # "none" => st'.result = st.result)
  /\ st'.request => st.request

(* What serveSSE wrote stays as it is once it writes no more. *)
AnswerKept == Answered => Answered' /\ ev'.written = ev.written

EvType == [sent : Nat, fetched : Nat, written : Nat, accepted : Nat, got : Nat]

(* What each part does not depend on. *)
LEMMA TermFrame ==
  ASSUME SSEInv, st' = st, ev' \in EvType, ev'.sent >= ev.sent
  PROVE  TermInv'
  BY DEF SSEInv, SSETypeOK, TermInv, EvType

LEMMA RecvFrame ==
  ASSUME SSEInv, StKept, rcv' = rcv, ev'.fetched = ev.fetched, ev'.written = ev.written,
         main' = main \/ main' \in {"cleanup", "returned"} \/ (main = "start" /\ main' = "send")
                      \/ (main = "send" /\ main' = "loop")
  PROVE  RecvInv'
<1>1. InHand' = InHand
  BY DEF InHand
<1>2. main' \in {"start", "send", "loop"} => main \in {"start", "send", "loop"}
  OBVIOUS
<1>3. main' \in {"start", "send"} => main \in {"start", "send"}
  OBVIOUS
<1> QED
  BY <1>1, <1>2, <1>3 DEF SSEInv, RecvInv, StKept

LEMMA OutFrame ==
  ASSUME SSEInv, StKept, ev' \in EvType, ev'.written >= ev.written, out'.error = out.error,
         out'.body = out.body \/ out'.body = "broken",
         main' = main \/ (main = "start" /\ main' = "send") \/ (main = "send" /\ main' = "loop")
  PROVE  OutInv'
<1>1. (Ended("eof") => Ended("eof")') /\ (Ended("app") => Ended("app")')
  BY DEF Ended, StKept, SSEInv, SSETypeOK, EvType
<1>2. st'.request => st.request
  BY DEF StKept
<1> QED
  BY <1>1, <1>2 DEF SSEInv, OutInv

LEMMA ClientFrame ==
  ASSUME SSEInv, StKept, AnswerKept, csm' = csm, dial' = dial,
         ev'.accepted = ev.accepted \/ csm.term = "none",
         ev'.got = ev.got \/ ev.got < ev.accepted
  PROVE  ClientInv'
<1>1. ev.accepted \in Nat /\ ev.written \in Nat
  BY DEF SSEInv, SSETypeOK
<1>2. CASE csm.term \notin {"eof", "app"}
  BY <1>2 DEF SSEInv, ClientInv
<1>3. CASE csm.term \in {"eof", "app"}
  <2>1. /\ ev.accepted = ev.written /\ Answered /\ dial.ready = "ok"
        /\ Answered' /\ ev'.written = ev.written /\ ev'.accepted = ev.accepted
    BY <1>3 DEF SSEInv, ClientInv, AnswerKept
  <2>2. csm.seen \in {"eof", "app"} => ev'.got = ev'.written
    BY <1>1, <2>1 DEF SSEInv, ClientInv
  <2>3. csm.term = "app" \/ (csm.term = "eof" /\ st'.request) =>
          st'.result = csm.term /\ st'.term = csm.term /\ ev'.accepted >= st'.promised
    BY <1>3, <2>1 DEF SSEInv, ClientInv, StKept
  <2> QED
    BY <1>3, <2>1, <2>2, <2>3 DEF SSEInv, ClientInv
<1> QED
  BY <1>2, <1>3

LEMMA SameEv == SSEInv /\ ev' = ev =>
  /\ ev' \in EvType /\ ev'.sent >= ev.sent /\ ev'.written >= ev.written /\ ev'.accepted >= ev.accepted
  /\ ev'.got >= ev.got /\ ev'.fetched = ev.fetched /\ ev'.written = ev.written
  BY DEF SSEInv, SSETypeOK, EvType

LEMMA SameSt == st' = st => StKept
  BY DEF StKept

LEMMA SameMain == main' = main /\ ev'.written = ev.written => AnswerKept
  BY DEF AnswerKept, Answered

-----------------------------------------------------------------------------
(* The service. *)

LEMMA ServiceSendsInv ==
  ASSUME SSEInv, ServiceSends
  PROVE  SSEInv'
<1>1. /\ ev' = [ev EXCEPT !.sent = @ + 1]
      /\ st' = st /\ rcv' = rcv /\ main' = main /\ out' = out /\ dial' = dial /\ csm' = csm
  BY DEF ServiceSends, serverState, clientState
<1>2. ev \in EvType
  BY DEF SSEInv, SSETypeOK, EvType
<1>3. /\ ev' \in EvType /\ ev'.sent = ev.sent + 1 /\ ev'.fetched = ev.fetched /\ ev'.written = ev.written
      /\ ev'.accepted = ev.accepted /\ ev'.got = ev.got
  BY <1>1, <1>2 DEF EvType
<1>4. ev'.sent >= ev.sent /\ ev'.written >= ev.written /\ ev'.accepted >= ev.accepted /\ ev'.got >= ev.got
  BY <1>2, <1>3 DEF EvType
<1>5. SSETypeOK'
  BY <1>1, <1>3 DEF SSEInv, SSETypeOK, EvType
<1>6. TermInv' /\ RecvInv' /\ OutInv' /\ ClientInv'
  BY <1>1, <1>3, <1>4, SameSt, SameMain, TermFrame, RecvFrame, OutFrame, ClientFrame
<1> QED
  BY <1>5, <1>6 DEF SSEInv

(* Ending a stream, once. *)
LEMMA StreamEndsOnce ==
  ASSUME SSEInv, NEW err \in {"eof", "app", "unavailable"}, NEW s, s = StreamEnd(st, err)
  PROVE  /\ s \in [term : {"eof", "app", "unavailable"}, result : {"none", "eof", "app"}, promised : Nat,
                    request : BOOLEAN]
         /\ st.term # "none" => s = st
         /\ st.term = "none" => s.term \in {err, "unavailable"} /\ s.promised = ev.sent
         /\ s.result = st.result /\ s.request = st.request
<1>1. /\ st \in [term : {"none", "eof", "app", "unavailable"}, result : {"none", "eof", "app"}, promised : Nat,
                  request : BOOLEAN]
      /\ ev.sent \in Nat
  BY DEF SSEInv, SSETypeOK
<1>2. CASE st.term # "none"
  BY <1>1, <1>2 DEF StreamEnd
<1>3. CASE st.term = "none"
  <2>1. PICK t \in {err, "unavailable"} : t = IF st.request THEN err ELSE "unavailable"
    OBVIOUS
  <2>2. s = [st EXCEPT !.term = t, !.promised = ev.sent]
    BY <1>3, <2>1 DEF StreamEnd
  <2> QED
    BY <1>1, <1>3, <2>2
<1> QED
  BY <1>2, <1>3

(* The stream changes, and nothing else. *)
LEMMA OnlyStream ==
  ASSUME SSEInv, StKept, ev' = ev, rcv' = rcv, main' = main, out' = out, dial' = dial, csm' = csm, TermInv',
         st' \in [term : {"none", "eof", "app", "unavailable"}, result : {"none", "eof", "app"}, promised : Nat,
                  request : BOOLEAN]
  PROVE  SSEInv'
<1>1. SSETypeOK'
  BY DEF SSEInv, SSETypeOK
<1>2. RecvInv' /\ OutInv' /\ ClientInv'
  BY SameEv, SameMain, RecvFrame, OutFrame, ClientFrame
<1> QED
  BY <1>1, <1>2 DEF SSEInv

LEMMA ServiceReturnsInv ==
  ASSUME SSEInv, NEW err \in {"eof", "app"}, ServiceReturns(err)
  PROVE  SSEInv'
<1>1. PICK s : s = StreamEnd(st, err)
  OBVIOUS
<1>2. /\ st' = [s EXCEPT !.result = err] /\ st.result = "none"
      /\ ev' = ev /\ rcv' = rcv /\ main' = main /\ out' = out /\ dial' = dial /\ csm' = csm
  BY <1>1 DEF ServiceReturns, clientState
<1>3. /\ s \in [term : {"eof", "app", "unavailable"}, result : {"none", "eof", "app"}, promised : Nat, request : BOOLEAN]
      /\ st.term # "none" => s = st
      /\ st.term = "none" => s.term \in {err, "unavailable"} /\ s.promised = ev.sent
      /\ s.request = st.request
  BY <1>1, StreamEndsOnce
<1>4. /\ st' \in [term : {"none", "eof", "app", "unavailable"}, result : {"none", "eof", "app"}, promised : Nat,
                   request : BOOLEAN]
      /\ st'.term = s.term /\ st'.promised = s.promised /\ st'.result = err /\ st'.request = s.request
  BY <1>2, <1>3
<1>5. StKept
  BY <1>2, <1>3, <1>4 DEF StKept
<1>6. ev.sent \in Nat
  BY DEF SSEInv, SSETypeOK
<1>7. TermInv'
  <2>1. CASE st.term = "none"
    BY <1>2, <1>3, <1>4, <1>6, <2>1 DEF TermInv
  <2>2. CASE st.term # "none"
    <3>1. st.term \notin {"eof", "app"} /\ ev.sent >= st.promised
      BY <1>2, <2>2 DEF SSEInv, TermInv
    <3> QED
      BY <1>2, <1>3, <1>4, <2>2, <3>1 DEF TermInv
  <2> QED
    BY <2>1, <2>2
<1> QED
  BY <1>2, <1>4, <1>5, <1>7, OnlyStream

LEMMA TimesOutInv ==
  ASSUME SSEInv, st.term = "none", st' = StreamEnd(st, "unavailable"),
         ev' = ev, rcv' = rcv, main' = main, out' = out, dial' = dial, csm' = csm
  PROVE  SSEInv'
<1>1. /\ st' \in [term : {"eof", "app", "unavailable"}, result : {"none", "eof", "app"}, promised : Nat, request : BOOLEAN]
      /\ st'.term = "unavailable" /\ st'.promised = ev.sent /\ st'.request = st.request
  BY StreamEndsOnce
<1>2. ev.sent \in Nat
  BY DEF SSEInv, SSETypeOK
<1>3. TermInv' /\ StKept
  BY <1>1, <1>2 DEF TermInv, StKept
<1> QED
  BY <1>1, <1>3, OnlyStream

LEMMA RequestEndsInv ==
  ASSUME SSEInv, RequestEnds
  PROVE  SSEInv'
<1>1. st' = [st EXCEPT !.request = FALSE] /\ ev' = ev /\ rcv' = rcv /\ main' = main /\ out' = out
      /\ dial' = dial /\ csm' = csm
  BY DEF RequestEnds, clientState
<1>2. st \in [term : {"none", "eof", "app", "unavailable"}, result : {"none", "eof", "app"}, promised : Nat,
              request : BOOLEAN]
  BY DEF SSEInv, SSETypeOK
<1>3. /\ st' \in [term : {"none", "eof", "app", "unavailable"}, result : {"none", "eof", "app"}, promised : Nat,
                   request : BOOLEAN]
      /\ st'.term = st.term /\ st'.result = st.result /\ st'.promised = st.promised /\ st'.request = FALSE
  BY <1>1, <1>2
<1>4. TermInv' /\ StKept
  BY <1>1, <1>3 DEF SSEInv, TermInv, StKept
<1> QED
  BY <1>1, <1>3, <1>4, OnlyStream

-----------------------------------------------------------------------------
(* serveSSE and its receiving goroutine. *)

OutType == [committed : BOOLEAN, error : ErrorCodes, body : {"open", "problem", "broken", "ended"}]

(* What becomes of the response. *)
LEMMA ProblemFields ==
  ASSUME SSEInv, Problem, out.body \in {"open", "broken"}
  PROVE  out' \in OutType /\ out'.error = out.error /\ out'.body \in {"problem", "broken"}
<1>1. out \in OutType
  BY DEF SSEInv, SSETypeOK, OutType
<1> QED
  BY <1>1 DEF Problem, OutType

LEMMA BreakFields ==
  ASSUME SSEInv, out' = [out EXCEPT !.body = "broken"]
  PROVE  out' \in OutType /\ out'.error = out.error /\ out'.body = "broken"
<1>1. out \in OutType
  BY DEF SSEInv, SSETypeOK, OutType
<1> QED
  BY <1>1 DEF OutType

LEMMA CommitFields ==
  ASSUME SSEInv, out' = Writes(out, "committed", TRUE)
  PROVE  out' \in OutType /\ out'.error = out.error /\ out'.body = out.body
<1>1. out \in OutType
  BY DEF SSEInv, SSETypeOK, OutType
<1>2. CASE out.body = "open"
  <2>1. out' = [out EXCEPT !.committed = TRUE, !["committed"] = TRUE]
    BY <1>2 DEF Writes
  <2> QED
    BY <1>1, <2>1 DEF OutType
<1>3. CASE out.body # "open"
  BY <1>1, <1>3 DEF Writes
<1> QED
  BY <1>2, <1>3

LEMMA ReportFields ==
  ASSUME SSEInv, NEW code \in ErrorCodes, Reports(code), out.body \in {"open", "broken"}
  PROVE  /\ out' \in OutType
         /\ \/ out'.error = code /\ out'.body = "open"
            \/ out'.error = out.error /\ out'.body \in {"problem", "broken"}
<1>1. out \in OutType
  BY DEF SSEInv, SSETypeOK, OutType
<1>2. CASE ~out.committed
  BY <1>2, ProblemFields DEF Reports
<1>3. CASE out.committed /\ out.body = "open"
  <2>1. out' = [out EXCEPT !.committed = TRUE, !["error"] = code]
    BY <1>3 DEF Reports, Writes
  <2> QED
    BY <1>1, <1>3, <2>1 DEF OutType
<1>4. CASE out.committed /\ out.body # "open"
  BY <1>1, <1>4 DEF Reports, Writes
<1> QED
  BY <1>2, <1>3, <1>4

(* A step of serveSSE that touches neither stream nor client. *)
LEMMA ServeFrame ==
  ASSUME SSEInv, st' = st, dial' = dial, csm' = csm, AnswerKept,
         ev' \in EvType, ev'.sent = ev.sent, ev'.accepted = ev.accepted, ev'.got = ev.got,
         rcv' \in [pc : {"recv", "put_event", "put_end", "done"}, slot : {"empty", "event", "end"}],
         main' \in {"start", "send", "loop", "cleanup", "returned"}, out' \in OutType,
         RecvInv', OutInv'
  PROVE  SSEInv'
<1>1. SSETypeOK'
  BY DEF SSEInv, SSETypeOK, EvType, OutType
<1>2. ev \in EvType
  BY DEF SSEInv, SSETypeOK, EvType
<1>3. ev'.sent >= ev.sent /\ ev'.accepted >= ev.accepted /\ ev'.got >= ev.got
  BY <1>2 DEF EvType
<1>4. TermInv' /\ ClientInv'
  BY <1>3, SameSt, TermFrame, ClientFrame
<1> QED
  BY <1>1, <1>4 DEF SSEInv

LEMMA ServeStartsInv ==
  ASSUME SSEInv, ServeRefuses \/ ServeOpens \/ ServeSends
  PROVE  SSEInv'
<1> DEFINE RT == [pc : {"recv", "put_event", "put_end", "done"}, slot : {"empty", "event", "end"}]
<1>1. main \in {"start", "send"} /\ ev' = ev /\ st' = st /\ dial' = dial /\ csm' = csm
  BY DEF ServeRefuses, ServeOpens, ServeSends, clientState
<1>2. /\ out.error = "none" /\ out.body \in {"open", "broken"} /\ rcv.pc = "recv" /\ rcv.slot = "empty"
      /\ rcv \in RT /\ out \in OutType
  BY <1>1 DEF SSEInv, SSETypeOK, OutInv, RecvInv, OutType
<1>3. /\ ev' \in EvType /\ ev'.sent = ev.sent /\ ev'.accepted = ev.accepted /\ ev'.got = ev.got
      /\ ev'.fetched = ev.fetched /\ ev'.written = ev.written /\ ev'.written >= ev.written
  BY <1>1, SameEv
<1> AnswerKept
  BY <1>1 DEF AnswerKept, Answered
<1>4. CASE main' \in {"send", "loop"} /\ out' = out /\ rcv' = rcv
           /\ ((main = "start" /\ main' = "send") \/ (main = "send" /\ main' = "loop"))
  <2>1. RecvInv' /\ OutInv'
    BY <1>1, <1>3, <1>4, SameSt, RecvFrame, OutFrame
  <2> QED
    BY <1>1, <1>2, <1>3, <1>4, <2>1, ServeFrame
<1>5. CASE main' \in {"cleanup", "returned"} /\ Problem /\ rcv' \in {rcv, [rcv EXCEPT !.pc = "done"]}
  <2>1. out' \in OutType /\ out'.error = "none" /\ out'.body \in {"problem", "broken"}
    BY <1>2, <1>5, ProblemFields
  <2>2. rcv' \in RT /\ rcv'.slot = "empty" /\ rcv'.pc \in {"recv", "done"}
    BY <1>2, <1>5
  <2>3. RecvInv'
    BY <1>5, <2>2 DEF RecvInv
  <2>4. OutInv'
    BY <1>5, <2>1 DEF OutInv
  <2> QED
    BY <1>1, <1>3, <1>5, <2>1, <2>2, <2>3, <2>4, ServeFrame
<1>6. CASE main' = "cleanup" /\ out' = out /\ rcv' = [rcv EXCEPT !.pc = "done"] /\ ~st.request
  <2>1. rcv' \in RT /\ rcv'.slot = "empty" /\ rcv'.pc = "done"
    BY <1>2, <1>6
  <2>2. RecvInv' /\ OutInv'
    BY <1>1, <1>2, <1>6, <2>1 DEF RecvInv, OutInv
  <2> QED
    BY <1>1, <1>2, <1>3, <1>6, <2>1, <2>2, ServeFrame
<1> QED
  BY <1>4, <1>5, <1>6 DEF ServeRefuses, ServeOpens, ServeSends

(* The receiving goroutine: an event is in hand, or all were. *)
LEMMA RecvStepInv ==
  ASSUME SSEInv, RecvStep
  PROVE  SSEInv'
<1> DEFINE RT == [pc : {"recv", "put_event", "put_end", "done"}, slot : {"empty", "event", "end"}]
<1>1. /\ st' = st /\ dial' = dial /\ csm' = csm /\ main' = main /\ out' = out
      /\ rcv \in RT /\ out \in OutType /\ ev \in EvType
      /\ main \in {"start", "send", "loop", "cleanup", "returned"}
  BY DEF RecvStep, RecvGets, RecvPuts, RecvStops, clientState, SSEInv, SSETypeOK, OutType, EvType
<1>2. CASE RecvGets /\ ev.fetched < ev.sent /\ ev' = [ev EXCEPT !.fetched = @ + 1]
           /\ rcv' = [rcv EXCEPT !.pc = "put_event"]
  <2>1. /\ ev' \in EvType /\ ev'.sent = ev.sent /\ ev'.accepted = ev.accepted /\ ev'.got = ev.got
        /\ ev'.fetched = ev.fetched + 1 /\ ev'.written = ev.written /\ ev'.written >= ev.written
    BY <1>1, <1>2 DEF EvType
  <2>2. rcv' \in RT /\ rcv'.pc = "put_event" /\ rcv'.slot = rcv.slot /\ rcv.pc = "recv"
    BY <1>1, <1>2 DEF RecvGets
  <2>3. main \in {"loop", "cleanup"} /\ rcv.slot # "end"
    BY <1>2, <2>2 DEF RecvGets, SSEInv, RecvInv
  <2>4. main = "loop" => ev.fetched = ev.written + InHand
    BY DEF SSEInv, RecvInv
  <2>5. InHand' = InHand + 1 /\ InHand \in Nat
    BY <2>2 DEF InHand
  <2>6. main = "loop" => ev'.fetched = ev'.written + InHand'
    BY <1>1, <2>1, <2>4, <2>5 DEF EvType
  <2>7. RecvInv'
    BY <1>1, <2>2, <2>3, <2>6 DEF RecvInv
  <2>8. OutInv'
    BY <1>1, <2>1, SameSt, OutFrame
  <2> QED
    BY <1>1, <2>1, <2>2, <2>7, <2>8, SameMain, ServeFrame
<1>3. CASE /\ RecvGets /\ ev' = ev /\ rcv' = [rcv EXCEPT !.pc = "put_end"]
           /\ (ev.fetched = ev.sent /\ st.term # "none") \/ ~st.request
  <2>1. /\ ev' \in EvType /\ ev'.sent = ev.sent /\ ev'.accepted = ev.accepted /\ ev'.got = ev.got
        /\ ev'.fetched = ev.fetched /\ ev'.written = ev.written /\ ev'.written >= ev.written
    BY <1>3, SameEv
  <2>2. rcv' \in RT /\ rcv'.pc = "put_end" /\ rcv'.slot = rcv.slot /\ rcv.pc = "recv"
    BY <1>1, <1>3 DEF RecvGets
  <2>3. main \in {"loop", "cleanup"} /\ rcv.slot # "end"
    BY <1>3, <2>2 DEF RecvGets, SSEInv, RecvInv
  <2>4. main = "loop" => ev.fetched = ev.written + InHand
    BY DEF SSEInv, RecvInv
  <2>5. InHand' = InHand
    BY <2>2 DEF InHand
  <2>6. st.request => st.term # "none" /\ ev.fetched >= st.promised
    BY <1>3 DEF SSEInv, TermInv
  <2>7. RecvInv'
    BY <1>1, <1>3, <2>1, <2>2, <2>3, <2>4, <2>5, <2>6 DEF RecvInv
  <2>8. OutInv'
    BY <1>1, <2>1, SameSt, OutFrame
  <2> QED
    BY <1>1, <2>1, <2>2, <2>7, <2>8, SameMain, ServeFrame
<1>4. CASE RecvPuts
  <2>1. ev' = ev
    BY <1>4 DEF RecvPuts
  <2>2. /\ ev' \in EvType /\ ev'.sent = ev.sent /\ ev'.accepted = ev.accepted /\ ev'.got = ev.got
        /\ ev'.fetched = ev.fetched /\ ev'.written = ev.written /\ ev'.written >= ev.written
    BY <2>1, SameEv
  <2>3. /\ rcv.slot = "empty" /\ rcv' \in RT
        /\ \/ rcv.pc = "put_event" /\ rcv'.pc = "recv" /\ rcv'.slot = "event"
           \/ rcv.pc = "put_end" /\ rcv'.pc = "done" /\ rcv'.slot = "end"
    BY <1>4 DEF RecvPuts, Putting
  <2>4. InHand' = InHand
    BY <2>3 DEF InHand
  <2>5. main \notin {"start", "send"}
    BY <2>3 DEF SSEInv, RecvInv
  <2>6. RecvInv'
    BY <1>1, <2>2, <2>3, <2>4, <2>5 DEF SSEInv, RecvInv
  <2>7. OutInv'
    BY <1>1, <2>2, SameSt, OutFrame
  <2> QED
    BY <1>1, <2>2, <2>3, <2>6, <2>7, SameMain, ServeFrame
<1>5. CASE RecvStops
  <2>1. ev' = ev /\ main = "cleanup" /\ rcv' = [rcv EXCEPT !.pc = "done"]
    BY <1>5 DEF RecvStops
  <2>2. /\ ev' \in EvType /\ ev'.sent = ev.sent /\ ev'.accepted = ev.accepted /\ ev'.got = ev.got
        /\ ev'.fetched = ev.fetched /\ ev'.written = ev.written /\ ev'.written >= ev.written
    BY <2>1, SameEv
  <2>3. rcv' \in RT /\ rcv'.pc = "done" /\ rcv'.slot = rcv.slot
    BY <1>1, <2>1
  <2>4. RecvInv'
    BY <1>1, <2>1, <2>2, <2>3 DEF SSEInv, RecvInv
  <2>5. OutInv'
    BY <1>1, <2>2, SameSt, OutFrame
  <2> QED
    BY <1>1, <2>2, <2>3, <2>4, <2>5, SameMain, ServeFrame
<1> QED
  BY <1>2, <1>3, <1>4, <1>5 DEF RecvStep, RecvGets

(* The loop of serveSSE: a heartbeat, an event, or the end of the request.  *)
LEMMA ServeWritesInv ==
  ASSUME SSEInv, ServeHeartbeat \/ ServeEvent \/ ServeContextEnds
  PROVE  SSEInv'
<1> DEFINE RT == [pc : {"recv", "put_event", "put_end", "done"}, slot : {"empty", "event", "end"}]
<1>1. /\ main = "loop" /\ st' = st /\ dial' = dial /\ csm' = csm
      /\ rcv \in RT /\ out \in OutType /\ ev \in EvType /\ out.error = "none"
      /\ ev.fetched = ev.written + InHand /\ (rcv.slot = "end" => rcv.pc = "done")
      /\ (rcv.pc = "put_end" \/ rcv.slot = "end") /\ st.request => st.term # "none" /\ ev.fetched >= st.promised
  BY DEF ServeHeartbeat, ServeEvent, ServeContextEnds, clientState, SSEInv, SSETypeOK, OutType,
      EvType, OutInv,
         RecvInv
<1>2. \/ rcv' = rcv /\ InHand' = InHand
      \/ /\ rcv.slot = "event" /\ rcv' = [rcv EXCEPT !.slot = "empty"] /\ rcv' \in RT
         /\ rcv'.pc = rcv.pc /\ rcv'.slot = "empty" /\ InHand = InHand' + 1 /\ InHand' \in Nat
  <2>1. rcv' = rcv => InHand' = InHand
    BY DEF InHand
  <2>2. ASSUME rcv.slot = "event", rcv' = [rcv EXCEPT !.slot = "empty"]
        PROVE  /\ rcv' \in RT /\ rcv'.pc = rcv.pc /\ rcv'.slot = "empty"
               /\ InHand = InHand' + 1 /\ InHand' \in Nat
    BY <1>1, <2>2 DEF InHand
  <2>3. rcv' = rcv \/ (rcv.slot = "event" /\ rcv' = [rcv EXCEPT !.slot = "empty"])
    BY DEF ServeHeartbeat, ServeEvent, ServeContextEnds
  <2> QED
    BY <2>1, <2>2, <2>3
<1> AnswerKept
  BY <1>1 DEF AnswerKept, Answered
<1>3. CASE /\ main' = "cleanup" /\ ev' = ev /\ out' \in OutType /\ out'.error = "none"
           /\ out'.body = "broken" \/ (~st.request /\ out' = out)
  <2>1. /\ ev' \in EvType /\ ev'.sent = ev.sent /\ ev'.accepted = ev.accepted /\ ev'.got = ev.got
        /\ ev'.fetched = ev.fetched /\ ev'.written = ev.written /\ ev'.written >= ev.written
    BY <1>3, SameEv
  <2>2. RecvInv'
    BY <1>1, <1>2, <1>3, <2>1 DEF RecvInv
  <2>3. OutInv'
    BY <1>1, <1>3 DEF OutInv, SSEInv
  <2> QED
    BY <1>1, <1>2, <1>3, <2>1, <2>2, <2>3, ServeFrame
<1>4. CASE main' = "loop" /\ ev' = ev /\ rcv' = rcv /\ out' = Writes(out, "committed", TRUE)
  <2>1. /\ ev' \in EvType /\ ev'.sent = ev.sent /\ ev'.accepted = ev.accepted /\ ev'.got = ev.got
        /\ ev'.fetched = ev.fetched /\ ev'.written = ev.written /\ ev'.written >= ev.written
    BY <1>4, SameEv
  <2>2. out' \in OutType /\ out'.error = out.error /\ out'.body = out.body
    BY <1>4, CommitFields
  <2>3. RecvInv' /\ OutInv'
    BY <1>1, <1>4, <2>1, <2>2, SameSt, RecvFrame, OutFrame
  <2> QED
    BY <1>1, <1>4, <2>1, <2>2, <2>3, ServeFrame
<1>5. CASE /\ main' = "loop" /\ rcv.slot = "event" /\ rcv' = [rcv EXCEPT !.slot = "empty"]
           /\ ev' = [ev EXCEPT !.written = @ + 1] /\ out' = Writes(out, "committed", TRUE)
  <2>1. /\ ev' \in EvType /\ ev'.sent = ev.sent /\ ev'.accepted = ev.accepted /\ ev'.got = ev.got
        /\ ev'.fetched = ev.fetched /\ ev'.written = ev.written + 1 /\ ev'.written >= ev.written
    BY <1>1, <1>5 DEF EvType
  <2>2. out' \in OutType /\ out'.error = out.error /\ out'.body = out.body
    BY <1>5, CommitFields
  <2>3. /\ rcv' \in RT /\ rcv'.pc = rcv.pc /\ rcv'.slot = "empty" /\ InHand = InHand' + 1 /\ InHand' \in Nat
    BY <1>1, <1>5 DEF InHand
  <2>4. ev'.fetched = ev'.written + InHand'
    BY <1>1, <2>1, <2>3 DEF EvType
  <2>5. RecvInv'
    BY <1>1, <1>5, <2>1, <2>3, <2>4 DEF RecvInv
  <2>6. OutInv'
    BY <1>1, <1>5, <2>1, <2>2, SameSt, OutFrame
  <2> QED
    BY <1>1, <1>5, <2>1, <2>2, <2>3, <2>5, <2>6, ServeFrame
<1>6. ASSUME out' = [out EXCEPT !.body = "broken"] PROVE out' \in OutType /\ out'.error = "none" /\ out'.body = "broken"
  BY <1>1, <1>6, BreakFields
<1>7. CASE ServeHeartbeat
  BY <1>1, <1>3, <1>4, <1>6, <1>7 DEF ServeHeartbeat
<1>8. CASE ServeEvent
  BY <1>1, <1>3, <1>5, <1>6, <1>8 DEF ServeEvent
<1>9. CASE ServeContextEnds
  BY <1>1, <1>3, <1>9 DEF ServeContextEnds
<1> QED
  BY <1>7, <1>8, <1>9

(* The last report of serveSSE. *)
LEMMA ServeEndsInv ==
  ASSUME SSEInv, ServeUnmarshalable \/ ServeEnd
  PROVE  SSEInv'
<1> DEFINE RT == [pc : {"recv", "put_event", "put_end", "done"}, slot : {"empty", "event", "end"}]
<1>1. /\ main = "loop" /\ main' = "cleanup" /\ st' = st /\ dial' = dial /\ csm' = csm /\ ev' = ev
      /\ rcv' = [rcv EXCEPT !.slot = "empty"] /\ rcv \in RT
  BY DEF ServeUnmarshalable, ServeEnd, clientState, SSEInv, SSETypeOK
<1>2. /\ out.error = "none" /\ out.body \in {"open", "broken"} /\ out \in OutType
      /\ ev.fetched = ev.written + InHand
  BY <1>1 DEF SSEInv, SSETypeOK, OutInv, OutType, RecvInv
<1>3. /\ ev' \in EvType /\ ev'.sent = ev.sent /\ ev'.accepted = ev.accepted /\ ev'.got = ev.got
      /\ ev'.fetched = ev.fetched /\ ev'.written = ev.written /\ ev'.written >= ev.written
  BY <1>1, SameEv
<1>4. rcv' \in RT /\ rcv'.pc = rcv.pc /\ rcv'.slot = "empty"
  BY <1>1
<1>5. RecvInv'
  BY <1>1, <1>3, <1>4 DEF SSEInv, RecvInv
<1> AnswerKept
  BY <1>1 DEF AnswerKept, Answered
<1>6. CASE ServeUnmarshalable
  <2>1. /\ out' \in OutType
        /\ \/ out'.error = "internal" /\ out'.body = "open"
           \/ out'.error = "none" /\ out'.body \in {"problem", "broken"}
    BY <1>2, <1>6, ReportFields DEF ServeUnmarshalable, ErrorCodes
  <2>2. OutInv'
    BY <1>1, <2>1 DEF OutInv
  <2> QED
    BY <1>1, <1>3, <1>4, <1>5, <2>1, <2>2, ServeFrame
<1>7. CASE ServeEnd /\ ~st.request
  <2>1. out' = out
    BY <1>7 DEF ServeEnd
  <2>2. OutInv'
    BY <1>1, <1>2, <1>7, <2>1 DEF OutInv
  <2> QED
    BY <1>1, <1>2, <1>3, <1>4, <1>5, <2>1, <2>2, ServeFrame
<1>8. CASE ServeEnd /\ st.request
  <2>1. rcv.slot = "end" /\ rcv.pc = "done" /\ st.term # "none" /\ ev.fetched >= st.promised
    BY <1>8 DEF ServeEnd, SSEInv, RecvInv
  <2>2. ev.written >= st.promised
    <3>1. InHand = 0 /\ ev \in EvType
      BY <2>1 DEF InHand, SSEInv, SSETypeOK, EvType
    <3> QED
      BY <1>2, <2>1, <3>1 DEF EvType
  <2>3. Ended(st.term)'
    BY <1>1, <2>2 DEF Ended
  <2>4. CASE st.term = "eof"
    <3>1. out' = Writes(out, "committed", TRUE)
      BY <1>8, <2>4 DEF ServeEnd
    <3>2. out' \in OutType /\ out'.error = "none" /\ out'.body \in {"open", "broken"}
      BY <1>2, <3>1, CommitFields
    <3>3. OutInv'
      BY <1>1, <2>3, <2>4, <3>2 DEF OutInv
    <3> QED
      BY <1>1, <1>3, <1>4, <1>5, <3>2, <3>3, ServeFrame
  <2>5. CASE st.term # "eof"
    <3>1. st.term \in ErrorCodes /\ st.term # "none" /\ Reports(st.term)
      BY <1>8, <2>1, <2>5 DEF ServeEnd, ErrorCodes, SSEInv, SSETypeOK
    <3>2. /\ out' \in OutType
          /\ \/ out'.error = st.term /\ out'.body = "open"
             \/ out'.error = "none" /\ out'.body \in {"problem", "broken"}
      BY <1>2, <3>1, ReportFields
    <3>3. OutInv'
      BY <1>1, <2>3, <3>1, <3>2 DEF OutInv
    <3> QED
      BY <1>1, <1>3, <1>4, <1>5, <3>2, <3>3, ServeFrame
  <2> QED
    BY <2>4, <2>5
<1> QED
  BY <1>6, <1>7, <1>8

(* The deferred calls: an open response ends here. *)
LEMMA ServeReturnsInv ==
  ASSUME SSEInv, ServeReturns
  PROVE  SSEInv'
<1>1. main = "cleanup" /\ ev' = ev /\ rcv' = rcv /\ dial' = dial /\ csm' = csm
  BY DEF ServeReturns, clientState
<1>2. CASE st.term = "none" /\ st' = StreamEnd(st, "unavailable") /\ main' = main /\ out' = out
  BY <1>1, <1>2, TimesOutInv
<1>3. CASE /\ main' = "returned" /\ st' = st
           /\ \E b \in {"ended", "problem"} : out' = [out EXCEPT !.body = IF @ = "open" THEN b ELSE @]
  <2>1. out \in OutType /\ rcv \in [pc : {"recv", "put_event", "put_end", "done"}, slot : {"empty", "event", "end"}]
    BY DEF SSEInv, SSETypeOK, OutType
  <2>2. /\ out' \in OutType /\ out'.error = out.error
        /\ out'.body = out.body \/ (out.body = "open" /\ out'.body \in {"ended", "problem"})
    BY <1>3, <2>1 DEF OutType
  <2>3. /\ ev' \in EvType /\ ev'.sent = ev.sent /\ ev'.accepted = ev.accepted /\ ev'.got = ev.got
        /\ ev'.fetched = ev.fetched /\ ev'.written = ev.written /\ ev'.written >= ev.written
    BY <1>1, SameEv
  <2>4. RecvInv'
    BY <1>1, <1>3, <2>3, SameSt, RecvFrame
  <2>5. \A t \in {"eof", "app"} : Ended(t) => Ended(t)'
    BY <1>3, <2>3 DEF Ended
  <2>6. out.body # "ended"
    BY <1>1 DEF SSEInv, OutInv
  <2>7. OutInv'
    BY <1>1, <1>3, <2>2, <2>5, <2>6 DEF SSEInv, OutInv
  <2> QED
    BY <1>1, <1>3, <2>1, <2>2, <2>3, <2>4, <2>7, ServeFrame DEF AnswerKept, Answered
<1>4. ASSUME out' = [out EXCEPT !.body = CASE @ # "open" -> @
                                          [] @ = "open" /\ out.committed -> "ended"
                                          [] OTHER -> "problem"]
      PROVE  \E b \in {"ended", "problem"} : out' = [out EXCEPT !.body = IF @ = "open" THEN b ELSE @]
  <2>1. CASE out.body # "open"
    BY <1>4, <2>1
  <2>2. CASE out.body = "open" /\ out.committed
    BY <1>4, <2>2
  <2>3. CASE out.body = "open" /\ ~out.committed
    BY <1>4, <2>3
  <2> QED
    BY <2>1, <2>2, <2>3
<1> QED
  BY <1>2, <1>3, <1>4 DEF ServeReturns

-----------------------------------------------------------------------------
(* The connection and the client. *)

(* Nothing of the server changes but that the response may break. *)
LEMMA ServerFrame ==
  ASSUME SSEInv, st' = st, rcv' = rcv, main' = main, out' \in {out, [out EXCEPT !.body = "broken"]},
         ev' \in EvType, ev'.sent = ev.sent, ev'.fetched = ev.fetched, ev'.written = ev.written,
         dial' \in [result : {"waiting", "ok", "failed"}, ready : {"none", "ok", "error"}],
         csm' \in [pc : {"request", "reading", "returned"}, term : ClientTerms, live : BOOLEAN, seen : ClientTerms],
         ClientInv'
  PROVE  SSEInv'
<1>1. out \in OutType /\ ev \in EvType
  BY DEF SSEInv, SSETypeOK, OutType, EvType
<1>2. out' \in OutType /\ out'.error = out.error /\ (out'.body = out.body \/ out'.body = "broken")
  BY <1>1, BreakFields
<1>3. ev'.sent >= ev.sent /\ ev'.written >= ev.written
  BY <1>1 DEF EvType
<1>4. SSETypeOK'
  BY <1>2 DEF SSEInv, SSETypeOK, EvType, OutType
<1>5. TermInv' /\ RecvInv' /\ OutInv'
  BY <1>2, <1>3, SameSt, TermFrame, RecvFrame, OutFrame
<1> QED
  BY <1>4, <1>5 DEF SSEInv

(* The handler of the client's stream returns: what it says of the service  *)
(* must be what the service did.                                            *)
LEMMA ClientEndsInv ==
  ASSUME SSEInv, NEW err \in ClientTerms \ {"none"}, ClientEnds(err),
         out' \in {out, [out EXCEPT !.body = "broken"]},
         err = "app" \/ (err = "eof" /\ st.request) => Ended(err),
         err \in {"eof", "app"} => csm.pc = "reading" /\ ev.accepted = ev.written /\ Answered
  PROVE  SSEInv'
<1> DEFINE CT == [pc : {"request", "reading", "returned"}, term : ClientTerms, live : BOOLEAN, seen : ClientTerms]
           DT == [result : {"waiting", "ok", "failed"}, ready : {"none", "ok", "error"}]
           new == IF csm.term # "none" THEN csm.term ELSE IF csm.live THEN err ELSE "unavailable"
<1>1. ev' = ev /\ st' = st /\ rcv' = rcv /\ main' = main /\ csm.pc \in {"request", "reading"}
  BY DEF ClientEnds, serverState
<1>2. csm \in CT /\ dial \in DT
  BY DEF SSEInv, SSETypeOK
<1>3. /\ csm' = [csm EXCEPT !.pc = "returned", !.term = new, !.live = FALSE]
      /\ dial' = IF csm.pc = "request" THEN [dial EXCEPT !.ready = "error"] ELSE dial
  BY DEF ClientEnds
<1>4. new \in ClientTerms /\ new # "none" /\ (csm.term # "none" => new = csm.term)
      /\ (csm.term = "none" /\ new \in {"eof", "app"} => new = err)
  BY <1>2 DEF ClientTerms, ErrorCodes
<1> HIDE DEF new
<1>5. csm' \in CT /\ csm'.pc = "returned" /\ csm'.term = new /\ csm'.live = FALSE /\ csm'.seen = csm.seen
  BY <1>2, <1>3, <1>4
<1>6. dial' \in DT /\ dial'.result = dial.result /\ (csm.pc = "reading" => dial' = dial)
  BY <1>1, <1>2, <1>3
<1>7. /\ ev' \in EvType /\ ev'.sent = ev.sent /\ ev'.accepted = ev.accepted /\ ev'.got = ev.got
      /\ ev'.fetched = ev.fetched /\ ev'.written = ev.written /\ ev'.written >= ev.written
  BY <1>1, SameEv
<1>8. csm.term \in {"eof", "app"} => csm.pc = "reading"
  BY <1>1 DEF SSEInv, ClientInv
<1>9. /\ new = "app" \/ (new = "eof" /\ st.request) =>
           st.result = new /\ st.term = new /\ ev.accepted >= st.promised
      /\ new \in {"eof", "app"} => dial'.ready = "ok" /\ ev.accepted = ev.written /\ Answered
  BY <1>1, <1>4, <1>6, <1>8 DEF SSEInv, ClientInv, TermInv, Ended
<1>10. Answered' = Answered
  BY <1>1 DEF Answered
<1>11. ClientInv'
  BY <1>1, <1>4, <1>5, <1>6, <1>7, <1>9, <1>10 DEF SSEInv, ClientInv
<1> QED
  BY <1>1, <1>5, <1>6, <1>7, <1>11, ServerFrame

LEMMA ClientReadsInv ==
  ASSUME SSEInv,
         \/ ClientRefused \/ ClientReadsEnd \/ ClientReadFails \/ ClientStopsReading
         \/ \E err \in {"invalid", "unauthenticated"} : ClientGivesUp(err)
  PROVE  SSEInv'
<1>1. CASE ClientRefused \/ ClientReadFails \/ ClientStopsReading
  <2>1. ClientEnds("unavailable") /\ out' \in {out, [out EXCEPT !.body = "broken"]}
    BY <1>1 DEF ClientRefused, ClientReadFails, ClientStopsReading
  <2>2. "unavailable" \in ClientTerms \ {"none"}
    BY DEF ClientTerms, ErrorCodes
  <2> QED
    BY <2>1, <2>2, ClientEndsInv
<1>2. CASE \E err \in {"invalid", "unauthenticated"} : ClientGivesUp(err)
  <2>1. PICK err \in {"invalid", "unauthenticated"} : ClientGivesUp(err)
    BY <1>2
  <2>2. ClientEnds(err) /\ out' \in {out, [out EXCEPT !.body = "broken"]}
    BY <2>1 DEF ClientGivesUp
  <2>3. err \in ClientTerms \ {"none"} /\ err \notin {"eof", "app"}
    BY DEF ClientTerms
  <2> QED
    BY <2>2, <2>3, ClientEndsInv
<1>3. CASE ClientReadsEnd
  <2>1. csm.pc = "reading" /\ ev.accepted = ev.written /\ out' = out
    BY <1>3 DEF ClientReadsEnd
  <2>2. CASE out.error # "none" /\ ClientEnds(out.error)
    <3>1. out.error \in ErrorCodes
      BY DEF SSEInv, SSETypeOK
    <3>2. out.error \in ClientTerms \ {"none"} /\ out.error # "eof"
      BY <2>2, <3>1 DEF ClientTerms, ErrorCodes
    <3>3. Answered /\ (out.error = "app" => Ended(out.error))
      BY <2>2 DEF SSEInv, SSETypeOK, OutInv, Answered
    <3>4. PICK err \in ClientTerms \ {"none"} : err = out.error
      BY <3>2
    <3> QED
      BY <2>1, <2>2, <3>2, <3>3, <3>4, ClientEndsInv
  <2>3. CASE out.error = "none" /\ out.body = "ended" /\ ClientEnds("eof")
    <3>1. Answered /\ (st.request => Ended("eof"))
      BY <2>3 DEF SSEInv, OutInv, Answered
    <3>2. "eof" \in ClientTerms \ {"none"}
      BY DEF ClientTerms
    <3> QED
      BY <2>1, <2>3, <3>1, <3>2, ClientEndsInv
  <2> QED
    BY <1>3, <2>2, <2>3 DEF ClientReadsEnd
<1> QED
  BY <1>1, <1>2, <1>3

(* The rest of the client: the response is established, events are read,    *)
(* the context ends, Dial returns, the caller receives.                     *)
LEMMA ClientOtherInv ==
  ASSUME SSEInv,
         \/ ClientEstablishes \/ ClientReadsEvent \/ CallerReceives \/ ClientContextOver
         \/ DialReturns \/ CallerSeesEnd
  PROVE  SSEInv'
<1> DEFINE CT == [pc : {"request", "reading", "returned"}, term : ClientTerms, live : BOOLEAN, seen : ClientTerms]
           DT == [result : {"waiting", "ok", "failed"}, ready : {"none", "ok", "error"}]
<1>1. st' = st /\ rcv' = rcv /\ main' = main /\ out' = out
  BY DEF ClientEstablishes, ClientReadsEvent, CallerReceives, ClientContextOver, DialReturns, CallerSeesEnd,
         serverState
<1>2. csm \in CT /\ dial \in DT /\ ev \in EvType /\ st.promised \in Nat
  BY DEF SSEInv, SSETypeOK, EvType
<1>3. "unavailable" \in ClientTerms
  BY DEF ClientTerms, ErrorCodes
<1> Answered' = Answered
  BY <1>1 DEF Answered
<1>4. ev' = ev =>
        /\ ev' \in EvType /\ ev'.sent = ev.sent /\ ev'.accepted = ev.accepted /\ ev'.got = ev.got
        /\ ev'.fetched = ev.fetched /\ ev'.written = ev.written /\ ev'.written >= ev.written
  BY SameEv
<1>5. CASE ClientReadsEvent \/ CallerReceives
  <2>1. dial' = dial /\ csm' = csm
    BY <1>5 DEF ClientReadsEvent, CallerReceives, clientState
  <2>2. ev' = [ev EXCEPT !.accepted = @ + 1] \/ ev' = [ev EXCEPT !.got = @ + 1]
    BY <1>5 DEF ClientReadsEvent, CallerReceives
  <2>3. /\ ev' \in EvType /\ ev'.sent = ev.sent /\ ev'.fetched = ev.fetched /\ ev'.written = ev.written
        /\ ev'.accepted = ev.accepted \/ csm.term = "none"
        /\ ev'.got = ev.got \/ ev.got < ev.accepted
    BY <1>2, <1>5, <2>2 DEF EvType, ClientReadsEvent, CallerReceives
  <2>4. ClientInv'
    BY <1>1, <2>1, <2>3, SameSt, SameMain, ClientFrame
  <2> QED
    BY <1>1, <1>2, <2>1, <2>3, <2>4, ServerFrame
<1>6. CASE ClientEstablishes
  <2>1. /\ ev' = ev /\ csm.pc = "request" /\ csm.live
        /\ csm' = [csm EXCEPT !.pc = "reading"] /\ dial' = [dial EXCEPT !.ready = "ok"]
    BY <1>6 DEF ClientEstablishes
  <2>2. /\ csm' \in CT /\ csm'.pc = "reading" /\ csm'.term = csm.term /\ csm'.live = csm.live
        /\ csm'.seen = csm.seen /\ dial' \in DT /\ dial'.ready = "ok" /\ dial'.result = dial.result
    BY <1>2, <2>1
  <2>3. ClientInv'
    BY <1>1, <1>4, <2>1, <2>2 DEF SSEInv, ClientInv
  <2> QED
    BY <1>1, <1>4, <2>1, <2>2, <2>3, ServerFrame
<1>7. CASE ClientContextOver
  <2>1. PICK t \in ClientTerms : t = IF csm.term = "none" THEN "unavailable" ELSE csm.term
    BY <1>2, <1>3
  <2>2. ev' = ev /\ csm.live /\ dial' = dial /\ csm' = [csm EXCEPT !.live = FALSE, !.term = t]
    BY <1>7, <2>1 DEF ClientContextOver
  <2>3. /\ csm' \in CT /\ csm'.pc = csm.pc /\ csm'.term = t /\ csm'.live = FALSE
        /\ csm'.seen = csm.seen
    BY <1>2, <2>2
  <2>4. csm.term = "none" /\ t = "unavailable" /\ csm.seen = "none"
    BY <1>2, <2>1, <2>2 DEF SSEInv, ClientInv
  <2>5. ClientInv'
    BY <1>1, <1>4, <2>2, <2>3, <2>4 DEF SSEInv, ClientInv
  <2> QED
    BY <1>1, <1>2, <1>4, <2>2, <2>3, <2>5, ServerFrame
<1>8. CASE DialReturns
  <2>1. PICK r \in {"ok", "failed"} : r = IF dial.ready = "ok" THEN "ok" ELSE "failed"
    OBVIOUS
  <2>2. ev' = ev /\ dial' = [dial EXCEPT !.result = r] /\ dial.result = "waiting"
    BY <1>8, <2>1 DEF DialReturns
  <2>3. dial' \in DT /\ dial'.result = r /\ dial'.ready = dial.ready
    BY <1>2, <2>2
  <2>4. CASE csm' = csm /\ (dial.ready = "ok" \/ csm.term # "none")
    <3>1. ClientInv'
      BY <1>1, <1>4, <2>1, <2>2, <2>3, <2>4 DEF SSEInv, ClientInv
    <3> QED
      BY <1>1, <1>2, <1>4, <2>2, <2>3, <2>4, <3>1, ServerFrame
  <2>5. CASE /\ csm.term = "none" /\ csm' = [csm EXCEPT !.term = "unavailable", !.live = FALSE]
             /\ dial.ready # "ok"
    <3>1. /\ csm' \in CT /\ csm'.pc = csm.pc /\ csm'.term = "unavailable" /\ csm'.live = FALSE
          /\ csm'.seen = csm.seen
      BY <1>2, <1>3, <2>5
    <3>2. csm.seen = "none"
      BY <2>5 DEF SSEInv, ClientInv
    <3>3. ClientInv'
      BY <1>1, <1>4, <2>2, <2>3, <2>5, <3>1, <3>2 DEF SSEInv, ClientInv
    <3> QED
      BY <1>1, <1>4, <2>2, <2>3, <3>1, <3>3, ServerFrame
  <2> QED
    BY <1>8, <2>4, <2>5 DEF DialReturns
<1>9. CASE CallerSeesEnd
  <2>1. /\ ev' = ev /\ dial' = dial /\ csm.term # "none" /\ ev.got = ev.accepted
        /\ csm' = [csm EXCEPT !.seen = csm.term]
    BY <1>9 DEF CallerSeesEnd
  <2>2. /\ csm' \in CT /\ csm'.pc = csm.pc /\ csm'.term = csm.term /\ csm'.live = csm.live
        /\ csm'.seen = csm.term
    BY <1>2, <2>1
  <2>3. ClientInv'
    BY <1>1, <1>4, <2>1, <2>2 DEF SSEInv, ClientInv
  <2> QED
    BY <1>1, <1>2, <1>4, <2>1, <2>2, <2>3, ServerFrame
<1> QED
  BY <1>5, <1>6, <1>7, <1>8, <1>9

LEMMA SSENextInv ==
  ASSUME SSEInv, [SSENext]_sseVars
  PROVE  SSEInv'
<1>1. CASE ServiceSends
  BY <1>1, ServiceSendsInv
<1>2. CASE ServiceTimesOut \/ RequestEnds
  BY <1>2, TimesOutInv, RequestEndsInv DEF ServiceTimesOut, clientState
<1>3. CASE \E err \in {"eof", "app"} : ServiceReturns(err)
  BY <1>3, ServiceReturnsInv
<1>4. CASE ServeRefuses \/ ServeOpens \/ ServeSends
  BY <1>4, ServeStartsInv
<1>5. CASE ServeHeartbeat \/ ServeEvent \/ ServeContextEnds
  BY <1>5, ServeWritesInv
<1>6. CASE ServeUnmarshalable \/ ServeEnd
  BY <1>6, ServeEndsInv
<1>7. CASE ServeReturns
  BY <1>7, ServeReturnsInv
<1>8. CASE RecvStep
  BY <1>8, RecvStepInv
<1>9. CASE ConnectionBreaks \/ UNCHANGED sseVars
  <2>1. /\ ev' = ev /\ st' = st /\ rcv' = rcv /\ main' = main /\ dial' = dial /\ csm' = csm
        /\ out' \in {out, [out EXCEPT !.body = "broken"]}
    BY <1>9 DEF ConnectionBreaks, sseVars, serverState, clientState
  <2>2. /\ ev' \in EvType /\ ev'.sent = ev.sent /\ ev'.fetched = ev.fetched /\ ev'.written = ev.written
    BY <2>1, SameEv
  <2>3. ClientInv'
    BY <2>1, <2>2, SameSt, SameMain, ClientFrame
  <2>4. /\ dial \in [result : {"waiting", "ok", "failed"}, ready : {"none", "ok", "error"}]
        /\ csm \in [pc : {"request", "reading", "returned"}, term : ClientTerms, live : BOOLEAN,
                     seen : ClientTerms]
    BY DEF SSEInv, SSETypeOK
  <2> QED
    BY <2>1, <2>2, <2>3, <2>4, ServerFrame
<1>10. CASE \/ ClientRefused \/ ClientReadsEnd \/ ClientReadFails \/ ClientStopsReading
            \/ \E err \in {"invalid", "unauthenticated"} : ClientGivesUp(err)
  BY <1>10, ClientReadsInv
<1>11. CASE \/ ClientEstablishes \/ ClientReadsEvent \/ CallerReceives \/ ClientContextOver
            \/ DialReturns \/ CallerSeesEnd
  BY <1>11, ClientOtherInv
<1> QED
  BY <1>1, <1>2, <1>3, <1>4, <1>5, <1>6, <1>7, <1>8, <1>9, <1>10, <1>11 DEF SSENext, ServeStep, ClientStep

(* SSEEndsAreTrue, for any number of events and any queue: the caller of an *)
(* SSE stream sees the service's error only when the handler returned it,   *)
(* EOF only when the handler did or the request's context ended before it,  *)
(* neither before the events that were accepted, or in that case written;   *)
(* and Dial never calls failed a stream that completed (sse.go:187-265,     *)
(* sse_client.go:43-154).                                                   *)
THEOREM SSEStreamsEndTruly == SSESpec => []SSEEndsAreTrue
<1>1. SSEInit => SSEInv
  BY SSEInitInv
<1>2. SSEInv /\ [SSENext]_sseVars => SSEInv'
  BY SSENextInv
<1>3. SSEInv => SSEEndsAreTrue
  BY DEF SSEInv, ClientInv, Answered, SSEEndsAreTrue
<1> QED
  BY <1>1, <1>2, <1>3, PTL DEF SSESpec

-----------------------------------------------------------------------------
(* The workers and the durable bus of an App. *)

AppErrors == SUBSET (StopHooks \cup {"connect", "listen", "context"})
AppRec == [phase : {"starting", "running", "stopping", "returned"}, hook : Nat, maxStage : 0..3,
           runCtx : BOOLEAN, busCtx : BOOLEAN, expired : BOOLEAN,
           errors : AppErrors]
WorkerRec == [state : {"idle", "running", "ended"}, res : {"none", "nil", "canceled", "error"},
              done : BOOLEAN, exit : {"none", "pending"}]

WorkersTypeOK ==
  /\ app \in AppRec
  /\ wk \in [WorkerNames -> WorkerRec]
  /\ exitCh \in WorkerNames \cup {"empty"}
  /\ busAt \in [connect : BOOLEAN, drained : BOOLEAN, close : BOOLEAN]
  /\ hooks \in [StopHooks -> {"idle", "running", "ok", "error"}]

(* How far the start came is told by the stage, and nothing stops before    *)
(* the start is over.                                                       *)
StartedInv ==
  /\ app.hook >= 1
  /\ app.phase = "starting" =>
       /\ app.hook = 1 <=> app.maxStage = 0
       /\ \A i \in 1..Len(Starts) :
            i >= app.hook /\ Starts[i] \in WorkerNames => wk[Starts[i]].state = "idle"
  /\ busAt.connect <=> app.maxStage >= 1
  /\ \A w \in WorkerNames : Started(w) => app.maxStage >= 2
  /\ app.phase \in {"starting", "running"} =>
       /\ ~app.expired /\ app.busCtx /\ app.errors = {} /\ ~busAt.close
       /\ \A h \in StopHooks : hooks[h] = "idle"

(* The result of a worker is in done until its stop hook takes it. *)
ResultInv ==
  /\ \A w \in WorkerNames :
       /\ wk[w].state # "ended" => wk[w].res = "none" /\ ~wk[w].done
       /\ wk[w].exit = "pending" => wk[w].res = "error"
       /\ wk[w].state = "ended" /\ hooks[w] \in {"idle", "running"} => wk[w].done
  /\ exitCh # "empty" => wk[exitCh].res = "error"

(* While the budget lasts no stop hook is left behind, and each that is     *)
(* over has done what it is for.                                            *)
StopHooksInv ==
  /\ \A i \in 1..Len(Stops) :
       /\ i < app.hook => hooks[Stops[i]] \in {"ok", "error"} \/ StageOf(Stops[i]) > app.maxStage
       /\ hooks[Stops[i]] # "idle" => ~(StageOf(Stops[i]) > app.maxStage)
       /\ i < app.hook /\ hooks[Stops[i]] = "error" => Stops[i] \in app.errors
       /\ i > app.hook => hooks[Stops[i]] = "idle"
  /\ hooks["cancel"] # "error"
  /\ \A w \in WorkerNames : hooks[w] \in {"ok", "error"} =>
       /\ wk[w].state # "running"
       /\ hooks[w] = "error" <=> wk[w].res = "error"
  /\ \A h \in StopHooks \cap app.errors : hooks[h] = "error" \/ (h \in WorkerNames /\ wk[h].res = "error")

BusInv ==
  /\ hooks["drain"] \in {"ok", "error"} /\ Started("consume") => busAt.drained
  /\ ~app.busCtx /\ Started("consume") => busAt.drained
  /\ hooks["close"] \in {"ok", "error"} => busAt.close = busAt.connect
  /\ busAt.close => busAt.connect /\ wk["consume"].state # "running"

StopInv == app.phase \in {"stopping", "returned"} /\ ~app.expired => StopHooksInv /\ BusInv

ReturnedInv == app.phase = "returned" => app.hook > Len(Stops)

WorkersInv == WorkersTypeOK /\ StartedInv /\ ResultInv /\ StopInv /\ ReturnedInv

LEMMA WorkerNamesAre ==
  /\ WorkerNames = {ModuleWorkers[k] : k \in 1..Len(ModuleWorkers)} \cup {"consume"}
  /\ WorkerNames \cap {"connect", "listen", "close", "cancel", "drain", "context", "empty"} = {}
  /\ ModuleWorkers \in Seq(WorkerNames) /\ Len(ModuleWorkers) \in Nat
  /\ "consume" \in WorkerNames /\ WorkerNames \subseteq StopHooks
  /\ {"drain", "cancel", "close"} \subseteq StopHooks
  /\ \A h \in StopHooks : h \notin {"connect", "listen", "context", "empty"}
<1>1. ModuleWorkers \in Seq(ToSet(ModuleWorkers)) /\ ToSet(ModuleWorkers) \subseteq WorkerNames
  BY WorkersAssumption DEF WorkerNames
<1>2. ModuleWorkers \in Seq(WorkerNames) /\ Len(ModuleWorkers) \in Nat
  BY <1>1
<1>3. ToSet(ModuleWorkers) = {ModuleWorkers[k] : k \in 1..Len(ModuleWorkers)}
  BY <1>2 DEF ToSet
<1> QED
  BY <1>2, <1>3, WorkersAssumption DEF WorkerNames, StopHooks

LEMMA StagesAre ==
  /\ StageOf("connect") = 1 /\ StageOf("close") = 1 /\ StageOf("listen") = 3
  /\ \A h \in WorkerNames \cup {"cancel", "drain"} : StageOf(h) = 2
BY WorkerNamesAre DEF StageOf

(* Connect is first, the listener last, and between them are workers.       *)
LEMMA StartsAre ==
  \E n \in Nat :
    /\ n >= 3 /\ Len(Starts) = n /\ Starts[1] = "connect" /\ Starts[n] = "listen"
    /\ \A i \in 2..(n - 1) : Starts[i] \in WorkerNames
    /\ \A i, j \in 1..n : Starts[i] = Starts[j] => i = j
<1> DEFINE S == WorkerNames \cup {"connect", "listen"}
<1>1. PICK m \in Nat, v \in Seq(S) :
        m = Len(ModuleWorkers) /\ v = ModuleWorkers /\ \A i \in 1..m : v[i] \in WorkerNames
  <2>1. ModuleWorkers \in Seq(WorkerNames) /\ WorkerNames \subseteq S /\ Len(ModuleWorkers) \in Nat
    BY WorkerNamesAre
  <2>2. ModuleWorkers \in Seq(S) /\ \A i \in 1..Len(ModuleWorkers) : ModuleWorkers[i] \in WorkerNames
    <3> HIDE DEF S
    <3> QED
      BY <2>1
  <2> QED
    BY <2>1, <2>2
<1>2. <<"connect">> \in Seq(S) /\ <<"consume", "listen">> \in Seq(S)
  BY WorkerNamesAre
<1> HIDE DEF S
<1>3. /\ (<<"connect">> \o v) \in Seq(S) /\ Len(<<"connect">> \o v) = m + 1
      /\ (<<"connect">> \o v)[1] = "connect"
      /\ \A i \in 2..(m + 1) : (<<"connect">> \o v)[i] = v[i - 1]
  BY <1>1, <1>2
<1>4. PICK u \in Seq(S) : u = <<"connect">> \o v
  BY <1>3
<1>5. Starts = u \o <<"consume", "listen">>
  BY <1>1, <1>4 DEF Starts
<1>6. /\ Len(Starts) = m + 3 /\ Starts[m + 2] = "consume" /\ Starts[m + 3] = "listen"
      /\ \A i \in 1..(m + 1) : Starts[i] = u[i]
  BY <1>2, <1>3, <1>4, <1>5
<1>7. \A i \in 2..(m + 2) : Starts[i] \in WorkerNames
  <2> SUFFICES ASSUME NEW i \in 2..(m + 2) PROVE Starts[i] \in WorkerNames
    OBVIOUS
  <2>1. CASE i = m + 2
    BY <1>6, <2>1, WorkerNamesAre
  <2>2. CASE i # m + 2
    <3>1. i \in 2..(m + 1) /\ i \in 1..(m + 1) /\ i - 1 \in 1..m
      BY <2>2
    <3> QED
      BY <1>1, <1>3, <1>4, <1>6, <3>1
  <2> QED
    BY <2>1, <2>2
<1>8. Starts[1] = "connect"
  BY <1>3, <1>4, <1>6
<1>9. m + 3 \in Nat /\ m + 3 >= 3 /\ (m + 3) - 1 = m + 2
  OBVIOUS
<1>10. \A i \in 2..(m + 1) : Starts[i] = v[i - 1]
  <2> SUFFICES ASSUME NEW i \in 2..(m + 1) PROVE Starts[i] = v[i - 1]
    OBVIOUS
  <2>1. i \in 1..(m + 1)
    OBVIOUS
  <2> QED
    BY <1>3, <1>4, <1>6, <2>1
<1>11. \A i \in 2..(m + 1) : Starts[i] \notin {"connect", "consume", "listen"}
  <2> SUFFICES ASSUME NEW i \in 2..(m + 1) PROVE Starts[i] \notin {"connect", "consume", "listen"}
    OBVIOUS
  <2>1. i - 1 \in 1..m
    OBVIOUS
  <2>2. v[i - 1] \in ToSet(ModuleWorkers)
    <3>1. PICK k \in 1..m : k = i - 1
      BY <2>1
    <3>2. v[k] \in ToSet(ModuleWorkers)
      BY <1>1, <3>1 DEF ToSet
    <3> QED
      BY <3>1, <3>2
  <2> QED
    BY <1>10, <2>2, WorkersAssumption
<1>12. \A i, j \in 2..(m + 1) : Starts[i] = Starts[j] => i = j
  <2> SUFFICES ASSUME NEW i \in 2..(m + 1), NEW j \in 2..(m + 1), Starts[i] = Starts[j] PROVE i = j
    OBVIOUS
  <2>1. i - 1 \in 1..m /\ j - 1 \in 1..m
    OBVIOUS
  <2>2. i - 1 = j - 1
    BY <1>1, <1>10, <2>1, WorkersAssumption
  <2> QED
    BY <2>2
<1>13. \A i, j \in 1..(m + 3) : Starts[i] = Starts[j] => i = j
  <2> SUFFICES ASSUME NEW i \in 1..(m + 3), NEW j \in 1..(m + 3), Starts[i] = Starts[j] PROVE i = j
    OBVIOUS
  <2>1. \A k \in 1..(m + 3) : k \in {1, m + 2, m + 3} \/ k \in 2..(m + 1)
    OBVIOUS
  <2>2. {1, m + 2, m + 3} \cap 2..(m + 1) = {}
    OBVIOUS
  <2> QED
    BY <1>6, <1>8, <1>11, <1>12, <2>1, <2>2
<1> QED
  BY <1>6, <1>7, <1>8, <1>9, <1>13

(* Drain, then the cancellation, then workers, of which the bus is first,   *)
(* and Close; each once.                                                    *)
LEMMA StopsAre ==
  \E n \in Nat :
    /\ n >= 4 /\ Len(Stops) = n
    /\ Stops[1] = "drain" /\ Stops[2] = "cancel" /\ Stops[3] = "consume" /\ Stops[n] = "close"
    /\ \A i \in 3..(n - 1) : Stops[i] \in WorkerNames
    /\ \A w \in WorkerNames : \E i \in 3..(n - 1) : Stops[i] = w
    /\ \A i, j \in 1..n : Stops[i] = Stops[j] => i = j
<1> DEFINE S == StopHooks
<1>1. PICK m \in Nat, v \in Seq(S) :
        m = Len(ModuleWorkers) /\ v = ModuleWorkers /\ \A i \in 1..m : v[i] \in WorkerNames
  BY WorkerNamesAre
<1>2. <<"consume", "cancel", "drain">> \in Seq(S) /\ <<"close">> \in Seq(S)
  BY WorkerNamesAre
<1> HIDE DEF S
<1>3. PICK u \in Seq(S) : u = v \o <<"consume", "cancel", "drain">>
  <2>1. v \o <<"consume", "cancel", "drain">> \in Seq(S)
    BY <1>1, <1>2
  <2> QED
    BY <2>1
<1>4. /\ Len(u) = m + 3 /\ u[m + 1] = "consume" /\ u[m + 2] = "cancel" /\ u[m + 3] = "drain"
      /\ \A i \in 1..m : u[i] = v[i]
  BY <1>1, <1>2, <1>3
<1>5. PICK r \in Seq(S) : r = Reverse(u)
  <2>1. \A i \in 1..(m + 3) : u[(m + 3 - i) + 1] \in S
    <3> SUFFICES ASSUME NEW i \in 1..(m + 3) PROVE u[(m + 3 - i) + 1] \in S
      OBVIOUS
    <3>1. (m + 3 - i) + 1 \in 1..(m + 3)
      OBVIOUS
    <3> QED
      BY <1>4, <3>1
  <2>2. [i \in 1..(m + 3) |-> u[(m + 3 - i) + 1]] \in Seq(S)
    BY <2>1
  <2> QED
    <3>1. Reverse(u) = [i \in 1..(m + 3) |-> u[(m + 3 - i) + 1]]
      BY <1>4 DEF Reverse
    <3> QED
      BY <2>2, <3>1, Zenon
<1>6. Len(r) = m + 3 /\ \A i \in 1..(m + 3) : r[i] = u[m + 4 - i]
  <2>1. \A i \in 1..(m + 3) : (m + 3 - i) + 1 = m + 4 - i
    OBVIOUS
  <2> QED
    BY <1>4, <1>5, <2>1 DEF Reverse
<1>7. Reverse(<<"close">>) = <<"close">>
  BY DEF Reverse
<1>8. Stops = r \o <<"close">>
  <2>1. RegisteredStops(1) = <<"close">> /\ RegisteredStops(2) = ModuleWorkers \o <<"consume", "cancel", "drain">>
    BY DEF RegisteredStops
  <2> QED
    BY <1>1, <1>3, <1>5, <1>7, <2>1, Zenon DEF Stops
<1>9. Len(Stops) = m + 4 /\ Stops[m + 4] = "close" /\ \A i \in 1..(m + 3) : Stops[i] = r[i]
  BY <1>2, <1>6, <1>8
<1>10. \A i \in 1..(m + 3) : Stops[i] = u[m + 4 - i]
  BY <1>6, <1>9
<1>11. Stops[1] = "drain" /\ Stops[2] = "cancel" /\ Stops[3] = "consume"
  <2>1. /\ 1 \in 1..(m + 3) /\ 2 \in 1..(m + 3) /\ 3 \in 1..(m + 3)
        /\ m + 4 - 1 = m + 3 /\ m + 4 - 2 = m + 2 /\ m + 4 - 3 = m + 1
    OBVIOUS
  <2> QED
    BY <1>4, <1>10, <2>1
<1>12. \A i \in 4..(m + 3) : Stops[i] = v[m + 4 - i]
  <2> SUFFICES ASSUME NEW i \in 4..(m + 3) PROVE Stops[i] = v[m + 4 - i]
    OBVIOUS
  <2>1. i \in 1..(m + 3) /\ m + 4 - i \in 1..m
    OBVIOUS
  <2> QED
    BY <1>4, <1>10, <2>1
<1>13. \A i \in 4..(m + 3) : Stops[i] \in WorkerNames /\ Stops[i] # "consume"
  <2> SUFFICES ASSUME NEW i \in 4..(m + 3) PROVE Stops[i] \in WorkerNames /\ Stops[i] # "consume"
    OBVIOUS
  <2>1. m + 4 - i \in 1..m
    OBVIOUS
  <2>2. v[m + 4 - i] \in ToSet(ModuleWorkers)
    <3>1. PICK k \in 1..m : k = m + 4 - i
      BY <2>1
    <3>2. v[k] \in ToSet(ModuleWorkers)
      BY <1>1, <3>1 DEF ToSet
    <3> QED
      BY <3>1, <3>2
  <2> QED
    BY <1>1, <1>12, <2>1, <2>2, WorkersAssumption
<1>14. \A w \in WorkerNames : \E i \in 3..(m + 3) : Stops[i] = w
  <2> SUFFICES ASSUME NEW w \in WorkerNames PROVE \E i \in 3..(m + 3) : Stops[i] = w
    OBVIOUS
  <2>1. CASE w = "consume"
    BY <1>11, <2>1
  <2>2. CASE w # "consume"
    <3>1. PICK k \in 1..m : w = v[k]
      BY <1>1, <2>2, WorkerNamesAre
    <3>2. m + 4 - k \in 4..(m + 3) /\ m + 4 - (m + 4 - k) = k
      OBVIOUS
    <3>3. Stops[m + 4 - k] = w
      BY <1>12, <3>1, <3>2
    <3> QED
      BY <3>2, <3>3
  <2> QED
    BY <2>1, <2>2
<1>15. \A i, j \in 4..(m + 3) : Stops[i] = Stops[j] => i = j
  <2> SUFFICES ASSUME NEW i \in 4..(m + 3), NEW j \in 4..(m + 3), Stops[i] = Stops[j] PROVE i = j
    OBVIOUS
  <2>1. m + 4 - i \in 1..m /\ m + 4 - j \in 1..m
    OBVIOUS
  <2>2. m + 4 - i = m + 4 - j
    BY <1>1, <1>12, <2>1, WorkersAssumption
  <2> QED
    BY <2>2
<1>16. \A i, j \in 1..(m + 4) : Stops[i] = Stops[j] => i = j
  <2> SUFFICES ASSUME NEW i \in 1..(m + 4), NEW j \in 1..(m + 4), Stops[i] = Stops[j] PROVE i = j
    OBVIOUS
  <2>1. \A k \in 1..(m + 4) : k \in {1, 2, 3, m + 4} \/ k \in 4..(m + 3)
    OBVIOUS
  <2>2. \A k \in 4..(m + 3) : Stops[k] \notin {"drain", "cancel", "consume", "close"}
    BY <1>13, WorkerNamesAre
  <2>3. {1, 2, 3, m + 4} \cap 4..(m + 3) = {}
    OBVIOUS
  <2> QED
    BY <1>9, <1>11, <1>15, <2>1, <2>2, <2>3
<1>17. \A i \in 3..(m + 3) : Stops[i] \in WorkerNames
  <2>1. \A i \in 3..(m + 3) : i = 3 \/ i \in 4..(m + 3)
    OBVIOUS
  <2>2. Stops[3] \in WorkerNames
    BY <1>11, WorkerNamesAre
  <2> QED
    BY <1>13, <2>1, <2>2
<1>18. m + 4 \in Nat /\ m + 4 >= 4 /\ (m + 4) - 1 = m + 3
  OBVIOUS
<1> QED
  BY <1>9, <1>11, <1>14, <1>16, <1>17, <1>18

LEMMA WorkersInitInv == WorkersInit => WorkersInv
<1> SUFFICES ASSUME WorkersInit PROVE WorkersInv
  OBVIOUS
<1>1. app = [phase |-> "starting", hook |-> 1, maxStage |-> 0, runCtx |-> TRUE, busCtx |-> TRUE,
             expired |-> FALSE, errors |-> {}]
  BY DEF WorkersInit
<1>2. \A w \in WorkerNames :
        wk[w].state = "idle" /\ wk[w].res = "none" /\ ~wk[w].done /\ wk[w].exit = "none"
  BY DEF WorkersInit
<1>3. WorkersTypeOK
  BY <1>1 DEF WorkersInit, WorkersTypeOK, AppRec, AppErrors, WorkerRec
<1> QED
  BY <1>1, <1>2, <1>3, WorkerNamesAre
  DEF WorkersInit, WorkersInv, StartedInv, ResultInv, StopInv, ReturnedInv, Started

LEMMA AppAdvances ==
  ASSUME NEW a \in AppRec, NEW s \in 0..3, NEW n \in Nat
  PROVE  [a EXCEPT !.maxStage = s, !.hook = n] \in AppRec
<1>1. [a EXCEPT !.maxStage = s] \in AppRec
  BY DEF AppRec
<1>2. PICK q \in AppRec : q = [a EXCEPT !.maxStage = s]
  BY <1>1
<1> QED
  BY <1>2 DEF AppRec

LEMMA AppStops ==
  ASSUME NEW a \in AppRec, NEW s \in 0..3, NEW e \in AppErrors, NEW r \in BOOLEAN
  PROVE  [a EXCEPT !.maxStage = s, !.phase = "stopping", !.hook = 1, !.runCtx = r, !.errors = e] \in AppRec
BY DEF AppRec, AppErrors

(* What hook of the start is next.                                          *)
StartIs(k, h, s) ==
  /\ k = app.hook /\ h = Starts[k] /\ k \in 1..Len(Starts) /\ s = StageOf(h) /\ s \in 1..3
  /\ h \in WorkerNames => s = 2 /\ k > 1 /\ wk[h].state = "idle"
  /\ k = 1 <=> h = "connect"
  /\ h = "listen" => s = 3
  /\ h \in WorkerNames \cup {"connect", "listen"}
  /\ \A i \in 1..Len(Starts) : i > k => Starts[i] # h

(* When a shutdown begins no stop hook has run.                             *)
LEMMA StopHooksIdle ==
  ASSUME app' \in AppRec, app'.phase = "stopping", app'.hook = 1, app'.busCtx, ~busAt'.close,
         \A h \in StopHooks : hooks'[h] = "idle",
         \A h \in StopHooks \cap app'.errors : h \in WorkerNames /\ wk'[h].res = "error"
  PROVE  StopInv'
<1>1. PICK n \in Nat : Len(Stops) = n /\ Stops' = Stops /\ \A i \in 1..n : Stops[i] \in StopHooks
  <2>1. PICK n \in Nat :
          /\ n >= 4 /\ Len(Stops) = n
          /\ Stops[1] = "drain" /\ Stops[2] = "cancel" /\ Stops[n] = "close"
          /\ \A i \in 3..(n - 1) : Stops[i] \in WorkerNames
    BY StopsAre
  <2>2. \A i \in 1..n : i \in {1, 2, n} \/ i \in 3..(n - 1)
    BY <2>1
  <2>3. Stops' = Stops
    BY DEF Stops, RegisteredStops
  <2> QED
    BY <2>1, <2>2, <2>3, WorkerNamesAre
<1>2. \A i \in 1..n : ~(i < app'.hook) /\ hooks'[Stops[i]] = "idle"
  BY <1>1
<1>3. \A h \in {"drain", "cancel", "close"} : hooks'[h] = "idle"
  BY WorkerNamesAre
<1>4. \A w \in WorkerNames : hooks'[w] = "idle"
  BY WorkerNamesAre
<1>5. StopHooksInv'
  BY <1>1, <1>2, <1>3, <1>4 DEF StopHooksInv
<1>6. BusInv'
  BY <1>3 DEF BusInv
<1> QED
  BY <1>5, <1>6 DEF StopInv

LEMMA StartIsOne ==
  ASSUME WorkersInv, StartHook
  PROVE  \E k \in Nat : \E s \in 1..3 : StartIs(k, Starts[k], s)
<1>1. PICK n \in Nat :
        /\ n >= 3 /\ Len(Starts) = n /\ Starts[1] = "connect" /\ Starts[n] = "listen"
        /\ \A i \in 2..(n - 1) : Starts[i] \in WorkerNames
        /\ \A i, j \in 1..n : Starts[i] = Starts[j] => i = j
  BY StartsAre
<1>2. PICK k \in Nat : k = app.hook /\ k \in 1..n
  BY <1>1 DEF WorkersInv, WorkersTypeOK, AppRec, StartHook, StartedInv
<1>3. PICK h : h = Starts[k]
  OBVIOUS
<1>4. PICK s \in 1..3 : s = StageOf(h) /\ (h \in WorkerNames => s = 2) /\ (h = "listen" => s = 3)
                        /\ h \in WorkerNames \cup {"connect", "listen"}
  <2>1. h = "connect" \/ h = "listen" \/ h \in WorkerNames
    BY <1>1, <1>2, <1>3
  <2> QED
    BY <2>1, StagesAre, WorkerNamesAre
<1>5. h \in WorkerNames => wk[h].state = "idle"
  BY <1>1, <1>2, <1>3 DEF WorkersInv, StartedInv, StartHook
<1>6. k = 1 <=> h = "connect"
  BY <1>1, <1>2, <1>3
<1>7. \A i \in 1..n : i > k => Starts[i] # h
  BY <1>1, <1>2, <1>3
<1> QED
  <2>1. StartIs(k, Starts[k], s)
    <3>1. k = app.hook /\ k \in 1..Len(Starts) /\ s = StageOf(h) /\ s \in 1..3
      BY <1>1, <1>2, <1>4
    <3>2. h \in WorkerNames => h # "connect"
      BY WorkerNamesAre
    <3>3. h \in WorkerNames => s = 2 /\ k > 1 /\ wk[h].state = "idle"
      BY <1>2, <1>4, <1>5, <1>6, <3>2
    <3> QED
      BY <1>1, <1>3, <1>4, <1>6, <1>7, <3>1, <3>3 DEF StartIs
  <2> QED
    BY <2>1

LEMMA StartHookInv ==
  ASSUME WorkersInv, StartHook
  PROVE  WorkersInv'
<1>0. PICK k \in Nat, s \in 1..3 : StartIs(k, Starts[k], s)
  BY StartIsOne
<1>1. PICK h : StartIs(k, h, s)
  BY <1>0
<1>2. PICK a \in AppRec : a = app
  BY DEF WorkersInv, WorkersTypeOK
<1>3. PICK n \in Nat : n = Len(Starts)
  BY StartsAre
<1>4. /\ a.phase = "starting" /\ a.hook = k /\ k \in 1..n /\ UNCHANGED <<exitCh, hooks>>
      /\ ~busAt.close /\ ~a.expired /\ a.busCtx /\ a.errors = {}
      /\ \A x \in StopHooks : hooks[x] = "idle"
      /\ busAt' = [busAt EXCEPT !.connect = @ \/ h = "connect"]
  BY <1>1, <1>2, <1>3 DEF StartHook, WorkersInv, StartedInv, StartIs
<1>5. /\ busAt' \in [connect : BOOLEAN, drained : BOOLEAN, close : BOOLEAN]
      /\ busAt'.connect /\ busAt'.drained = busAt.drained /\ busAt'.close = busAt.close
  <2>1. PICK b \in [connect : BOOLEAN, drained : BOOLEAN, close : BOOLEAN] : b = busAt
    BY DEF WorkersInv, WorkersTypeOK
  <2>2. b.connect \/ h = "connect"
    <3>1. CASE k = 1
      BY <1>1, <3>1 DEF StartIs
    <3>2. CASE k # 1
      <4>1. a.maxStage # 0 /\ a.maxStage \in 0..3
        BY <1>2, <1>4, <3>2 DEF WorkersInv, StartedInv, AppRec
      <4>2. a.maxStage >= 1
        BY <4>1
      <4> QED
        BY <1>2, <2>1, <4>2 DEF WorkersInv, StartedInv
    <3> QED
      BY <3>1, <3>2
  <2>3. busAt' = [b EXCEPT !.connect = TRUE]
    BY <1>4, <2>1, <2>2
  <2> QED
    BY <2>1, <2>3
<1>6. \/ /\ app' = [a EXCEPT !.maxStage = s, !.hook = k + 1]
         /\ wk' = IF h \in WorkerNames THEN [wk EXCEPT ![h].state = "running"] ELSE wk
      \/ /\ h \in {"connect", "listen"}
         /\ app' = [a EXCEPT !.maxStage = s, !.phase = "stopping", !.hook = 1, !.runCtx = FALSE,
                             !.errors = {h}]
         /\ wk' = wk
  <2>1. PICK q \in AppRec : q = [a EXCEPT !.maxStage = s]
    <3>1. [a EXCEPT !.maxStage = s] \in AppRec
      BY DEF AppRec
    <3> QED
      BY <3>1
  <2>2. q.hook = k
    BY <1>4, <2>1 DEF AppRec
  <2>3. \/ /\ app' = [q EXCEPT !.hook = k + 1]
           /\ wk' = IF h \in WorkerNames THEN [wk EXCEPT ![h].state = "running"] ELSE wk
        \/ /\ h \in {"connect", "listen"}
           /\ app' = [q EXCEPT !.phase = "stopping", !.hook = 1, !.runCtx = FALSE, !.errors = {h}]
           /\ wk' = wk
    BY <1>1, <1>2, <2>1, <2>2 DEF StartHook, StartIs
  <2> QED
    BY <2>1, <2>3 DEF AppRec
<1>7. CASE /\ app' = [a EXCEPT !.maxStage = s, !.hook = k + 1]
           /\ wk' = IF h \in WorkerNames THEN [wk EXCEPT ![h].state = "running"] ELSE wk
  <2>1. /\ app' \in AppRec /\ app'.phase = "starting" /\ app'.hook = k + 1 /\ app'.maxStage = s
        /\ ~app'.expired /\ app'.busCtx /\ app'.errors = {}
    <3>1. PICK m \in Nat : m = k + 1
      OBVIOUS
    <3>2. app' = [a EXCEPT !.maxStage = s, !.hook = m]
      BY <1>7, <3>1
    <3>3. app' \in AppRec
      <4>1. [a EXCEPT !.maxStage = s, !.hook = m] \in AppRec
        <5>1. s \in 0..3
          OBVIOUS
        <5> QED
          BY <5>1, AppAdvances
      <4> QED
        BY <3>2, <4>1
    <3>4. /\ app'.phase = a.phase /\ app'.hook = m /\ app'.maxStage = s /\ app'.expired = a.expired
          /\ app'.busCtx = a.busCtx /\ app'.errors = a.errors
      BY <3>2 DEF AppRec
    <3> QED
      BY <1>4, <3>1, <3>3, <3>4
  <2>2. /\ wk' \in [WorkerNames -> WorkerRec]
        /\ \A w \in WorkerNames : /\ wk'[w].res = wk[w].res /\ wk'[w].exit = wk[w].exit
                                  /\ wk'[w].done = wk[w].done
                                  /\ w # h => wk'[w].state = wk[w].state
                                  /\ w = h => wk'[w].state = "running"
    <3>1. wk \in [WorkerNames -> WorkerRec]
      BY DEF WorkersInv, WorkersTypeOK
    <3>2. CASE h \notin WorkerNames
      BY <1>7, <3>1, <3>2
    <3>3. CASE h \in WorkerNames
      <4>1. PICK r \in WorkerRec : r = wk[h]
        BY <3>1, <3>3
      <4>2. PICK q \in WorkerRec : q = [r EXCEPT !.state = "running"]
        BY DEF WorkerRec
      <4>3. wk' = [wk EXCEPT ![h] = q]
        BY <1>7, <3>3, <4>1, <4>2
      <4>4. q.res = r.res /\ q.exit = r.exit /\ q.done = r.done /\ q.state = "running"
        BY <4>2 DEF WorkerRec
      <4> QED
        BY <3>1, <3>3, <4>1, <4>3, <4>4
    <3> QED
      BY <3>2, <3>3
  <2>3. h \in WorkerNames => wk[h].state = "idle"
    BY <1>1 DEF StartIs
  <2>4. WorkersTypeOK' /\ StopInv' /\ ReturnedInv'
    BY <1>4, <1>5, <2>1, <2>2 DEF WorkersInv, WorkersTypeOK, StopInv, ReturnedInv
  <2>5. ResultInv'
    <3>1. exitCh' = exitCh /\ exitCh \in WorkerNames \cup {"empty"}
      BY <1>4 DEF WorkersInv, WorkersTypeOK
    <3>2. \A w \in WorkerNames : /\ wk'[w].state # "ended" => wk'[w].res = "none" /\ ~wk'[w].done
                                 /\ wk'[w].exit = "pending" => wk'[w].res = "error"
      BY <2>2, <2>3 DEF WorkersInv, ResultInv
    <3>3. \A w \in WorkerNames : wk'[w].state = "ended" /\ hooks'[w] \in {"idle", "running"} => wk'[w].done
      BY <1>4, <2>2 DEF WorkersInv, ResultInv
    <3>4. exitCh' # "empty" => wk'[exitCh'].res = "error"
      BY <2>2, <3>1 DEF WorkersInv, ResultInv
    <3> QED
      BY <3>2, <3>3, <3>4 DEF ResultInv
  <2>6. StartedInv'
    <3>1. k + 1 >= 1 /\ k + 1 # 1 /\ s # 0 /\ s >= 1
      BY <1>4
    <3>2. \A w \in WorkerNames : Started(w)' => s >= 2
      <4> SUFFICES ASSUME NEW w \in WorkerNames, wk'[w].state # "idle" PROVE s >= 2
        BY DEF Started
      <4>1. CASE w = h
        BY <1>1, <4>1 DEF StartIs
      <4>2. CASE w # h
        <5>1. a.maxStage >= 2
          BY <1>2, <2>2, <4>2 DEF WorkersInv, StartedInv, Started
        <5>2. k # 1
          BY <1>2, <1>4, <5>1 DEF WorkersInv, StartedInv
        <5> QED
          BY <1>1, <5>2 DEF StartIs
      <4> QED
        BY <4>1, <4>2
    <3>3. \A i \in 1..n : i >= k + 1 /\ Starts[i] \in WorkerNames => wk'[Starts[i]].state = "idle"
      <4> SUFFICES ASSUME NEW i \in 1..n, i >= k + 1, Starts[i] \in WorkerNames
                   PROVE  wk'[Starts[i]].state = "idle"
        OBVIOUS
      <4>1. i > k /\ i >= k
        OBVIOUS
      <4>2. Starts[i] # h
        BY <1>1, <1>3, <4>1 DEF StartIs
      <4>3. wk[Starts[i]].state = "idle"
        BY <1>2, <1>3, <1>4, <4>1 DEF WorkersInv, StartedInv
      <4> QED
        BY <2>2, <4>2, <4>3
    <3>4. Starts' = Starts
      BY DEF Starts
    <3> QED
      BY <1>3, <1>4, <1>5, <2>1, <3>1, <3>2, <3>3, <3>4 DEF StartedInv, Started
  <2> QED
    BY <2>4, <2>5, <2>6 DEF WorkersInv
<1>8. CASE /\ h \in {"connect", "listen"}
           /\ app' = [a EXCEPT !.maxStage = s, !.phase = "stopping", !.hook = 1, !.runCtx = FALSE,
                               !.errors = {h}]
           /\ wk' = wk
  <2>1. /\ app' \in AppRec /\ app'.phase = "stopping" /\ app'.hook = 1 /\ app'.maxStage = s
        /\ ~app'.expired /\ app'.busCtx /\ app'.errors = {h}
    <3>1. PICK e \in AppErrors : e = {h}
      BY <1>8 DEF AppErrors
    <3>2. app' = [a EXCEPT !.maxStage = s, !.phase = "stopping", !.hook = 1, !.runCtx = FALSE, !.errors = e]
      BY <1>8, <3>1
    <3>3. app' \in AppRec
      <4>1. [a EXCEPT !.maxStage = s, !.phase = "stopping", !.hook = 1, !.runCtx = FALSE, !.errors = e] \in AppRec
        <5>1. s \in 0..3 /\ FALSE \in BOOLEAN
          OBVIOUS
        <5> QED
          BY <5>1, AppStops
      <4> QED
        BY <3>2, <4>1
    <3>4. /\ app'.phase = "stopping" /\ app'.hook = 1 /\ app'.maxStage = s /\ app'.expired = a.expired
          /\ app'.busCtx = a.busCtx /\ app'.errors = e
      BY <3>2 DEF AppRec
    <3> QED
      BY <1>4, <3>1, <3>3, <3>4
  <2>2. WorkersTypeOK' /\ ReturnedInv' /\ ResultInv'
    BY <1>4, <1>5, <1>8, <2>1 DEF WorkersInv, WorkersTypeOK, ReturnedInv, ResultInv
  <2>3. StartedInv'
    <3>1. s >= 1
      OBVIOUS
    <3>2. \A w \in WorkerNames : Started(w) => s >= 2
      <4> SUFFICES ASSUME NEW w \in WorkerNames, Started(w) PROVE s >= 2
        OBVIOUS
      <4>1. a.maxStage >= 2
        BY <1>2 DEF WorkersInv, StartedInv
      <4>2. k # 1
        BY <1>2, <1>4, <4>1 DEF WorkersInv, StartedInv
      <4>3. h = "listen"
        BY <1>1, <1>8, <4>2 DEF StartIs
      <4> QED
        BY <1>1, <4>3 DEF StartIs
    <3> QED
      BY <1>5, <1>8, <2>1, <3>1, <3>2 DEF StartedInv, Started
  <2>4. StopInv'
    BY <1>4, <1>5, <1>8, <2>1, WorkerNamesAre, StopHooksIdle
  <2> QED
    BY <2>2, <2>3, <2>4 DEF WorkersInv
<1> QED
  BY <1>6, <1>7, <1>8

(* The stop hooks and where they are.                                       *)
LEMMA StopPlaces ==
  \E n \in Nat :
    /\ n >= 4 /\ Len(Stops) = n /\ Stops' = Stops
    /\ Stops[1] = "drain" /\ Stops[2] = "cancel" /\ Stops[3] = "consume" /\ Stops[n] = "close"
    /\ \A i \in 1..n : Stops[i] \in StopHooks
    /\ \A h \in StopHooks : \E i \in 1..n : Stops[i] = h
    /\ \A i, j \in 1..n : Stops[i] = Stops[j] => i = j
<1>1. PICK n \in Nat :
        /\ n >= 4 /\ Len(Stops) = n
        /\ Stops[1] = "drain" /\ Stops[2] = "cancel" /\ Stops[3] = "consume" /\ Stops[n] = "close"
        /\ \A i \in 3..(n - 1) : Stops[i] \in WorkerNames
        /\ \A w \in WorkerNames : \E i \in 3..(n - 1) : Stops[i] = w
        /\ \A i, j \in 1..n : Stops[i] = Stops[j] => i = j
  BY StopsAre
<1>2. \A i \in 1..n : i \in {1, 2, n} \/ i \in 3..(n - 1)
  BY <1>1
<1>3. \A i \in 1..n : Stops[i] \in StopHooks
  BY <1>1, <1>2, WorkerNamesAre
<1>4. 1 \in 1..n /\ 2 \in 1..n /\ n \in 1..n /\ 3..(n - 1) \subseteq 1..n
  BY <1>1
<1>5. \A h \in StopHooks : \E i \in 1..n : Stops[i] = h
  <2> SUFFICES ASSUME NEW h \in StopHooks PROVE \E i \in 1..n : Stops[i] = h
    OBVIOUS
  <2>1. h \in {"drain", "cancel", "close"} \/ h \in WorkerNames
    BY DEF StopHooks
  <2> QED
    BY <1>1, <1>4, <2>1
<1>6. Stops' = Stops
  BY DEF Stops, RegisteredStops
<1> QED
  BY <1>1, <1>3, <1>5, <1>6

(* While the budget lasts, a stop hook that runs is the one whose turn it   *)
(* is, and one before it has done what it is for.                           *)
LEMMA RunningIsCurrent ==
  ASSUME WorkersInv, ~app.expired, NEW h \in StopHooks, hooks[h] = "running"
  PROVE  app.phase = "stopping" /\ app.hook \in 1..Len(Stops) /\ Stops[app.hook] = h
<1>1. PICK n \in Nat :
        Len(Stops) = n /\ \A x \in StopHooks : \E i \in 1..n : Stops[i] = x
  BY StopPlaces
<1>2. app.phase \in {"stopping", "returned"} /\ app.hook \in Nat
  BY DEF WorkersInv, StartedInv, WorkersTypeOK, AppRec
<1>3. PICK i \in 1..n : Stops[i] = h
  BY <1>1
<1>4. StopHooksInv
  BY <1>2 DEF WorkersInv, StopInv
<1>5. ~(i < app.hook) /\ ~(i > app.hook)
  BY <1>1, <1>3, <1>4 DEF StopHooksInv
<1>6. i = app.hook
  BY <1>2, <1>5
<1> QED
  BY <1>1, <1>2, <1>3, <1>6 DEF WorkersInv, ReturnedInv

LEMMA PassedIsDone ==
  ASSUME WorkersInv, ~app.expired, app.phase \in {"stopping", "returned"},
         NEW i \in 1..Len(Stops), i < app.hook, StageOf(Stops[i]) <= app.maxStage
  PROVE  hooks[Stops[i]] \in {"ok", "error"}
<1>1. StopHooksInv /\ app.maxStage \in 0..3
  BY DEF WorkersInv, StopInv, WorkersTypeOK, AppRec
<1>2. PICK n \in Nat : Len(Stops) = n /\ Stops[i] \in StopHooks
  BY StopPlaces
<1>3. StageOf(Stops[i]) \in 1..3
  BY <1>2, StagesAre DEF StopHooks
<1> QED
  BY <1>1, <1>3 DEF StopHooksInv

LEMMA DrainedFirst ==
  ASSUME WorkersInv, ~app.expired, app.phase \in {"stopping", "returned"}, app.hook > 1,
         Started("consume")
  PROVE  busAt.drained
<1>1. PICK n \in Nat : n >= 4 /\ Len(Stops) = n /\ Stops[1] = "drain"
  BY StopPlaces
<1>2. app.maxStage >= 2 /\ StageOf("drain") = 2
  BY StagesAre, WorkerNamesAre DEF WorkersInv, StartedInv
<1>3. 1 \in 1..Len(Stops) /\ 1 < app.hook /\ StageOf(Stops[1]) <= app.maxStage
  BY <1>1, <1>2 DEF WorkersInv, WorkersTypeOK, AppRec
<1>4. hooks["drain"] \in {"ok", "error"}
  BY <1>1, <1>3, PassedIsDone
<1> QED
  BY <1>4 DEF WorkersInv, StopInv, StopHooksInv, BusInv

(* The shutdown begins. *)
LEMMA StartCancelledInv ==
  ASSUME WorkersInv, StartCancelled
  PROVE  WorkersInv'
<1>1. PICK a \in AppRec : a = app
  BY DEF WorkersInv, WorkersTypeOK
<1>2. PICK e \in AppErrors : e = {"context"}
  BY DEF AppErrors
<1>3. /\ app' = [a EXCEPT !.phase = "stopping", !.hook = 1, !.errors = e]
      /\ UNCHANGED <<wk, exitCh, busAt, hooks>> /\ a.phase = "starting"
  BY <1>1, <1>2 DEF StartCancelled
<1>4. app' \in AppRec
  <2>1. [a EXCEPT !.phase = "stopping", !.hook = 1, !.errors = e] \in AppRec
    BY DEF AppRec
  <2> QED
    BY <1>3, <2>1
<1>5. /\ app'.phase = "stopping" /\ app'.hook = 1 /\ app'.maxStage = a.maxStage
      /\ app'.expired = a.expired /\ app'.busCtx = a.busCtx /\ app'.errors = e
  BY <1>3 DEF AppRec
<1>6. a.busCtx /\ ~busAt.close /\ \A h \in StopHooks : hooks[h] = "idle"
  BY <1>1, <1>3 DEF WorkersInv, StartedInv
<1>7. StopInv'
  BY <1>2, <1>3, <1>4, <1>5, <1>6, WorkerNamesAre, StopHooksIdle
<1> QED
  BY <1>1, <1>3, <1>4, <1>5, <1>7
  DEF WorkersInv, WorkersTypeOK, StartedInv, ResultInv, ReturnedInv, Started

LEMMA TriggerInv ==
  ASSUME WorkersInv, Trigger
  PROVE  WorkersInv'
<1>1. PICK a \in AppRec : a = app
  BY DEF WorkersInv, WorkersTypeOK
<1>2. /\ a.phase = "running" /\ a.busCtx /\ ~busAt.close /\ a.errors = {} /\ ~a.expired
      /\ \A h \in StopHooks : hooks[h] = "idle"
      /\ UNCHANGED <<wk, busAt, hooks>> /\ exitCh' \in {exitCh, "empty"}
  BY <1>1 DEF Trigger, WorkersInv, StartedInv
<1>3. /\ app' \in AppRec /\ app'.phase = "stopping" /\ app'.hook = 1 /\ app'.maxStage = a.maxStage
      /\ app'.busCtx
      /\ app'.errors = {} \/ (exitCh # "empty" /\ app'.errors = {exitCh})
  <2>1. CASE app' = [a EXCEPT !.phase = "stopping", !.hook = 1]
    <3>1. [a EXCEPT !.phase = "stopping", !.hook = 1] \in AppRec
      BY DEF AppRec
    <3>2. /\ app'.phase = "stopping" /\ app'.hook = 1 /\ app'.maxStage = a.maxStage
          /\ app'.busCtx = a.busCtx /\ app'.errors = a.errors
      BY <2>1 DEF AppRec
    <3> QED
      BY <1>2, <2>1, <3>1, <3>2
  <2>2. CASE /\ app' = [a EXCEPT !.phase = "stopping", !.hook = 1, !.runCtx = FALSE, !.errors = {exitCh}]
             /\ exitCh # "empty"
    <3>1. PICK e \in AppErrors : e = {exitCh}
      BY <2>2, WorkerNamesAre DEF AppErrors, WorkersInv, WorkersTypeOK
    <3>2. [a EXCEPT !.phase = "stopping", !.hook = 1, !.runCtx = FALSE, !.errors = e] \in AppRec
      BY DEF AppRec
    <3>3. app' = [a EXCEPT !.phase = "stopping", !.hook = 1, !.runCtx = FALSE, !.errors = e]
      BY <2>2, <3>1
    <3>4. /\ app'.phase = "stopping" /\ app'.hook = 1 /\ app'.maxStage = a.maxStage
          /\ app'.busCtx = a.busCtx /\ app'.errors = e
      BY <3>3 DEF AppRec
    <3> QED
      BY <1>2, <2>2, <3>1, <3>2, <3>3, <3>4
  <2> QED
    BY <1>1, <2>1, <2>2 DEF Trigger
<1>4. \A h \in StopHooks \cap app'.errors : h \in WorkerNames /\ wk[h].res = "error"
  BY <1>3 DEF WorkersInv, WorkersTypeOK, ResultInv
<1>5. StopInv'
  BY <1>2, <1>3, <1>4, StopHooksIdle
<1> QED
  BY <1>1, <1>2, <1>3, <1>5
  DEF WorkersInv, WorkersTypeOK, StartedInv, ResultInv, ReturnedInv, Started

(* What only the phase, the contexts and the budget change.                 *)
LEMMA RunningInv ==
  ASSUME WorkersInv, Running
  PROVE  WorkersInv'
<1>1. PICK a \in AppRec : a = app
  BY DEF WorkersInv, WorkersTypeOK
<1>2. [a EXCEPT !.phase = "running"] \in AppRec
  BY DEF AppRec
<1>3. /\ app' = [a EXCEPT !.phase = "running"] /\ a.phase = "starting"
      /\ UNCHANGED <<wk, exitCh, busAt, hooks>>
  BY <1>1 DEF Running
<1>4. /\ app'.phase = "running" /\ app'.hook = a.hook /\ app'.maxStage = a.maxStage
      /\ app'.expired = a.expired /\ app'.busCtx = a.busCtx /\ app'.errors = a.errors
  BY <1>3 DEF AppRec
<1> QED
  BY <1>1, <1>2, <1>3, <1>4
  DEF WorkersInv, WorkersTypeOK, StartedInv, ResultInv, StopInv, ReturnedInv, Started

LEMMA ContextCancelledInv ==
  ASSUME WorkersInv, ContextCancelled
  PROVE  WorkersInv'
<1>1. PICK a \in AppRec : a = app
  BY DEF WorkersInv, WorkersTypeOK
<1>2. [a EXCEPT !.runCtx = FALSE] \in AppRec
  BY DEF AppRec
<1>3. app' = [a EXCEPT !.runCtx = FALSE] /\ UNCHANGED <<wk, exitCh, busAt, hooks>>
  BY <1>1 DEF ContextCancelled
<1>4. /\ app'.phase = a.phase /\ app'.hook = a.hook /\ app'.maxStage = a.maxStage
      /\ app'.expired = a.expired /\ app'.busCtx = a.busCtx /\ app'.errors = a.errors
  BY <1>3 DEF AppRec
<1>5. Stops' = Stops /\ Starts' = Starts
  BY DEF Stops, RegisteredStops, Starts
<1>6. WorkersTypeOK' /\ StartedInv' /\ ResultInv' /\ ReturnedInv'
  BY <1>1, <1>2, <1>3, <1>4, <1>5
  DEF WorkersInv, WorkersTypeOK, StartedInv, ResultInv, ReturnedInv, Started
<1>7. StopInv'
  BY <1>1, <1>3, <1>4, <1>5 DEF WorkersInv, StopInv, StopHooksInv, BusInv, Started
<1> QED
  BY <1>6, <1>7 DEF WorkersInv

LEMMA BudgetExpiresInv ==
  ASSUME WorkersInv, BudgetExpires
  PROVE  WorkersInv'
<1>1. PICK a \in AppRec : a = app
  BY DEF WorkersInv, WorkersTypeOK
<1>2. [a EXCEPT !.expired = TRUE] \in AppRec
  BY DEF AppRec
<1>3. /\ app' = [a EXCEPT !.expired = TRUE] /\ a.phase = "stopping"
      /\ UNCHANGED <<wk, exitCh, busAt, hooks>>
  BY <1>1 DEF BudgetExpires
<1>4. app'.phase = a.phase /\ app'.hook = a.hook /\ app'.maxStage = a.maxStage /\ app'.expired
  BY <1>3 DEF AppRec
<1> QED
  BY <1>1, <1>2, <1>3, <1>4
  DEF WorkersInv, WorkersTypeOK, StartedInv, ResultInv, StopInv, ReturnedInv, Started

LEMMA ReturnsInv ==
  ASSUME WorkersInv, Returns
  PROVE  WorkersInv'
<1>1. PICK a \in AppRec : a = app
  BY DEF WorkersInv, WorkersTypeOK
<1>2. [a EXCEPT !.phase = "returned", !.busCtx = FALSE] \in AppRec
  BY DEF AppRec
<1>3. /\ app' = [a EXCEPT !.phase = "returned", !.busCtx = FALSE] /\ a.phase = "stopping"
      /\ a.hook > Len(Stops) /\ UNCHANGED <<wk, exitCh, busAt, hooks>>
  BY <1>1 DEF Returns
<1>4. /\ app'.phase = "returned" /\ app'.hook = a.hook /\ app'.maxStage = a.maxStage
      /\ app'.expired = a.expired /\ app'.errors = a.errors
  BY <1>3 DEF AppRec
<1>5. PICK n \in Nat : n >= 4 /\ Len(Stops) = n /\ Stops' = Stops
  BY StopPlaces
<1>6. app.hook > 1
  BY <1>1, <1>3, <1>5 DEF AppRec
<1>7. ~app.expired /\ Started("consume") => busAt.drained
  BY <1>1, <1>3, <1>6, DrainedFirst
<1>8. WorkersTypeOK' /\ StartedInv' /\ ResultInv' /\ ReturnedInv'
  BY <1>1, <1>2, <1>3, <1>4, <1>5
  DEF WorkersInv, WorkersTypeOK, StartedInv, ResultInv, ReturnedInv, Started
<1>9. StopInv'
  BY <1>1, <1>3, <1>4, <1>5, <1>7 DEF WorkersInv, StopInv, StopHooksInv, BusInv, Started
<1> QED
  BY <1>8, <1>9 DEF WorkersInv

(* A worker ends, or reports that it failed.                                *)
LEMMA WorkerEndsInv ==
  ASSUME WorkersInv, NEW w \in WorkerNames, NEW res \in {"nil", "canceled", "error"}, WorkerEnds(w, res)
  PROVE  WorkersInv'
<1>1. wk \in [WorkerNames -> WorkerRec] /\ wk[w].state = "running" /\ UNCHANGED <<app, exitCh, busAt, hooks>>
  BY DEF WorkersInv, WorkersTypeOK, WorkerEnds
<1>2. PICK r \in WorkerRec :
        r = [state |-> "ended", res |-> res, done |-> TRUE, exit |-> IF res = "error" THEN "pending" ELSE "none"]
  <2>1. PICK x \in {"none", "pending"} : x = IF res = "error" THEN "pending" ELSE "none"
    OBVIOUS
  <2>2. [state |-> "ended", res |-> res, done |-> TRUE, exit |-> x] \in WorkerRec
    BY DEF WorkerRec
  <2> QED
    BY <2>1, <2>2
<1>3. r.state = "ended" /\ r.res = res /\ r.done /\ (r.exit = "pending" => res = "error")
  BY <1>2
<1>4. wk' \in [WorkerNames -> WorkerRec] /\ wk'[w] = r /\ \A v \in WorkerNames \ {w} : wk'[v] = wk[v]
  <2>1. wk' = [wk EXCEPT ![w] = r]
    BY <1>2 DEF WorkerEnds
  <2> QED
    BY <1>1, <2>1
<1>5. \A v \in WorkerNames : Started(v)' <=> Started(v)
  BY <1>1, <1>3, <1>4 DEF Started
<1>6. wk[w].res = "none"
  BY <1>1 DEF WorkersInv, ResultInv
<1>7. exitCh \in WorkerNames \cup {"empty"} /\ exitCh # w
  BY <1>6, WorkerNamesAre DEF WorkersInv, WorkersTypeOK, ResultInv
<1>8. Stops' = Stops /\ Starts' = Starts
  BY DEF Stops, RegisteredStops, Starts
<1>9. WorkersTypeOK' /\ ReturnedInv'
  BY <1>1, <1>4, <1>8 DEF WorkersInv, WorkersTypeOK, ReturnedInv
<1>10. StartedInv'
  <2>1. \A i \in 1..Len(Starts) : Starts[i] \in WorkerNames /\ wk[Starts[i]].state = "idle"
                                    => wk'[Starts[i]].state = "idle"
    BY <1>1, <1>4
  <2> QED
    BY <1>1, <1>5, <1>8, <2>1 DEF WorkersInv, StartedInv
<1>11. ResultInv'
  BY <1>1, <1>3, <1>4, <1>7 DEF WorkersInv, ResultInv
<1>12. StopInv'
  <2> SUFFICES ASSUME app.phase \in {"stopping", "returned"}, ~app.expired PROVE StopHooksInv' /\ BusInv'
    BY <1>1 DEF StopInv
  <2>1. StopHooksInv /\ BusInv
    BY DEF WorkersInv, StopInv
  <2>2. hooks[w] \notin {"ok", "error"}
    BY <1>1, <2>1 DEF StopHooksInv
  <2>3. \A v \in WorkerNames : hooks[v] \in {"ok", "error"} =>
          /\ wk'[v].state # "running"
          /\ hooks[v] = "error" <=> wk'[v].res = "error"
    BY <1>4, <2>1, <2>2 DEF StopHooksInv
  <2>4. \A h \in StopHooks \cap app.errors : hooks[h] = "error" \/ (h \in WorkerNames /\ wk'[h].res = "error")
    BY <1>4, <1>6, <2>1 DEF StopHooksInv
  <2>5. StopHooksInv'
    BY <1>1, <1>8, <2>1, <2>3, <2>4 DEF StopHooksInv
  <2>6. BusInv'
    <3>1. wk'["consume"].state = "running" => wk["consume"].state = "running"
      BY <1>3, <1>4, WorkerNamesAre
    <3> QED
      BY <1>1, <1>5, <2>1, <3>1, WorkerNamesAre DEF BusInv
  <2> QED
    BY <2>5, <2>6
<1> QED
  BY <1>9, <1>10, <1>11, <1>12 DEF WorkersInv

LEMMA WorkerReportsInv ==
  ASSUME WorkersInv, NEW w \in WorkerNames, WorkerReports(w)
  PROVE  WorkersInv'
<1>1. /\ wk \in [WorkerNames -> WorkerRec] /\ wk[w].exit = "pending" /\ UNCHANGED <<app, busAt, hooks>>
      /\ exitCh' \in {exitCh, w} /\ exitCh \in WorkerNames \cup {"empty"}
  BY DEF WorkersInv, WorkersTypeOK, WorkerReports
<1>2. PICK r \in WorkerRec : r = wk[w]
  BY <1>1
<1>3. PICK q \in WorkerRec : q = [r EXCEPT !.exit = "none"]
  BY DEF WorkerRec
<1>4. q.state = r.state /\ q.res = r.res /\ q.done = r.done /\ q.exit = "none"
  BY <1>3 DEF WorkerRec
<1>5. wk' = [wk EXCEPT ![w] = q]
  BY <1>2, <1>3 DEF WorkerReports
<1>6. /\ wk' \in [WorkerNames -> WorkerRec]
      /\ \A v \in WorkerNames : /\ wk'[v].state = wk[v].state /\ wk'[v].res = wk[v].res
                                /\ wk'[v].done = wk[v].done
                                /\ wk'[v].exit = "pending" => wk[v].exit = "pending"
  BY <1>1, <1>2, <1>4, <1>5
<1>7. \A v \in WorkerNames : Started(v)' <=> Started(v)
  BY <1>6 DEF Started
<1>8. Stops' = Stops /\ Starts' = Starts
  BY DEF Stops, RegisteredStops, Starts
<1>9. WorkersTypeOK' /\ ReturnedInv'
  BY <1>1, <1>6, <1>8 DEF WorkersInv, WorkersTypeOK, ReturnedInv
<1>10. StartedInv'
  BY <1>1, <1>6, <1>7, <1>8 DEF WorkersInv, StartedInv
<1>11. ResultInv'
  BY <1>1, <1>6 DEF WorkersInv, ResultInv
<1>12. StopHooksInv => StopHooksInv'
  BY <1>1, <1>6, <1>8 DEF StopHooksInv
<1>13. BusInv => BusInv'
  BY <1>1, <1>6, <1>7, WorkerNamesAre DEF BusInv
<1>14. StopInv'
  BY <1>1, <1>12, <1>13 DEF WorkersInv, StopInv
<1> QED
  BY <1>9, <1>10, <1>11, <1>14 DEF WorkersInv

(* The host goes on to the next stop hook.                                  *)
HostGoesOn(e) ==
  /\ app.phase = "stopping" /\ app.hook \in 1..Len(Stops)
  /\ app' \in AppRec /\ app'.phase = "stopping" /\ app'.hook = app.hook + 1
  /\ app'.maxStage = app.maxStage /\ app'.expired = app.expired /\ app'.busCtx = app.busCtx
  /\ app'.errors = e
  /\ UNCHANGED <<wk, exitCh, busAt, hooks>>

LEMMA GoingOn ==
  ASSUME WorkersInv, Stopping, NEW e \in AppErrors, UNCHANGED <<wk, exitCh, busAt, hooks>>,
         \/ app' = [app EXCEPT !.hook = @ + 1, !.errors = e]
         \/ app' = [app EXCEPT !.hook = @ + 1] /\ e = app.errors
  PROVE  HostGoesOn(e)
<1>1. PICK a \in AppRec : a = app
  BY DEF WorkersInv, WorkersTypeOK
<1>2. PICK k \in Nat : k = a.hook + 1
  BY DEF AppRec
<1>3. [a EXCEPT !.hook = k, !.errors = e] \in AppRec /\ [a EXCEPT !.hook = k] \in AppRec
  BY DEF AppRec
<1>4. PICK n \in Nat : Len(Stops) = n
  BY StopPlaces
<1>5. a.phase = "stopping" /\ a.hook \in 1..n
  BY <1>1, <1>4 DEF Stopping, WorkersInv, StartedInv, AppRec
<1>6. CASE app' = [app EXCEPT !.hook = @ + 1, !.errors = e]
  <2>1. app' = [a EXCEPT !.hook = k, !.errors = e]
    BY <1>1, <1>2, <1>6
  <2>2. /\ app'.phase = a.phase /\ app'.hook = k /\ app'.maxStage = a.maxStage
        /\ app'.expired = a.expired /\ app'.busCtx = a.busCtx /\ app'.errors = e
    BY <2>1 DEF AppRec
  <2> QED
    BY <1>1, <1>2, <1>3, <1>4, <1>5, <2>1, <2>2 DEF HostGoesOn
<1>7. CASE app' = [app EXCEPT !.hook = @ + 1] /\ e = app.errors
  <2>1. app' = [a EXCEPT !.hook = k]
    BY <1>1, <1>2, <1>7
  <2>2. /\ app'.phase = a.phase /\ app'.hook = k /\ app'.maxStage = a.maxStage
        /\ app'.expired = a.expired /\ app'.busCtx = a.busCtx /\ app'.errors = a.errors
    BY <2>1 DEF AppRec
  <2> QED
    BY <1>1, <1>2, <1>3, <1>4, <1>5, <1>7, <2>1, <2>2 DEF HostGoesOn
<1> QED
  BY <1>6, <1>7

LEMMA GoesOnInv ==
  ASSUME WorkersInv, NEW e, HostGoesOn(e), NEW h, h = Stops[app.hook], app.errors \subseteq e,
         ~app.expired =>
           /\ hooks[h] \in {"ok", "error"} \/ StageOf(h) > app.maxStage
           /\ hooks[h] = "error" => h \in e
           /\ \A x \in e \ app.errors : x = h /\ hooks[h] = "error"
  PROVE  WorkersInv'
<1>1. PICK n \in Nat :
        /\ Len(Stops) = n /\ Stops' = Stops
        /\ \A i \in 1..n : Stops[i] \in StopHooks
        /\ \A i, j \in 1..n : Stops[i] = Stops[j] => i = j
  BY StopPlaces
<1>2. PICK k \in 1..n : k = app.hook
  BY <1>1 DEF HostGoesOn
<1>3. /\ app.phase = "stopping" /\ app'.phase = "stopping" /\ app'.hook = k + 1
      /\ app'.maxStage = app.maxStage /\ app'.expired = app.expired /\ app'.busCtx = app.busCtx
      /\ app'.errors = e /\ UNCHANGED <<wk, exitCh, busAt, hooks>> /\ h = Stops[k]
  BY <1>2 DEF HostGoesOn
<1>4. WorkersTypeOK' /\ ResultInv' /\ ReturnedInv'
  BY <1>3 DEF HostGoesOn, WorkersInv, WorkersTypeOK, ResultInv, ReturnedInv
<1>5. StartedInv'
  BY <1>2, <1>3 DEF WorkersInv, StartedInv, Started
<1>6. StopInv'
  <2> SUFFICES ASSUME ~app.expired PROVE StopHooksInv' /\ BusInv'
    BY <1>3 DEF StopInv
  <2>1. StopHooksInv /\ BusInv
    BY <1>3 DEF WorkersInv, StopInv
  <2>2. BusInv'
    BY <1>3, <2>1 DEF BusInv, Started
  <2>3. \A i \in 1..n : i < k + 1 => i < k \/ i = k
    OBVIOUS
  <2>4. \A i \in 1..n : i < k + 1 => \/ hooks[Stops[i]] \in {"ok", "error"}
                                     \/ StageOf(Stops[i]) > app.maxStage
    BY <1>1, <1>2, <1>3, <2>1, <2>3 DEF StopHooksInv
  <2>5. \A i \in 1..n : i < k + 1 /\ hooks[Stops[i]] = "error" => Stops[i] \in e
    BY <1>1, <1>2, <1>3, <2>1, <2>3 DEF StopHooksInv
  <2>6. \A i \in 1..n : i > k + 1 => hooks[Stops[i]] = "idle"
    BY <1>1, <1>2, <2>1 DEF StopHooksInv
  <2>7. \A x \in StopHooks \cap e : hooks[x] = "error" \/ (x \in WorkerNames /\ wk[x].res = "error")
    BY <2>1 DEF StopHooksInv
  <2>8. StopHooksInv'
    BY <1>1, <1>3, <2>1, <2>4, <2>5, <2>6, <2>7 DEF StopHooksInv
  <2> QED
    BY <2>2, <2>8
<1> QED
  BY <1>4, <1>5, <1>6 DEF WorkersInv

LEMMA CurrentIsHook ==
  ASSUME WorkersInv, Stopping
  PROVE  app.hook \in 1..Len(Stops) /\ Stops[app.hook] \in StopHooks
<1>1. PICK n \in Nat : Len(Stops) = n /\ \A i \in 1..n : Stops[i] \in StopHooks
  BY StopPlaces
<1>2. app.hook \in 1..n
  BY <1>1 DEF Stopping, WorkersInv, StartedInv, WorkersTypeOK, AppRec
<1> QED
  BY <1>1, <1>2

LEMMA StopSkippedInv ==
  ASSUME WorkersInv, StopSkipped
  PROVE  WorkersInv'
<1>1. /\ Stopping /\ UNCHANGED <<wk, exitCh, busAt, hooks>> /\ app' = [app EXCEPT !.hook = @ + 1]
      /\ StageOf(Stops[app.hook]) > app.maxStage /\ app.errors \in AppErrors
  BY DEF StopSkipped, CurrentStop, WorkersInv, WorkersTypeOK, AppRec
<1>2. HostGoesOn(app.errors)
  BY <1>1, GoingOn
<1>3. PICK h : h = Stops[app.hook]
  OBVIOUS
<1>4. hooks[h] # "error" \/ app.expired
  <2>1. app.phase = "stopping" /\ app.hook \in 1..Len(Stops)
    BY <1>2 DEF HostGoesOn
  <2> QED
    BY <1>1, <1>3, <2>1 DEF WorkersInv, StopInv, StopHooksInv
<1> QED
  BY <1>1, <1>2, <1>3, <1>4, GoesOnInv

LEMMA StopReturnedInv ==
  ASSUME WorkersInv, StopReturned
  PROVE  WorkersInv'
<1>1. PICK h : h = Stops[app.hook]
  OBVIOUS
<1>2. /\ Stopping /\ UNCHANGED <<wk, exitCh, busAt, hooks>> /\ hooks[h] \in {"ok", "error"}
      /\ app.errors \in AppErrors /\ h \in StopHooks
  BY <1>1, CurrentIsHook DEF StopReturned, CurrentStop, WorkersInv, WorkersTypeOK, AppRec
<1>3. PICK e \in AppErrors : e = IF hooks[h] = "ok" THEN app.errors ELSE app.errors \cup {h}
  BY <1>2 DEF AppErrors
<1>4. app' = [app EXCEPT !.hook = @ + 1, !.errors = e]
  BY <1>1, <1>3 DEF StopReturned, CurrentStop
<1>5. HostGoesOn(e)
  BY <1>2, <1>4, GoingOn
<1>6. /\ app.errors \subseteq e /\ (hooks[h] = "error" => h \in e)
      /\ \A x \in e \ app.errors : x = h /\ hooks[h] = "error"
  BY <1>2, <1>3
<1> QED
  BY <1>1, <1>2, <1>5, <1>6, GoesOnInv

LEMMA StopAbandonedInv ==
  ASSUME WorkersInv, StopAbandoned
  PROVE  WorkersInv'
<1>1. PICK h : h = Stops[app.hook]
  OBVIOUS
<1>2. /\ Stopping /\ UNCHANGED <<wk, exitCh, busAt, hooks>> /\ app.expired
      /\ app.errors \in AppErrors /\ h \in StopHooks
  BY <1>1, CurrentIsHook DEF StopAbandoned, CurrentStop, WorkersInv, WorkersTypeOK, AppRec
<1>3. PICK e \in AppErrors : e = app.errors \cup {h}
  BY <1>2 DEF AppErrors
<1>4. app' = [app EXCEPT !.hook = @ + 1, !.errors = e]
  BY <1>1, <1>3 DEF StopAbandoned, CurrentStop
<1>5. HostGoesOn(e)
  BY <1>2, <1>4, GoingOn
<1>6. app.errors \subseteq e
  BY <1>3
<1> QED
  BY <1>1, <1>2, <1>5, <1>6, GoesOnInv

(* A stop hook begins, or its goroutine ends.                               *)
HookMoves(h, from, to) ==
  /\ h \in StopHooks /\ hooks[h] \in from
  /\ hooks' \in [StopHooks -> {"idle", "running", "ok", "error"}]
  /\ hooks'[h] = to /\ \A x \in StopHooks \ {h} : hooks'[x] = hooks[x]

LEMMA HookIs ==
  ASSUME WorkersInv, NEW h \in StopHooks, NEW to \in {"running", "ok", "error"}, NEW from,
         hooks[h] \in from, hooks' = [hooks EXCEPT ![h] = to]
  PROVE  HookMoves(h, from, to)
<1>1. hooks \in [StopHooks -> {"idle", "running", "ok", "error"}]
  BY DEF WorkersInv, WorkersTypeOK
<1> QED
  BY <1>1 DEF HookMoves

(* What the step of the hook whose turn it is leaves to be shown.           *)
LEMMA CurrentHookInv ==
  ASSUME WorkersInv, ~app.expired, NEW h \in StopHooks, NEW from, NEW to \in {"running", "ok", "error"},
         HookMoves(h, from, to), app.phase = "stopping", app.hook \in 1..Len(Stops),
         Stops[app.hook] = h, ~(StageOf(h) > app.maxStage),
         app'.hook = app.hook, app'.maxStage = app.maxStage, app'.errors = app.errors,
         h = "cancel" => to # "error", "error" \notin from,
         \A w \in WorkerNames : hooks'[w] \in {"ok", "error"} =>
           /\ wk'[w].state # "running"
           /\ hooks'[w] = "error" <=> wk'[w].res = "error",
         \A w \in WorkerNames : wk'[w].res = wk[w].res
  PROVE  StopHooksInv'
<1>1. PICK n \in Nat :
        /\ Len(Stops) = n /\ Stops' = Stops
        /\ \A i \in 1..n : Stops[i] \in StopHooks
        /\ \A i, j \in 1..n : Stops[i] = Stops[j] => i = j
  BY StopPlaces
<1>2. PICK k \in 1..n : k = app.hook /\ Stops[k] = h
  BY <1>1
<1>3. StopHooksInv
  BY DEF WorkersInv, StopInv
<1>4. \A i \in 1..n : i # k => hooks'[Stops[i]] = hooks[Stops[i]]
  BY <1>1, <1>2 DEF HookMoves
<1>5. \A i \in 1..n : (i < k \/ i > k) => i # k
  OBVIOUS
<1>6. \A i \in 1..n :
        /\ i < k => hooks'[Stops[i]] \in {"ok", "error"} \/ StageOf(Stops[i]) > app.maxStage
        /\ i < k /\ hooks'[Stops[i]] = "error" => Stops[i] \in app.errors
        /\ i > k => hooks'[Stops[i]] = "idle"
  BY <1>1, <1>2, <1>3, <1>4, <1>5 DEF StopHooksInv
<1>7. \A i \in 1..n : hooks'[Stops[i]] # "idle" => ~(StageOf(Stops[i]) > app.maxStage)
  BY <1>1, <1>2, <1>3, <1>4 DEF StopHooksInv
<1>8. hooks'["cancel"] # "error"
  BY <1>3, WorkerNamesAre DEF StopHooksInv, HookMoves
<1>9. \A x \in StopHooks \cap app.errors : hooks'[x] = "error" \/ (x \in WorkerNames /\ wk'[x].res = "error")
  <2> SUFFICES ASSUME NEW x \in StopHooks \cap app.errors
               PROVE  hooks'[x] = "error" \/ (x \in WorkerNames /\ wk'[x].res = "error")
    OBVIOUS
  <2>1. hooks[x] = "error" \/ (x \in WorkerNames /\ wk[x].res = "error")
    BY <1>3 DEF StopHooksInv
  <2>2. hooks[x] = "error" => x # h
    BY DEF HookMoves
  <2> QED
    BY <2>1, <2>2 DEF HookMoves
<1> QED
  BY <1>1, <1>2, <1>6, <1>7, <1>8, <1>9 DEF StopHooksInv

LEMMA StopBeginsInv ==
  ASSUME WorkersInv, StopBegins
  PROVE  WorkersInv'
<1>1. PICK h : h = Stops[app.hook]
  OBVIOUS
<1>2. /\ Stopping /\ UNCHANGED <<app, wk, exitCh, busAt>> /\ StageOf(h) <= app.maxStage
      /\ h \in StopHooks /\ hooks[h] \in {"idle"} /\ hooks' = [hooks EXCEPT ![h] = "running"]
      /\ app.hook \in 1..Len(Stops)
  BY <1>1, CurrentIsHook DEF StopBegins, CurrentStop
<1>3. HookMoves(h, {"idle"}, "running")
  BY <1>2, HookIs
<1>4. ~(StageOf(h) > app.maxStage)
  <2>1. StageOf(h) \in 1..3 /\ app.maxStage \in 0..3
    BY <1>2, StagesAre DEF StopHooks, WorkersInv, WorkersTypeOK, AppRec
  <2> QED
    BY <1>2, <2>1
<1>5. WorkersTypeOK' /\ ReturnedInv'
  BY <1>2, <1>3, StopPlaces DEF WorkersInv, WorkersTypeOK, ReturnedInv, HookMoves
<1>6. StartedInv'
  <2>1. app.phase = "stopping" /\ Starts' = Starts
    BY <1>2 DEF Stopping, Starts
  <2> QED
    BY <1>2, <2>1 DEF WorkersInv, StartedInv, Started
<1>7. ResultInv'
  BY <1>2, <1>3, WorkerNamesAre DEF WorkersInv, ResultInv, HookMoves
<1>8. StopInv'
  <2> SUFFICES ASSUME ~app.expired PROVE StopHooksInv' /\ BusInv'
    BY <1>2 DEF StopInv
  <2>1. StopHooksInv /\ BusInv /\ app.phase = "stopping"
    BY <1>2 DEF WorkersInv, StopInv, Stopping
  <2>2. \A w \in WorkerNames : hooks'[w] \in {"ok", "error"} =>
          /\ wk'[w].state # "running"
          /\ hooks'[w] = "error" <=> wk'[w].res = "error"
    BY <1>2, <1>3, <2>1, WorkerNamesAre DEF StopHooksInv, HookMoves
  <2>3. StopHooksInv'
    <3>1. /\ app'.hook = app.hook /\ app'.maxStage = app.maxStage /\ app'.errors = app.errors
          /\ \A w \in WorkerNames : wk'[w].res = wk[w].res
      BY <1>2
    <3> QED
      BY <1>1, <1>2, <1>3, <1>4, <2>1, <2>2, <3>1, CurrentHookInv
  <2>4. hooks'["drain"] \in {"ok", "error"} => hooks["drain"] \in {"ok", "error"}
    BY <1>3, WorkerNamesAre DEF HookMoves
  <2>5. hooks'["close"] \in {"ok", "error"} => hooks["close"] \in {"ok", "error"}
    BY <1>3, WorkerNamesAre DEF HookMoves
  <2>6. BusInv'
    BY <1>2, <2>1, <2>4, <2>5 DEF BusInv, Started
  <2> QED
    BY <2>3, <2>6
<1> QED
  BY <1>5, <1>6, <1>7, <1>8 DEF WorkersInv

(* The goroutine of hook h ends, with the turn still its own.               *)
LEMMA HookEndsIs ==
  ASSUME WorkersInv, NEW h \in StopHooks, NEW res \in {"ok", "error"}, HookEnds(h, res)
  PROVE  /\ HookMoves(h, {"running"}, res)
         /\ ~app.expired => /\ app.phase = "stopping" /\ app.hook \in 1..Len(Stops) /\ Stops[app.hook] = h
                            /\ ~(StageOf(h) > app.maxStage)
         /\ app.phase \in {"stopping", "returned"}
<1>1. hooks[h] \in {"running"} /\ hooks' = [hooks EXCEPT ![h] = res]
  BY DEF HookEnds
<1>2. HookMoves(h, {"running"}, res)
  BY <1>1, HookIs
<1>3. app.phase \in {"stopping", "returned"}
  BY <1>1 DEF WorkersInv, StartedInv, WorkersTypeOK, AppRec
<1>4. ASSUME ~app.expired
      PROVE  /\ app.phase = "stopping" /\ app.hook \in 1..Len(Stops) /\ Stops[app.hook] = h
             /\ ~(StageOf(h) > app.maxStage)
  <2>1. app.phase = "stopping" /\ app.hook \in 1..Len(Stops) /\ Stops[app.hook] = h
    BY <1>1, <1>4, RunningIsCurrent
  <2>2. StopHooksInv
    BY <1>3, <1>4 DEF WorkersInv, StopInv
  <2>3. ~(StageOf(h) > app.maxStage)
    BY <1>1, <2>1, <2>2 DEF StopHooksInv
  <2> QED
    BY <2>1, <2>3
<1> QED
  BY <1>2, <1>3, <1>4

LEMMA AwaitWorkerInv ==
  ASSUME WorkersInv, NEW w \in WorkerNames, AwaitWorker(w)
  PROVE  WorkersInv'
<1>1. PICK res \in {"ok", "error"} :
        /\ HookEnds(w, res) /\ UNCHANGED <<app, exitCh, busAt>>
        /\ \/ ~Started(w) /\ res = "ok" /\ UNCHANGED wk
           \/ /\ wk[w].done /\ (res = "error" <=> wk[w].res = "error")
              /\ wk' = [wk EXCEPT ![w].done = FALSE]
           \/ app.expired /\ UNCHANGED wk
  BY DEF AwaitWorker
<1>2. w \in StopHooks
  BY WorkerNamesAre
<1>3. /\ HookMoves(w, {"running"}, res) /\ app.phase \in {"stopping", "returned"}
      /\ ~app.expired => /\ app.phase = "stopping" /\ app.hook \in 1..Len(Stops) /\ Stops[app.hook] = w
                         /\ ~(StageOf(w) > app.maxStage)
  BY <1>1, <1>2, HookEndsIs
<1>4. /\ wk' \in [WorkerNames -> WorkerRec]
      /\ \A v \in WorkerNames : /\ wk'[v].state = wk[v].state /\ wk'[v].res = wk[v].res
                                /\ wk'[v].exit = wk[v].exit
                                /\ wk'[v].done => wk[v].done
                                /\ v # w => wk'[v].done = wk[v].done
  <2>1. wk \in [WorkerNames -> WorkerRec]
    BY DEF WorkersInv, WorkersTypeOK
  <2>2. CASE wk' = wk
    BY <2>1, <2>2
  <2>3. CASE wk' = [wk EXCEPT ![w].done = FALSE]
    <3>1. PICK r \in WorkerRec : r = wk[w]
      BY <2>1
    <3>2. PICK q \in WorkerRec : q = [r EXCEPT !.done = FALSE]
      BY DEF WorkerRec
    <3>3. q.state = r.state /\ q.res = r.res /\ q.exit = r.exit /\ ~q.done
      BY <3>2 DEF WorkerRec
    <3>4. wk' = [wk EXCEPT ![w] = q]
      BY <2>3, <3>1, <3>2
    <3> QED
      BY <2>1, <3>1, <3>3, <3>4
  <2> QED
    BY <1>1, <2>2, <2>3
<1>5. \A v \in WorkerNames : Started(v)' <=> Started(v)
  BY <1>4 DEF Started
<1>6. WorkersTypeOK' /\ ReturnedInv'
  BY <1>1, <1>3, <1>4, StopPlaces DEF WorkersInv, WorkersTypeOK, ReturnedInv, HookMoves
<1>7. StartedInv'
  BY <1>1, <1>3, <1>5 DEF WorkersInv, StartedInv
<1>8. ResultInv'
  <2>1. \A v \in WorkerNames : wk'[v].state = "ended" /\ hooks'[v] \in {"idle", "running"} => wk'[v].done
    BY <1>3, <1>4, WorkerNamesAre DEF WorkersInv, ResultInv, HookMoves
  <2> QED
    BY <1>1, <1>4, <2>1 DEF WorkersInv, WorkersTypeOK, ResultInv
<1>9. StopInv'
  <2> SUFFICES ASSUME ~app.expired PROVE StopHooksInv' /\ BusInv'
    BY <1>1 DEF StopInv
  <2>1. StopHooksInv /\ BusInv
    BY <1>3 DEF WorkersInv, StopInv
  <2>2. /\ wk[w].state # "running"
        /\ res = "error" <=> wk[w].res = "error"
    BY <1>1 DEF WorkersInv, ResultInv, Started
  <2>3. \A v \in WorkerNames : hooks'[v] \in {"ok", "error"} =>
          /\ wk'[v].state # "running"
          /\ hooks'[v] = "error" <=> wk'[v].res = "error"
    <3>1. hooks'[w] = res /\ \A v \in WorkerNames : v # w => hooks'[v] = hooks[v]
      BY <1>3, WorkerNamesAre DEF HookMoves
    <3>2. wk'[w].state # "running" /\ (hooks'[w] = "error" <=> wk'[w].res = "error")
      BY <1>4, <2>2, <3>1
    <3>3. ASSUME NEW v \in WorkerNames, v # w, hooks'[v] \in {"ok", "error"}
          PROVE  wk'[v].state # "running" /\ (hooks'[v] = "error" <=> wk'[v].res = "error")
      BY <1>4, <2>1, <3>1, <3>3 DEF StopHooksInv
    <3> QED
      BY <3>2, <3>3
  <2>4. StopHooksInv'
    <3>1. w \notin {"drain", "cancel", "close"}
      BY WorkerNamesAre
    <3>2. /\ app'.hook = app.hook /\ app'.maxStage = app.maxStage /\ app'.errors = app.errors
          /\ \A v \in WorkerNames : wk'[v].res = wk[v].res
      BY <1>1, <1>4
    <3> QED
      BY <1>2, <1>3, <2>3, <3>1, <3>2, CurrentHookInv
  <2>5. hooks'["drain"] = hooks["drain"] /\ hooks'["close"] = hooks["close"]
    BY <1>3, WorkerNamesAre DEF HookMoves
  <2>6. BusInv'
    BY <1>1, <1>4, <1>5, <2>1, <2>5, WorkerNamesAre DEF BusInv
  <2> QED
    BY <2>4, <2>6
<1> QED
  BY <1>6, <1>7, <1>8, <1>9 DEF WorkersInv

(* Hooks of the bus leave the workers as they are.                          *)
LEMMA BusHookInv ==
  ASSUME WorkersInv, NEW h \in {"drain", "cancel", "close"}, NEW res \in {"ok", "error"}, HookEnds(h, res),
         UNCHANGED <<wk, exitCh>>, WorkersTypeOK', busAt'.connect = busAt.connect,
         app'.phase = app.phase, app'.hook = app.hook, app'.maxStage = app.maxStage,
         app'.expired = app.expired, app'.errors = app.errors,
         h = "cancel" => res = "ok", ~app.expired => BusInv'
  PROVE  WorkersInv'
<1>1. h \in StopHooks /\ h \notin WorkerNames
  BY WorkerNamesAre
<1>2. /\ HookMoves(h, {"running"}, res) /\ app.phase \in {"stopping", "returned"}
      /\ ~app.expired => /\ app.phase = "stopping" /\ app.hook \in 1..Len(Stops) /\ Stops[app.hook] = h
                         /\ ~(StageOf(h) > app.maxStage)
  BY <1>1, HookEndsIs
<1>3. \A w \in WorkerNames : hooks'[w] = hooks[w]
  BY <1>1, <1>2, WorkerNamesAre DEF HookMoves
<1>4. ReturnedInv' /\ ResultInv'
  BY <1>3, StopPlaces DEF WorkersInv, ReturnedInv, ResultInv
<1>5. StartedInv'
  BY <1>2 DEF WorkersInv, StartedInv, Started
<1>6. StopInv'
  <2> SUFFICES ASSUME ~app.expired PROVE StopHooksInv' /\ BusInv'
    BY DEF StopInv
  <2>1. StopHooksInv
    BY <1>2 DEF WorkersInv, StopInv
  <2>2. \A w \in WorkerNames : hooks'[w] \in {"ok", "error"} =>
          /\ wk'[w].state # "running"
          /\ hooks'[w] = "error" <=> wk'[w].res = "error"
    BY <1>3, <2>1 DEF StopHooksInv
  <2>3. \A w \in WorkerNames : wk'[w].res = wk[w].res
    OBVIOUS
  <2>4. StopHooksInv'
    BY <1>1, <1>2, <2>2, <2>3, CurrentHookInv
  <2> QED
    BY <2>4
<1> QED
  BY <1>4, <1>5, <1>6 DEF WorkersInv

LEMMA DrainBusInv ==
  ASSUME WorkersInv, DrainBus
  PROVE  WorkersInv'
<1>1. PICK res \in {"ok", "error"} :
        /\ HookEnds("drain", res) /\ UNCHANGED <<app, wk, exitCh>>
        /\ \/ ~Started("consume") /\ UNCHANGED busAt
           \/ Started("consume") /\ busAt' = [busAt EXCEPT !.drained = TRUE]
  BY DEF DrainBus
<1>2. /\ busAt' \in [connect : BOOLEAN, drained : BOOLEAN, close : BOOLEAN]
      /\ busAt'.connect = busAt.connect /\ busAt'.close = busAt.close
      /\ busAt.drained => busAt'.drained
      /\ Started("consume") => busAt'.drained
  <2>1. PICK b \in [connect : BOOLEAN, drained : BOOLEAN, close : BOOLEAN] : b = busAt
    BY DEF WorkersInv, WorkersTypeOK
  <2> QED
    BY <1>1, <2>1
<1>3. /\ HookMoves("drain", {"running"}, res) /\ app.phase \in {"stopping", "returned"}
  BY <1>1, HookEndsIs, WorkerNamesAre
<1>4. WorkersTypeOK'
  BY <1>1, <1>2, <1>3 DEF WorkersInv, WorkersTypeOK, HookMoves
<1>5. ~app.expired => BusInv'
  <2>1. hooks'["close"] = hooks["close"]
    BY <1>3, WorkerNamesAre DEF HookMoves
  <2> QED
    BY <1>1, <1>2, <1>3, <2>1 DEF WorkersInv, StopInv, BusInv, Started
<1>6. /\ app'.phase = app.phase /\ app'.hook = app.hook /\ app'.maxStage = app.maxStage
      /\ app'.expired = app.expired /\ app'.errors = app.errors /\ UNCHANGED <<wk, exitCh>>
  BY <1>1
<1> QED
  BY <1>1, <1>2, <1>4, <1>5, <1>6, BusHookInv

LEMMA CancelBusInv ==
  ASSUME WorkersInv, CancelBus
  PROVE  WorkersInv'
<1>1. PICK a \in AppRec : a = app
  BY DEF WorkersInv, WorkersTypeOK
<1>2. PICK b \in BOOLEAN : b = (a.busCtx /\ ~Started("consume"))
  OBVIOUS
<1>3. HookEnds("cancel", "ok") /\ UNCHANGED <<wk, exitCh, busAt>> /\ app' = [a EXCEPT !.busCtx = b]
  BY <1>1, <1>2 DEF CancelBus
<1>4. app' \in AppRec
  <2>1. [a EXCEPT !.busCtx = b] \in AppRec
    BY DEF AppRec
  <2> QED
    BY <1>3, <2>1
<1>5. /\ app'.phase = app.phase /\ app'.hook = app.hook /\ app'.maxStage = app.maxStage
      /\ app'.expired = app.expired /\ app'.errors = app.errors
  BY <1>1, <1>3 DEF AppRec
<1>6. /\ HookMoves("cancel", {"running"}, "ok") /\ app.phase \in {"stopping", "returned"}
      /\ ~app.expired => app.hook \in 1..Len(Stops) /\ Stops[app.hook] = "cancel"
  BY <1>3, HookEndsIs, WorkerNamesAre
<1>7. WorkersTypeOK'
  BY <1>3, <1>4, <1>6 DEF WorkersInv, WorkersTypeOK, HookMoves
<1>8. ~app.expired => BusInv'
  <2> SUFFICES ASSUME ~app.expired PROVE BusInv'
    OBVIOUS
  <2>1. PICK n \in Nat : Len(Stops) = n /\ n >= 4 /\ Stops[1] = "drain"
    BY StopPlaces
  <2>2. app.hook > 1
    <3>1. app.hook \in 1..n /\ app.hook # 1
      BY <1>6, <2>1
    <3> QED
      BY <3>1
  <2>3. Started("consume") => busAt.drained
    BY <1>6, <2>2, DrainedFirst
  <2>4. hooks'["drain"] = hooks["drain"] /\ hooks'["close"] = hooks["close"]
    BY <1>6, WorkerNamesAre DEF HookMoves
  <2> QED
    BY <1>3, <1>6, <2>3, <2>4 DEF WorkersInv, StopInv, BusInv, Started
<1>9. busAt'.connect = busAt.connect /\ UNCHANGED <<wk, exitCh>>
  BY <1>3
<1> QED
  BY <1>3, <1>5, <1>7, <1>8, <1>9, BusHookInv

LEMMA CloseBusInv ==
  ASSUME WorkersInv, CloseBus
  PROVE  WorkersInv'
<1>1. PICK b \in [connect : BOOLEAN, drained : BOOLEAN, close : BOOLEAN] : b = busAt
  BY DEF WorkersInv, WorkersTypeOK
<1>2. PICK res \in {"ok", "error"} :
        /\ HookEnds("close", res) /\ UNCHANGED <<app, wk, exitCh>>
        /\ busAt' = [b EXCEPT !.close = b.connect]
  BY <1>1 DEF CloseBus
<1>3. /\ busAt' \in [connect : BOOLEAN, drained : BOOLEAN, close : BOOLEAN]
      /\ busAt'.connect = busAt.connect /\ busAt'.close = busAt.connect /\ busAt'.drained = busAt.drained
  BY <1>1, <1>2
<1>4. /\ HookMoves("close", {"running"}, res) /\ app.phase \in {"stopping", "returned"}
      /\ ~app.expired => app.hook \in 1..Len(Stops) /\ Stops[app.hook] = "close"
  BY <1>2, HookEndsIs, WorkerNamesAre
<1>5. WorkersTypeOK'
  BY <1>2, <1>3, <1>4 DEF WorkersInv, WorkersTypeOK, HookMoves
<1>6. ~app.expired => wk["consume"].state # "running"
  <2> SUFFICES ASSUME ~app.expired, Started("consume") PROVE wk["consume"].state # "running"
    BY DEF Started
  <2>1. PICK n \in Nat :
          /\ Len(Stops) = n /\ n >= 4 /\ Stops[3] = "consume" /\ Stops[n] = "close"
          /\ \A i, j \in 1..n : Stops[i] = Stops[j] => i = j
    BY StopPlaces
  <2>2. app.hook = n
    BY <1>4, <2>1
  <2>3. 3 \in 1..Len(Stops) /\ 3 < app.hook
    BY <2>1, <2>2
  <2>4. app.maxStage >= 2 /\ StageOf("consume") = 2 /\ app.maxStage \in 0..3
    BY StagesAre, WorkerNamesAre DEF WorkersInv, StartedInv, WorkersTypeOK, AppRec
  <2>5. hooks["consume"] \in {"ok", "error"}
    BY <1>4, <2>1, <2>3, <2>4, PassedIsDone
  <2> QED
    BY <1>4, <2>5, WorkerNamesAre DEF WorkersInv, StopInv, StopHooksInv
<1>7. ~app.expired => BusInv'
  <2>1. hooks'["drain"] = hooks["drain"]
    BY <1>4, WorkerNamesAre DEF HookMoves
  <2> QED
    BY <1>2, <1>3, <1>4, <1>6, <2>1 DEF WorkersInv, StopInv, BusInv, Started
<1>8. /\ app'.phase = app.phase /\ app'.hook = app.hook /\ app'.maxStage = app.maxStage
      /\ app'.expired = app.expired /\ app'.errors = app.errors /\ UNCHANGED <<wk, exitCh>>
  BY <1>2
<1> QED
  BY <1>2, <1>3, <1>5, <1>7, <1>8, BusHookInv

LEMMA WorkersNextInv == WorkersInv /\ [WorkersNext]_workersVars => WorkersInv'
<1> SUFFICES ASSUME WorkersInv, [WorkersNext]_workersVars PROVE WorkersInv'
  OBVIOUS
<1>1. CASE UNCHANGED workersVars
  <2>1. UNCHANGED <<app, wk, exitCh, busAt, hooks>> /\ Stops' = Stops /\ Starts' = Starts
    BY <1>1 DEF workersVars, Stops, RegisteredStops, Starts
  <2>2. WorkersTypeOK' /\ StartedInv' /\ ResultInv' /\ ReturnedInv'
    BY <2>1 DEF WorkersInv, WorkersTypeOK, StartedInv, ResultInv, ReturnedInv, Started
  <2>3. StopInv'
    BY <2>1 DEF WorkersInv, StopInv, StopHooksInv, BusInv, Started
  <2> QED
    BY <2>2, <2>3 DEF WorkersInv
<1>2. CASE HostSteps
  BY <1>2, StartHookInv, StartCancelledInv, RunningInv, TriggerInv, StopSkippedInv, StopBeginsInv,
     StopReturnedInv, StopAbandonedInv, ReturnsInv
  DEF HostSteps
<1>3. CASE HookSteps
  BY <1>3, AwaitWorkerInv, DrainBusInv, CancelBusInv, CloseBusInv DEF HookSteps
<1>4. CASE ContextCancelled \/ BudgetExpires
  BY <1>4, ContextCancelledInv, BudgetExpiresInv
<1>5. ASSUME NEW w \in WorkerNames, WorkerReports(w) PROVE WorkersInv'
  BY <1>5, WorkerReportsInv
<1>6. ASSUME NEW w \in WorkerNames, NEW res \in {"nil", "canceled", "error"}, WorkerEnds(w, res)
      PROVE WorkersInv'
  BY <1>6, WorkerEndsInv
<1> QED
  BY <1>1, <1>2, <1>3, <1>4, <1>5, <1>6 DEF WorkersNext

LEMMA WorkersInvImpliesOrderly == WorkersInv => OrderlyShutdown
<1> SUFFICES ASSUME WorkersInv, ~app.expired PROVE OrderlyShutdown
  BY DEF OrderlyShutdown
<1>1. app.phase \in {"starting", "running"} => OrderlyShutdown
  BY DEF WorkersInv, StartedInv, OrderlyShutdown
<1>2. ASSUME app.phase \in {"stopping", "returned"} PROVE OrderlyShutdown
  <2>1. StopHooksInv /\ BusInv /\ app.maxStage \in 0..3 /\ app.hook \in Nat
    BY <1>2 DEF WorkersInv, StopInv, WorkersTypeOK, AppRec
  <2>2. PICK n \in Nat :
          /\ n >= 4 /\ Len(Stops) = n /\ Stops[n] = "close"
          /\ \A h \in StopHooks : \E i \in 1..n : Stops[i] = h
    BY StopPlaces
  <2>3. ASSUME app.phase = "returned"
        PROVE  /\ \A w \in WorkerNames : wk[w].state # "running"
               /\ app.errors \cap StopHooks =
                    {w \in WorkerNames : wk[w].res = "error"} \cup {h \in {"drain", "close"} : hooks[h] = "error"}
               /\ busAt.connect => busAt.close
    <3>1. \A i \in 1..n : i < app.hook
      BY <2>1, <2>2, <2>3 DEF WorkersInv, ReturnedInv
    <3>2. ASSUME NEW w \in WorkerNames, Started(w)
          PROVE  wk[w].state # "running" /\ (wk[w].res = "error" => w \in app.errors)
      <4>1. PICK i \in 1..n : Stops[i] = w
        BY <2>2, WorkerNamesAre
      <4>2. StageOf(w) = 2 /\ app.maxStage >= 2
        BY <3>2, StagesAre DEF WorkersInv, StartedInv
      <4>3. hooks[w] \in {"ok", "error"}
        BY <1>2, <2>1, <2>2, <3>1, <4>1, <4>2, PassedIsDone
      <4> QED
        BY <2>1, <2>2, <3>1, <4>1, <4>3 DEF StopHooksInv
    <3>3. \A w \in WorkerNames : ~Started(w) => wk[w].state # "running" /\ wk[w].res # "error"
      BY DEF Started, WorkersInv, ResultInv
    <3>4. \A w \in WorkerNames : wk[w].state # "running"
      BY <3>2, <3>3
    <3>5. \A x \in app.errors \cap StopHooks :
            (x \in WorkerNames /\ wk[x].res = "error") \/ (x \in {"drain", "close"} /\ hooks[x] = "error")
      <4> SUFFICES ASSUME NEW x \in app.errors \cap StopHooks, hooks[x] = "error"
                   PROVE  (x \in WorkerNames /\ wk[x].res = "error") \/ x \in {"drain", "close"}
        BY <2>1 DEF StopHooksInv
      <4>1. x \in WorkerNames => wk[x].res = "error"
        BY <2>1 DEF StopHooksInv
      <4>2. x # "cancel"
        BY <2>1 DEF StopHooksInv
      <4> QED
        BY <4>1, <4>2 DEF StopHooks
    <3>6. \A w \in WorkerNames : wk[w].res = "error" => w \in app.errors /\ w \in StopHooks
      BY <3>2, <3>3, WorkerNamesAre
    <3>7. busAt.connect => busAt.close
      <4> SUFFICES ASSUME busAt.connect PROVE busAt.close
        OBVIOUS
      <4>1. app.maxStage >= 1 /\ StageOf("close") = 1 /\ n \in 1..n
        BY <2>2, StagesAre DEF WorkersInv, StartedInv
      <4>2. hooks["close"] \in {"ok", "error"}
        BY <1>2, <2>1, <2>2, <3>1, <4>1, PassedIsDone
      <4> QED
        BY <2>1, <4>2 DEF StopHooksInv, BusInv
    <3>8. \A h \in {"drain", "close"} : hooks[h] = "error" => h \in app.errors /\ h \in StopHooks
      <4> SUFFICES ASSUME NEW h \in {"drain", "close"}, hooks[h] = "error"
                   PROVE  h \in app.errors /\ h \in StopHooks
        OBVIOUS
      <4>1. h \in StopHooks
        BY WorkerNamesAre
      <4>2. PICK i \in 1..n : Stops[i] = h
        BY <2>2, <4>1
      <4> QED
        BY <2>1, <2>2, <3>1, <4>1, <4>2 DEF StopHooksInv
    <3> QED
      BY <3>4, <3>5, <3>6, <3>7, <3>8
  <2> QED
    BY <2>1, <2>3 DEF OrderlyShutdown, BusInv
<1> QED
  BY <1>1, <1>2 DEF WorkersInv, WorkersTypeOK, AppRec

(* Workers, for any number of workers that modules register: within its     *)
(* budget a shutdown waits for all of them, tells every failure of theirs,  *)
(* of Drain and of Close and no other, drains the bus before it cancels it, *)
(* and closes it last, also when Drain failed (run.go:158-204, 509-530).    *)
THEOREM ShutdownsAreOrderly == WorkersSpec => []OrderlyShutdown
<1>1. WorkersInit => WorkersInv
  BY WorkersInitInv
<1>2. WorkersInv /\ [WorkersNext]_workersVars => WorkersInv'
  BY WorkersNextInv
<1>3. WorkersInv => OrderlyShutdown
  BY WorkersInvImpliesOrderly
<1> QED
  BY <1>1, <1>2, <1>3, PTL DEF WorkersSpec

-----------------------------------------------------------------------------
(* Core: who releases what the host runs on. *)

Places == {"idle", "start", "assemble", "publish", "fn", "close", "shutdown", "await", "finish",
           "cleanup", "release", "returned"}
Ops == {"none", "start", "execute", "close", "shutdown", "wait"}
Results == {"none", "refused", "running", "late", "final"}
CallRec == [op : Ops, at : Places, result : Results]

Resources == {"telemetry", "pool"}

CoreTypeOK ==
  /\ core \in [used : BOOLEAN, starting : BOOLEAN, closed : BOOLEAN, running : BOOLEAN]
  /\ opened \in {<<"telemetry">>, <<"telemetry", "pool">>}
  /\ once \in [cleanup : Callers \cup {"free", "done"}, finish : Callers \cup {"free", "done"}]
  /\ host \in {"none", "starting", "running", "stopping", "done"}
  /\ calls \in [Callers -> CallRec]
  /\ overlaps \in BOOLEAN

(* What Start has come to, told by the flags; whoever holds finishOnce has  *)
(* waited for the host.                                                     *)
StartInv ==
  /\ ~core.used => host = "none" /\ ~core.starting /\ ~core.running
  /\ core.starting => ~core.running
  /\ core.running => host \in {"running", "stopping", "done"}
  /\ core.used /\ ~core.starting /\ ~core.running => host = "none"
  /\ once.finish # "free" => core.running /\ host = "done"

(* Where the goroutines are: only one starts the host, those that stop it   *)
(* have a running profile, and before Start only a Close may clean up.      *)
CallsInv ==
  /\ calls["waiter"].op \in {"none", "wait"} /\ calls["waiter"].at \notin {"start", "close"}
  /\ \A c \in Callers :
       /\ calls[c].at \in {"assemble", "publish"} =>
            core.starting /\ \A d \in Callers \ {c} : calls[d].at \notin {"assemble", "publish"}
       /\ calls[c].at = "assemble" => host = "starting"
       /\ calls[c].at = "publish" => host \in {"running", "done"}
       /\ calls[c].at \in {"fn", "shutdown", "await", "finish"} => core.running
       /\ calls[c].at = "finish" => host = "done"
       /\ calls[c].at = "close" => calls[c].op = "close"
       /\ calls[c].at \in {"cleanup", "release"} /\ ~core.used => calls[c].op = "close"

(* What has been released is the end of what was opened, by the goroutine   *)
(* that holds cleanupOnce; a call that is over saw the end of it.           *)
ReleaseInv ==
  /\ released \in Seq(Resources) /\ Len(released) <= Len(opened)
  /\ \A i \in 1..Len(released) : released[i] = opened[Len(opened) - i + 1]
  /\ once.cleanup = "free" => Len(released) = 0
  /\ once.cleanup = "done" => core.closed /\ Len(released) = Len(opened)
  /\ once.finish = "done" => once.cleanup = "done"
  /\ \A c \in Callers :
       /\ calls[c].at = "release" <=> once.cleanup = c
       /\ calls[c].result = "final" => once.cleanup = "done"

(* Whoever has decided to release found the host gone, or not yet there.    *)
DecidedInv ==
  overlaps \/ ~Used \/
    (once.cleanup = "free" /\ \A c \in Callers : calls[c].at \notin {"cleanup", "release"})

CoreInv == CoreTypeOK /\ StartInv /\ CallsInv /\ ReleaseInv /\ DecidedInv

(* A step of one goroutine, seen from all of them. *)
Moved(c, op, place, result) ==
  /\ calls' \in [Callers -> CallRec]
  /\ calls'[c].op = op /\ calls'[c].at = place /\ calls'[c].result = result
  /\ \A d \in Callers \ {c} : calls'[d] = calls[d]

LEMMA CallerNames ==
  /\ "waiter" \in Callers /\ "free" \notin Callers /\ "done" \notin Callers /\ CoreCallers \subseteq Callers
  /\ "waiter" \notin CoreCallers
BY ProfileCoreAssumption DEF Callers

LEMMA GotoMoves ==
  ASSUME calls \in [Callers -> CallRec], NEW c \in Callers, NEW place \in Places, Goto(c, place)
  PROVE  Moved(c, calls[c].op, place, calls[c].result)
<1>1. PICK r \in CallRec : r = calls[c]
  OBVIOUS
<1>2. calls' = [calls EXCEPT ![c] = [r EXCEPT !.at = place]]
  BY <1>1 DEF Goto
<1>3. [r EXCEPT !.at = place] \in CallRec
  BY DEF CallRec
<1> QED
  BY <1>1, <1>2, <1>3 DEF Moved, CallRec

LEMMA ReturnMoves ==
  ASSUME calls \in [Callers -> CallRec], NEW c \in Callers, NEW result \in Results, Return(c, result)
  PROVE  Moved(c, calls[c].op, "returned", result)
<1>1. PICK r \in CallRec : r = calls[c]
  OBVIOUS
<1>2. calls' = [calls EXCEPT ![c] = [r EXCEPT !.at = "returned", !.result = result]]
  BY <1>1 DEF Return
<1>3. [r EXCEPT !.at = "returned", !.result = result] \in CallRec
  BY DEF CallRec, Places
<1> QED
  BY <1>1, <1>2, <1>3 DEF Moved, CallRec

LEMMA OpenedType ==
  ASSUME CoreInv
  PROVE  opened \in Seq(Resources) /\ released \in Seq(Resources) /\ Len(opened) \in Nat /\ Len(released) \in Nat
<1>1. <<"telemetry">> \in Seq(Resources) /\ <<"telemetry", "pool">> \in Seq(Resources)
  BY DEF Resources
<1>2. opened \in Seq(Resources) /\ released \in Seq(Resources)
  BY <1>1 DEF CoreInv, CoreTypeOK, ReleaseInv
<1> QED
  BY <1>2

LEMMA CoreInitInv == CoreInit => CoreInv
<1> SUFFICES ASSUME CoreInit PROVE CoreInv
  OBVIOUS
<1>1. calls \in [Callers -> CallRec] /\ \A c \in Callers : calls[c] = Call("none", "idle", "none")
  BY DEF CoreInit, CallRec, Call, Places, Ops, Results
<1>2. \A c \in Callers : calls[c].at = "idle" /\ calls[c].op = "none" /\ calls[c].result = "none"
  BY <1>1 DEF Call
<1>3. Len(released) = 0 /\ released \in Seq(Resources) /\ Len(opened) \in Nat
  BY DEF CoreInit
<1>4. CoreTypeOK /\ StartInv /\ CallsInv /\ DecidedInv
  BY <1>1, <1>2, CallerNames DEF CoreInit, CoreTypeOK, StartInv, CallsInv, DecidedInv, Used
<1>5. ReleaseInv
  BY <1>2, <1>3, CallerNames DEF CoreInit, ReleaseInv
<1> QED
  BY <1>4, <1>5 DEF CoreInv

(* What a step that releases nothing keeps, and what it must show. *)
LEMMA ReleaseStays ==
  ASSUME CoreInv, UNCHANGED <<opened, released, once>>, core.closed => core'.closed,
         NEW c \in Callers, NEW op, NEW place, NEW result, Moved(c, op, place, result),
         calls[c].at # "release", place # "release", result = "final" => once.cleanup = "done"
  PROVE  ReleaseInv'
<1>1. UNCHANGED <<opened, released, once>> /\ (core.closed => core'.closed)
  OBVIOUS
<1>2. \A d \in Callers : (calls'[d].at = "release") <=> once'.cleanup = d
  BY <1>1 DEF CoreInv, ReleaseInv, Moved
<1>3. \A d \in Callers : calls'[d].result = "final" => once'.cleanup = "done"
  BY <1>1 DEF CoreInv, ReleaseInv, Moved
<1> QED
  BY <1>1, <1>2, <1>3 DEF CoreInv, ReleaseInv

LEMMA BeginCallInv ==
  ASSUME CoreInv, NEW c \in CoreCallers, NEW op \in {"start", "execute", "close", "shutdown", "wait"},
         BeginCall(c, op)
  PROVE  CoreInv'
<1> DEFINE place == CASE op \in {"start", "execute"} -> "start"
                      [] op = "close" -> "close"
                      [] op = "shutdown" -> "shutdown"
                      [] op = "wait" -> "await"
<1>1. /\ calls' = [calls EXCEPT ![c] = Call(op, place, "none")] /\ calls[c].at = "idle"
      /\ op \in {"shutdown", "wait"} => core.running
      /\ UNCHANGED <<core, opened, released, once, host, overlaps>>
  BY DEF BeginCall, Called
<1>2. place \in {"start", "close", "shutdown", "await"}
      /\ (place \in {"shutdown", "await"} => op \in {"shutdown", "wait"})
  OBVIOUS
<1> HIDE DEF place
<1>3. Moved(c, op, place, "none")
  BY <1>1, <1>2, CallerNames DEF Moved, Call, CallRec, Places, Ops, Results, CoreInv, CoreTypeOK
<1>4. ReleaseInv'
  BY <1>1, <1>2, <1>3, CallerNames, ReleaseStays
<1>5. CoreTypeOK' /\ StartInv' /\ DecidedInv'
  BY <1>1, <1>2, <1>3, CallerNames DEF CoreInv, CoreTypeOK, StartInv, DecidedInv, Used, Moved
<1>6. \A d \in Callers : \/ calls'[d] = calls[d]
                         \/ d = c /\ calls'[d].at = place /\ calls'[d].op = op
  BY <1>3 DEF Moved
<1>7. place = "close" => op = "close"
  BY DEF place
<1>8. CallsInv'
  BY <1>1, <1>2, <1>6, <1>7, CallerNames DEF CoreInv, CallsInv
<1> QED
  BY <1>4, <1>5, <1>8 DEF CoreInv

LEMMA StartCoreInv ==
  ASSUME CoreInv, NEW c \in Callers, StartCore(c)
  PROVE  CoreInv'
<1>1. calls \in [Callers -> CallRec] /\ calls[c].at = "start" /\ UNCHANGED <<opened, released, once>>
  BY DEF CoreInv, CoreTypeOK, StartCore, Called
<1>2. CASE core.used \/ core.closed
  <2>1. Return(c, "refused") /\ UNCHANGED <<core, host, overlaps>>
    BY <1>2 DEF StartCore
  <2>2. Moved(c, calls[c].op, "returned", "refused")
    BY <1>1, <2>1, ReturnMoves DEF Results
  <2>3. ReleaseInv'
    BY <1>1, <2>1, <2>2, ReleaseStays
  <2> QED
    BY <1>1, <2>1, <2>2, <2>3, CallerNames
    DEF CoreInv, CoreTypeOK, StartInv, CallsInv, DecidedInv, Used, Moved
<1>3. CASE ~core.used /\ ~core.closed
  <2>1. /\ core' = [core EXCEPT !.used = TRUE, !.starting = TRUE] /\ host' = "starting"
        /\ Goto(c, "assemble")
        /\ overlaps' = \E d \in CoreCallers : calls[d].op = "close" /\ calls[d].at # "close"
    BY <1>3 DEF StartCore
  <2>2. Moved(c, calls[c].op, "assemble", calls[c].result)
    BY <1>1, <2>1, GotoMoves DEF Places
  <2>3. PICK k \in [used : BOOLEAN, starting : BOOLEAN, closed : BOOLEAN, running : BOOLEAN] : k = core
    BY DEF CoreInv, CoreTypeOK
  <2>4. /\ core' \in [used : BOOLEAN, starting : BOOLEAN, closed : BOOLEAN, running : BOOLEAN]
        /\ core'.used /\ core'.starting /\ core'.closed = k.closed /\ core'.running = k.running
    BY <2>1, <2>3
  <2>5. ReleaseInv'
    <3>1. once.cleanup # "done"
      BY <1>3 DEF CoreInv, ReleaseInv
    <3>2. calls[c].result # "final"
      BY <3>1 DEF CoreInv, ReleaseInv
    <3> QED
      BY <1>1, <2>2, <2>3, <2>4, <3>1, <3>2, ReleaseStays
  <2>6. DecidedInv'
    <3> SUFFICES ASSUME ~overlaps' PROVE DecidedInv'
      BY DEF DecidedInv
    <3>1. \A d \in Callers : calls[d].at \notin {"cleanup", "release"}
      BY <1>3, <2>1, CallerNames DEF CoreInv, CallsInv, Callers
    <3>2. once.cleanup = "free"
      BY <1>3, <3>1 DEF CoreInv, ReleaseInv, CoreTypeOK
    <3> QED
      BY <1>1, <2>2, <3>1, <3>2 DEF DecidedInv, Moved
  <2>7. CoreTypeOK' /\ StartInv'
    BY <1>1, <1>3, <2>1, <2>2, <2>3, <2>4 DEF CoreInv, CoreTypeOK, StartInv, Moved
  <2>8. CallsInv'
    BY <1>1, <1>3, <2>1, <2>2, <2>3, <2>4, CallerNames DEF CoreInv, CallsInv, StartInv, Moved
  <2> QED
    BY <2>5, <2>6, <2>7, <2>8 DEF CoreInv
<1> QED
  BY <1>2, <1>3 DEF CoreInv, CoreTypeOK

LEMMA StartFailsInv ==
  ASSUME CoreInv, NEW c \in Callers, StartFails(c)
  PROVE  CoreInv'
<1>1. /\ calls \in [Callers -> CallRec] /\ calls[c].at = "assemble"
      /\ UNCHANGED <<opened, released, once, overlaps>> /\ host' = "none"
      /\ core' = [core EXCEPT !.starting = FALSE, !.closed = TRUE] /\ Goto(c, "cleanup")
  BY DEF CoreInv, CoreTypeOK, StartFails, Called
<1>2. Moved(c, calls[c].op, "cleanup", calls[c].result)
  BY <1>1, GotoMoves DEF Places
<1>3. PICK k \in [used : BOOLEAN, starting : BOOLEAN, closed : BOOLEAN, running : BOOLEAN] : k = core
  BY DEF CoreInv, CoreTypeOK
<1>4. /\ core' \in [used : BOOLEAN, starting : BOOLEAN, closed : BOOLEAN, running : BOOLEAN]
      /\ core'.used = k.used /\ ~core'.starting /\ core'.closed /\ core'.running = k.running
  BY <1>1, <1>3
<1>5. ReleaseInv'
  BY <1>1, <1>2, <1>4, ReleaseStays DEF CoreInv, ReleaseInv
<1>6. CoreTypeOK' /\ StartInv' /\ DecidedInv'
  BY <1>1, <1>2, <1>3, <1>4 DEF CoreInv, CoreTypeOK, StartInv, CallsInv, DecidedInv, Used, Moved
<1>7. CallsInv'
  BY <1>1, <1>2, <1>3, <1>4, CallerNames DEF CoreInv, StartInv, CallsInv, Moved
<1> QED
  BY <1>5, <1>6, <1>7 DEF CoreInv

LEMMA HostReadyInv ==
  ASSUME CoreInv, NEW c \in Callers, HostReady(c)
  PROVE  CoreInv'
<1>1. /\ calls \in [Callers -> CallRec] /\ calls[c].at = "assemble" /\ host = "starting"
      /\ UNCHANGED <<core, opened, released, once, overlaps>> /\ host' = "running" /\ Goto(c, "publish")
  BY DEF CoreInv, CoreTypeOK, HostReady, Called
<1>2. Moved(c, calls[c].op, "publish", calls[c].result)
  BY <1>1, GotoMoves DEF Places
<1>3. ReleaseInv'
  BY <1>1, <1>2, ReleaseStays DEF CoreInv, ReleaseInv
<1>4. CoreTypeOK' /\ StartInv' /\ DecidedInv'
  BY <1>1, <1>2 DEF CoreInv, CoreTypeOK, StartInv, CallsInv, DecidedInv, Used, Moved
<1>5. CallsInv'
  BY <1>1, <1>2, CallerNames DEF CoreInv, StartInv, CallsInv, Moved
<1> QED
  BY <1>3, <1>4, <1>5 DEF CoreInv

LEMMA PublishInv ==
  ASSUME CoreInv, NEW c \in Callers, Publish(c)
  PROVE  CoreInv'
<1>1. /\ calls \in [Callers -> CallRec] /\ calls[c].at = "publish"
      /\ UNCHANGED <<opened, released, once, host, overlaps>>
      /\ core' = [core EXCEPT !.starting = FALSE, !.running = TRUE]
      /\ Return(c, "running") \/ Goto(c, "fn")
  BY DEF CoreInv, CoreTypeOK, Publish, Called
<1>2. PICK place \in {"returned", "fn"}, result \in Results :
        Moved(c, calls[c].op, place, result) /\ (result = "final" => calls[c].result = "final")
  <2>1. CASE Return(c, "running")
    <3>1. Moved(c, calls[c].op, "returned", "running")
      BY <1>1, <2>1, ReturnMoves DEF Results
    <3> QED
      BY <3>1 DEF Results
  <2>2. CASE Goto(c, "fn")
    <3>1. Moved(c, calls[c].op, "fn", calls[c].result)
      BY <1>1, <2>2, GotoMoves DEF Places
    <3> QED
      BY <1>1, <3>1 DEF CallRec
  <2> QED
    BY <1>1, <2>1, <2>2
<1>3. PICK k \in [used : BOOLEAN, starting : BOOLEAN, closed : BOOLEAN, running : BOOLEAN] : k = core
  BY DEF CoreInv, CoreTypeOK
<1>4. /\ core' \in [used : BOOLEAN, starting : BOOLEAN, closed : BOOLEAN, running : BOOLEAN]
      /\ core'.used = k.used /\ ~core'.starting /\ core'.closed = k.closed /\ core'.running
  BY <1>1, <1>3
<1>5. ReleaseInv'
  BY <1>1, <1>2, <1>3, <1>4, ReleaseStays DEF CoreInv, ReleaseInv
<1>6. CoreTypeOK' /\ StartInv' /\ DecidedInv'
  BY <1>1, <1>2, <1>3, <1>4 DEF CoreInv, CoreTypeOK, StartInv, CallsInv, DecidedInv, Used, Moved
<1>7. CallsInv'
  BY <1>1, <1>2, <1>3, <1>4, CallerNames DEF CoreInv, StartInv, CallsInv, Moved
<1> QED
  BY <1>5, <1>6, <1>7 DEF CoreInv

(* What a step that only moves a goroutine, and perhaps the host, keeps. *)
LEMMA OnlyMoves ==
  ASSUME CoreInv, UNCHANGED <<core, opened, released, once, overlaps>>, NEW c \in Callers,
         NEW place, NEW result, Moved(c, calls[c].op, place, result), calls[c].at # "release",
         result = "final" => once.cleanup = "done",
         place \in {"shutdown", "await", "finish", "cleanup", "returned"},
         place \in {"shutdown", "await", "finish"} => core.running,
         place = "finish" => host = "done",
         place = "cleanup" => ~Used /\ (core.used \/ calls[c].op = "close"),
         host' = host \/ (host = "running" /\ host' = "stopping" /\ calls[c].at = "shutdown")
  PROVE  CoreInv'
<1>1. UNCHANGED <<core, opened, released, once, overlaps>>
  OBVIOUS
<1>2. ReleaseInv'
  BY <1>1, ReleaseStays
<1>3. CoreTypeOK' /\ StartInv' /\ DecidedInv'
  BY <1>1 DEF CoreInv, CoreTypeOK, StartInv, CallsInv, DecidedInv, Used, Moved
<1>4. CallsInv'
  BY <1>1, CallerNames DEF CoreInv, StartInv, CallsInv, Moved
<1> QED
  BY <1>2, <1>3, <1>4 DEF CoreInv

LEMMA FnReturnsInv ==
  ASSUME CoreInv, NEW c \in Callers, FnReturns(c)
  PROVE  CoreInv'
<1>1. /\ calls \in [Callers -> CallRec] /\ calls[c].at = "fn" /\ Goto(c, "shutdown")
      /\ UNCHANGED <<core, opened, released, once, host, overlaps>>
  BY DEF CoreInv, CoreTypeOK, FnReturns, Called
<1>2. Moved(c, calls[c].op, "shutdown", calls[c].result)
  BY <1>1, GotoMoves DEF Places
<1>3. core.running /\ (calls[c].result = "final" => once.cleanup = "done")
  BY <1>1 DEF CoreInv, CallsInv, ReleaseInv
<1> QED
  BY <1>1, <1>2, <1>3, OnlyMoves

LEMMA CloseCoreInv ==
  ASSUME CoreInv, NEW c \in Callers, CloseCore(c)
  PROVE  CoreInv'
<1>1. /\ calls \in [Callers -> CallRec] /\ calls[c].at = "close"
      /\ UNCHANGED <<core, opened, released, once, host, overlaps>>
  BY DEF CoreInv, CoreTypeOK, CloseCore, Called
<1>2. calls[c].result = "final" => once.cleanup = "done"
  BY DEF CoreInv, ReleaseInv
<1>3. CASE core.starting
  <2>1. Return(c, "refused")
    BY <1>3 DEF CloseCore
  <2>2. Moved(c, calls[c].op, "returned", "refused")
    BY <1>1, <2>1, ReturnMoves DEF Results
  <2> QED
    BY <1>1, <2>2, OnlyMoves
<1>4. CASE ~core.starting /\ core.running
  <2>1. Goto(c, "shutdown")
    BY <1>4 DEF CloseCore
  <2>2. Moved(c, calls[c].op, "shutdown", calls[c].result)
    BY <1>1, <2>1, GotoMoves DEF Places
  <2> QED
    BY <1>1, <1>2, <1>4, <2>2, OnlyMoves
<1>5. CASE ~core.starting /\ ~core.running
  <2>1. Goto(c, "cleanup")
    BY <1>5 DEF CloseCore
  <2>2. Moved(c, calls[c].op, "cleanup", calls[c].result)
    BY <1>1, <2>1, GotoMoves DEF Places
  <2>3. ~Used
    BY <1>5 DEF CoreInv, StartInv, Used
  <2>4. calls[c].op = "close"
    BY <1>1 DEF CoreInv, CallsInv
  <2> QED
    BY <1>1, <1>2, <2>2, <2>3, <2>4, OnlyMoves
<1> QED
  BY <1>3, <1>4, <1>5

LEMMA ShutdownHostInv ==
  ASSUME CoreInv, NEW c \in Callers, ShutdownHost(c)
  PROVE  CoreInv'
<1>1. /\ calls \in [Callers -> CallRec] /\ calls[c].at = "shutdown" /\ Goto(c, "await")
      /\ UNCHANGED <<core, opened, released, once, overlaps>>
      /\ host' = IF host = "running" THEN "stopping" ELSE host
  BY DEF CoreInv, CoreTypeOK, ShutdownHost, Called
<1>2. Moved(c, calls[c].op, "await", calls[c].result)
  BY <1>1, GotoMoves DEF Places
<1>3. core.running /\ (calls[c].result = "final" => once.cleanup = "done")
  BY <1>1 DEF CoreInv, CallsInv, ReleaseInv
<1> QED
  BY <1>1, <1>2, <1>3, OnlyMoves

LEMMA BudgetEndsInv ==
  ASSUME CoreInv, NEW c \in Callers, BudgetEnds(c)
  PROVE  CoreInv'
<1> DEFINE late == [calls EXCEPT ![c].at = "returned", ![c].result = "late"]
<1>1. /\ calls \in [Callers -> CallRec] /\ calls[c].at = "await" /\ c # "waiter"
      /\ UNCHANGED <<core, opened, released, once, host, overlaps>>
      /\ calls' = [calls EXCEPT ![c].at = "returned", ![c].result = "late",
                                !["waiter"] = IF @.at = "idle" THEN Call("wait", "await", "none") ELSE @]
  BY DEF CoreInv, CoreTypeOK, CallsInv, BudgetEnds, Called
<1>2. PICK r \in CallRec : r = calls[c]
  BY <1>1
<1>3. PICK w \in CallRec : w = calls["waiter"]
  BY <1>1, CallerNames
<1>4. PICK v \in CallRec : v = IF w.at = "idle" THEN Call("wait", "await", "none") ELSE w
  BY DEF Call, CallRec, Places, Ops, Results
<1>5. PICK s \in CallRec : s = [r EXCEPT !.at = "returned", !.result = "late"]
  BY DEF CallRec, Places, Results
<1>6. calls' = [calls EXCEPT ![c] = s, !["waiter"] = v]
  BY <1>1, <1>2, <1>3, <1>4, <1>5, CallerNames
<1>7. /\ calls' \in [Callers -> CallRec]
      /\ calls'[c] = s /\ calls'["waiter"] = v
      /\ \A d \in Callers \ {c, "waiter"} : calls'[d] = calls[d]
  BY <1>1, <1>6, CallerNames
<1>8. /\ s.op = r.op /\ s.at = "returned" /\ s.result = "late"
      /\ v = w \/ (v.op = "wait" /\ v.at = "await" /\ v.result = "none" /\ w.at = "idle")
  <2>1. s.op = r.op /\ s.at = "returned" /\ s.result = "late"
    BY <1>5 DEF CallRec
  <2>2. w.at = "idle" => v.op = "wait" /\ v.at = "await" /\ v.result = "none"
    BY <1>4 DEF Call
  <2>3. w.at # "idle" => v = w
    BY <1>4
  <2> QED
    BY <2>1, <2>2, <2>3
<1>9. core.running
  BY <1>1 DEF CoreInv, CallsInv
<1>10. ReleaseInv'
  <2>1. UNCHANGED <<core, opened, released, once>>
    BY <1>1
  <2>2. \A d \in Callers : (calls'[d].at = "release") <=> once'.cleanup = d
    BY <1>1, <1>2, <1>3, <1>7, <1>8 DEF CoreInv, ReleaseInv
  <2>3. \A d \in Callers : calls'[d].result = "final" => once'.cleanup = "done"
    BY <1>1, <1>2, <1>3, <1>7, <1>8 DEF CoreInv, ReleaseInv
  <2> QED
    BY <2>1, <2>2, <2>3 DEF CoreInv, ReleaseInv
<1>11. CoreTypeOK' /\ StartInv' /\ DecidedInv'
  BY <1>1, <1>2, <1>3, <1>7, <1>8 DEF CoreInv, CoreTypeOK, StartInv, CallsInv, DecidedInv, Used
<1>12. CallsInv'
  <2>1. \A d \in Callers : \/ calls'[d] = calls[d]
                           \/ calls'[d].at = "returned"
                           \/ calls'[d].at = "await" /\ calls[d].at = "idle"
    BY <1>1, <1>2, <1>3, <1>7, <1>8
  <2>2. calls'["waiter"].op \in {"none", "wait"} /\ calls'["waiter"].at \notin {"start", "close"}
    BY <1>3, <1>7, <1>8 DEF CoreInv, CallsInv
  <2> QED
    BY <1>1, <1>9, <2>1, <2>2 DEF CoreInv, CallsInv
<1> QED
  BY <1>10, <1>11, <1>12 DEF CoreInv

LEMMA HostWaitedInv ==
  ASSUME CoreInv, NEW c \in Callers, HostWaited(c)
  PROVE  CoreInv'
<1>1. /\ calls \in [Callers -> CallRec] /\ calls[c].at = "await" /\ Goto(c, "finish") /\ host = "done"
      /\ UNCHANGED <<core, opened, released, once, host, overlaps>>
  BY DEF CoreInv, CoreTypeOK, HostWaited, Called
<1>2. Moved(c, calls[c].op, "finish", calls[c].result)
  BY <1>1, GotoMoves DEF Places
<1>3. core.running /\ (calls[c].result = "final" => once.cleanup = "done")
  BY <1>1 DEF CoreInv, CallsInv, ReleaseInv
<1> QED
  BY <1>1, <1>2, <1>3, OnlyMoves

LEMMA FinishReturnsInv ==
  ASSUME CoreInv, NEW c \in Callers, FinishReturns(c)
  PROVE  CoreInv'
<1>1. /\ calls \in [Callers -> CallRec] /\ calls[c].at = "finish" /\ Return(c, "final")
      /\ UNCHANGED <<core, opened, released, once, host, overlaps>> /\ once.finish = "done"
  BY DEF CoreInv, CoreTypeOK, FinishReturns, Called
<1>2. Moved(c, calls[c].op, "returned", "final")
  BY <1>1, ReturnMoves DEF Results
<1>3. once.cleanup = "done"
  BY <1>1 DEF CoreInv, ReleaseInv
<1> QED
  BY <1>1, <1>2, <1>3, OnlyMoves

LEMMA FinishInv ==
  ASSUME CoreInv, NEW c \in Callers, Finish(c)
  PROVE  CoreInv'
<1>1. /\ calls \in [Callers -> CallRec] /\ calls[c].at = "finish" /\ Goto(c, "cleanup")
      /\ UNCHANGED <<core, opened, released, host, overlaps>>
      /\ once' = [once EXCEPT !.finish = c] /\ once.finish = "free"
  BY DEF CoreInv, CoreTypeOK, Finish, Called
<1>2. Moved(c, calls[c].op, "cleanup", calls[c].result)
  BY <1>1, GotoMoves DEF Places
<1>3. PICK o \in [cleanup : Callers \cup {"free", "done"}, finish : Callers \cup {"free", "done"}] : o = once
  BY DEF CoreInv, CoreTypeOK
<1>4. /\ once' \in [cleanup : Callers \cup {"free", "done"}, finish : Callers \cup {"free", "done"}]
      /\ once'.cleanup = o.cleanup /\ once'.finish # "done"
  BY <1>1, <1>3, CallerNames
<1>5. ReleaseInv'
  <2>1. \A d \in Callers : (calls'[d].at = "release") <=> once'.cleanup = d
    BY <1>1, <1>2, <1>3, <1>4 DEF CoreInv, ReleaseInv, Moved
  <2>2. \A d \in Callers : calls'[d].result = "final" => once'.cleanup = "done"
    BY <1>1, <1>2, <1>3, <1>4 DEF CoreInv, ReleaseInv, Moved
  <2> QED
    BY <1>1, <1>3, <1>4, <2>1, <2>2 DEF CoreInv, ReleaseInv
<1>6. CoreTypeOK' /\ StartInv'
  <2>1. core.running /\ host = "done"
    BY <1>1 DEF CoreInv, CallsInv
  <2> QED
    BY <1>1, <1>2, <1>4, <2>1 DEF CoreInv, CoreTypeOK, StartInv, Moved
<1>7. CallsInv' /\ DecidedInv'
  BY <1>1, <1>2, CallerNames DEF CoreInv, StartInv, CallsInv, DecidedInv, Used, Moved
<1> QED
  BY <1>5, <1>6, <1>7 DEF CoreInv

LEMMA CleanupBeginsInv ==
  ASSUME CoreInv, NEW c \in Callers, CleanupBegins(c)
  PROVE  CoreInv'
<1>1. /\ calls \in [Callers -> CallRec] /\ calls[c].at = "cleanup" /\ Goto(c, "release")
      /\ UNCHANGED <<core, opened, released, host, overlaps>>
      /\ once' = [once EXCEPT !.cleanup = c] /\ once.cleanup = "free"
  BY DEF CoreInv, CoreTypeOK, CleanupBegins, Called
<1>2. Moved(c, calls[c].op, "release", calls[c].result)
  BY <1>1, GotoMoves DEF Places
<1>3. PICK o \in [cleanup : Callers \cup {"free", "done"}, finish : Callers \cup {"free", "done"}] : o = once
  BY DEF CoreInv, CoreTypeOK
<1>4. /\ once' \in [cleanup : Callers \cup {"free", "done"}, finish : Callers \cup {"free", "done"}]
      /\ once'.cleanup = c /\ once'.finish = o.finish
  BY <1>1, <1>3, CallerNames
<1>5. ReleaseInv'
  <2>1. \A d \in Callers : (calls'[d].at = "release") <=> once'.cleanup = d
    BY <1>1, <1>2, <1>4, CallerNames DEF CoreInv, ReleaseInv, Moved
  <2>2. \A d \in Callers : calls'[d].result # "final"
    BY <1>1, <1>2 DEF CoreInv, ReleaseInv, Moved
  <2>3. once'.finish # "done" /\ once'.cleanup \notin {"free", "done"}
    BY <1>1, <1>3, <1>4, CallerNames DEF CoreInv, ReleaseInv
  <2> QED
    BY <1>1, <2>1, <2>2, <2>3 DEF CoreInv, ReleaseInv
<1>6. CoreTypeOK' /\ StartInv'
  BY <1>1, <1>2, <1>3, <1>4 DEF CoreInv, CoreTypeOK, StartInv, Moved
<1>7. CallsInv' /\ DecidedInv'
  BY <1>1, <1>2, CallerNames DEF CoreInv, StartInv, CallsInv, DecidedInv, Used, Moved
<1> QED
  BY <1>5, <1>6, <1>7 DEF CoreInv

LEMMA ReleaseNextInv ==
  ASSUME CoreInv, NEW c \in Callers, ReleaseNext(c)
  PROVE  CoreInv'
<1>1. /\ calls[c].at = "release" /\ UNCHANGED <<core, opened, once, host, calls, overlaps>>
      /\ Len(released) < Len(opened)
      /\ released' = Append(released, opened[Len(opened) - Len(released)])
  BY DEF ReleaseNext, Called
<1>2. released \in Seq(Resources) /\ opened \in Seq(Resources)
  BY OpenedType
<1>3. PICK n \in Nat, m \in Nat : n = Len(released) /\ m = Len(opened)
  BY <1>2
<1>4. n < m /\ m - n \in 1..m
  BY <1>1, <1>3
<1>5. PICK x \in Resources : x = opened[m - n]
  <2> HIDE DEF Resources
  <2>1. opened[m - n] \in Resources
    BY <1>2, <1>3, <1>4
  <2> QED
    BY <2>1
<1>6. /\ released' \in Seq(Resources) /\ Len(released') = n + 1 /\ released'[n + 1] = x
      /\ \A i \in 1..n : released'[i] = released[i]
  <2>1. released' = Append(released, x)
    BY <1>1, <1>3, <1>5
  <2> QED
    BY <1>2, <1>3, <2>1
<1>7. \A i \in 1..n : released[i] = opened[m - i + 1]
  BY <1>3 DEF CoreInv, ReleaseInv
<1>8. \A i \in 1..(n + 1) : released'[i] = opened'[m - i + 1]
  <2> SUFFICES ASSUME NEW i \in 1..(n + 1) PROVE released'[i] = opened[m - i + 1]
    BY <1>1
  <2>1. CASE i = n + 1
    <3>1. m - i + 1 = m - n
      BY <1>3, <2>1
    <3> QED
      BY <1>5, <1>6, <2>1, <3>1
  <2>2. CASE i # n + 1
    <3>1. i \in 1..n
      BY <2>2
    <3> QED
      BY <1>6, <1>7, <3>1
  <2> QED
    BY <2>1, <2>2
<1>9. once.cleanup = c
  BY <1>1 DEF CoreInv, ReleaseInv
<1>10. ReleaseInv'
  <2>1. n + 1 <= m
    BY <1>4
  <2>2. c \notin {"free", "done"}
    BY CallerNames
  <2>3. released' \in Seq(Resources) /\ Len(released') <= Len(opened)
    BY <1>3, <1>6, <2>1
  <2>4. \A i \in 1..Len(released)' : released'[i] = opened[Len(opened) - i + 1]
    BY <1>1, <1>3, <1>6, <1>8
  <2>5. \A d \in Callers : (calls[d].at = "release" <=> once.cleanup = d) /\ calls[d].result # "final"
    BY <1>9, <2>2 DEF CoreInv, ReleaseInv
  <2>6. once.finish # "done" /\ once.cleanup \notin {"free", "done"}
    BY <1>9, <2>2 DEF CoreInv, ReleaseInv
  <2> QED
    BY <1>1, <2>3, <2>4, <2>5, <2>6 DEF ReleaseInv
<1>11. CoreTypeOK' /\ StartInv' /\ CallsInv' /\ DecidedInv'
  BY <1>1 DEF CoreInv, CoreTypeOK, StartInv, CallsInv, DecidedInv, Used
<1> QED
  BY <1>10, <1>11 DEF CoreInv

LEMMA ReleasedInv ==
  ASSUME CoreInv, NEW c \in Callers, Released(c)
  PROVE  CoreInv'
<1>1. /\ calls \in [Callers -> CallRec] /\ calls[c].at = "release" /\ Goto(c, "cleanup")
      /\ UNCHANGED <<opened, released, host, overlaps>> /\ Len(released) = Len(opened)
      /\ once' = [once EXCEPT !.cleanup = "done"] /\ core' = [core EXCEPT !.closed = TRUE]
  BY DEF CoreInv, CoreTypeOK, Released, Called
<1>2. Moved(c, calls[c].op, "cleanup", calls[c].result)
  BY <1>1, GotoMoves DEF Places
<1>3. PICK o \in [cleanup : Callers \cup {"free", "done"}, finish : Callers \cup {"free", "done"}] : o = once
  BY DEF CoreInv, CoreTypeOK
<1>4. /\ once' \in [cleanup : Callers \cup {"free", "done"}, finish : Callers \cup {"free", "done"}]
      /\ once'.cleanup = "done" /\ once'.finish = o.finish
  BY <1>1, <1>3
<1>5. PICK k \in [used : BOOLEAN, starting : BOOLEAN, closed : BOOLEAN, running : BOOLEAN] : k = core
  BY DEF CoreInv, CoreTypeOK
<1>6. /\ core' \in [used : BOOLEAN, starting : BOOLEAN, closed : BOOLEAN, running : BOOLEAN]
      /\ core'.used = k.used /\ core'.starting = k.starting /\ core'.closed /\ core'.running = k.running
  BY <1>1, <1>5
<1>7. ReleaseInv'
  <2>1. \A d \in Callers : (calls'[d].at = "release") <=> once'.cleanup = d
    BY <1>1, <1>2, <1>4, CallerNames DEF CoreInv, ReleaseInv, Moved
  <2> QED
    BY <1>1, <1>4, <1>6, <2>1 DEF CoreInv, ReleaseInv
<1>8. CoreTypeOK' /\ StartInv'
  BY <1>1, <1>2, <1>4, <1>5, <1>6 DEF CoreInv, CoreTypeOK, StartInv, Moved
<1>9. CallsInv' /\ DecidedInv'
  BY <1>1, <1>2, <1>5, <1>6, CallerNames DEF CoreInv, StartInv, CallsInv, DecidedInv, Used, Moved
<1> QED
  BY <1>7, <1>8, <1>9 DEF CoreInv

LEMMA CleanupReturnsInv ==
  ASSUME CoreInv, NEW c \in Callers, CleanupReturns(c)
  PROVE  CoreInv'
<1>1. /\ calls \in [Callers -> CallRec] /\ calls[c].at = "cleanup" /\ once.cleanup = "done"
      /\ UNCHANGED <<core, opened, released, host, overlaps>>
  BY DEF CoreInv, CoreTypeOK, CleanupReturns, Called
<1>2. CASE once.finish # c
  <2>1. UNCHANGED once /\ Return(c, "final")
    BY <1>2 DEF CleanupReturns
  <2>2. Moved(c, calls[c].op, "returned", "final")
    BY <1>1, <2>1, ReturnMoves DEF Results
  <2> QED
    BY <1>1, <2>1, <2>2, OnlyMoves
<1>3. CASE once.finish = c
  <2>1. once' = [once EXCEPT !.finish = "done"] /\ Goto(c, "finish")
    BY <1>3 DEF CleanupReturns
  <2>2. Moved(c, calls[c].op, "finish", calls[c].result)
    BY <1>1, <2>1, GotoMoves DEF Places
  <2>3. PICK o \in [cleanup : Callers \cup {"free", "done"}, finish : Callers \cup {"free", "done"}] : o = once
    BY DEF CoreInv, CoreTypeOK
  <2>4. /\ once' \in [cleanup : Callers \cup {"free", "done"}, finish : Callers \cup {"free", "done"}]
        /\ once'.cleanup = "done" /\ once'.finish = "done"
    BY <1>1, <2>1, <2>3
  <2>5. core.running /\ host = "done"
    BY <1>1, <1>3, CallerNames DEF CoreInv, StartInv
  <2>6. ReleaseInv'
    <3>1. \A d \in Callers : calls'[d].at = "release" => calls[d].at = "release"
      BY <2>2 DEF Moved
    <3>2. \A d \in Callers : (calls'[d].at = "release") <=> once'.cleanup = d
      BY <1>1, <2>4, <3>1, CallerNames DEF CoreInv, ReleaseInv
    <3> QED
      BY <1>1, <2>4, <3>2 DEF CoreInv, ReleaseInv
  <2>7. CoreTypeOK' /\ StartInv'
    BY <1>1, <2>2, <2>4, <2>5 DEF CoreInv, CoreTypeOK, StartInv, Moved
  <2>8. CallsInv' /\ DecidedInv'
    BY <1>1, <2>2, <2>5, CallerNames DEF CoreInv, StartInv, CallsInv, DecidedInv, Used, Moved
  <2> QED
    BY <2>6, <2>7, <2>8 DEF CoreInv
<1> QED
  BY <1>2, <1>3

LEMMA HostEndsInv ==
  ASSUME CoreInv, HostStops \/ HostExits
  PROVE  CoreInv'
<1>1. /\ UNCHANGED <<core, opened, released, once, calls, overlaps>>
      /\ host \in {"stopping", "running"} /\ host' = "done"
  BY DEF HostStops, HostExits
<1>2. ReleaseInv'
  BY <1>1 DEF CoreInv, ReleaseInv
<1>3. CoreTypeOK' /\ StartInv' /\ DecidedInv'
  BY <1>1 DEF CoreInv, CoreTypeOK, StartInv, DecidedInv, Used
<1>4. CallsInv'
  BY <1>1 DEF CoreInv, CallsInv
<1> QED
  BY <1>2, <1>3, <1>4 DEF CoreInv

LEMMA CoreNextInv == CoreInv /\ [CoreNext]_coreVars => CoreInv'
<1> SUFFICES ASSUME CoreInv, [CoreNext]_coreVars PROVE CoreInv'
  OBVIOUS
<1>1. CASE UNCHANGED coreVars
  BY <1>1 DEF coreVars, CoreInv, CoreTypeOK, StartInv, CallsInv, ReleaseInv, DecidedInv, Used
<1>2. CASE HostStops \/ HostExits
  BY <1>2, HostEndsInv
<1>3. ASSUME NEW c \in Callers, CallStep(c) PROVE CoreInv'
  BY <1>3, StartCoreInv, StartFailsInv, HostReadyInv, PublishInv, FnReturnsInv, CloseCoreInv,
     ShutdownHostInv, HostWaitedInv, FinishInv, FinishReturnsInv, CleanupBeginsInv, ReleaseNextInv,
     ReleasedInv, CleanupReturnsInv
  DEF CallStep
<1>4. ASSUME NEW c \in Callers, BudgetEnds(c) PROVE CoreInv'
  BY <1>4, BudgetEndsInv
<1>5. ASSUME NEW c \in CoreCallers, NEW op \in {"start", "execute", "close", "shutdown", "wait"},
             BeginCall(c, op)
      PROVE CoreInv'
  BY <1>5, BeginCallInv
<1> QED
  BY <1>1, <1>2, <1>3, <1>4, <1>5 DEF CoreNext

LEMMA CoreInvImpliesReleases == CoreInv => CoreReleases
<1> SUFFICES ASSUME CoreInv PROVE CoreReleases
  OBVIOUS
<1>1. opened \in Seq(Resources) /\ released \in Seq(Resources)
  BY OpenedType
<1>2. PICK n \in Nat, m \in Nat : n = Len(released) /\ m = Len(opened) /\ n <= m
  <2>1. Len(opened) \in Nat /\ Len(released) \in Nat /\ Len(released) <= Len(opened)
    BY OpenedType DEF CoreInv, ReleaseInv
  <2> QED
    BY <2>1
<1>3. /\ Len(Reverse(opened)) = m /\ Reverse(opened) \in Seq(Resources)
      /\ \A i \in 1..m : Reverse(opened)[i] = opened[(m - i) + 1]
  BY <1>1, <1>2 DEF Reverse
<1>4. \A i \in 1..n : released[i] = Reverse(opened)[i]
  <2> SUFFICES ASSUME NEW i \in 1..n PROVE released[i] = Reverse(opened)[i]
    OBVIOUS
  <2>1. released[i] = opened[m - i + 1]
    BY <1>2 DEF CoreInv, ReleaseInv
  <2>2. i \in 1..m /\ m - i + 1 = (m - i) + 1
    BY <1>2
  <2>3. Reverse(opened)[i] = opened[(m - i) + 1]
    BY <1>3, <2>2
  <2> QED
    BY <2>1, <2>3
<1>5. once.cleanup = "done" => released = Reverse(opened)
  <2> SUFFICES ASSUME n = m PROVE released = Reverse(opened)
    BY <1>2 DEF CoreInv, ReleaseInv
  <2> DEFINE r == Reverse(opened)
  <2>1. r \in Seq(Resources) /\ Len(r) = m /\ \A i \in 1..m : released[i] = r[i]
    BY <1>3, <1>4
  <2> HIDE DEF r
  <2>2. released = r
    BY <1>1, <1>2, <2>1
  <2> QED
    BY <2>2 DEF r
<1>6. Used /\ ~overlaps => released = <<>>
  BY <1>1 DEF CoreInv, ReleaseInv, DecidedInv
<1>7. \A c \in CoreCallers : calls[c].result = "final" => once.cleanup = "done"
  BY CallerNames DEF CoreInv, ReleaseInv
<1> QED
  BY <1>2, <1>4, <1>5, <1>6, <1>7 DEF CoreReleases, CoreInv, DecidedInv

(* ProfileCore, for any number of goroutines that call Start, Execute,      *)
(* Close, Shutdown and Wait: resources are released once, in reverse, not   *)
(* under a host unless a Close had decided to before Start began.           *)
THEOREM CoreReleasesInOrder == CoreSpec => []CoreReleases
<1>1. CoreInit => CoreInv
  BY CoreInitInv
<1>2. CoreInv /\ [CoreNext]_coreVars => CoreInv'
  BY CoreNextInv
<1>3. CoreInv => CoreReleases
  BY CoreInvImpliesReleases
<1> QED
  BY <1>1, <1>2, <1>3, PTL DEF CoreSpec

=============================================================================
