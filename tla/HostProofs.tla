----------------------------- MODULE HostProofs -----------------------------
(***************************************************************************)
(* Proofs about Host, for every number of services and every set of        *)
(* applications: cleanup is whole and in order, and what the host reports  *)
(* of itself is true.                                                      *)
(***************************************************************************)
EXTENDS Host, TLAPS

(* Places of the host, by how far it has come. *)
Early == {"prepare", "hooks"}
Starts == {"services", "launch", "awaitLive", "awaitReady"}
BeforeDrain == Early \cup Starts \cup {"startFailed", "serving", "shutdown", "delay"}
AfterClose == {"server", "stops", "exit", "stopped"}

(* The loop variable fits its place, and what is not of one service follows *)
(* the place: the run context of services, the listener, readiness.         *)
PlaceInv ==
  /\ pc = "services" => idx \in 1..(NumServices + 1)
  /\ pc \in {"launch", "awaitLive", "awaitReady"} => idx \in Services
  /\ pc \in {"drain", "wait", "close"} => idx \in 0..NumServices
  /\ pc = "stops" => idx \in 1..(Len(StopStage) + 1)
  /\ svcCtxDone => pc \in {"wait", "close"} \cup AfterClose
  /\ pc \in BeforeDrain => server \in {"none", "serving"}
  /\ ready => pc \in {"serving", "shutdown"}

(* The stop hooks that have run: those of the stages that began, up to idx. *)
RanInv ==
  /\ pc = "prepare" => maxStage = -1
  /\ pc = "stops" => ran = {k \in 1..(idx - 1) : StopStage[k] <= maxStage}
  /\ pc \in {"exit", "stopped"} => ran = {k \in DOMAIN StopStage : StopStage[k] <= maxStage}
  /\ pc \notin {"stops", "exit", "stopped"} => ran = {}

(* Service i is the business of the loops that have passed it. *)
StillToStart(i) == pc \in Early \/ (pc = "services" /\ i >= idx) \/ (pc \in Starts /\ i > idx)
WasReady(i) == pc = "serving" \/ ready \/ (pc \in Starts /\ i < idx)
WasDrained(i) == (pc = "drain" /\ i > idx) \/ pc \in {"wait", "close"} \cup AfterClose
WasAwaited(i) == (pc = "wait" /\ i > idx) \/ pc \in {"close"} \cup AfterClose
WasClosed(i) == (pc = "close" /\ i > idx) \/ pc \in AfterClose

(* The flags of a service and the progress of its Run agree. *)
FlagsInv(i) ==
  /\ svc[i].started => svc[i].attempted
  /\ svc[i].started <=> svc[i].run # "none"
  /\ svc[i].run \in {"none", "spawned", "live"} => svc[i].result = "none"
  /\ svc[i].unexpected => svc[i].life = "failed" /\ svc[i].run \in {"reported", "done"}

(* What startup has made of a service. *)
StartInv(i) ==
  /\ StillToStart(i) => ~svc[i].attempted /\ svc[i].life = "created"
  /\ WasReady(i) => svc[i].started /\ IsLive(i) /\ svc[i].life \in {"ready", "failed"}
  /\ pc = "launch" /\ i = idx =>
       svc[i].attempted /\ ~svc[i].started /\ svc[i].life \in {"starting", "failed"}
  /\ pc \in {"awaitLive", "awaitReady"} /\ i = idx => svc[i].started
  /\ pc = "awaitReady" /\ i = idx => IsLive(i)

(* The lifecycle a service is in, by how far the host has come; a Run that  *)
(* has not begun yet when the host moves on has already failed, so that its *)
(* late "running" does not show.                                            *)
LifeInv(i) ==
  /\ ~svc[i].attempted => svc[i].life \in {"created", "not_started"}
  /\ ~svc[i].attempted /\ pc = "stopped" => svc[i].life = "not_started"
  /\ svc[i].run = "spawned" =>
       svc[i].life = "failed" \/ (svc[i].life = "starting" /\ pc = "awaitLive" /\ i = idx)
  /\ svc[i].attempted =>
       /\ pc \in BeforeDrain => svc[i].life \in {"starting", "running", "ready", "failed"}
       /\ pc = "drain" => svc[i].life \in {"starting", "running", "ready", "draining", "failed"}
       /\ pc \in {"wait", "close"} /\ ~WasClosed(i) => svc[i].life \in {"stopping", "failed"}
       /\ WasClosed(i) => svc[i].life \in {"stopped", "failed"}

(* What shutdown has done to a service. *)
CleanupInv(i) ==
  /\ svc[i].closes = IF svc[i].attempted /\ WasClosed(i) THEN 1 ELSE 0
  /\ svc[i].started /\ WasDrained(i) => svc[i].drained
  /\ svc[i].started /\ WasAwaited(i) /\ ~budget =>
       svc[i].run = "done" /\ (svc[i].result = "error" /\ ~svc[i].unexpected => i \in reported)
  /\ pc = "stopped" /\ readyCh /\ ~budget /\ svc[i].unexpected /\ i \notin Critical => i \in reported

ServiceInv(i) == FlagsInv(i) /\ StartInv(i) /\ LifeInv(i) /\ CleanupInv(i)

HostInv == TypeOK /\ PlaceInv /\ RanInv /\ \A i \in Services : ServiceInv(i)

-----------------------------------------------------------------------------
(* Facts about single definitions. *)

(* t is s, moved to life next unless it has failed. *)
Moved(t, s, next) ==
  /\ t \in Service
  /\ t.attempted = s.attempted /\ t.started = s.started /\ t.run = s.run
  /\ t.sawDraining = s.sawDraining /\ t.result = s.result /\ t.unexpected = s.unexpected
  /\ t.drained = s.drained /\ t.closes = s.closes
  /\ s.life = "failed" => t.life = "failed"
  /\ s.life # "failed" => t.life = next

LEMMA TransitionMoves ==
  ASSUME NEW s \in Service, NEW next \in LifeStates
  PROVE  Moved(Transition(s, next), s, next)
<1>1. CASE s.life = "failed"
  BY <1>1 DEF Transition, Moved
<1>2. CASE s.life # "failed"
  BY <1>2 DEF Transition, Service, Moved
<1> QED
  BY <1>1, <1>2

LEMMA OneServiceChanges ==
  ASSUME svc \in [Services -> Service], NEW k \in Services, NEW s \in Service,
         svc' = [svc EXCEPT ![k] = s]
  PROVE  /\ svc' \in [Services -> Service]
         /\ svc'[k] = s
         /\ \A j \in Services : j # k => svc'[j] = svc[j]
  OBVIOUS

LEMMA ErrorsKeepType ==
  ASSUME hasErr \in BOOLEAN, reported \subseteq Services,
         NoError \/ Error \/ \E k \in Services : RunError(k)
  PROVE  hasErr' \in BOOLEAN /\ reported' \subseteq Services /\ reported \subseteq reported'
  BY DEF NoError, Error, RunError

LEMMA StateNames == DOMAIN States = 1..10
  BY DEF States

(* The lifecycle a service may take in one step. *)
LifeStep(from, to) ==
  \/ to = from \/ to = "failed"
  \/ from = "created" /\ to \in {"not_started", "starting"}
  \/ from = "starting" /\ to = "running"
  \/ from \in {"starting", "running"} /\ to = "ready"
  \/ from \in {"starting", "running", "ready"} /\ to = "draining"
  \/ from \in {"starting", "running", "ready", "draining"} /\ to = "stopping"
  \/ from = "stopping" /\ to = "stopped"

LivesStep == \A j \in Services : LifeStep(svc[j].life, svc'[j].life)

LEMMA LifeStepIsForward ==
  ASSUME NEW from \in LifeStates, NEW to \in LifeStates, LifeStep(from, to)
  PROVE  Rank(from) <= Rank(to)
  BY DEF LifeStates, LifeStep, Rank

LEMMA ServiceStartKeeps ==
  ASSUME HostInv, ServiceStart, app' = app
  PROVE  HostInv' /\ LivesStep
<1>1. pc = "services" /\ idx \in Services
  BY DEF ServiceStart
<1>2. UNCHANGED <<caller, cancelled, requested, otherErr, budget, state, ready, readyCh, draining, svcCtxDone, maxStage, server, ran>>
  BY DEF ServiceStart, env, flags, errors
<1>3. hasErr' \in BOOLEAN /\ reported' \subseteq Services /\ reported \subseteq reported'
  <2>1. NoError \/ Error \/ \E k \in Services : RunError(k)
    BY DEF ServiceStart, HostInv, PlaceInv, TypeOK, TakeServiceErr, Services
  <2> QED
    BY <2>1, ErrorsKeepType DEF HostInv, TypeOK
<1>4. CASE TakeServiceErr /\ UNCHANGED svc
  <2>1. pc' = "startFailed" /\ idx' = 0 /\ serviceErr' = 0
    BY <1>4 DEF Goto, NoError, RunError, TakeServiceErr
  <2>2. svc' = svc
    BY <1>2, <1>4
  <2>3. svc' \in [Services -> Service]
    BY <2>2 DEF HostInv, TypeOK
  <2>4. TypeOK'
    BY <1>1, <1>2, <1>3, <2>1, <2>3, HostAssumption, StateNames DEF HostInv, TypeOK, PlaceInv, Places,
       Services, StopStage
  <2>5. PlaceInv'
    BY <1>1, <1>2, <2>1, HostAssumption DEF HostInv, TypeOK, PlaceInv, Services, StopStage, BeforeDrain,
       Early, Starts, AfterClose
  <2>6. RanInv'
    BY <1>1, <1>2, <2>1, HostAssumption DEF HostInv, TypeOK, PlaceInv, RanInv, StopStage
  <2>7. ASSUME NEW i \in Services PROVE ServiceInv(i)'
    BY <1>1, <1>2, <1>3, <2>1, <2>2, HostAssumption DEF HostInv, TypeOK, Services, Critical, PlaceInv,
       ServiceInv, FlagsInv, StartInv, LifeInv, CleanupInv, IsLive, StillToStart, WasReady, WasDrained,
       WasAwaited, WasClosed, BeforeDrain, Early, Starts, AfterClose
  <2>8. LivesStep
    BY <2>2 DEF LivesStep, LifeStep
  <2> QED
    BY <2>4, <2>5, <2>6, <2>7, <2>8 DEF HostInv
<1>5. CASE /\ serviceErr = 0 /\ UNCHANGED serviceErr /\ Goto("launch", idx) /\ NoError
           /\ svc' = [svc EXCEPT ![idx] = [Transition(svc[idx], "starting") EXCEPT !.attempted = TRUE]]
  <2>1. pc' = "launch" /\ idx' = idx /\ serviceErr' = 0
    BY <1>5 DEF Goto, NoError, RunError
  <2> DEFINE s == svc[idx]
               t == [Transition(s, "starting") EXCEPT !.attempted = TRUE]
  <2>a. idx \in Services /\ svc \in [Services -> Service]
    BY <1>1 DEF HostInv, PlaceInv, TypeOK, Services
  <2>b. svc' = [svc EXCEPT ![idx] = t]
    BY <1>5, <2>a
  <2>c. /\ t \in Service
        /\ t.attempted = TRUE /\ t.started = s.started /\ t.run = s.run /\ t.sawDraining = s.sawDraining
        /\ t.result = s.result /\ t.unexpected = s.unexpected /\ t.drained = s.drained /\ t.closes = s.closes
        /\ s.life = "failed" => t.life = "failed"
        /\ s.life # "failed" => t.life = "starting"
    <3>1. s \in Service
      BY <2>a
    <3> HIDE DEF s
    <3> DEFINE r == Transition(s, "starting")
    <3>2. Moved(r, s, "starting")
      BY <3>1, TransitionMoves DEF LifeStates
    <3>3. t = [r EXCEPT !.attempted = TRUE]
      OBVIOUS
    <3> HIDE DEF r, t
    <3>4. t \in Service
      BY <3>2, <3>3 DEF Moved, Service
    <3>5. /\ t.attempted = TRUE /\ t.started = r.started /\ t.run = r.run /\ t.sawDraining = r.sawDraining
          /\ t.result = r.result /\ t.unexpected = r.unexpected /\ t.life = r.life /\ t.drained = r.drained
          /\ t.closes = r.closes
      BY <3>2, <3>3 DEF Moved, Service
    <3> QED
      BY <3>2, <3>4, <3>5 DEF Moved
  <2> HIDE DEF t
  <2>2. svc'[idx] = t /\ \A j \in Services : j # idx => svc'[j] = svc[j]
    BY <2>a, <2>b, <2>c, OneServiceChanges
  <2>3. svc' \in [Services -> Service]
    BY <2>a, <2>b, <2>c, OneServiceChanges
  <2>4. TypeOK'
    BY <1>1, <1>2, <1>3, <2>1, <2>3, HostAssumption, StateNames DEF HostInv, TypeOK, PlaceInv, Places,
       Services, StopStage
  <2>5. PlaceInv'
    BY <1>1, <1>2, <2>1, HostAssumption DEF HostInv, TypeOK, PlaceInv, Services, StopStage, BeforeDrain,
       Early, Starts, AfterClose
  <2>6. RanInv'
    BY <1>1, <1>2, <2>1, HostAssumption DEF HostInv, TypeOK, PlaceInv, RanInv, StopStage
  <2>7. ASSUME NEW i \in Services PROVE ServiceInv(i)'
    <3>1. CASE i # idx
      BY <1>1, <1>2, <1>3, <2>1, <2>2, <3>1 DEF HostInv, TypeOK, Services, Critical, PlaceInv, ServiceInv,
         FlagsInv, StartInv, LifeInv, CleanupInv, IsLive, StillToStart, WasReady, WasDrained, WasAwaited,
         WasClosed, BeforeDrain, Early, Starts, AfterClose
    <3>2. CASE i = idx
      <4>1. FlagsInv(i)'
        BY <1>1, <1>2, <1>3, <2>1, <2>2, <2>c, <3>2 DEF HostInv, TypeOK, Services, Critical, ServiceInv,
           FlagsInv, StartInv, StillToStart, Early, Starts
      <4>2. StartInv(i)'
        BY <1>1, <1>2, <1>3, <2>1, <2>2, <2>c, <3>2 DEF HostInv, TypeOK, Services, Critical, ServiceInv,
           FlagsInv, StartInv, LifeInv, IsLive, StillToStart, WasReady, PlaceInv, BeforeDrain, Early,
           Starts, AfterClose
      <4>3. LifeInv(i)'
        BY <1>1, <1>2, <1>3, <2>1, <2>2, <2>c, <3>2 DEF HostInv, TypeOK, Services, Critical, ServiceInv,
           FlagsInv, StartInv, LifeInv, StillToStart, IsLive, WasClosed, BeforeDrain, Early, Starts,
           AfterClose
      <4>4. CleanupInv(i)'
        BY <1>1, <1>2, <1>3, <2>1, <2>2, <2>c, <3>2 DEF HostInv, TypeOK, Services, Critical, ServiceInv,
           FlagsInv, StartInv, StillToStart, CleanupInv, WasDrained, WasAwaited, WasClosed, PlaceInv,
           BeforeDrain, Early, Starts, AfterClose
      <4> QED
        BY <4>1, <4>2, <4>3, <4>4 DEF ServiceInv
    <3> QED
      BY <3>1, <3>2
  <2>8. LivesStep
    <3>1. LifeStep(s.life, t.life)
      BY <1>1, <2>1, <2>a, <2>c DEF HostInv, TypeOK, Services, ServiceInv, FlagsInv, StartInv, LifeInv,
         StillToStart, WasClosed, BeforeDrain, Early, Starts, AfterClose, LifeStep
    <3> QED
      BY <2>2, <3>1 DEF LivesStep, LifeStep
  <2> QED
    BY <2>4, <2>5, <2>6, <2>7, <2>8 DEF HostInv
<1>6. CASE /\ serviceErr = 0 /\ UNCHANGED serviceErr /\ Goto("startFailed", 0) /\ Error
           /\ svc' = [svc EXCEPT ![idx] = [Transition(svc[idx], "failed") EXCEPT !.attempted = TRUE]]
  <2>1. pc' = "startFailed" /\ idx' = 0 /\ serviceErr' = 0
    BY <1>6 DEF Goto, NoError, RunError
  <2> DEFINE s == svc[idx]
               t == [Transition(s, "failed") EXCEPT !.attempted = TRUE]
  <2>a. idx \in Services /\ svc \in [Services -> Service]
    BY <1>1 DEF HostInv, PlaceInv, TypeOK, Services
  <2>b. svc' = [svc EXCEPT ![idx] = t]
    BY <1>6, <2>a
  <2>c. /\ t \in Service
        /\ t.attempted = TRUE /\ t.started = s.started /\ t.run = s.run /\ t.sawDraining = s.sawDraining
        /\ t.result = s.result /\ t.unexpected = s.unexpected /\ t.life = "failed" /\ t.drained = s.drained
        /\ t.closes = s.closes
    <3>1. s \in Service
      BY <2>a
    <3> HIDE DEF s
    <3> DEFINE r == Transition(s, "failed")
    <3>2. Moved(r, s, "failed")
      BY <3>1, TransitionMoves DEF LifeStates
    <3>3. t = [r EXCEPT !.attempted = TRUE]
      OBVIOUS
    <3> HIDE DEF r, t
    <3>4. t \in Service
      BY <3>2, <3>3 DEF Moved, Service
    <3>5. /\ t.attempted = TRUE /\ t.started = r.started /\ t.run = r.run /\ t.sawDraining = r.sawDraining
          /\ t.result = r.result /\ t.unexpected = r.unexpected /\ t.life = r.life /\ t.drained = r.drained
          /\ t.closes = r.closes
      BY <3>2, <3>3 DEF Moved, Service
    <3> QED
      BY <3>2, <3>4, <3>5 DEF Moved
  <2> HIDE DEF t
  <2>2. svc'[idx] = t /\ \A j \in Services : j # idx => svc'[j] = svc[j]
    BY <2>a, <2>b, <2>c, OneServiceChanges
  <2>3. svc' \in [Services -> Service]
    BY <2>a, <2>b, <2>c, OneServiceChanges
  <2>4. TypeOK'
    BY <1>1, <1>2, <1>3, <2>1, <2>3, HostAssumption, StateNames DEF HostInv, TypeOK, PlaceInv, Places,
       Services, StopStage
  <2>5. PlaceInv'
    BY <1>1, <1>2, <2>1, HostAssumption DEF HostInv, TypeOK, PlaceInv, Services, StopStage, BeforeDrain,
       Early, Starts, AfterClose
  <2>6. RanInv'
    BY <1>1, <1>2, <2>1, HostAssumption DEF HostInv, TypeOK, PlaceInv, RanInv, StopStage
  <2>7. ASSUME NEW i \in Services PROVE ServiceInv(i)'
    <3>1. CASE i # idx
      BY <1>1, <1>2, <1>3, <2>1, <2>2, <3>1 DEF HostInv, TypeOK, Services, Critical, PlaceInv, ServiceInv,
         FlagsInv, StartInv, LifeInv, CleanupInv, IsLive, StillToStart, WasReady, WasDrained, WasAwaited,
         WasClosed, BeforeDrain, Early, Starts, AfterClose
    <3>2. CASE i = idx
      <4>1. FlagsInv(i)'
        BY <1>1, <1>2, <1>3, <2>1, <2>2, <2>c, <3>2 DEF HostInv, TypeOK, Services, Critical, ServiceInv,
           FlagsInv, StartInv, StillToStart, Early, Starts
      <4>2. StartInv(i)'
        BY <1>1, <1>2, <1>3, <2>1, <2>2, <2>c, <3>2 DEF HostInv, TypeOK, Services, Critical, ServiceInv,
           FlagsInv, StartInv, LifeInv, IsLive, StillToStart, WasReady, PlaceInv, BeforeDrain, Early,
           Starts, AfterClose
      <4>3. LifeInv(i)'
        BY <1>1, <1>2, <1>3, <2>1, <2>2, <2>c, <3>2 DEF HostInv, TypeOK, Services, Critical, ServiceInv,
           FlagsInv, StartInv, LifeInv, StillToStart, IsLive, WasClosed, BeforeDrain, Early, Starts,
           AfterClose
      <4>4. CleanupInv(i)'
        BY <1>1, <1>2, <1>3, <2>1, <2>2, <2>c, <3>2 DEF HostInv, TypeOK, Services, Critical, ServiceInv,
           FlagsInv, StartInv, StillToStart, CleanupInv, WasDrained, WasAwaited, WasClosed, PlaceInv,
           BeforeDrain, Early, Starts, AfterClose
      <4> QED
        BY <4>1, <4>2, <4>3, <4>4 DEF ServiceInv
    <3> QED
      BY <3>1, <3>2
  <2>8. LivesStep
    <3>1. LifeStep(s.life, t.life)
      BY <1>1, <2>1, <2>a, <2>c DEF HostInv, TypeOK, Services, ServiceInv, FlagsInv, StartInv, LifeInv,
         StillToStart, WasClosed, BeforeDrain, Early, Starts, AfterClose, LifeStep
    <3> QED
      BY <2>2, <3>1 DEF LivesStep, LifeStep
  <2> QED
    BY <2>4, <2>5, <2>6, <2>7, <2>8 DEF HostInv
<1> QED
  BY <1>4, <1>5, <1>6 DEF ServiceStart

LEMMA LaunchKeeps ==
  ASSUME HostInv, Launch, app' = app
  PROVE  HostInv' /\ LivesStep
<1>1. pc = "launch"
  BY DEF Launch
<1>2. UNCHANGED <<caller, cancelled, requested, otherErr, budget, state, ready, readyCh, draining, svcCtxDone, maxStage, server, ran>>
  BY DEF Launch, env, flags, errors
<1>3. hasErr' \in BOOLEAN /\ reported' \subseteq Services /\ reported \subseteq reported'
  <2>1. NoError \/ Error \/ \E k \in Services : RunError(k)
    BY DEF Launch, HostInv, PlaceInv, TypeOK, TakeServiceErr, Services
  <2> QED
    BY <2>1, ErrorsKeepType DEF HostInv, TypeOK
<1>4. CASE TakeServiceErr /\ UNCHANGED svc
  <2>1. pc' = "startFailed" /\ idx' = 0 /\ serviceErr' = 0
    BY <1>4 DEF Goto, NoError, RunError, TakeServiceErr
  <2>2. svc' = svc
    BY <1>2, <1>4
  <2>3. svc' \in [Services -> Service]
    BY <2>2 DEF HostInv, TypeOK
  <2>4. TypeOK'
    BY <1>1, <1>2, <1>3, <2>1, <2>3, HostAssumption, StateNames DEF HostInv, TypeOK, PlaceInv, Places,
       Services, StopStage
  <2>5. PlaceInv'
    BY <1>1, <1>2, <2>1, HostAssumption DEF HostInv, TypeOK, PlaceInv, Services, StopStage, BeforeDrain,
       Early, Starts, AfterClose
  <2>6. RanInv'
    BY <1>1, <1>2, <2>1, HostAssumption DEF HostInv, TypeOK, PlaceInv, RanInv, StopStage
  <2>7. ASSUME NEW i \in Services PROVE ServiceInv(i)'
    BY <1>1, <1>2, <1>3, <2>1, <2>2, HostAssumption DEF HostInv, TypeOK, Services, Critical, PlaceInv,
       ServiceInv, FlagsInv, StartInv, LifeInv, CleanupInv, IsLive, StillToStart, WasReady, WasDrained,
       WasAwaited, WasClosed, BeforeDrain, Early, Starts, AfterClose
  <2>8. LivesStep
    BY <2>2 DEF LivesStep, LifeStep
  <2> QED
    BY <2>4, <2>5, <2>6, <2>7, <2>8 DEF HostInv
<1>5. CASE /\ serviceErr = 0 /\ UNCHANGED serviceErr /\ Goto("awaitLive", idx) /\ NoError
           /\ svc' = [svc EXCEPT ![idx].started = TRUE, ![idx].run = "spawned"]
  <2>1. pc' = "awaitLive" /\ idx' = idx /\ serviceErr' = 0
    BY <1>5 DEF Goto, NoError, RunError
  <2> DEFINE s == svc[idx]
               t == [s EXCEPT !.started = TRUE, !.run = "spawned"]
  <2>a. idx \in Services /\ svc \in [Services -> Service]
    BY <1>1 DEF HostInv, PlaceInv, TypeOK, Services
  <2>b. svc' = [svc EXCEPT ![idx] = t]
    BY <1>5, <2>a
  <2>c. /\ t \in Service
        /\ t.attempted = s.attempted /\ t.started = TRUE /\ t.run = "spawned" /\ t.sawDraining = s.sawDraining
        /\ t.result = s.result /\ t.unexpected = s.unexpected /\ t.life = s.life /\ t.drained = s.drained
        /\ t.closes = s.closes
    <3>1. s \in Service
      BY <2>a
    <3> HIDE DEF s
    <3> QED
      BY <3>1 DEF Service
  <2> HIDE DEF t
  <2>2. svc'[idx] = t /\ \A j \in Services : j # idx => svc'[j] = svc[j]
    BY <2>a, <2>b, <2>c, OneServiceChanges
  <2>3. svc' \in [Services -> Service]
    BY <2>a, <2>b, <2>c, OneServiceChanges
  <2>4. TypeOK'
    BY <1>1, <1>2, <1>3, <2>1, <2>3, HostAssumption, StateNames DEF HostInv, TypeOK, PlaceInv, Places,
       Services, StopStage
  <2>5. PlaceInv'
    BY <1>1, <1>2, <2>1, HostAssumption DEF HostInv, TypeOK, PlaceInv, Services, StopStage, BeforeDrain,
       Early, Starts, AfterClose
  <2>6. RanInv'
    BY <1>1, <1>2, <2>1, HostAssumption DEF HostInv, TypeOK, PlaceInv, RanInv, StopStage
  <2>7. ASSUME NEW i \in Services PROVE ServiceInv(i)'
    <3>1. CASE i # idx
      BY <1>1, <1>2, <1>3, <2>1, <2>2, <3>1 DEF HostInv, TypeOK, Services, Critical, PlaceInv, ServiceInv,
         FlagsInv, StartInv, LifeInv, CleanupInv, IsLive, StillToStart, WasReady, WasDrained, WasAwaited,
         WasClosed, BeforeDrain, Early, Starts, AfterClose
    <3>2. CASE i = idx
      <4>1. FlagsInv(i)'
        BY <1>1, <1>2, <1>3, <2>1, <2>2, <2>c, <3>2 DEF HostInv, TypeOK, Services, Critical, ServiceInv,
           FlagsInv, StartInv, StillToStart, Early, Starts
      <4>2. StartInv(i)'
        BY <1>1, <1>2, <1>3, <2>1, <2>2, <2>c, <3>2 DEF HostInv, TypeOK, Services, Critical, ServiceInv,
           FlagsInv, StartInv, LifeInv, IsLive, StillToStart, WasReady, PlaceInv, BeforeDrain, Early,
           Starts, AfterClose
      <4>3. LifeInv(i)'
        BY <1>1, <1>2, <1>3, <2>1, <2>2, <2>c, <3>2 DEF HostInv, TypeOK, Services, Critical, ServiceInv,
           FlagsInv, StartInv, LifeInv, StillToStart, IsLive, WasClosed, BeforeDrain, Early, Starts,
           AfterClose
      <4>4. CleanupInv(i)'
        BY <1>1, <1>2, <1>3, <2>1, <2>2, <2>c, <3>2 DEF HostInv, TypeOK, Services, Critical, ServiceInv,
           FlagsInv, StartInv, StillToStart, CleanupInv, WasDrained, WasAwaited, WasClosed, PlaceInv,
           BeforeDrain, Early, Starts, AfterClose
      <4> QED
        BY <4>1, <4>2, <4>3, <4>4 DEF ServiceInv
    <3> QED
      BY <3>1, <3>2
  <2>8. LivesStep
    <3>1. LifeStep(s.life, t.life)
      BY <1>1, <2>1, <2>a, <2>c DEF HostInv, TypeOK, Services, ServiceInv, FlagsInv, StartInv, LifeInv,
         StillToStart, WasClosed, BeforeDrain, Early, Starts, AfterClose, LifeStep
    <3> QED
      BY <2>2, <3>1 DEF LivesStep, LifeStep
  <2> QED
    BY <2>4, <2>5, <2>6, <2>7, <2>8 DEF HostInv
<1> QED
  BY <1>4, <1>5 DEF Launch

LEMMA AwaitLiveKeeps ==
  ASSUME HostInv, AwaitLive, app' = app
  PROVE  HostInv' /\ LivesStep
<1>1. pc = "awaitLive"
  BY DEF AwaitLive
<1>2. UNCHANGED <<caller, cancelled, requested, otherErr, budget, state, ready, readyCh, draining, svcCtxDone, serviceErr, maxStage, server, ran>>
  BY DEF AwaitLive, env, flags, errors
<1>3. hasErr' \in BOOLEAN /\ reported' \subseteq Services /\ reported \subseteq reported'
  <2>1. NoError \/ Error \/ \E k \in Services : RunError(k)
    BY DEF AwaitLive, HostInv, PlaceInv, TypeOK, TakeServiceErr, Services
  <2> QED
    BY <2>1, ErrorsKeepType DEF HostInv, TypeOK
<1>4. CASE IsLive(idx) /\ Goto("awaitReady", idx) /\ NoError /\ UNCHANGED svc
  <2>1. pc' = "awaitReady" /\ idx' = idx /\ IsLive(idx)
    BY <1>4 DEF Goto, NoError, RunError
  <2>2. svc' = svc
    BY <1>2, <1>4
  <2>3. svc' \in [Services -> Service]
    BY <2>2 DEF HostInv, TypeOK
  <2>4. TypeOK'
    BY <1>1, <1>2, <1>3, <2>1, <2>3, HostAssumption, StateNames DEF HostInv, TypeOK, PlaceInv, Places,
       Services, StopStage
  <2>5. PlaceInv'
    BY <1>1, <1>2, <2>1, HostAssumption DEF HostInv, TypeOK, PlaceInv, Services, StopStage, BeforeDrain,
       Early, Starts, AfterClose
  <2>6. RanInv'
    BY <1>1, <1>2, <2>1, HostAssumption DEF HostInv, TypeOK, PlaceInv, RanInv, StopStage
  <2>7. ASSUME NEW i \in Services PROVE ServiceInv(i)'
    BY <1>1, <1>2, <1>3, <2>1, <2>2, HostAssumption DEF HostInv, TypeOK, Services, Critical, PlaceInv,
       ServiceInv, FlagsInv, StartInv, LifeInv, CleanupInv, IsLive, StillToStart, WasReady, WasDrained,
       WasAwaited, WasClosed, BeforeDrain, Early, Starts, AfterClose
  <2>8. LivesStep
    BY <2>2 DEF LivesStep, LifeStep
  <2> QED
    BY <2>4, <2>5, <2>6, <2>7, <2>8 DEF HostInv
<1>5. CASE /\ svc[idx].run = "done" /\ Goto("startFailed", 0) /\ RunError(idx)
           /\ svc' = [svc EXCEPT ![idx] = Transition(svc[idx], "failed")]
  <2>1. pc' = "startFailed" /\ idx' = 0
    BY <1>5 DEF Goto, NoError, RunError
  <2> DEFINE s == svc[idx]
               t == Transition(s, "failed")
  <2>a. idx \in Services /\ svc \in [Services -> Service]
    BY <1>1 DEF HostInv, PlaceInv, TypeOK, Services
  <2>b. svc' = [svc EXCEPT ![idx] = t]
    BY <1>5, <2>a
  <2>c. /\ t \in Service
        /\ t.attempted = s.attempted /\ t.started = s.started /\ t.run = s.run /\ t.sawDraining = s.sawDraining
        /\ t.result = s.result /\ t.unexpected = s.unexpected /\ t.life = "failed" /\ t.drained = s.drained
        /\ t.closes = s.closes
    <3>1. s \in Service
      BY <2>a
    <3> HIDE DEF s
    <3> QED
      BY <3>1, TransitionMoves DEF Moved, LifeStates
  <2> HIDE DEF t
  <2>2. svc'[idx] = t /\ \A j \in Services : j # idx => svc'[j] = svc[j]
    BY <2>a, <2>b, <2>c, OneServiceChanges
  <2>3. svc' \in [Services -> Service]
    BY <2>a, <2>b, <2>c, OneServiceChanges
  <2>4. TypeOK'
    BY <1>1, <1>2, <1>3, <2>1, <2>3, HostAssumption, StateNames DEF HostInv, TypeOK, PlaceInv, Places,
       Services, StopStage
  <2>5. PlaceInv'
    BY <1>1, <1>2, <2>1, HostAssumption DEF HostInv, TypeOK, PlaceInv, Services, StopStage, BeforeDrain,
       Early, Starts, AfterClose
  <2>6. RanInv'
    BY <1>1, <1>2, <2>1, HostAssumption DEF HostInv, TypeOK, PlaceInv, RanInv, StopStage
  <2>7. ASSUME NEW i \in Services PROVE ServiceInv(i)'
    <3>1. CASE i # idx
      BY <1>1, <1>2, <1>3, <2>1, <2>2, <3>1 DEF HostInv, TypeOK, Services, Critical, PlaceInv, ServiceInv,
         FlagsInv, StartInv, LifeInv, CleanupInv, IsLive, StillToStart, WasReady, WasDrained, WasAwaited,
         WasClosed, BeforeDrain, Early, Starts, AfterClose
    <3>2. CASE i = idx
      <4>1. FlagsInv(i)'
        BY <1>1, <1>2, <1>3, <2>1, <2>2, <2>c, <3>2 DEF HostInv, TypeOK, Services, Critical, ServiceInv,
           FlagsInv, StartInv, StillToStart, Early, Starts
      <4>2. StartInv(i)'
        BY <1>1, <1>2, <1>3, <2>1, <2>2, <2>c, <3>2 DEF HostInv, TypeOK, Services, Critical, ServiceInv,
           FlagsInv, StartInv, LifeInv, IsLive, StillToStart, WasReady, PlaceInv, BeforeDrain, Early,
           Starts, AfterClose
      <4>3. LifeInv(i)'
        BY <1>1, <1>2, <1>3, <2>1, <2>2, <2>c, <3>2 DEF HostInv, TypeOK, Services, Critical, ServiceInv,
           FlagsInv, StartInv, LifeInv, StillToStart, IsLive, WasClosed, BeforeDrain, Early, Starts,
           AfterClose
      <4>4. CleanupInv(i)'
        BY <1>1, <1>2, <1>3, <2>1, <2>2, <2>c, <3>2 DEF HostInv, TypeOK, Services, Critical, ServiceInv,
           FlagsInv, StartInv, StillToStart, CleanupInv, WasDrained, WasAwaited, WasClosed, PlaceInv,
           BeforeDrain, Early, Starts, AfterClose
      <4> QED
        BY <4>1, <4>2, <4>3, <4>4 DEF ServiceInv
    <3> QED
      BY <3>1, <3>2
  <2>8. LivesStep
    <3>1. LifeStep(s.life, t.life)
      BY <1>1, <2>1, <2>a, <2>c DEF HostInv, TypeOK, Services, ServiceInv, FlagsInv, StartInv, LifeInv,
         StillToStart, WasClosed, BeforeDrain, Early, Starts, AfterClose, LifeStep
    <3> QED
      BY <2>2, <3>1 DEF LivesStep, LifeStep
  <2> QED
    BY <2>4, <2>5, <2>6, <2>7, <2>8 DEF HostInv
<1>6. CASE /\ cancelled /\ Goto("startFailed", 0) /\ Error
           /\ svc' = [svc EXCEPT ![idx] = Transition(svc[idx], "failed")]
  <2>1. pc' = "startFailed" /\ idx' = 0
    BY <1>6 DEF Goto, NoError, RunError
  <2> DEFINE s == svc[idx]
               t == Transition(s, "failed")
  <2>a. idx \in Services /\ svc \in [Services -> Service]
    BY <1>1 DEF HostInv, PlaceInv, TypeOK, Services
  <2>b. svc' = [svc EXCEPT ![idx] = t]
    BY <1>6, <2>a
  <2>c. /\ t \in Service
        /\ t.attempted = s.attempted /\ t.started = s.started /\ t.run = s.run /\ t.sawDraining = s.sawDraining
        /\ t.result = s.result /\ t.unexpected = s.unexpected /\ t.life = "failed" /\ t.drained = s.drained
        /\ t.closes = s.closes
    <3>1. s \in Service
      BY <2>a
    <3> HIDE DEF s
    <3> QED
      BY <3>1, TransitionMoves DEF Moved, LifeStates
  <2> HIDE DEF t
  <2>2. svc'[idx] = t /\ \A j \in Services : j # idx => svc'[j] = svc[j]
    BY <2>a, <2>b, <2>c, OneServiceChanges
  <2>3. svc' \in [Services -> Service]
    BY <2>a, <2>b, <2>c, OneServiceChanges
  <2>4. TypeOK'
    BY <1>1, <1>2, <1>3, <2>1, <2>3, HostAssumption, StateNames DEF HostInv, TypeOK, PlaceInv, Places,
       Services, StopStage
  <2>5. PlaceInv'
    BY <1>1, <1>2, <2>1, HostAssumption DEF HostInv, TypeOK, PlaceInv, Services, StopStage, BeforeDrain,
       Early, Starts, AfterClose
  <2>6. RanInv'
    BY <1>1, <1>2, <2>1, HostAssumption DEF HostInv, TypeOK, PlaceInv, RanInv, StopStage
  <2>7. ASSUME NEW i \in Services PROVE ServiceInv(i)'
    <3>1. CASE i # idx
      BY <1>1, <1>2, <1>3, <2>1, <2>2, <3>1 DEF HostInv, TypeOK, Services, Critical, PlaceInv, ServiceInv,
         FlagsInv, StartInv, LifeInv, CleanupInv, IsLive, StillToStart, WasReady, WasDrained, WasAwaited,
         WasClosed, BeforeDrain, Early, Starts, AfterClose
    <3>2. CASE i = idx
      <4>1. FlagsInv(i)'
        BY <1>1, <1>2, <1>3, <2>1, <2>2, <2>c, <3>2 DEF HostInv, TypeOK, Services, Critical, ServiceInv,
           FlagsInv, StartInv, StillToStart, Early, Starts
      <4>2. StartInv(i)'
        BY <1>1, <1>2, <1>3, <2>1, <2>2, <2>c, <3>2 DEF HostInv, TypeOK, Services, Critical, ServiceInv,
           FlagsInv, StartInv, LifeInv, IsLive, StillToStart, WasReady, PlaceInv, BeforeDrain, Early,
           Starts, AfterClose
      <4>3. LifeInv(i)'
        BY <1>1, <1>2, <1>3, <2>1, <2>2, <2>c, <3>2 DEF HostInv, TypeOK, Services, Critical, ServiceInv,
           FlagsInv, StartInv, LifeInv, StillToStart, IsLive, WasClosed, BeforeDrain, Early, Starts,
           AfterClose
      <4>4. CleanupInv(i)'
        BY <1>1, <1>2, <1>3, <2>1, <2>2, <2>c, <3>2 DEF HostInv, TypeOK, Services, Critical, ServiceInv,
           FlagsInv, StartInv, StillToStart, CleanupInv, WasDrained, WasAwaited, WasClosed, PlaceInv,
           BeforeDrain, Early, Starts, AfterClose
      <4> QED
        BY <4>1, <4>2, <4>3, <4>4 DEF ServiceInv
    <3> QED
      BY <3>1, <3>2
  <2>8. LivesStep
    <3>1. LifeStep(s.life, t.life)
      BY <1>1, <2>1, <2>a, <2>c DEF HostInv, TypeOK, Services, ServiceInv, FlagsInv, StartInv, LifeInv,
         StillToStart, WasClosed, BeforeDrain, Early, Starts, AfterClose, LifeStep
    <3> QED
      BY <2>2, <3>1 DEF LivesStep, LifeStep
  <2> QED
    BY <2>4, <2>5, <2>6, <2>7, <2>8 DEF HostInv
<1> QED
  BY <1>4, <1>5, <1>6 DEF AwaitLive

LEMMA ServiceReadyKeeps ==
  ASSUME HostInv, ServiceReady, app' = app
  PROVE  HostInv' /\ LivesStep
<1>1. pc = "awaitReady"
  BY DEF ServiceReady
<1>2. UNCHANGED <<caller, cancelled, requested, otherErr, budget, state, ready, readyCh, draining, svcCtxDone, serviceErr, maxStage, server, ran, hasErr, reported>>
  BY DEF ServiceReady, env, flags, errors
<1>3. hasErr' \in BOOLEAN /\ reported' \subseteq Services /\ reported \subseteq reported'
  BY <1>2 DEF HostInv, TypeOK
<1>4. CASE /\ Goto("services", idx + 1) /\ svc' = [svc EXCEPT ![idx] = Transition(svc[idx], "ready")]
  <2>1. pc' = "services" /\ idx' = idx + 1
    BY <1>4 DEF Goto, NoError, RunError
  <2> DEFINE s == svc[idx]
               t == Transition(s, "ready")
  <2>a. idx \in Services /\ svc \in [Services -> Service]
    BY <1>1 DEF HostInv, PlaceInv, TypeOK, Services
  <2>b. svc' = [svc EXCEPT ![idx] = t]
    BY <1>4, <2>a
  <2>c. /\ t \in Service
        /\ t.attempted = s.attempted /\ t.started = s.started /\ t.run = s.run /\ t.sawDraining = s.sawDraining
        /\ t.result = s.result /\ t.unexpected = s.unexpected /\ t.drained = s.drained /\ t.closes = s.closes
        /\ s.life = "failed" => t.life = "failed"
        /\ s.life # "failed" => t.life = "ready"
    <3>1. s \in Service
      BY <2>a
    <3> HIDE DEF s
    <3> QED
      BY <3>1, TransitionMoves DEF Moved, LifeStates
  <2> HIDE DEF t
  <2>2. svc'[idx] = t /\ \A j \in Services : j # idx => svc'[j] = svc[j]
    BY <2>a, <2>b, <2>c, OneServiceChanges
  <2>3. svc' \in [Services -> Service]
    BY <2>a, <2>b, <2>c, OneServiceChanges
  <2>4. TypeOK'
    BY <1>1, <1>2, <1>3, <2>1, <2>3, HostAssumption, StateNames DEF HostInv, TypeOK, PlaceInv, Places,
       Services, StopStage
  <2>5. PlaceInv'
    BY <1>1, <1>2, <2>1, HostAssumption DEF HostInv, TypeOK, PlaceInv, Services, StopStage, BeforeDrain,
       Early, Starts, AfterClose
  <2>6. RanInv'
    BY <1>1, <1>2, <2>1, HostAssumption DEF HostInv, TypeOK, PlaceInv, RanInv, StopStage
  <2>7. ASSUME NEW i \in Services PROVE ServiceInv(i)'
    <3>1. CASE i # idx
      BY <1>1, <1>2, <1>3, <2>1, <2>2, <3>1 DEF HostInv, TypeOK, Services, Critical, PlaceInv, ServiceInv,
         FlagsInv, StartInv, LifeInv, CleanupInv, IsLive, StillToStart, WasReady, WasDrained, WasAwaited,
         WasClosed, BeforeDrain, Early, Starts, AfterClose
    <3>2. CASE i = idx
      <4>1. FlagsInv(i)'
        BY <1>1, <1>2, <1>3, <2>1, <2>2, <2>c, <3>2 DEF HostInv, TypeOK, Services, Critical, ServiceInv,
           FlagsInv, StartInv, StillToStart, Early, Starts
      <4>2. StartInv(i)'
        BY <1>1, <1>2, <1>3, <2>1, <2>2, <2>c, <3>2 DEF HostInv, TypeOK, Services, Critical, ServiceInv,
           FlagsInv, StartInv, LifeInv, IsLive, StillToStart, WasReady, PlaceInv, BeforeDrain, Early,
           Starts, AfterClose
      <4>3. LifeInv(i)'
        BY <1>1, <1>2, <1>3, <2>1, <2>2, <2>c, <3>2 DEF HostInv, TypeOK, Services, Critical, ServiceInv,
           FlagsInv, StartInv, LifeInv, StillToStart, IsLive, WasClosed, BeforeDrain, Early, Starts,
           AfterClose
      <4>4. CleanupInv(i)'
        BY <1>1, <1>2, <1>3, <2>1, <2>2, <2>c, <3>2 DEF HostInv, TypeOK, Services, Critical, ServiceInv,
           FlagsInv, StartInv, StillToStart, CleanupInv, WasDrained, WasAwaited, WasClosed, PlaceInv,
           BeforeDrain, Early, Starts, AfterClose
      <4> QED
        BY <4>1, <4>2, <4>3, <4>4 DEF ServiceInv
    <3> QED
      BY <3>1, <3>2
  <2>8. LivesStep
    <3>1. LifeStep(s.life, t.life)
      BY <1>1, <2>1, <2>a, <2>c DEF HostInv, TypeOK, Services, ServiceInv, FlagsInv, StartInv, LifeInv,
         StillToStart, WasClosed, BeforeDrain, Early, Starts, AfterClose, LifeStep
    <3> QED
      BY <2>2, <3>1 DEF LivesStep, LifeStep
  <2> QED
    BY <2>4, <2>5, <2>6, <2>7, <2>8 DEF HostInv
<1> QED
  BY <1>4 DEF ServiceReady

LEMMA ServiceNotReadyKeeps ==
  ASSUME HostInv, ServiceNotReady, app' = app
  PROVE  HostInv' /\ LivesStep
<1>1. pc = "awaitReady"
  BY DEF ServiceNotReady
<1>2. UNCHANGED <<caller, cancelled, requested, otherErr, budget, state, ready, readyCh, draining, svcCtxDone, maxStage, server, ran>>
  BY DEF ServiceNotReady, env, flags, errors
<1>3. hasErr' \in BOOLEAN /\ reported' \subseteq Services /\ reported \subseteq reported'
  <2>1. NoError \/ Error \/ \E k \in Services : RunError(k)
    BY DEF ServiceNotReady, HostInv, PlaceInv, TypeOK, TakeServiceErr, Services
  <2> QED
    BY <2>1, ErrorsKeepType DEF HostInv, TypeOK
<1>4. CASE /\ Goto("startFailed", 0) /\ Error /\ UNCHANGED serviceErr
           /\ svc' = [svc EXCEPT ![idx] = Transition(svc[idx], "failed")]
  <2>1. pc' = "startFailed" /\ idx' = 0 /\ serviceErr' = serviceErr
    BY <1>4 DEF Goto, NoError, RunError
  <2> DEFINE s == svc[idx]
               t == Transition(s, "failed")
  <2>a. idx \in Services /\ svc \in [Services -> Service]
    BY <1>1 DEF HostInv, PlaceInv, TypeOK, Services
  <2>b. svc' = [svc EXCEPT ![idx] = t]
    BY <1>4, <2>a
  <2>c. /\ t \in Service
        /\ t.attempted = s.attempted /\ t.started = s.started /\ t.run = s.run /\ t.sawDraining = s.sawDraining
        /\ t.result = s.result /\ t.unexpected = s.unexpected /\ t.life = "failed" /\ t.drained = s.drained
        /\ t.closes = s.closes
    <3>1. s \in Service
      BY <2>a
    <3> HIDE DEF s
    <3> QED
      BY <3>1, TransitionMoves DEF Moved, LifeStates
  <2> HIDE DEF t
  <2>2. svc'[idx] = t /\ \A j \in Services : j # idx => svc'[j] = svc[j]
    BY <2>a, <2>b, <2>c, OneServiceChanges
  <2>3. svc' \in [Services -> Service]
    BY <2>a, <2>b, <2>c, OneServiceChanges
  <2>4. TypeOK'
    BY <1>1, <1>2, <1>3, <2>1, <2>3, HostAssumption, StateNames DEF HostInv, TypeOK, PlaceInv, Places,
       Services, StopStage
  <2>5. PlaceInv'
    BY <1>1, <1>2, <2>1, HostAssumption DEF HostInv, TypeOK, PlaceInv, Services, StopStage, BeforeDrain,
       Early, Starts, AfterClose
  <2>6. RanInv'
    BY <1>1, <1>2, <2>1, HostAssumption DEF HostInv, TypeOK, PlaceInv, RanInv, StopStage
  <2>7. ASSUME NEW i \in Services PROVE ServiceInv(i)'
    <3>1. CASE i # idx
      BY <1>1, <1>2, <1>3, <2>1, <2>2, <3>1 DEF HostInv, TypeOK, Services, Critical, PlaceInv, ServiceInv,
         FlagsInv, StartInv, LifeInv, CleanupInv, IsLive, StillToStart, WasReady, WasDrained, WasAwaited,
         WasClosed, BeforeDrain, Early, Starts, AfterClose
    <3>2. CASE i = idx
      <4>1. FlagsInv(i)'
        BY <1>1, <1>2, <1>3, <2>1, <2>2, <2>c, <3>2 DEF HostInv, TypeOK, Services, Critical, ServiceInv,
           FlagsInv, StartInv, StillToStart, Early, Starts
      <4>2. StartInv(i)'
        BY <1>1, <1>2, <1>3, <2>1, <2>2, <2>c, <3>2 DEF HostInv, TypeOK, Services, Critical, ServiceInv,
           FlagsInv, StartInv, LifeInv, IsLive, StillToStart, WasReady, PlaceInv, BeforeDrain, Early,
           Starts, AfterClose
      <4>3. LifeInv(i)'
        BY <1>1, <1>2, <1>3, <2>1, <2>2, <2>c, <3>2 DEF HostInv, TypeOK, Services, Critical, ServiceInv,
           FlagsInv, StartInv, LifeInv, StillToStart, IsLive, WasClosed, BeforeDrain, Early, Starts,
           AfterClose
      <4>4. CleanupInv(i)'
        BY <1>1, <1>2, <1>3, <2>1, <2>2, <2>c, <3>2 DEF HostInv, TypeOK, Services, Critical, ServiceInv,
           FlagsInv, StartInv, StillToStart, CleanupInv, WasDrained, WasAwaited, WasClosed, PlaceInv,
           BeforeDrain, Early, Starts, AfterClose
      <4> QED
        BY <4>1, <4>2, <4>3, <4>4 DEF ServiceInv
    <3> QED
      BY <3>1, <3>2
  <2>8. LivesStep
    <3>1. LifeStep(s.life, t.life)
      BY <1>1, <2>1, <2>a, <2>c DEF HostInv, TypeOK, Services, ServiceInv, FlagsInv, StartInv, LifeInv,
         StillToStart, WasClosed, BeforeDrain, Early, Starts, AfterClose, LifeStep
    <3> QED
      BY <2>2, <3>1 DEF LivesStep, LifeStep
  <2> QED
    BY <2>4, <2>5, <2>6, <2>7, <2>8 DEF HostInv
<1>5. CASE Goto("startFailed", 0) /\ UNCHANGED <<svc, serviceErr>>
  <2>1. pc' = "startFailed" /\ idx' = 0 /\ serviceErr' = serviceErr
    BY <1>5 DEF Goto, NoError, RunError
  <2>2. svc' = svc
    BY <1>2, <1>5
  <2>3. svc' \in [Services -> Service]
    BY <2>2 DEF HostInv, TypeOK
  <2>4. TypeOK'
    BY <1>1, <1>2, <1>3, <2>1, <2>3, HostAssumption, StateNames DEF HostInv, TypeOK, PlaceInv, Places,
       Services, StopStage
  <2>5. PlaceInv'
    BY <1>1, <1>2, <2>1, HostAssumption DEF HostInv, TypeOK, PlaceInv, Services, StopStage, BeforeDrain,
       Early, Starts, AfterClose
  <2>6. RanInv'
    BY <1>1, <1>2, <2>1, HostAssumption DEF HostInv, TypeOK, PlaceInv, RanInv, StopStage
  <2>7. ASSUME NEW i \in Services PROVE ServiceInv(i)'
    BY <1>1, <1>2, <1>3, <2>1, <2>2, HostAssumption DEF HostInv, TypeOK, Services, Critical, PlaceInv,
       ServiceInv, FlagsInv, StartInv, LifeInv, CleanupInv, IsLive, StillToStart, WasReady, WasDrained,
       WasAwaited, WasClosed, BeforeDrain, Early, Starts, AfterClose
  <2>8. LivesStep
    BY <2>2 DEF LivesStep, LifeStep
  <2> QED
    BY <2>4, <2>5, <2>6, <2>7, <2>8 DEF HostInv
<1>6. CASE TakeServiceErr /\ UNCHANGED svc
  <2>1. pc' = "startFailed" /\ idx' = 0 /\ serviceErr' = 0
    BY <1>6 DEF Goto, NoError, RunError, TakeServiceErr
  <2>2. svc' = svc
    BY <1>2, <1>6
  <2>3. svc' \in [Services -> Service]
    BY <2>2 DEF HostInv, TypeOK
  <2>4. TypeOK'
    BY <1>1, <1>2, <1>3, <2>1, <2>3, HostAssumption, StateNames DEF HostInv, TypeOK, PlaceInv, Places,
       Services, StopStage
  <2>5. PlaceInv'
    BY <1>1, <1>2, <2>1, HostAssumption DEF HostInv, TypeOK, PlaceInv, Services, StopStage, BeforeDrain,
       Early, Starts, AfterClose
  <2>6. RanInv'
    BY <1>1, <1>2, <2>1, HostAssumption DEF HostInv, TypeOK, PlaceInv, RanInv, StopStage
  <2>7. ASSUME NEW i \in Services PROVE ServiceInv(i)'
    BY <1>1, <1>2, <1>3, <2>1, <2>2, HostAssumption DEF HostInv, TypeOK, Services, Critical, PlaceInv,
       ServiceInv, FlagsInv, StartInv, LifeInv, CleanupInv, IsLive, StillToStart, WasReady, WasDrained,
       WasAwaited, WasClosed, BeforeDrain, Early, Starts, AfterClose
  <2>8. LivesStep
    BY <2>2 DEF LivesStep, LifeStep
  <2> QED
    BY <2>4, <2>5, <2>6, <2>7, <2>8 DEF HostInv
<1> QED
  BY <1>4, <1>5, <1>6 DEF ServiceNotReady

LEMMA DrainKeeps ==
  ASSUME HostInv, Drain, app' = app
  PROVE  HostInv' /\ LivesStep
<1>1. pc = "drain" /\ idx > 0
  BY DEF Drain
<1>2. UNCHANGED <<caller, cancelled, requested, otherErr, budget, state, ready, readyCh, draining, svcCtxDone, serviceErr, maxStage, server, ran>>
  BY DEF Drain, env, flags, errors
<1>3. hasErr' \in BOOLEAN /\ reported' \subseteq Services /\ reported \subseteq reported'
  <2>1. NoError \/ Error \/ \E k \in Services : RunError(k)
    BY DEF Drain, HostInv, PlaceInv, TypeOK, TakeServiceErr, Services
  <2> QED
    BY <2>1, ErrorsKeepType DEF HostInv, TypeOK
<1>4. CASE /\ ~svc[idx].started /\ NoError /\ Goto("drain", idx - 1)
           /\ svc' = [svc EXCEPT ![idx] = NotStarted(@)]
  <2>1. ~svc[idx].started /\ pc' = "drain" /\ idx' = idx - 1
    BY <1>4 DEF Goto, NoError, RunError
  <2> DEFINE s == svc[idx]
               t == NotStarted(s)
  <2>a. idx \in Services /\ svc \in [Services -> Service]
    BY <1>1 DEF HostInv, PlaceInv, TypeOK, Services
  <2>b. svc' = [svc EXCEPT ![idx] = t]
    BY <1>4, <2>a
  <2>c. /\ t \in Service
        /\ t.attempted = s.attempted /\ t.started = s.started /\ t.run = s.run /\ t.sawDraining = s.sawDraining
        /\ t.result = s.result /\ t.unexpected = s.unexpected /\ t.drained = s.drained /\ t.closes = s.closes
        /\ s.attempted => t.life = s.life
        /\ ~s.attempted /\ s.life # "failed" => t.life = "not_started"
        /\ s.life = "failed" => t.life = "failed"
    <3>1. s \in Service
      BY <2>a
    <3> HIDE DEF s
    <3>2. CASE s.attempted
      BY <3>1, <3>2 DEF NotStarted
    <3>3. CASE ~s.attempted
      BY <3>1, <3>3, TransitionMoves DEF NotStarted, Moved, LifeStates
    <3> QED
      BY <3>2, <3>3
  <2> HIDE DEF t
  <2>2. svc'[idx] = t /\ \A j \in Services : j # idx => svc'[j] = svc[j]
    BY <2>a, <2>b, <2>c, OneServiceChanges
  <2>3. svc' \in [Services -> Service]
    BY <2>a, <2>b, <2>c, OneServiceChanges
  <2>4. TypeOK'
    BY <1>1, <1>2, <1>3, <2>1, <2>3, HostAssumption, StateNames DEF HostInv, TypeOK, PlaceInv, Places,
       Services, StopStage
  <2>5. PlaceInv'
    BY <1>1, <1>2, <2>1, HostAssumption DEF HostInv, TypeOK, PlaceInv, Services, StopStage, BeforeDrain,
       Early, Starts, AfterClose
  <2>6. RanInv'
    BY <1>1, <1>2, <2>1, HostAssumption DEF HostInv, TypeOK, PlaceInv, RanInv, StopStage
  <2>7. ASSUME NEW i \in Services PROVE ServiceInv(i)'
    <3>1. CASE i # idx
      BY <1>1, <1>2, <1>3, <2>1, <2>2, <3>1 DEF HostInv, TypeOK, Services, Critical, PlaceInv, ServiceInv,
         FlagsInv, StartInv, LifeInv, CleanupInv, IsLive, StillToStart, WasReady, WasDrained, WasAwaited,
         WasClosed, BeforeDrain, Early, Starts, AfterClose
    <3>2. CASE i = idx
      <4>1. FlagsInv(i)'
        BY <1>1, <1>2, <1>3, <2>1, <2>2, <2>c, <3>2 DEF HostInv, TypeOK, Services, Critical, ServiceInv,
           FlagsInv, StartInv, StillToStart, Early, Starts
      <4>2. StartInv(i)'
        BY <1>1, <1>2, <1>3, <2>1, <2>2, <2>c, <3>2 DEF HostInv, TypeOK, Services, Critical, ServiceInv,
           FlagsInv, StartInv, LifeInv, IsLive, StillToStart, WasReady, PlaceInv, BeforeDrain, Early,
           Starts, AfterClose
      <4>3. LifeInv(i)'
        BY <1>1, <1>2, <1>3, <2>1, <2>2, <2>c, <3>2 DEF HostInv, TypeOK, Services, Critical, ServiceInv,
           FlagsInv, StartInv, LifeInv, StillToStart, IsLive, WasClosed, BeforeDrain, Early, Starts,
           AfterClose
      <4>4. CleanupInv(i)'
        BY <1>1, <1>2, <1>3, <2>1, <2>2, <2>c, <3>2 DEF HostInv, TypeOK, Services, Critical, ServiceInv,
           FlagsInv, StartInv, StillToStart, CleanupInv, WasDrained, WasAwaited, WasClosed, PlaceInv,
           BeforeDrain, Early, Starts, AfterClose
      <4> QED
        BY <4>1, <4>2, <4>3, <4>4 DEF ServiceInv
    <3> QED
      BY <3>1, <3>2
  <2>8. LivesStep
    <3>1. LifeStep(s.life, t.life)
      BY <1>1, <2>1, <2>a, <2>c DEF HostInv, TypeOK, Services, ServiceInv, FlagsInv, StartInv, LifeInv,
         StillToStart, WasClosed, BeforeDrain, Early, Starts, AfterClose, LifeStep
    <3> QED
      BY <2>2, <3>1 DEF LivesStep, LifeStep
  <2> QED
    BY <2>4, <2>5, <2>6, <2>7, <2>8 DEF HostInv
<1>5. CASE /\ svc[idx].started /\ NoError /\ Goto("drain", idx - 1)
           /\ svc' = [svc EXCEPT ![idx] = [Transition(svc[idx], "draining") EXCEPT !.drained = TRUE]]
  <2>1. svc[idx].started /\ pc' = "drain" /\ idx' = idx - 1
    BY <1>5 DEF Goto, NoError, RunError
  <2> DEFINE s == svc[idx]
               t == [Transition(s, "draining") EXCEPT !.drained = TRUE]
  <2>a. idx \in Services /\ svc \in [Services -> Service]
    BY <1>1 DEF HostInv, PlaceInv, TypeOK, Services
  <2>b. svc' = [svc EXCEPT ![idx] = t]
    BY <1>5, <2>a
  <2>c. /\ t \in Service
        /\ t.attempted = s.attempted /\ t.started = s.started /\ t.run = s.run /\ t.sawDraining = s.sawDraining
        /\ t.result = s.result /\ t.unexpected = s.unexpected /\ t.drained = TRUE /\ t.closes = s.closes
        /\ s.life = "failed" => t.life = "failed"
        /\ s.life # "failed" => t.life = "draining"
    <3>1. s \in Service
      BY <2>a
    <3> HIDE DEF s
    <3> DEFINE r == Transition(s, "draining")
    <3>2. Moved(r, s, "draining")
      BY <3>1, TransitionMoves DEF LifeStates
    <3>3. t = [r EXCEPT !.drained = TRUE]
      OBVIOUS
    <3> HIDE DEF r, t
    <3>4. t \in Service
      BY <3>2, <3>3 DEF Moved, Service
    <3>5. /\ t.attempted = r.attempted /\ t.started = r.started /\ t.run = r.run /\ t.sawDraining = r.sawDraining
          /\ t.result = r.result /\ t.unexpected = r.unexpected /\ t.life = r.life /\ t.drained = TRUE
          /\ t.closes = r.closes
      BY <3>2, <3>3 DEF Moved, Service
    <3> QED
      BY <3>2, <3>4, <3>5 DEF Moved
  <2> HIDE DEF t
  <2>2. svc'[idx] = t /\ \A j \in Services : j # idx => svc'[j] = svc[j]
    BY <2>a, <2>b, <2>c, OneServiceChanges
  <2>3. svc' \in [Services -> Service]
    BY <2>a, <2>b, <2>c, OneServiceChanges
  <2>4. TypeOK'
    BY <1>1, <1>2, <1>3, <2>1, <2>3, HostAssumption, StateNames DEF HostInv, TypeOK, PlaceInv, Places,
       Services, StopStage
  <2>5. PlaceInv'
    BY <1>1, <1>2, <2>1, HostAssumption DEF HostInv, TypeOK, PlaceInv, Services, StopStage, BeforeDrain,
       Early, Starts, AfterClose
  <2>6. RanInv'
    BY <1>1, <1>2, <2>1, HostAssumption DEF HostInv, TypeOK, PlaceInv, RanInv, StopStage
  <2>7. ASSUME NEW i \in Services PROVE ServiceInv(i)'
    <3>1. CASE i # idx
      BY <1>1, <1>2, <1>3, <2>1, <2>2, <3>1 DEF HostInv, TypeOK, Services, Critical, PlaceInv, ServiceInv,
         FlagsInv, StartInv, LifeInv, CleanupInv, IsLive, StillToStart, WasReady, WasDrained, WasAwaited,
         WasClosed, BeforeDrain, Early, Starts, AfterClose
    <3>2. CASE i = idx
      <4>1. FlagsInv(i)'
        BY <1>1, <1>2, <1>3, <2>1, <2>2, <2>c, <3>2 DEF HostInv, TypeOK, Services, Critical, ServiceInv,
           FlagsInv, StartInv, StillToStart, Early, Starts
      <4>2. StartInv(i)'
        BY <1>1, <1>2, <1>3, <2>1, <2>2, <2>c, <3>2 DEF HostInv, TypeOK, Services, Critical, ServiceInv,
           FlagsInv, StartInv, LifeInv, IsLive, StillToStart, WasReady, PlaceInv, BeforeDrain, Early,
           Starts, AfterClose
      <4>3. LifeInv(i)'
        BY <1>1, <1>2, <1>3, <2>1, <2>2, <2>c, <3>2 DEF HostInv, TypeOK, Services, Critical, ServiceInv,
           FlagsInv, StartInv, LifeInv, StillToStart, IsLive, WasClosed, BeforeDrain, Early, Starts,
           AfterClose
      <4>4. CleanupInv(i)'
        BY <1>1, <1>2, <1>3, <2>1, <2>2, <2>c, <3>2 DEF HostInv, TypeOK, Services, Critical, ServiceInv,
           FlagsInv, StartInv, StillToStart, CleanupInv, WasDrained, WasAwaited, WasClosed, PlaceInv,
           BeforeDrain, Early, Starts, AfterClose
      <4> QED
        BY <4>1, <4>2, <4>3, <4>4 DEF ServiceInv
    <3> QED
      BY <3>1, <3>2
  <2>8. LivesStep
    <3>1. LifeStep(s.life, t.life)
      BY <1>1, <2>1, <2>a, <2>c DEF HostInv, TypeOK, Services, ServiceInv, FlagsInv, StartInv, LifeInv,
         StillToStart, WasClosed, BeforeDrain, Early, Starts, AfterClose, LifeStep
    <3> QED
      BY <2>2, <3>1 DEF LivesStep, LifeStep
  <2> QED
    BY <2>4, <2>5, <2>6, <2>7, <2>8 DEF HostInv
<1>6. CASE /\ svc[idx].started /\ Error /\ Goto("drain", idx - 1)
           /\ svc' = [svc EXCEPT ![idx] = [Transition(svc[idx], "failed") EXCEPT !.drained = TRUE]]
  <2>1. svc[idx].started /\ pc' = "drain" /\ idx' = idx - 1
    BY <1>6 DEF Goto, NoError, RunError
  <2> DEFINE s == svc[idx]
               t == [Transition(s, "failed") EXCEPT !.drained = TRUE]
  <2>a. idx \in Services /\ svc \in [Services -> Service]
    BY <1>1 DEF HostInv, PlaceInv, TypeOK, Services
  <2>b. svc' = [svc EXCEPT ![idx] = t]
    BY <1>6, <2>a
  <2>c. /\ t \in Service
        /\ t.attempted = s.attempted /\ t.started = s.started /\ t.run = s.run /\ t.sawDraining = s.sawDraining
        /\ t.result = s.result /\ t.unexpected = s.unexpected /\ t.life = "failed" /\ t.drained = TRUE
        /\ t.closes = s.closes
    <3>1. s \in Service
      BY <2>a
    <3> HIDE DEF s
    <3> DEFINE r == Transition(s, "failed")
    <3>2. Moved(r, s, "failed")
      BY <3>1, TransitionMoves DEF LifeStates
    <3>3. t = [r EXCEPT !.drained = TRUE]
      OBVIOUS
    <3> HIDE DEF r, t
    <3>4. t \in Service
      BY <3>2, <3>3 DEF Moved, Service
    <3>5. /\ t.attempted = r.attempted /\ t.started = r.started /\ t.run = r.run /\ t.sawDraining = r.sawDraining
          /\ t.result = r.result /\ t.unexpected = r.unexpected /\ t.life = r.life /\ t.drained = TRUE
          /\ t.closes = r.closes
      BY <3>2, <3>3 DEF Moved, Service
    <3> QED
      BY <3>2, <3>4, <3>5 DEF Moved
  <2> HIDE DEF t
  <2>2. svc'[idx] = t /\ \A j \in Services : j # idx => svc'[j] = svc[j]
    BY <2>a, <2>b, <2>c, OneServiceChanges
  <2>3. svc' \in [Services -> Service]
    BY <2>a, <2>b, <2>c, OneServiceChanges
  <2>4. TypeOK'
    BY <1>1, <1>2, <1>3, <2>1, <2>3, HostAssumption, StateNames DEF HostInv, TypeOK, PlaceInv, Places,
       Services, StopStage
  <2>5. PlaceInv'
    BY <1>1, <1>2, <2>1, HostAssumption DEF HostInv, TypeOK, PlaceInv, Services, StopStage, BeforeDrain,
       Early, Starts, AfterClose
  <2>6. RanInv'
    BY <1>1, <1>2, <2>1, HostAssumption DEF HostInv, TypeOK, PlaceInv, RanInv, StopStage
  <2>7. ASSUME NEW i \in Services PROVE ServiceInv(i)'
    <3>1. CASE i # idx
      BY <1>1, <1>2, <1>3, <2>1, <2>2, <3>1 DEF HostInv, TypeOK, Services, Critical, PlaceInv, ServiceInv,
         FlagsInv, StartInv, LifeInv, CleanupInv, IsLive, StillToStart, WasReady, WasDrained, WasAwaited,
         WasClosed, BeforeDrain, Early, Starts, AfterClose
    <3>2. CASE i = idx
      <4>1. FlagsInv(i)'
        BY <1>1, <1>2, <1>3, <2>1, <2>2, <2>c, <3>2 DEF HostInv, TypeOK, Services, Critical, ServiceInv,
           FlagsInv, StartInv, StillToStart, Early, Starts
      <4>2. StartInv(i)'
        BY <1>1, <1>2, <1>3, <2>1, <2>2, <2>c, <3>2 DEF HostInv, TypeOK, Services, Critical, ServiceInv,
           FlagsInv, StartInv, LifeInv, IsLive, StillToStart, WasReady, PlaceInv, BeforeDrain, Early,
           Starts, AfterClose
      <4>3. LifeInv(i)'
        BY <1>1, <1>2, <1>3, <2>1, <2>2, <2>c, <3>2 DEF HostInv, TypeOK, Services, Critical, ServiceInv,
           FlagsInv, StartInv, LifeInv, StillToStart, IsLive, WasClosed, BeforeDrain, Early, Starts,
           AfterClose
      <4>4. CleanupInv(i)'
        BY <1>1, <1>2, <1>3, <2>1, <2>2, <2>c, <3>2 DEF HostInv, TypeOK, Services, Critical, ServiceInv,
           FlagsInv, StartInv, StillToStart, CleanupInv, WasDrained, WasAwaited, WasClosed, PlaceInv,
           BeforeDrain, Early, Starts, AfterClose
      <4> QED
        BY <4>1, <4>2, <4>3, <4>4 DEF ServiceInv
    <3> QED
      BY <3>1, <3>2
  <2>8. LivesStep
    <3>1. LifeStep(s.life, t.life)
      BY <1>1, <2>1, <2>a, <2>c DEF HostInv, TypeOK, Services, ServiceInv, FlagsInv, StartInv, LifeInv,
         StillToStart, WasClosed, BeforeDrain, Early, Starts, AfterClose, LifeStep
    <3> QED
      BY <2>2, <3>1 DEF LivesStep, LifeStep
  <2> QED
    BY <2>4, <2>5, <2>6, <2>7, <2>8 DEF HostInv
<1> QED
  BY <1>4, <1>5, <1>6 DEF Drain

LEMMA WaitRunKeeps ==
  ASSUME HostInv, WaitRun, app' = app
  PROVE  HostInv' /\ LivesStep
<1>1. pc = "wait" /\ idx > 0
  BY DEF WaitRun
<1>2. UNCHANGED <<caller, cancelled, requested, otherErr, budget, state, ready, readyCh, draining, svcCtxDone, serviceErr, maxStage, server, ran>>
  BY DEF WaitRun, env, flags, errors
<1>3. hasErr' \in BOOLEAN /\ reported' \subseteq Services /\ reported \subseteq reported'
  <2>1. NoError \/ Error \/ \E k \in Services : RunError(k)
    BY DEF WaitRun, HostInv, PlaceInv, TypeOK, TakeServiceErr, Services
  <2> QED
    BY <2>1, ErrorsKeepType DEF HostInv, TypeOK
<1>4. CASE ~svc[idx].started /\ NoError /\ Goto("wait", idx - 1) /\ UNCHANGED svc
  <2>1. ~svc[idx].started /\ pc' = "wait" /\ idx' = idx - 1
    BY <1>4 DEF Goto, NoError, RunError
  <2>2. svc' = svc
    BY <1>2, <1>4
  <2>3. svc' \in [Services -> Service]
    BY <2>2 DEF HostInv, TypeOK
  <2>4. TypeOK'
    BY <1>1, <1>2, <1>3, <2>1, <2>3, HostAssumption, StateNames DEF HostInv, TypeOK, PlaceInv, Places,
       Services, StopStage
  <2>5. PlaceInv'
    BY <1>1, <1>2, <2>1, HostAssumption DEF HostInv, TypeOK, PlaceInv, Services, StopStage, BeforeDrain,
       Early, Starts, AfterClose
  <2>6. RanInv'
    BY <1>1, <1>2, <2>1, HostAssumption DEF HostInv, TypeOK, PlaceInv, RanInv, StopStage
  <2>7. ASSUME NEW i \in Services PROVE ServiceInv(i)'
    <3>1. svc'[i] = svc[i] /\ ServiceInv(i) /\ idx \in Int /\ i \in Int
      BY <2>2, HostAssumption DEF HostInv, TypeOK, Services
    <3>2. FlagsInv(i)'
      BY <3>1 DEF ServiceInv, FlagsInv
    <3>3. StartInv(i)'
      BY <1>1, <1>2, <2>1, <3>1 DEF HostInv, PlaceInv, StartInv, StillToStart, WasReady, Early, Starts
    <3>4. LifeInv(i)'
      BY <1>1, <2>1, <3>1 DEF ServiceInv, LifeInv, WasClosed, BeforeDrain, Early, Starts, AfterClose
    <3>5. CleanupInv(i)'
      BY <1>1, <1>2, <1>3, <2>1, <3>1 DEF ServiceInv, CleanupInv, WasDrained, WasAwaited, WasClosed,
         BeforeDrain, Early, Starts, AfterClose
    <3>6. QED
      BY <3>2, <3>3, <3>4, <3>5 DEF ServiceInv
  <2>8. LivesStep
    BY <2>2 DEF LivesStep, LifeStep
  <2> QED
    BY <2>4, <2>5, <2>6, <2>7, <2>8 DEF HostInv
<1>5. CASE /\ svc[idx].started /\ svc[idx].run = "done" /\ RunFailedInShutdown(svc[idx])
           /\ RunError(idx) /\ Goto("wait", idx - 1)
           /\ svc' = [svc EXCEPT ![idx] = Transition(svc[idx], "failed")]
  <2>1. svc[idx].run = "done" /\ idx \in reported' /\ pc' = "wait" /\ idx' = idx - 1
    BY <1>5 DEF Goto, NoError, RunError
  <2> DEFINE s == svc[idx]
               t == Transition(s, "failed")
  <2>a. idx \in Services /\ svc \in [Services -> Service]
    BY <1>1 DEF HostInv, PlaceInv, TypeOK, Services
  <2>b. svc' = [svc EXCEPT ![idx] = t]
    BY <1>5, <2>a
  <2>c. /\ t \in Service
        /\ t.attempted = s.attempted /\ t.started = s.started /\ t.run = s.run /\ t.sawDraining = s.sawDraining
        /\ t.result = s.result /\ t.unexpected = s.unexpected /\ t.life = "failed" /\ t.drained = s.drained
        /\ t.closes = s.closes
    <3>1. s \in Service
      BY <2>a
    <3> HIDE DEF s
    <3> QED
      BY <3>1, TransitionMoves DEF Moved, LifeStates
  <2> HIDE DEF t
  <2>2. svc'[idx] = t /\ \A j \in Services : j # idx => svc'[j] = svc[j]
    BY <2>a, <2>b, <2>c, OneServiceChanges
  <2>3. svc' \in [Services -> Service]
    BY <2>a, <2>b, <2>c, OneServiceChanges
  <2>4. TypeOK'
    BY <1>1, <1>2, <1>3, <2>1, <2>3, HostAssumption, StateNames DEF HostInv, TypeOK, PlaceInv, Places,
       Services, StopStage
  <2>5. PlaceInv'
    BY <1>1, <1>2, <2>1, HostAssumption DEF HostInv, TypeOK, PlaceInv, Services, StopStage, BeforeDrain,
       Early, Starts, AfterClose
  <2>6. RanInv'
    BY <1>1, <1>2, <2>1, HostAssumption DEF HostInv, TypeOK, PlaceInv, RanInv, StopStage
  <2>7. ASSUME NEW i \in Services PROVE ServiceInv(i)'
    <3>1. CASE i # idx
      BY <1>1, <1>2, <1>3, <2>1, <2>2, <3>1 DEF HostInv, TypeOK, Services, Critical, PlaceInv, ServiceInv,
         FlagsInv, StartInv, LifeInv, CleanupInv, IsLive, StillToStart, WasReady, WasDrained, WasAwaited,
         WasClosed, BeforeDrain, Early, Starts, AfterClose
    <3>2. CASE i = idx
      <4>1. FlagsInv(i)'
        BY <1>1, <1>2, <1>3, <2>1, <2>2, <2>c, <3>2 DEF HostInv, TypeOK, Services, Critical, ServiceInv,
           FlagsInv, StartInv, StillToStart, Early, Starts
      <4>2. StartInv(i)'
        BY <1>1, <1>2, <1>3, <2>1, <2>2, <2>c, <3>2 DEF HostInv, TypeOK, Services, Critical, ServiceInv,
           FlagsInv, StartInv, LifeInv, IsLive, StillToStart, WasReady, PlaceInv, BeforeDrain, Early,
           Starts, AfterClose
      <4>3. LifeInv(i)'
        BY <1>1, <1>2, <1>3, <2>1, <2>2, <2>c, <3>2 DEF HostInv, TypeOK, Services, Critical, ServiceInv,
           FlagsInv, StartInv, LifeInv, StillToStart, IsLive, WasClosed, BeforeDrain, Early, Starts,
           AfterClose
      <4>4. CleanupInv(i)'
        BY <1>1, <1>2, <1>3, <2>1, <2>2, <2>c, <3>2 DEF HostInv, TypeOK, Services, Critical, ServiceInv,
           FlagsInv, StartInv, StillToStart, CleanupInv, WasDrained, WasAwaited, WasClosed, PlaceInv,
           BeforeDrain, Early, Starts, AfterClose
      <4> QED
        BY <4>1, <4>2, <4>3, <4>4 DEF ServiceInv
    <3> QED
      BY <3>1, <3>2
  <2>8. LivesStep
    <3>1. LifeStep(s.life, t.life)
      BY <1>1, <2>1, <2>a, <2>c DEF HostInv, TypeOK, Services, ServiceInv, FlagsInv, StartInv, LifeInv,
         StillToStart, WasClosed, BeforeDrain, Early, Starts, AfterClose, LifeStep
    <3> QED
      BY <2>2, <3>1 DEF LivesStep, LifeStep
  <2> QED
    BY <2>4, <2>5, <2>6, <2>7, <2>8 DEF HostInv
<1>6. CASE /\ svc[idx].started /\ svc[idx].run = "done" /\ ~RunFailedInShutdown(svc[idx])
           /\ NoError /\ Goto("wait", idx - 1) /\ UNCHANGED svc
  <2>1. svc[idx].run = "done" /\ ~(svc[idx].result = "error" /\ ~svc[idx].unexpected) /\ pc' = "wait" /\ idx' = idx - 1
    BY <1>6 DEF Goto, NoError, RunError, RunFailedInShutdown
  <2>2. svc' = svc
    BY <1>2, <1>6
  <2>3. svc' \in [Services -> Service]
    BY <2>2 DEF HostInv, TypeOK
  <2>4. TypeOK'
    BY <1>1, <1>2, <1>3, <2>1, <2>3, HostAssumption, StateNames DEF HostInv, TypeOK, PlaceInv, Places,
       Services, StopStage
  <2>5. PlaceInv'
    BY <1>1, <1>2, <2>1, HostAssumption DEF HostInv, TypeOK, PlaceInv, Services, StopStage, BeforeDrain,
       Early, Starts, AfterClose
  <2>6. RanInv'
    BY <1>1, <1>2, <2>1, HostAssumption DEF HostInv, TypeOK, PlaceInv, RanInv, StopStage
  <2>7. ASSUME NEW i \in Services PROVE ServiceInv(i)'
    BY <1>1, <1>2, <1>3, <2>1, <2>2, HostAssumption DEF HostInv, TypeOK, Services, Critical, PlaceInv,
       ServiceInv, FlagsInv, StartInv, LifeInv, CleanupInv, IsLive, StillToStart, WasReady, WasDrained,
       WasAwaited, WasClosed, BeforeDrain, Early, Starts, AfterClose
  <2>8. LivesStep
    BY <2>2 DEF LivesStep, LifeStep
  <2> QED
    BY <2>4, <2>5, <2>6, <2>7, <2>8 DEF HostInv
<1>7. CASE /\ svc[idx].started /\ budget /\ Error /\ Goto("wait", idx - 1)
           /\ svc' = [svc EXCEPT ![idx] = Transition(svc[idx], "failed")]
  <2>1. budget /\ svc[idx].started /\ pc' = "wait" /\ idx' = idx - 1
    BY <1>7 DEF Goto, NoError, RunError
  <2> DEFINE s == svc[idx]
               t == Transition(s, "failed")
  <2>a. idx \in Services /\ svc \in [Services -> Service]
    BY <1>1 DEF HostInv, PlaceInv, TypeOK, Services
  <2>b. svc' = [svc EXCEPT ![idx] = t]
    BY <1>7, <2>a
  <2>c. /\ t \in Service
        /\ t.attempted = s.attempted /\ t.started = s.started /\ t.run = s.run /\ t.sawDraining = s.sawDraining
        /\ t.result = s.result /\ t.unexpected = s.unexpected /\ t.life = "failed" /\ t.drained = s.drained
        /\ t.closes = s.closes
    <3>1. s \in Service
      BY <2>a
    <3> HIDE DEF s
    <3> QED
      BY <3>1, TransitionMoves DEF Moved, LifeStates
  <2> HIDE DEF t
  <2>2. svc'[idx] = t /\ \A j \in Services : j # idx => svc'[j] = svc[j]
    BY <2>a, <2>b, <2>c, OneServiceChanges
  <2>3. svc' \in [Services -> Service]
    BY <2>a, <2>b, <2>c, OneServiceChanges
  <2>4. TypeOK'
    BY <1>1, <1>2, <1>3, <2>1, <2>3, HostAssumption, StateNames DEF HostInv, TypeOK, PlaceInv, Places,
       Services, StopStage
  <2>5. PlaceInv'
    BY <1>1, <1>2, <2>1, HostAssumption DEF HostInv, TypeOK, PlaceInv, Services, StopStage, BeforeDrain,
       Early, Starts, AfterClose
  <2>6. RanInv'
    BY <1>1, <1>2, <2>1, HostAssumption DEF HostInv, TypeOK, PlaceInv, RanInv, StopStage
  <2>7. ASSUME NEW i \in Services PROVE ServiceInv(i)'
    <3>1. CASE i # idx
      BY <1>1, <1>2, <1>3, <2>1, <2>2, <3>1 DEF HostInv, TypeOK, Services, Critical, PlaceInv, ServiceInv,
         FlagsInv, StartInv, LifeInv, CleanupInv, IsLive, StillToStart, WasReady, WasDrained, WasAwaited,
         WasClosed, BeforeDrain, Early, Starts, AfterClose
    <3>2. CASE i = idx
      <4>1. FlagsInv(i)'
        BY ZenonT(60), <1>1, <1>2, <1>3, <2>1, <2>2, <2>c, <3>2 DEF HostInv, TypeOK, Services, Critical, ServiceInv,
           FlagsInv, StartInv, StillToStart, Early, Starts
      <4>2. StartInv(i)'
        BY <1>1, <1>2, <1>3, <2>1, <2>2, <2>c, <3>2 DEF HostInv, TypeOK, Services, Critical, ServiceInv,
           FlagsInv, StartInv, LifeInv, IsLive, StillToStart, WasReady, PlaceInv, BeforeDrain, Early,
           Starts, AfterClose
      <4>3. LifeInv(i)'
        BY <1>1, <1>2, <1>3, <2>1, <2>2, <2>c, <3>2 DEF HostInv, TypeOK, Services, Critical, ServiceInv,
           FlagsInv, StartInv, LifeInv, StillToStart, IsLive, WasClosed, BeforeDrain, Early, Starts,
           AfterClose
      <4>4. CleanupInv(i)'
        BY <1>1, <1>2, <1>3, <2>1, <2>2, <2>c, <3>2 DEF HostInv, TypeOK, Services, Critical, ServiceInv,
           FlagsInv, StartInv, StillToStart, CleanupInv, WasDrained, WasAwaited, WasClosed, PlaceInv,
           BeforeDrain, Early, Starts, AfterClose
      <4> QED
        BY <4>1, <4>2, <4>3, <4>4 DEF ServiceInv
    <3> QED
      BY <3>1, <3>2
  <2>8. LivesStep
    <3>1. LifeStep(s.life, t.life)
      BY <1>1, <2>1, <2>a, <2>c DEF HostInv, TypeOK, Services, ServiceInv, FlagsInv, StartInv, LifeInv,
         StillToStart, WasClosed, BeforeDrain, Early, Starts, AfterClose, LifeStep
    <3> QED
      BY <2>2, <3>1 DEF LivesStep, LifeStep
  <2> QED
    BY <2>4, <2>5, <2>6, <2>7, <2>8 DEF HostInv
<1> QED
  BY <1>4, <1>5, <1>6, <1>7 DEF WaitRun

LEMMA CloseKeeps ==
  ASSUME HostInv, Close, app' = app
  PROVE  HostInv' /\ LivesStep
<1>1. pc = "close" /\ idx > 0
  BY DEF Close
<1>2. UNCHANGED <<caller, cancelled, requested, otherErr, budget, state, ready, readyCh, draining, svcCtxDone, serviceErr, maxStage, server, ran>>
  BY DEF Close, env, flags, errors
<1>3. hasErr' \in BOOLEAN /\ reported' \subseteq Services /\ reported \subseteq reported'
  <2>1. NoError \/ Error \/ \E k \in Services : RunError(k)
    BY DEF Close, HostInv, PlaceInv, TypeOK, TakeServiceErr, Services
  <2> QED
    BY <2>1, ErrorsKeepType DEF HostInv, TypeOK
<1>4. CASE ~MustClose(svc[idx]) /\ NoError /\ Goto("close", idx - 1) /\ UNCHANGED svc
  <2>1. ~svc[idx].attempted /\ pc' = "close" /\ idx' = idx - 1
    BY <1>4 DEF Goto, NoError, RunError, MustClose
  <2>2. svc' = svc
    BY <1>2, <1>4
  <2>3. svc' \in [Services -> Service]
    BY <2>2 DEF HostInv, TypeOK
  <2>4. TypeOK'
    BY <1>1, <1>2, <1>3, <2>1, <2>3, HostAssumption, StateNames DEF HostInv, TypeOK, PlaceInv, Places,
       Services, StopStage
  <2>5. PlaceInv'
    BY <1>1, <1>2, <2>1, HostAssumption DEF HostInv, TypeOK, PlaceInv, Services, StopStage, BeforeDrain,
       Early, Starts, AfterClose
  <2>6. RanInv'
    BY <1>1, <1>2, <2>1, HostAssumption DEF HostInv, TypeOK, PlaceInv, RanInv, StopStage
  <2>7. ASSUME NEW i \in Services PROVE ServiceInv(i)'
    BY <1>1, <1>2, <1>3, <2>1, <2>2, HostAssumption DEF HostInv, TypeOK, Services, Critical, PlaceInv,
       ServiceInv, FlagsInv, StartInv, LifeInv, CleanupInv, IsLive, StillToStart, WasReady, WasDrained,
       WasAwaited, WasClosed, BeforeDrain, Early, Starts, AfterClose
  <2>8. LivesStep
    BY <2>2 DEF LivesStep, LifeStep
  <2> QED
    BY <2>4, <2>5, <2>6, <2>7, <2>8 DEF HostInv
<1>5. CASE /\ MustClose(svc[idx]) /\ NoError /\ Goto("close", idx - 1)
           /\ svc' = [svc EXCEPT ![idx] = [Transition(svc[idx], "stopped") EXCEPT !.closes = @ + 1]]
  <2>1. svc[idx].attempted /\ pc' = "close" /\ idx' = idx - 1
    BY <1>5 DEF Goto, NoError, RunError, MustClose
  <2> DEFINE s == svc[idx]
               t == [Transition(s, "stopped") EXCEPT !.closes = @ + 1]
  <2>a. idx \in Services /\ svc \in [Services -> Service]
    BY <1>1 DEF HostInv, PlaceInv, TypeOK, Services
  <2>b. svc' = [svc EXCEPT ![idx] = t]
    BY <1>5, <2>a
  <2>c. /\ t \in Service
        /\ t.attempted = s.attempted /\ t.started = s.started /\ t.run = s.run /\ t.sawDraining = s.sawDraining
        /\ t.result = s.result /\ t.unexpected = s.unexpected /\ t.drained = s.drained /\ t.closes = s.closes + 1
        /\ s.life = "failed" => t.life = "failed"
        /\ s.life # "failed" => t.life = "stopped"
    <3>1. s \in Service
      BY <2>a
    <3> HIDE DEF s
    <3> DEFINE r == Transition(s, "stopped")
    <3>2. Moved(r, s, "stopped")
      BY <3>1, TransitionMoves DEF LifeStates
    <3>3. t = [r EXCEPT !.closes = @ + 1]
      OBVIOUS
    <3> HIDE DEF r, t
    <3>4. t \in Service
      BY <3>2, <3>3 DEF Moved, Service
    <3>5. /\ t.attempted = r.attempted /\ t.started = r.started /\ t.run = r.run /\ t.sawDraining = r.sawDraining
          /\ t.result = r.result /\ t.unexpected = r.unexpected /\ t.life = r.life /\ t.drained = r.drained
          /\ t.closes = r.closes + 1
      BY <3>2, <3>3 DEF Moved, Service
    <3> QED
      BY <3>2, <3>4, <3>5 DEF Moved
  <2> HIDE DEF t
  <2>2. svc'[idx] = t /\ \A j \in Services : j # idx => svc'[j] = svc[j]
    BY <2>a, <2>b, <2>c, OneServiceChanges
  <2>3. svc' \in [Services -> Service]
    BY <2>a, <2>b, <2>c, OneServiceChanges
  <2>4. TypeOK'
    BY <1>1, <1>2, <1>3, <2>1, <2>3, HostAssumption, StateNames DEF HostInv, TypeOK, PlaceInv, Places,
       Services, StopStage
  <2>5. PlaceInv'
    BY <1>1, <1>2, <2>1, HostAssumption DEF HostInv, TypeOK, PlaceInv, Services, StopStage, BeforeDrain,
       Early, Starts, AfterClose
  <2>6. RanInv'
    BY <1>1, <1>2, <2>1, HostAssumption DEF HostInv, TypeOK, PlaceInv, RanInv, StopStage
  <2>7. ASSUME NEW i \in Services PROVE ServiceInv(i)'
    <3>1. CASE i # idx
      BY <1>1, <1>2, <1>3, <2>1, <2>2, <3>1 DEF HostInv, TypeOK, Services, Critical, PlaceInv, ServiceInv,
         FlagsInv, StartInv, LifeInv, CleanupInv, IsLive, StillToStart, WasReady, WasDrained, WasAwaited,
         WasClosed, BeforeDrain, Early, Starts, AfterClose
    <3>2. CASE i = idx
      <4>0. ~WasClosed(i) /\ WasClosed(i)' /\ WasDrained(i) /\ WasAwaited(i)
        BY <1>1, <2>1, <3>2 DEF HostInv, TypeOK, Services, WasClosed, WasDrained, WasAwaited, AfterClose
      <4>x. svc[i].closes = 0 /\ svc'[i].closes = 1
        BY <2>2, <2>c, <3>2, <4>0 DEF HostInv, ServiceInv, CleanupInv
      <4>y. /\ svc'[i].attempted = svc[i].attempted
            /\ svc'[i].started = svc[i].started
            /\ svc'[i].run = svc[i].run
            /\ svc'[i].sawDraining = svc[i].sawDraining
            /\ svc'[i].result = svc[i].result
            /\ svc'[i].unexpected = svc[i].unexpected
            /\ svc'[i].drained = svc[i].drained
            /\ svc'[i].life = t.life /\ (svc[i].life = "failed" => t.life = "failed")
            /\ t.life \in {"stopped", "failed"}
        BY <2>2, <2>c, <3>2
      <4>1. FlagsInv(i)'
        BY <1>1, <1>2, <1>3, <2>1, <3>2, <4>0, <4>y DEF HostInv, TypeOK, Services, Critical, ServiceInv,
           FlagsInv, StartInv, StillToStart, Early, Starts
      <4>2. StartInv(i)'
        BY <1>1, <1>2, <1>3, <2>1, <3>2, <4>0, <4>y DEF HostInv, TypeOK, Services, Critical, ServiceInv,
           FlagsInv, StartInv, LifeInv, IsLive, StillToStart, WasReady, PlaceInv, BeforeDrain, Early,
           Starts, AfterClose
      <4>3. LifeInv(i)'
        BY <1>1, <1>2, <1>3, <2>1, <3>2, <4>0, <4>y DEF HostInv, TypeOK, Services, Critical, ServiceInv,
           FlagsInv, StartInv, LifeInv, StillToStart, IsLive, BeforeDrain, Early, Starts, AfterClose
      <4>4. CleanupInv(i)'
        BY <1>1, <1>2, <1>3, <2>1, <3>2, <4>0, <4>y, <4>x DEF HostInv, TypeOK, Services, Critical,
           ServiceInv, FlagsInv, StartInv, StillToStart, CleanupInv, WasDrained, WasAwaited, PlaceInv,
           BeforeDrain, Early, Starts, AfterClose
      <4> QED
        BY <4>1, <4>2, <4>3, <4>4 DEF ServiceInv
    <3> QED
      BY <3>1, <3>2
  <2>8. LivesStep
    <3>1. LifeStep(s.life, t.life)
      BY <1>1, <2>1, <2>a, <2>c DEF HostInv, TypeOK, Services, ServiceInv, FlagsInv, StartInv, LifeInv,
         StillToStart, WasClosed, BeforeDrain, Early, Starts, AfterClose, LifeStep
    <3> QED
      BY <2>2, <3>1 DEF LivesStep, LifeStep
  <2> QED
    BY <2>4, <2>5, <2>6, <2>7, <2>8 DEF HostInv
<1>6. CASE /\ MustClose(svc[idx]) /\ Error /\ Goto("close", idx - 1)
           /\ svc' = [svc EXCEPT ![idx] = [Transition(svc[idx], "failed") EXCEPT !.closes = @ + 1]]
  <2>1. svc[idx].attempted /\ pc' = "close" /\ idx' = idx - 1
    BY <1>6 DEF Goto, NoError, RunError, MustClose
  <2> DEFINE s == svc[idx]
               t == [Transition(s, "failed") EXCEPT !.closes = @ + 1]
  <2>a. idx \in Services /\ svc \in [Services -> Service]
    BY <1>1 DEF HostInv, PlaceInv, TypeOK, Services
  <2>b. svc' = [svc EXCEPT ![idx] = t]
    BY <1>6, <2>a
  <2>c. /\ t \in Service
        /\ t.attempted = s.attempted /\ t.started = s.started /\ t.run = s.run /\ t.sawDraining = s.sawDraining
        /\ t.result = s.result /\ t.unexpected = s.unexpected /\ t.life = "failed" /\ t.drained = s.drained
        /\ t.closes = s.closes + 1
    <3>1. s \in Service
      BY <2>a
    <3> HIDE DEF s
    <3> DEFINE r == Transition(s, "failed")
    <3>2. Moved(r, s, "failed")
      BY <3>1, TransitionMoves DEF LifeStates
    <3>3. t = [r EXCEPT !.closes = @ + 1]
      OBVIOUS
    <3> HIDE DEF r, t
    <3>4. t \in Service
      BY <3>2, <3>3 DEF Moved, Service
    <3>5. /\ t.attempted = r.attempted /\ t.started = r.started /\ t.run = r.run /\ t.sawDraining = r.sawDraining
          /\ t.result = r.result /\ t.unexpected = r.unexpected /\ t.life = r.life /\ t.drained = r.drained
          /\ t.closes = r.closes + 1
      BY <3>2, <3>3 DEF Moved, Service
    <3> QED
      BY <3>2, <3>4, <3>5 DEF Moved
  <2> HIDE DEF t
  <2>2. svc'[idx] = t /\ \A j \in Services : j # idx => svc'[j] = svc[j]
    BY <2>a, <2>b, <2>c, OneServiceChanges
  <2>3. svc' \in [Services -> Service]
    BY <2>a, <2>b, <2>c, OneServiceChanges
  <2>4. TypeOK'
    BY <1>1, <1>2, <1>3, <2>1, <2>3, HostAssumption, StateNames DEF HostInv, TypeOK, PlaceInv, Places,
       Services, StopStage
  <2>5. PlaceInv'
    BY <1>1, <1>2, <2>1, HostAssumption DEF HostInv, TypeOK, PlaceInv, Services, StopStage, BeforeDrain,
       Early, Starts, AfterClose
  <2>6. RanInv'
    BY <1>1, <1>2, <2>1, HostAssumption DEF HostInv, TypeOK, PlaceInv, RanInv, StopStage
  <2>7. ASSUME NEW i \in Services PROVE ServiceInv(i)'
    <3>1. CASE i # idx
      BY <1>1, <1>2, <1>3, <2>1, <2>2, <3>1 DEF HostInv, TypeOK, Services, Critical, PlaceInv, ServiceInv,
         FlagsInv, StartInv, LifeInv, CleanupInv, IsLive, StillToStart, WasReady, WasDrained, WasAwaited,
         WasClosed, BeforeDrain, Early, Starts, AfterClose
    <3>2. CASE i = idx
      <4>0. ~WasClosed(i) /\ WasClosed(i)' /\ WasDrained(i) /\ WasAwaited(i)
        BY <1>1, <2>1, <3>2 DEF HostInv, TypeOK, Services, WasClosed, WasDrained, WasAwaited, AfterClose
      <4>x. svc[i].closes = 0 /\ svc'[i].closes = 1
        BY <2>2, <2>c, <3>2, <4>0 DEF HostInv, ServiceInv, CleanupInv
      <4>y. /\ svc'[i].attempted = svc[i].attempted
            /\ svc'[i].started = svc[i].started
            /\ svc'[i].run = svc[i].run
            /\ svc'[i].sawDraining = svc[i].sawDraining
            /\ svc'[i].result = svc[i].result
            /\ svc'[i].unexpected = svc[i].unexpected
            /\ svc'[i].drained = svc[i].drained
            /\ svc'[i].life = t.life /\ (svc[i].life = "failed" => t.life = "failed")
            /\ t.life \in {"stopped", "failed"}
        BY <2>2, <2>c, <3>2
      <4>1. FlagsInv(i)'
        BY <1>1, <1>2, <1>3, <2>1, <3>2, <4>0, <4>y DEF HostInv, TypeOK, Services, Critical, ServiceInv,
           FlagsInv, StartInv, StillToStart, Early, Starts
      <4>2. StartInv(i)'
        BY <1>1, <1>2, <1>3, <2>1, <3>2, <4>0, <4>y DEF HostInv, TypeOK, Services, Critical, ServiceInv,
           FlagsInv, StartInv, LifeInv, IsLive, StillToStart, WasReady, PlaceInv, BeforeDrain, Early,
           Starts, AfterClose
      <4>3. LifeInv(i)'
        BY <1>1, <1>2, <1>3, <2>1, <3>2, <4>0, <4>y DEF HostInv, TypeOK, Services, Critical, ServiceInv,
           FlagsInv, StartInv, LifeInv, StillToStart, IsLive, BeforeDrain, Early, Starts, AfterClose
      <4>4. CleanupInv(i)'
        BY <1>1, <1>2, <1>3, <2>1, <3>2, <4>0, <4>y, <4>x DEF HostInv, TypeOK, Services, Critical,
           ServiceInv, FlagsInv, StartInv, StillToStart, CleanupInv, WasDrained, WasAwaited, PlaceInv,
           BeforeDrain, Early, Starts, AfterClose
      <4> QED
        BY <4>1, <4>2, <4>3, <4>4 DEF ServiceInv
    <3> QED
      BY <3>1, <3>2
  <2>8. LivesStep
    <3>1. LifeStep(s.life, t.life)
      BY <1>1, <2>1, <2>a, <2>c DEF HostInv, TypeOK, Services, ServiceInv, FlagsInv, StartInv, LifeInv,
         StillToStart, WasClosed, BeforeDrain, Early, Starts, AfterClose, LifeStep
    <3> QED
      BY <2>2, <3>1 DEF LivesStep, LifeStep
  <2> QED
    BY <2>4, <2>5, <2>6, <2>7, <2>8 DEF HostInv
<1> QED
  BY <1>4, <1>5, <1>6 DEF Close

LEMMA PrepareKeeps ==
  ASSUME HostInv, Prepare, app' = app
  PROVE  HostInv' /\ LivesStep
<1>1. pc = "prepare"
  BY DEF Prepare
<1>2. UNCHANGED <<caller, cancelled, requested, otherErr, budget, ready, readyCh, draining, svcCtxDone, serviceErr, svc, maxStage, server, ran>>
  BY DEF Prepare, env, flags, errors
<1>3. hasErr' \in BOOLEAN /\ reported' \subseteq Services /\ reported \subseteq reported'
  <2>1. NoError \/ Error \/ \E k \in Services : RunError(k)
    BY DEF Prepare, HostInv, PlaceInv, TypeOK, TakeServiceErr, Services
  <2> QED
    BY <2>1, ErrorsKeepType DEF HostInv, TypeOK
<1>4. CASE state < 6 /\ state' = state + 1 /\ UNCHANGED <<pc, idx>>
  <2>1. pc' = pc /\ idx' = idx /\ state < 6 /\ state' = state + 1
    BY <1>4, <1>2 DEF Goto, NoError, RunError
  <2>2. svc' = svc
    BY <1>2, <1>4
  <2>3. svc' \in [Services -> Service]
    BY <2>2 DEF HostInv, TypeOK
  <2>4. TypeOK'
    BY <1>1, <1>2, <1>3, <2>1, <2>3, HostAssumption, StateNames DEF HostInv, TypeOK, PlaceInv, Places,
       Services, StopStage
  <2>5. PlaceInv'
    BY <1>1, <1>2, <2>1, HostAssumption DEF HostInv, TypeOK, PlaceInv, Services, StopStage, BeforeDrain,
       Early, Starts, AfterClose
  <2>6. RanInv'
    BY <1>1, <1>2, <2>1, HostAssumption DEF HostInv, TypeOK, PlaceInv, RanInv, StopStage
  <2>7. ASSUME NEW i \in Services PROVE ServiceInv(i)'
    BY <1>1, <1>2, <1>3, <2>1, <2>2, HostAssumption DEF HostInv, TypeOK, Services, Critical, PlaceInv,
       ServiceInv, FlagsInv, StartInv, LifeInv, CleanupInv, IsLive, StillToStart, WasReady, WasDrained,
       WasAwaited, WasClosed, BeforeDrain, Early, Starts, AfterClose
  <2>8. LivesStep
    BY <2>2 DEF LivesStep, LifeStep
  <2> QED
    BY <2>4, <2>5, <2>6, <2>7, <2>8 DEF HostInv
<1>5. CASE Goto("hooks", 1) /\ UNCHANGED state
  <2>1. pc' = "hooks" /\ idx' = 1 /\ state' = state
    BY <1>5 DEF Goto, NoError, RunError
  <2>2. svc' = svc
    BY <1>2, <1>5
  <2>3. svc' \in [Services -> Service]
    BY <2>2 DEF HostInv, TypeOK
  <2>4. TypeOK'
    BY <1>1, <1>2, <1>3, <2>1, <2>3, HostAssumption, StateNames DEF HostInv, TypeOK, PlaceInv, Places,
       Services, StopStage
  <2>5. PlaceInv'
    BY <1>1, <1>2, <2>1, HostAssumption DEF HostInv, TypeOK, PlaceInv, Services, StopStage, BeforeDrain,
       Early, Starts, AfterClose
  <2>6. RanInv'
    BY <1>1, <1>2, <2>1, HostAssumption DEF HostInv, TypeOK, PlaceInv, RanInv, StopStage
  <2>7. ASSUME NEW i \in Services PROVE ServiceInv(i)'
    BY <1>1, <1>2, <1>3, <2>1, <2>2, HostAssumption DEF HostInv, TypeOK, Services, Critical, PlaceInv,
       ServiceInv, FlagsInv, StartInv, LifeInv, CleanupInv, IsLive, StillToStart, WasReady, WasDrained,
       WasAwaited, WasClosed, BeforeDrain, Early, Starts, AfterClose
  <2>8. LivesStep
    BY <2>2 DEF LivesStep, LifeStep
  <2> QED
    BY <2>4, <2>5, <2>6, <2>7, <2>8 DEF HostInv
<1>6. CASE Goto("exit", 0) /\ UNCHANGED state
  <2>1. pc' = "exit" /\ idx' = 0 /\ state' = state
    BY <1>6 DEF Goto, NoError, RunError
  <2>2. svc' = svc
    BY <1>2, <1>6
  <2>3. svc' \in [Services -> Service]
    BY <2>2 DEF HostInv, TypeOK
  <2>4. TypeOK'
    BY <1>1, <1>2, <1>3, <2>1, <2>3, HostAssumption, StateNames DEF HostInv, TypeOK, PlaceInv, Places,
       Services, StopStage
  <2>5. PlaceInv'
    BY <1>1, <1>2, <2>1, HostAssumption DEF HostInv, TypeOK, PlaceInv, Services, StopStage, BeforeDrain,
       Early, Starts, AfterClose
  <2>6. RanInv'
    BY <1>1, <1>2, <2>1, HostAssumption DEF HostInv, TypeOK, PlaceInv, RanInv, StopStage
  <2>7. ASSUME NEW i \in Services PROVE ServiceInv(i)'
    BY <1>1, <1>2, <1>3, <2>1, <2>2, HostAssumption DEF HostInv, TypeOK, Services, Critical, PlaceInv,
       ServiceInv, FlagsInv, StartInv, LifeInv, CleanupInv, IsLive, StillToStart, WasReady, WasDrained,
       WasAwaited, WasClosed, BeforeDrain, Early, Starts, AfterClose
  <2>8. LivesStep
    BY <2>2 DEF LivesStep, LifeStep
  <2> QED
    BY <2>4, <2>5, <2>6, <2>7, <2>8 DEF HostInv
<1> QED
  BY <1>4, <1>5, <1>6 DEF Prepare

LEMMA StartHookKeeps ==
  ASSUME HostInv, StartHook, app' = app
  PROVE  HostInv' /\ LivesStep
<1>1. pc = "hooks" /\ idx <= Len(HookStage) /\ HookStage[idx] \in Nat
  BY HostAssumption DEF StartHook, HostInv, TypeOK, HookStage
<1>2. UNCHANGED <<caller, cancelled, requested, otherErr, budget, state, ready, readyCh, draining, svcCtxDone, serviceErr, svc, ran>>
  BY DEF StartHook, env, flags, errors
<1>3. hasErr' \in BOOLEAN /\ reported' \subseteq Services /\ reported \subseteq reported'
  <2>1. NoError \/ Error \/ \E k \in Services : RunError(k)
    BY DEF StartHook, HostInv, PlaceInv, TypeOK, TakeServiceErr, Services
  <2> QED
    BY <2>1, ErrorsKeepType DEF HostInv, TypeOK
<1>4. CASE Goto("startFailed", 0) /\ UNCHANGED <<maxStage, server>>
  <2>1. pc' = "startFailed" /\ idx' = 0 /\ maxStage' = maxStage /\ server' = server
    BY <1>4 DEF Goto, NoError, RunError
  <2>2. svc' = svc
    BY <1>2, <1>4
  <2>3. svc' \in [Services -> Service]
    BY <2>2 DEF HostInv, TypeOK
  <2>4. TypeOK'
    BY <1>1, <1>2, <1>3, <2>1, <2>3, HostAssumption, StateNames DEF HostInv, TypeOK, PlaceInv, Places,
       Services, StopStage
  <2>5. PlaceInv'
    BY <1>1, <1>2, <2>1, HostAssumption DEF HostInv, TypeOK, PlaceInv, Services, StopStage, BeforeDrain,
       Early, Starts, AfterClose
  <2>6. RanInv'
    BY <1>1, <1>2, <2>1, HostAssumption DEF HostInv, TypeOK, PlaceInv, RanInv, StopStage
  <2>7. ASSUME NEW i \in Services PROVE ServiceInv(i)'
    BY <1>1, <1>2, <1>3, <2>1, <2>2, HostAssumption DEF HostInv, TypeOK, Services, Critical, PlaceInv,
       ServiceInv, FlagsInv, StartInv, LifeInv, CleanupInv, IsLive, StillToStart, WasReady, WasDrained,
       WasAwaited, WasClosed, BeforeDrain, Early, Starts, AfterClose
  <2>8. LivesStep
    BY <2>2 DEF LivesStep, LifeStep
  <2> QED
    BY <2>4, <2>5, <2>6, <2>7, <2>8 DEF HostInv
<1>5. CASE Goto("hooks", idx + 1) /\ maxStage' = HookStage[idx] /\ (server' = server \/ server' = "serving")
  <2>1. pc' = "hooks" /\ idx' = idx + 1 /\ maxStage' = HookStage[idx] /\ (server' = server \/ server' = "serving")
    BY <1>5 DEF Goto, NoError, RunError
  <2>2. svc' = svc
    BY <1>2, <1>5
  <2>3. svc' \in [Services -> Service]
    BY <2>2 DEF HostInv, TypeOK
  <2>4. TypeOK'
    BY <1>1, <1>2, <1>3, <2>1, <2>3, HostAssumption, StateNames DEF HostInv, TypeOK, PlaceInv, Places,
       Services, StopStage
  <2>5. PlaceInv'
    BY <1>1, <1>2, <2>1, HostAssumption DEF HostInv, TypeOK, PlaceInv, Services, StopStage, BeforeDrain,
       Early, Starts, AfterClose
  <2>6. RanInv'
    BY <1>1, <1>2, <2>1, HostAssumption DEF HostInv, TypeOK, PlaceInv, RanInv, StopStage
  <2>7. ASSUME NEW i \in Services PROVE ServiceInv(i)'
    BY <1>1, <1>2, <1>3, <2>1, <2>2, HostAssumption DEF HostInv, TypeOK, Services, Critical, PlaceInv,
       ServiceInv, FlagsInv, StartInv, LifeInv, CleanupInv, IsLive, StillToStart, WasReady, WasDrained,
       WasAwaited, WasClosed, BeforeDrain, Early, Starts, AfterClose
  <2>8. LivesStep
    BY <2>2 DEF LivesStep, LifeStep
  <2> QED
    BY <2>4, <2>5, <2>6, <2>7, <2>8 DEF HostInv
<1>6. CASE Goto("startFailed", 0) /\ maxStage' = HookStage[idx] /\ server' = server
  <2>1. pc' = "startFailed" /\ idx' = 0 /\ maxStage' = HookStage[idx] /\ server' = server
    BY <1>6 DEF Goto, NoError, RunError
  <2>2. svc' = svc
    BY <1>2, <1>6
  <2>3. svc' \in [Services -> Service]
    BY <2>2 DEF HostInv, TypeOK
  <2>4. TypeOK'
    BY <1>1, <1>2, <1>3, <2>1, <2>3, HostAssumption, StateNames DEF HostInv, TypeOK, PlaceInv, Places,
       Services, StopStage
  <2>5. PlaceInv'
    BY <1>1, <1>2, <2>1, HostAssumption DEF HostInv, TypeOK, PlaceInv, Services, StopStage, BeforeDrain,
       Early, Starts, AfterClose
  <2>6. RanInv'
    BY <1>1, <1>2, <2>1, HostAssumption DEF HostInv, TypeOK, PlaceInv, RanInv, StopStage
  <2>7. ASSUME NEW i \in Services PROVE ServiceInv(i)'
    BY <1>1, <1>2, <1>3, <2>1, <2>2, HostAssumption DEF HostInv, TypeOK, Services, Critical, PlaceInv,
       ServiceInv, FlagsInv, StartInv, LifeInv, CleanupInv, IsLive, StillToStart, WasReady, WasDrained,
       WasAwaited, WasClosed, BeforeDrain, Early, Starts, AfterClose
  <2>8. LivesStep
    BY <2>2 DEF LivesStep, LifeStep
  <2> QED
    BY <2>4, <2>5, <2>6, <2>7, <2>8 DEF HostInv
<1> QED
  BY <1>4, <1>5, <1>6 DEF StartHook

LEMMA HooksDoneKeeps ==
  ASSUME HostInv, HooksDone, app' = app
  PROVE  HostInv' /\ LivesStep
<1>1. pc = "hooks"
  BY DEF HooksDone
<1>2. UNCHANGED <<caller, cancelled, requested, otherErr, budget, state, ready, readyCh, draining, svcCtxDone, serviceErr, svc, maxStage, server, ran, hasErr, reported>>
  BY DEF HooksDone, env, flags, errors
<1>3. hasErr' \in BOOLEAN /\ reported' \subseteq Services /\ reported \subseteq reported'
  BY <1>2 DEF HostInv, TypeOK
<1>4. CASE Goto("services", 1)
  <2>1. pc' = "services" /\ idx' = 1
    BY <1>4 DEF Goto, NoError, RunError
  <2>2. svc' = svc
    BY <1>2, <1>4
  <2>3. svc' \in [Services -> Service]
    BY <2>2 DEF HostInv, TypeOK
  <2>4. TypeOK'
    BY <1>1, <1>2, <1>3, <2>1, <2>3, HostAssumption, StateNames DEF HostInv, TypeOK, PlaceInv, Places,
       Services, StopStage
  <2>5. PlaceInv'
    BY <1>1, <1>2, <2>1, HostAssumption DEF HostInv, TypeOK, PlaceInv, Services, StopStage, BeforeDrain,
       Early, Starts, AfterClose
  <2>6. RanInv'
    BY <1>1, <1>2, <2>1, HostAssumption DEF HostInv, TypeOK, PlaceInv, RanInv, StopStage
  <2>7. ASSUME NEW i \in Services PROVE ServiceInv(i)'
    BY <1>1, <1>2, <1>3, <2>1, <2>2, HostAssumption DEF HostInv, TypeOK, Services, Critical, PlaceInv,
       ServiceInv, FlagsInv, StartInv, LifeInv, CleanupInv, IsLive, StillToStart, WasReady, WasDrained,
       WasAwaited, WasClosed, BeforeDrain, Early, Starts, AfterClose
  <2>8. LivesStep
    BY <2>2 DEF LivesStep, LifeStep
  <2> QED
    BY <2>4, <2>5, <2>6, <2>7, <2>8 DEF HostInv
<1> QED
  BY <1>4 DEF HooksDone

LEMMA BecomeReadyKeeps ==
  ASSUME HostInv, BecomeReady, app' = app
  PROVE  HostInv' /\ LivesStep
<1>1. pc = "services" /\ idx > NumServices
  BY DEF BecomeReady
<1>2. UNCHANGED <<cancelled, requested, otherErr, budget, draining, svcCtxDone, svc, maxStage, server, ran>>
  BY DEF BecomeReady, env, flags, errors
<1>3. hasErr' \in BOOLEAN /\ reported' \subseteq Services /\ reported \subseteq reported'
  <2>1. NoError \/ Error \/ \E k \in Services : RunError(k)
    BY DEF BecomeReady, HostInv, PlaceInv, TypeOK, TakeServiceErr, Services
  <2> QED
    BY <2>1, ErrorsKeepType DEF HostInv, TypeOK
<1>4. CASE TakeServiceErr /\ UNCHANGED <<caller, state, ready, readyCh>>
  <2>1. pc' = "startFailed" /\ idx' = 0 /\ serviceErr' = 0 /\ UNCHANGED <<caller, state, ready, readyCh>>
    BY <1>4 DEF Goto, NoError, RunError, TakeServiceErr
  <2>2. svc' = svc
    BY <1>2, <1>4
  <2>3. svc' \in [Services -> Service]
    BY <2>2 DEF HostInv, TypeOK
  <2>4. TypeOK'
    BY <1>1, <1>2, <1>3, <2>1, <2>3, HostAssumption, StateNames DEF HostInv, TypeOK, PlaceInv, Places,
       Services, StopStage
  <2>5. PlaceInv'
    BY <1>1, <1>2, <2>1, HostAssumption DEF HostInv, TypeOK, PlaceInv, Services, StopStage, BeforeDrain,
       Early, Starts, AfterClose
  <2>6. RanInv'
    BY <1>1, <1>2, <2>1, HostAssumption DEF HostInv, TypeOK, PlaceInv, RanInv, StopStage
  <2>7. ASSUME NEW i \in Services PROVE ServiceInv(i)'
    BY <1>1, <1>2, <1>3, <2>1, <2>2, HostAssumption DEF HostInv, TypeOK, Services, Critical, PlaceInv,
       ServiceInv, FlagsInv, StartInv, LifeInv, CleanupInv, IsLive, StillToStart, WasReady, WasDrained,
       WasAwaited, WasClosed, BeforeDrain, Early, Starts, AfterClose
  <2>8. LivesStep
    BY <2>2 DEF LivesStep, LifeStep
  <2> QED
    BY <2>4, <2>5, <2>6, <2>7, <2>8 DEF HostInv
<1>5. CASE /\ serviceErr = 0 /\ UNCHANGED serviceErr /\ NoError /\ Goto("serving", 0)
           /\ ready' = TRUE /\ state' = 7 /\ readyCh' = TRUE /\ Wake("handle")
  <2>1. pc' = "serving" /\ idx' = 0 /\ serviceErr' = 0
        /\ ready' = TRUE /\ state' = 7 /\ readyCh' = TRUE /\ caller' \in {caller, "handle"}
    BY <1>5 DEF Goto, NoError, RunError, Wake
  <2>2. svc' = svc
    BY <1>2, <1>5
  <2>3. svc' \in [Services -> Service]
    BY <2>2 DEF HostInv, TypeOK
  <2>4. TypeOK'
    BY <1>1, <1>2, <1>3, <2>1, <2>3, HostAssumption, StateNames DEF HostInv, TypeOK, PlaceInv, Places,
       Services, StopStage
  <2>5. PlaceInv'
    BY <1>1, <1>2, <2>1, HostAssumption DEF HostInv, TypeOK, PlaceInv, Services, StopStage, BeforeDrain,
       Early, Starts, AfterClose
  <2>6. RanInv'
    BY <1>1, <1>2, <2>1, HostAssumption DEF HostInv, TypeOK, PlaceInv, RanInv, StopStage
  <2>7. ASSUME NEW i \in Services PROVE ServiceInv(i)'
    BY <1>1, <1>2, <1>3, <2>1, <2>2, HostAssumption DEF HostInv, TypeOK, Services, Critical, PlaceInv,
       ServiceInv, FlagsInv, StartInv, LifeInv, CleanupInv, IsLive, StillToStart, WasReady, WasDrained,
       WasAwaited, WasClosed, BeforeDrain, Early, Starts, AfterClose
  <2>8. LivesStep
    BY <2>2 DEF LivesStep, LifeStep
  <2> QED
    BY <2>4, <2>5, <2>6, <2>7, <2>8 DEF HostInv
<1> QED
  BY <1>4, <1>5 DEF BecomeReady

LEMMA StartFailedKeeps ==
  ASSUME HostInv, StartFailed, app' = app
  PROVE  HostInv' /\ LivesStep
<1>1. pc = "startFailed"
  BY DEF StartFailed
<1>2. UNCHANGED <<caller, cancelled, requested, otherErr, budget, ready, readyCh, svcCtxDone, serviceErr, svc, maxStage, server, ran, hasErr, reported>>
  BY DEF StartFailed, env, flags, errors
<1>3. hasErr' \in BOOLEAN /\ reported' \subseteq Services /\ reported \subseteq reported'
  BY <1>2 DEF HostInv, TypeOK
<1>4. CASE Goto("shutdown", 0) /\ draining' = TRUE /\ state' = 9
  <2>1. pc' = "shutdown" /\ idx' = 0 /\ draining' = TRUE /\ state' = 9
    BY <1>4 DEF Goto, NoError, RunError
  <2>2. svc' = svc
    BY <1>2, <1>4
  <2>3. svc' \in [Services -> Service]
    BY <2>2 DEF HostInv, TypeOK
  <2>4. TypeOK'
    BY <1>1, <1>2, <1>3, <2>1, <2>3, HostAssumption, StateNames DEF HostInv, TypeOK, PlaceInv, Places,
       Services, StopStage
  <2>5. PlaceInv'
    BY <1>1, <1>2, <2>1, HostAssumption DEF HostInv, TypeOK, PlaceInv, Services, StopStage, BeforeDrain,
       Early, Starts, AfterClose
  <2>6. RanInv'
    BY <1>1, <1>2, <2>1, HostAssumption DEF HostInv, TypeOK, PlaceInv, RanInv, StopStage
  <2>7. ASSUME NEW i \in Services PROVE ServiceInv(i)'
    BY <1>1, <1>2, <1>3, <2>1, <2>2, HostAssumption DEF HostInv, TypeOK, Services, Critical, PlaceInv,
       ServiceInv, FlagsInv, StartInv, LifeInv, CleanupInv, IsLive, StillToStart, WasReady, WasDrained,
       WasAwaited, WasClosed, BeforeDrain, Early, Starts, AfterClose
  <2>8. LivesStep
    BY <2>2 DEF LivesStep, LifeStep
  <2> QED
    BY <2>4, <2>5, <2>6, <2>7, <2>8 DEF HostInv
<1> QED
  BY <1>4 DEF StartFailed

LEMMA TriggerKeeps ==
  ASSUME HostInv, Trigger, app' = app
  PROVE  HostInv' /\ LivesStep
<1>1. pc = "serving"
  BY DEF Trigger
<1>2. UNCHANGED <<caller, cancelled, requested, budget, ready, readyCh, svcCtxDone, svc, maxStage, server, ran>>
  BY DEF Trigger, env, flags, errors
<1>3. hasErr' \in BOOLEAN /\ reported' \subseteq Services /\ reported \subseteq reported'
  <2>1. NoError \/ Error \/ \E k \in Services : RunError(k)
    BY DEF Trigger, HostInv, PlaceInv, TypeOK, TakeServiceErr, Services
  <2> QED
    BY <2>1, ErrorsKeepType DEF HostInv, TypeOK
<1>t. otherErr' \in BOOLEAN /\ serviceErr' \in Services \cup {0}
  <2>1. otherErr \in BOOLEAN /\ serviceErr \in Services \cup {0}
    BY DEF HostInv, TypeOK
  <2>2. (otherErr' = otherErr \/ otherErr' = FALSE) /\ (serviceErr' = serviceErr \/ serviceErr' = 0)
    BY DEF Trigger
  <2> QED
    BY <2>1, <2>2
<1>4. CASE Goto("shutdown", 0) /\ draining' = TRUE /\ state' = 8
  <2>1. pc' = "shutdown" /\ idx' = 0 /\ draining' = TRUE /\ state' = 8
    BY <1>4 DEF Goto, NoError, RunError
  <2>2. svc' = svc
    BY <1>2, <1>4
  <2>3. svc' \in [Services -> Service]
    BY <2>2 DEF HostInv, TypeOK
  <2>4. TypeOK'
    BY <1>1, <1>2, <1>3, <1>t, <2>1, <2>3, HostAssumption, StateNames DEF HostInv, TypeOK, PlaceInv, Places,
       Services, StopStage
  <2>5. PlaceInv'
    BY <1>1, <1>2, <2>1, HostAssumption DEF HostInv, TypeOK, PlaceInv, Services, StopStage, BeforeDrain,
       Early, Starts, AfterClose
  <2>6. RanInv'
    BY <1>1, <1>2, <2>1, HostAssumption DEF HostInv, TypeOK, PlaceInv, RanInv, StopStage
  <2>7. ASSUME NEW i \in Services PROVE ServiceInv(i)'
    BY <1>1, <1>2, <1>3, <2>1, <2>2, HostAssumption DEF HostInv, TypeOK, Services, Critical, PlaceInv,
       ServiceInv, FlagsInv, StartInv, LifeInv, CleanupInv, IsLive, StillToStart, WasReady, WasDrained,
       WasAwaited, WasClosed, BeforeDrain, Early, Starts, AfterClose
  <2>8. LivesStep
    BY <2>2 DEF LivesStep, LifeStep
  <2> QED
    BY <2>4, <2>5, <2>6, <2>7, <2>8 DEF HostInv
<1> QED
  BY <1>4 DEF Trigger

LEMMA BeginShutdownKeeps ==
  ASSUME HostInv, BeginShutdown, app' = app
  PROVE  HostInv' /\ LivesStep
<1>1. pc = "shutdown"
  BY DEF BeginShutdown
<1>2. UNCHANGED <<caller, requested, otherErr, budget, state, readyCh, draining, svcCtxDone, serviceErr, svc, maxStage, server, ran, hasErr, reported>>
  BY DEF BeginShutdown, env, flags, errors
<1>3. hasErr' \in BOOLEAN /\ reported' \subseteq Services /\ reported \subseteq reported'
  BY <1>2 DEF HostInv, TypeOK
<1>4. CASE Goto("delay", 0) /\ ready' = FALSE /\ cancelled' = TRUE
  <2>1. pc' = "delay" /\ idx' = 0 /\ ready' = FALSE /\ cancelled' = TRUE
    BY <1>4 DEF Goto, NoError, RunError
  <2>2. svc' = svc
    BY <1>2, <1>4
  <2>3. svc' \in [Services -> Service]
    BY <2>2 DEF HostInv, TypeOK
  <2>4. TypeOK'
    BY <1>1, <1>2, <1>3, <2>1, <2>3, HostAssumption, StateNames DEF HostInv, TypeOK, PlaceInv, Places,
       Services, StopStage
  <2>5. PlaceInv'
    BY <1>1, <1>2, <2>1, HostAssumption DEF HostInv, TypeOK, PlaceInv, Services, StopStage, BeforeDrain,
       Early, Starts, AfterClose
  <2>6. RanInv'
    BY <1>1, <1>2, <2>1, HostAssumption DEF HostInv, TypeOK, PlaceInv, RanInv, StopStage
  <2>7. ASSUME NEW i \in Services PROVE ServiceInv(i)'
    BY <1>1, <1>2, <1>3, <2>1, <2>2, HostAssumption DEF HostInv, TypeOK, Services, Critical, PlaceInv,
       ServiceInv, FlagsInv, StartInv, LifeInv, CleanupInv, IsLive, StillToStart, WasReady, WasDrained,
       WasAwaited, WasClosed, BeforeDrain, Early, Starts, AfterClose
  <2>8. LivesStep
    BY <2>2 DEF LivesStep, LifeStep
  <2> QED
    BY <2>4, <2>5, <2>6, <2>7, <2>8 DEF HostInv
<1> QED
  BY <1>4 DEF BeginShutdown

LEMMA ShutServerKeeps ==
  ASSUME HostInv, ShutServer, app' = app
  PROVE  HostInv' /\ LivesStep
<1>1. pc = "delay"
  BY DEF ShutServer
<1>2. UNCHANGED <<caller, cancelled, requested, otherErr, budget, ready, readyCh, draining, svcCtxDone, serviceErr, state, svc, maxStage, ran, hasErr, reported>>
  BY DEF ShutServer, env, flags, errors
<1>3. hasErr' \in BOOLEAN /\ reported' \subseteq Services /\ reported \subseteq reported'
  BY <1>2 DEF HostInv, TypeOK
<1>4. CASE Goto("drain", NumServices) /\ server' \in {server, "shutting"}
  <2>1. pc' = "drain" /\ idx' = NumServices /\ server' \in {server, "shutting"}
    BY <1>4 DEF Goto, NoError, RunError
  <2>2. svc' = svc
    BY <1>2, <1>4
  <2>3. svc' \in [Services -> Service]
    BY <2>2 DEF HostInv, TypeOK
  <2>4. TypeOK'
    BY <1>1, <1>2, <1>3, <2>1, <2>3, HostAssumption, StateNames DEF HostInv, TypeOK, PlaceInv, Places,
       Services, StopStage
  <2>5. PlaceInv'
    BY <1>1, <1>2, <2>1, HostAssumption DEF HostInv, TypeOK, PlaceInv, Services, StopStage, BeforeDrain,
       Early, Starts, AfterClose
  <2>6. RanInv'
    BY <1>1, <1>2, <2>1, HostAssumption DEF HostInv, TypeOK, PlaceInv, RanInv, StopStage
  <2>7. ASSUME NEW i \in Services PROVE ServiceInv(i)'
    BY <1>1, <1>2, <1>3, <2>1, <2>2, HostAssumption DEF HostInv, TypeOK, Services, Critical, PlaceInv,
       ServiceInv, FlagsInv, StartInv, LifeInv, CleanupInv, IsLive, StillToStart, WasReady, WasDrained,
       WasAwaited, WasClosed, BeforeDrain, Early, Starts, AfterClose
  <2>8. LivesStep
    BY <2>2 DEF LivesStep, LifeStep
  <2> QED
    BY <2>4, <2>5, <2>6, <2>7, <2>8 DEF HostInv
<1> QED
  BY <1>4 DEF ShutServer

LEMMA WaitsDoneKeeps ==
  ASSUME HostInv, WaitsDone, app' = app
  PROVE  HostInv' /\ LivesStep
<1>1. pc = "wait" /\ idx = 0
  BY DEF WaitsDone
<1>2. UNCHANGED <<caller, cancelled, requested, otherErr, budget, state, ready, readyCh, draining, svcCtxDone, serviceErr, svc, maxStage, server, ran, hasErr, reported>>
  BY DEF WaitsDone, env, flags, errors
<1>3. hasErr' \in BOOLEAN /\ reported' \subseteq Services /\ reported \subseteq reported'
  BY <1>2 DEF HostInv, TypeOK
<1>4. CASE Goto("close", NumServices)
  <2>1. pc' = "close" /\ idx' = NumServices
    BY <1>4 DEF Goto, NoError, RunError
  <2>2. svc' = svc
    BY <1>2, <1>4
  <2>3. svc' \in [Services -> Service]
    BY <2>2 DEF HostInv, TypeOK
  <2>4. TypeOK'
    BY <1>1, <1>2, <1>3, <2>1, <2>3, HostAssumption, StateNames DEF HostInv, TypeOK, PlaceInv, Places,
       Services, StopStage
  <2>5. PlaceInv'
    BY <1>1, <1>2, <2>1, HostAssumption DEF HostInv, TypeOK, PlaceInv, Services, StopStage, BeforeDrain,
       Early, Starts, AfterClose
  <2>6. RanInv'
    BY <1>1, <1>2, <2>1, HostAssumption DEF HostInv, TypeOK, PlaceInv, RanInv, StopStage
  <2>7. ASSUME NEW i \in Services PROVE ServiceInv(i)'
    BY <1>1, <1>2, <1>3, <2>1, <2>2, HostAssumption DEF HostInv, TypeOK, Services, Critical, PlaceInv,
       ServiceInv, FlagsInv, StartInv, LifeInv, CleanupInv, IsLive, StillToStart, WasReady, WasDrained,
       WasAwaited, WasClosed, BeforeDrain, Early, Starts, AfterClose
  <2>8. LivesStep
    BY <2>2 DEF LivesStep, LifeStep
  <2> QED
    BY <2>4, <2>5, <2>6, <2>7, <2>8 DEF HostInv
<1> QED
  BY <1>4 DEF WaitsDone

LEMMA ClosesDoneKeeps ==
  ASSUME HostInv, ClosesDone, app' = app
  PROVE  HostInv' /\ LivesStep
<1>1. pc = "close" /\ idx = 0
  BY DEF ClosesDone
<1>2. UNCHANGED <<caller, cancelled, requested, otherErr, budget, state, ready, readyCh, draining, svcCtxDone, serviceErr, svc, maxStage, server, ran, hasErr, reported>>
  BY DEF ClosesDone, env, flags, errors
<1>3. hasErr' \in BOOLEAN /\ reported' \subseteq Services /\ reported \subseteq reported'
  BY <1>2 DEF HostInv, TypeOK
<1>4. CASE Goto("server", 0)
  <2>1. pc' = "server" /\ idx' = 0
    BY <1>4 DEF Goto, NoError, RunError
  <2>2. svc' = svc
    BY <1>2, <1>4
  <2>3. svc' \in [Services -> Service]
    BY <2>2 DEF HostInv, TypeOK
  <2>4. TypeOK'
    BY <1>1, <1>2, <1>3, <2>1, <2>3, HostAssumption, StateNames DEF HostInv, TypeOK, PlaceInv, Places,
       Services, StopStage
  <2>5. PlaceInv'
    BY <1>1, <1>2, <2>1, HostAssumption DEF HostInv, TypeOK, PlaceInv, Services, StopStage, BeforeDrain,
       Early, Starts, AfterClose
  <2>6. RanInv'
    BY <1>1, <1>2, <2>1, HostAssumption DEF HostInv, TypeOK, PlaceInv, RanInv, StopStage
  <2>7. ASSUME NEW i \in Services PROVE ServiceInv(i)'
    BY <1>1, <1>2, <1>3, <2>1, <2>2, HostAssumption DEF HostInv, TypeOK, Services, Critical, PlaceInv,
       ServiceInv, FlagsInv, StartInv, LifeInv, CleanupInv, IsLive, StillToStart, WasReady, WasDrained,
       WasAwaited, WasClosed, BeforeDrain, Early, Starts, AfterClose
  <2>8. LivesStep
    BY <2>2 DEF LivesStep, LifeStep
  <2> QED
    BY <2>4, <2>5, <2>6, <2>7, <2>8 DEF HostInv
<1> QED
  BY <1>4 DEF ClosesDone

LEMMA AwaitServerKeeps ==
  ASSUME HostInv, AwaitServer, app' = app
  PROVE  HostInv' /\ LivesStep
<1>1. pc = "server"
  BY DEF AwaitServer
<1>2. UNCHANGED <<caller, cancelled, requested, otherErr, budget, state, ready, readyCh, draining, svcCtxDone, serviceErr, svc, maxStage, ran>>
  BY DEF AwaitServer, env, flags, errors
<1>3. hasErr' \in BOOLEAN /\ reported' \subseteq Services /\ reported \subseteq reported'
  <2>1. NoError \/ Error \/ \E k \in Services : RunError(k)
    BY DEF AwaitServer, HostInv, PlaceInv, TypeOK, TakeServiceErr, Services
  <2> QED
    BY <2>1, ErrorsKeepType DEF HostInv, TypeOK
<1>4. CASE Goto("stops", 1) /\ server' \in {server, "closed"}
  <2>1. pc' = "stops" /\ idx' = 1 /\ server' \in {server, "closed"}
    BY <1>4 DEF Goto, NoError, RunError
  <2>2. svc' = svc
    BY <1>2, <1>4
  <2>3. svc' \in [Services -> Service]
    BY <2>2 DEF HostInv, TypeOK
  <2>4. TypeOK'
    BY <1>1, <1>2, <1>3, <2>1, <2>3, HostAssumption, StateNames DEF HostInv, TypeOK, PlaceInv, Places,
       Services, StopStage
  <2>5. PlaceInv'
    BY <1>1, <1>2, <2>1, HostAssumption DEF HostInv, TypeOK, PlaceInv, Services, StopStage, BeforeDrain,
       Early, Starts, AfterClose
  <2>6. RanInv'
    BY <1>1, <1>2, <2>1, HostAssumption DEF HostInv, TypeOK, PlaceInv, RanInv, StopStage
  <2>7. ASSUME NEW i \in Services PROVE ServiceInv(i)'
    BY <1>1, <1>2, <1>3, <2>1, <2>2, HostAssumption DEF HostInv, TypeOK, Services, Critical, PlaceInv,
       ServiceInv, FlagsInv, StartInv, LifeInv, CleanupInv, IsLive, StillToStart, WasReady, WasDrained,
       WasAwaited, WasClosed, BeforeDrain, Early, Starts, AfterClose
  <2>8. LivesStep
    BY <2>2 DEF LivesStep, LifeStep
  <2> QED
    BY <2>4, <2>5, <2>6, <2>7, <2>8 DEF HostInv
<1> QED
  BY <1>4 DEF AwaitServer

LEMMA StopHookKeeps ==
  ASSUME HostInv, StopHook, app' = app
  PROVE  HostInv' /\ LivesStep
<1>1. pc = "stops" /\ idx <= Len(StopStage)
  BY DEF StopHook
<1>2. UNCHANGED <<caller, cancelled, requested, otherErr, budget, state, ready, readyCh, draining, svcCtxDone, serviceErr, svc, maxStage, server>>
  BY DEF StopHook, env, flags, errors
<1>3. hasErr' \in BOOLEAN /\ reported' \subseteq Services /\ reported \subseteq reported'
  <2>1. NoError \/ Error \/ \E k \in Services : RunError(k)
    BY DEF StopHook, HostInv, PlaceInv, TypeOK, TakeServiceErr, Services
  <2> QED
    BY <2>1, ErrorsKeepType DEF HostInv, TypeOK
<1>4. CASE StopStage[idx] > maxStage /\ ran' = ran /\ Goto("stops", idx + 1)
  <2>1. pc' = "stops" /\ idx' = idx + 1 /\ StopStage[idx] > maxStage /\ ran' = ran
    BY <1>4 DEF Goto, NoError, RunError
  <2>2. svc' = svc
    BY <1>2, <1>4
  <2>3. svc' \in [Services -> Service]
    BY <2>2 DEF HostInv, TypeOK
  <2>4. TypeOK'
    BY <1>1, <1>2, <1>3, <2>1, <2>3, HostAssumption, StateNames DEF HostInv, TypeOK, PlaceInv, Places,
       Services, StopStage
  <2>5. PlaceInv'
    BY <1>1, <1>2, <2>1, HostAssumption DEF HostInv, TypeOK, PlaceInv, Services, StopStage, BeforeDrain,
       Early, Starts, AfterClose
  <2>6. RanInv'
    BY <1>1, <1>2, <2>1, HostAssumption DEF HostInv, TypeOK, PlaceInv, RanInv, StopStage
  <2>7. ASSUME NEW i \in Services PROVE ServiceInv(i)'
    BY <1>1, <1>2, <1>3, <2>1, <2>2, HostAssumption DEF HostInv, TypeOK, Services, Critical, PlaceInv,
       ServiceInv, FlagsInv, StartInv, LifeInv, CleanupInv, IsLive, StillToStart, WasReady, WasDrained,
       WasAwaited, WasClosed, BeforeDrain, Early, Starts, AfterClose
  <2>8. LivesStep
    BY <2>2 DEF LivesStep, LifeStep
  <2> QED
    BY <2>4, <2>5, <2>6, <2>7, <2>8 DEF HostInv
<1>5. CASE ~(StopStage[idx] > maxStage) /\ ran' = ran \cup {idx} /\ Goto("stops", idx + 1)
  <2>1. pc' = "stops" /\ idx' = idx + 1 /\ ~(StopStage[idx] > maxStage) /\ ran' = ran \cup {idx}
    BY <1>5 DEF Goto, NoError, RunError
  <2>2. svc' = svc
    BY <1>2, <1>5
  <2>3. svc' \in [Services -> Service]
    BY <2>2 DEF HostInv, TypeOK
  <2>4. TypeOK'
    BY <1>1, <1>2, <1>3, <2>1, <2>3, HostAssumption, StateNames DEF HostInv, TypeOK, PlaceInv, Places,
       Services, StopStage
  <2>5. PlaceInv'
    BY <1>1, <1>2, <2>1, HostAssumption DEF HostInv, TypeOK, PlaceInv, Services, StopStage, BeforeDrain,
       Early, Starts, AfterClose
  <2>6. RanInv'
    BY <1>1, <1>2, <2>1, HostAssumption DEF HostInv, TypeOK, PlaceInv, RanInv, StopStage
  <2>7. ASSUME NEW i \in Services PROVE ServiceInv(i)'
    BY <1>1, <1>2, <1>3, <2>1, <2>2, HostAssumption DEF HostInv, TypeOK, Services, Critical, PlaceInv,
       ServiceInv, FlagsInv, StartInv, LifeInv, CleanupInv, IsLive, StillToStart, WasReady, WasDrained,
       WasAwaited, WasClosed, BeforeDrain, Early, Starts, AfterClose
  <2>8. LivesStep
    BY <2>2 DEF LivesStep, LifeStep
  <2> QED
    BY <2>4, <2>5, <2>6, <2>7, <2>8 DEF HostInv
<1> QED
  BY <1>4, <1>5 DEF StopHook

LEMMA StopsDoneKeeps ==
  ASSUME HostInv, StopsDone, app' = app
  PROVE  HostInv' /\ LivesStep
<1>1. pc = "stops" /\ idx > Len(StopStage)
  BY DEF StopsDone
<1>2. UNCHANGED <<caller, cancelled, requested, otherErr, budget, state, ready, readyCh, draining, svcCtxDone, serviceErr, svc, maxStage, server, ran, reported>>
  BY DEF StopsDone, env, flags, errors
<1>3. hasErr' \in BOOLEAN /\ reported' \subseteq Services /\ reported \subseteq reported'
  BY <1>2 DEF StopsDone, HostInv, TypeOK
<1>4. CASE Goto("exit", 0)
  <2>1. pc' = "exit" /\ idx' = 0
    BY <1>4 DEF Goto, NoError, RunError
  <2>2. svc' = svc
    BY <1>2, <1>4
  <2>3. svc' \in [Services -> Service]
    BY <2>2 DEF HostInv, TypeOK
  <2>4. TypeOK'
    BY <1>1, <1>2, <1>3, <2>1, <2>3, HostAssumption, StateNames DEF HostInv, TypeOK, PlaceInv, Places,
       Services, StopStage
  <2>5. PlaceInv'
    BY <1>1, <1>2, <2>1, HostAssumption DEF HostInv, TypeOK, PlaceInv, Services, StopStage, BeforeDrain,
       Early, Starts, AfterClose
  <2>6. RanInv'
    BY <1>1, <1>2, <2>1, HostAssumption DEF HostInv, TypeOK, PlaceInv, RanInv, StopStage
  <2>7. ASSUME NEW i \in Services PROVE ServiceInv(i)'
    BY <1>1, <1>2, <1>3, <2>1, <2>2, HostAssumption DEF HostInv, TypeOK, Services, Critical, PlaceInv,
       ServiceInv, FlagsInv, StartInv, LifeInv, CleanupInv, IsLive, StillToStart, WasReady, WasDrained,
       WasAwaited, WasClosed, BeforeDrain, Early, Starts, AfterClose
  <2>8. LivesStep
    BY <2>2 DEF LivesStep, LifeStep
  <2> QED
    BY <2>4, <2>5, <2>6, <2>7, <2>8 DEF HostInv
<1> QED
  BY <1>4 DEF StopsDone

LEMMA EnterSelectKeeps ==
  ASSUME HostInv, EnterSelect, app' = app
  PROVE  HostInv' /\ LivesStep
<1>1. TRUE
  BY DEF EnterSelect
<1>2. UNCHANGED <<pc, idx, cancelled, requested, otherErr, budget, state, ready, readyCh, draining, svcCtxDone, serviceErr, svc, maxStage, server, ran, hasErr, reported>>
  BY DEF EnterSelect, env, flags, errors
<1>3. hasErr' \in BOOLEAN /\ reported' \subseteq Services /\ reported \subseteq reported'
  BY <1>2 DEF HostInv, TypeOK
<1>4. CASE caller' \in {"parked", "handle", "error", "nothing"}
  <2>1. pc' = pc /\ idx' = idx /\ caller' \in {"parked", "handle", "error", "nothing"}
    BY <1>4, <1>2 DEF Goto, NoError, RunError
  <2>2. svc' = svc
    BY <1>2, <1>4
  <2>3. svc' \in [Services -> Service]
    BY <2>2 DEF HostInv, TypeOK
  <2>4. TypeOK'
    BY <1>1, <1>2, <1>3, <2>1, <2>3, HostAssumption, StateNames DEF HostInv, TypeOK, PlaceInv, Places,
       Services, StopStage
  <2>5. PlaceInv'
    BY <1>1, <1>2, <2>1, HostAssumption DEF HostInv, TypeOK, PlaceInv, Services, StopStage, BeforeDrain,
       Early, Starts, AfterClose
  <2>6. RanInv'
    BY <1>1, <1>2, <2>1, HostAssumption DEF HostInv, TypeOK, PlaceInv, RanInv, StopStage
  <2>7. ASSUME NEW i \in Services PROVE ServiceInv(i)'
    BY <1>1, <1>2, <1>3, <2>1, <2>2, HostAssumption DEF HostInv, TypeOK, Services, Critical, PlaceInv,
       ServiceInv, FlagsInv, StartInv, LifeInv, CleanupInv, IsLive, StillToStart, WasReady, WasDrained,
       WasAwaited, WasClosed, BeforeDrain, Early, Starts, AfterClose
  <2>8. LivesStep
    BY <2>2 DEF LivesStep, LifeStep
  <2> QED
    BY <2>4, <2>5, <2>6, <2>7, <2>8 DEF HostInv
<1> QED
  BY <1>4 DEF EnterSelect

LEMMA CancelParentKeeps ==
  ASSUME HostInv, CancelParent, app' = app
  PROVE  HostInv' /\ LivesStep
<1>1. TRUE
  BY DEF CancelParent
<1>2. UNCHANGED <<pc, idx, caller, requested, otherErr, budget, state, ready, readyCh, draining, svcCtxDone, serviceErr, svc, maxStage, server, ran, hasErr, reported>>
  BY DEF CancelParent, env, flags, errors
<1>3. hasErr' \in BOOLEAN /\ reported' \subseteq Services /\ reported \subseteq reported'
  BY <1>2 DEF HostInv, TypeOK
<1>4. CASE cancelled' = TRUE
  <2>1. pc' = pc /\ idx' = idx /\ cancelled' = TRUE
    BY <1>4, <1>2 DEF Goto, NoError, RunError
  <2>2. svc' = svc
    BY <1>2, <1>4
  <2>3. svc' \in [Services -> Service]
    BY <2>2 DEF HostInv, TypeOK
  <2>4. TypeOK'
    BY <1>1, <1>2, <1>3, <2>1, <2>3, HostAssumption, StateNames DEF HostInv, TypeOK, PlaceInv, Places,
       Services, StopStage
  <2>5. PlaceInv'
    BY <1>1, <1>2, <2>1, HostAssumption DEF HostInv, TypeOK, PlaceInv, Services, StopStage, BeforeDrain,
       Early, Starts, AfterClose
  <2>6. RanInv'
    BY <1>1, <1>2, <2>1, HostAssumption DEF HostInv, TypeOK, PlaceInv, RanInv, StopStage
  <2>7. ASSUME NEW i \in Services PROVE ServiceInv(i)'
    BY <1>1, <1>2, <1>3, <2>1, <2>2, HostAssumption DEF HostInv, TypeOK, Services, Critical, PlaceInv,
       ServiceInv, FlagsInv, StartInv, LifeInv, CleanupInv, IsLive, StillToStart, WasReady, WasDrained,
       WasAwaited, WasClosed, BeforeDrain, Early, Starts, AfterClose
  <2>8. LivesStep
    BY <2>2 DEF LivesStep, LifeStep
  <2> QED
    BY <2>4, <2>5, <2>6, <2>7, <2>8 DEF HostInv
<1> QED
  BY <1>4 DEF CancelParent

LEMMA RequestShutdownKeeps ==
  ASSUME HostInv, RequestShutdown, app' = app
  PROVE  HostInv' /\ LivesStep
<1>1. TRUE
  BY DEF RequestShutdown
<1>2. UNCHANGED <<pc, idx, caller, cancelled, otherErr, budget, state, ready, readyCh, draining, svcCtxDone, serviceErr, svc, maxStage, server, ran, hasErr, reported>>
  BY DEF RequestShutdown, env, flags, errors
<1>3. hasErr' \in BOOLEAN /\ reported' \subseteq Services /\ reported \subseteq reported'
  BY <1>2 DEF HostInv, TypeOK
<1>4. CASE requested' = TRUE
  <2>1. pc' = pc /\ idx' = idx /\ requested' = TRUE
    BY <1>4, <1>2 DEF Goto, NoError, RunError
  <2>2. svc' = svc
    BY <1>2, <1>4
  <2>3. svc' \in [Services -> Service]
    BY <2>2 DEF HostInv, TypeOK
  <2>4. TypeOK'
    BY <1>1, <1>2, <1>3, <2>1, <2>3, HostAssumption, StateNames DEF HostInv, TypeOK, PlaceInv, Places,
       Services, StopStage
  <2>5. PlaceInv'
    BY <1>1, <1>2, <2>1, HostAssumption DEF HostInv, TypeOK, PlaceInv, Services, StopStage, BeforeDrain,
       Early, Starts, AfterClose
  <2>6. RanInv'
    BY <1>1, <1>2, <2>1, HostAssumption DEF HostInv, TypeOK, PlaceInv, RanInv, StopStage
  <2>7. ASSUME NEW i \in Services PROVE ServiceInv(i)'
    BY <1>1, <1>2, <1>3, <2>1, <2>2, HostAssumption DEF HostInv, TypeOK, Services, Critical, PlaceInv,
       ServiceInv, FlagsInv, StartInv, LifeInv, CleanupInv, IsLive, StillToStart, WasReady, WasDrained,
       WasAwaited, WasClosed, BeforeDrain, Early, Starts, AfterClose
  <2>8. LivesStep
    BY <2>2 DEF LivesStep, LifeStep
  <2> QED
    BY <2>4, <2>5, <2>6, <2>7, <2>8 DEF HostInv
<1> QED
  BY <1>4 DEF RequestShutdown

LEMMA OtherFailsKeeps ==
  ASSUME HostInv, OtherFails, app' = app
  PROVE  HostInv' /\ LivesStep
<1>1. TRUE
  BY DEF OtherFails
<1>2. UNCHANGED <<pc, idx, caller, cancelled, requested, budget, state, ready, readyCh, draining, svcCtxDone, serviceErr, svc, maxStage, server, ran, hasErr, reported>>
  BY DEF OtherFails, env, flags, errors
<1>3. hasErr' \in BOOLEAN /\ reported' \subseteq Services /\ reported \subseteq reported'
  BY <1>2 DEF HostInv, TypeOK
<1>4. CASE otherErr' = TRUE
  <2>1. pc' = pc /\ idx' = idx /\ otherErr' = TRUE
    BY <1>4, <1>2 DEF Goto, NoError, RunError
  <2>2. svc' = svc
    BY <1>2, <1>4
  <2>3. svc' \in [Services -> Service]
    BY <2>2 DEF HostInv, TypeOK
  <2>4. TypeOK'
    BY <1>1, <1>2, <1>3, <2>1, <2>3, HostAssumption, StateNames DEF HostInv, TypeOK, PlaceInv, Places,
       Services, StopStage
  <2>5. PlaceInv'
    BY <1>1, <1>2, <2>1, HostAssumption DEF HostInv, TypeOK, PlaceInv, Services, StopStage, BeforeDrain,
       Early, Starts, AfterClose
  <2>6. RanInv'
    BY <1>1, <1>2, <2>1, HostAssumption DEF HostInv, TypeOK, PlaceInv, RanInv, StopStage
  <2>7. ASSUME NEW i \in Services PROVE ServiceInv(i)'
    BY <1>1, <1>2, <1>3, <2>1, <2>2, HostAssumption DEF HostInv, TypeOK, Services, Critical, PlaceInv,
       ServiceInv, FlagsInv, StartInv, LifeInv, CleanupInv, IsLive, StillToStart, WasReady, WasDrained,
       WasAwaited, WasClosed, BeforeDrain, Early, Starts, AfterClose
  <2>8. LivesStep
    BY <2>2 DEF LivesStep, LifeStep
  <2> QED
    BY <2>4, <2>5, <2>6, <2>7, <2>8 DEF HostInv
<1> QED
  BY <1>4 DEF OtherFails

LEMMA BudgetExpiresKeeps ==
  ASSUME HostInv, BudgetExpires, app' = app
  PROVE  HostInv' /\ LivesStep
<1>1. TRUE
  BY DEF BudgetExpires
<1>2. UNCHANGED <<pc, idx, caller, cancelled, requested, otherErr, state, ready, readyCh, draining, svcCtxDone, serviceErr, svc, maxStage, server, ran, hasErr, reported>>
  BY DEF BudgetExpires, env, flags, errors
<1>3. hasErr' \in BOOLEAN /\ reported' \subseteq Services /\ reported \subseteq reported'
  BY <1>2 DEF HostInv, TypeOK
<1>4. CASE budget' = TRUE
  <2>1. pc' = pc /\ idx' = idx /\ budget' = TRUE
    BY <1>4, <1>2 DEF Goto, NoError, RunError
  <2>2. svc' = svc
    BY <1>2, <1>4
  <2>3. svc' \in [Services -> Service]
    BY <2>2 DEF HostInv, TypeOK
  <2>4. TypeOK'
    BY <1>1, <1>2, <1>3, <2>1, <2>3, HostAssumption, StateNames DEF HostInv, TypeOK, PlaceInv, Places,
       Services, StopStage
  <2>5. PlaceInv'
    BY <1>1, <1>2, <2>1, HostAssumption DEF HostInv, TypeOK, PlaceInv, Services, StopStage, BeforeDrain,
       Early, Starts, AfterClose
  <2>6. RanInv'
    BY <1>1, <1>2, <2>1, HostAssumption DEF HostInv, TypeOK, PlaceInv, RanInv, StopStage
  <2>7. ASSUME NEW i \in Services PROVE ServiceInv(i)'
    BY <1>1, <1>2, <1>3, <2>1, <2>2, HostAssumption DEF HostInv, TypeOK, Services, Critical, PlaceInv,
       ServiceInv, FlagsInv, StartInv, LifeInv, CleanupInv, IsLive, StillToStart, WasReady, WasDrained,
       WasAwaited, WasClosed, BeforeDrain, Early, Starts, AfterClose
  <2>8. LivesStep
    BY <2>2 DEF LivesStep, LifeStep
  <2> QED
    BY <2>4, <2>5, <2>6, <2>7, <2>8 DEF HostInv
<1> QED
  BY <1>4 DEF BudgetExpires

LEMMA ServerStepKeeps ==
  ASSUME HostInv, ServerStep, app' = app
  PROVE  HostInv' /\ LivesStep
<1>1. server \in {"shutting", "refusing"}
  BY DEF ServerStep
<1>2. UNCHANGED <<pc, idx, caller, cancelled, requested, otherErr, budget, state, ready, readyCh, draining, svcCtxDone, serviceErr, svc, maxStage, ran, hasErr, reported>>
  BY DEF ServerStep, env, flags, errors
<1>3. hasErr' \in BOOLEAN /\ reported' \subseteq Services /\ reported \subseteq reported'
  BY <1>2 DEF HostInv, TypeOK
<1>4. CASE server' \in {"refusing", "closed"}
  <2>1. pc' = pc /\ idx' = idx /\ server' \in {"refusing", "closed"}
    BY <1>4, <1>2 DEF Goto, NoError, RunError
  <2>2. svc' = svc
    BY <1>2, <1>4
  <2>3. svc' \in [Services -> Service]
    BY <2>2 DEF HostInv, TypeOK
  <2>4. TypeOK'
    BY <1>1, <1>2, <1>3, <2>1, <2>3, HostAssumption, StateNames DEF HostInv, TypeOK, PlaceInv, Places,
       Services, StopStage
  <2>5. PlaceInv'
    BY <1>1, <1>2, <2>1, HostAssumption DEF HostInv, TypeOK, PlaceInv, Services, StopStage, BeforeDrain,
       Early, Starts, AfterClose
  <2>6. RanInv'
    BY <1>1, <1>2, <2>1, HostAssumption DEF HostInv, TypeOK, PlaceInv, RanInv, StopStage
  <2>7. ASSUME NEW i \in Services PROVE ServiceInv(i)'
    BY <1>1, <1>2, <1>3, <2>1, <2>2, HostAssumption DEF HostInv, TypeOK, Services, Critical, PlaceInv,
       ServiceInv, FlagsInv, StartInv, LifeInv, CleanupInv, IsLive, StillToStart, WasReady, WasDrained,
       WasAwaited, WasClosed, BeforeDrain, Early, Starts, AfterClose
  <2>8. LivesStep
    BY <2>2 DEF LivesStep, LifeStep
  <2> QED
    BY <2>4, <2>5, <2>6, <2>7, <2>8 DEF HostInv
<1> QED
  BY <1>4 DEF ServerStep

LEMMA GoLiveKeeps ==
  ASSUME HostInv, NEW k \in Services, GoLive(k), app' = app
  PROVE  HostInv' /\ LivesStep
<1> DEFINE s == svc[k]
           t == [Transition(s, "running") EXCEPT !.run = "live"]
<1>1. svc[k].run = "spawned"
  BY DEF GoLive
<1>2. UNCHANGED <<pc, idx, caller, cancelled, requested, otherErr, budget, state, ready, readyCh, draining, svcCtxDone, maxStage, server, ran, hasErr, reported>>
  BY DEF GoLive, host, env, errors
<1>a. svc' = [svc EXCEPT ![k] = t]
  BY DEF HostInv, TypeOK, GoLive
<1>b. serviceErr' \in Services \cup {0}
  BY DEF HostInv, TypeOK, GoLive
<1>c. /\ t \in Service
      /\ t.attempted = s.attempted /\ t.started = s.started /\ t.run = "live" /\ t.sawDraining = s.sawDraining
      /\ t.result = s.result /\ t.unexpected = s.unexpected /\ t.drained = s.drained /\ t.closes = s.closes
      /\ s.life = "failed" => t.life = "failed"
      /\ s.life # "failed" => t.life = "running"
  <2>1. s \in Service
    BY DEF HostInv, TypeOK
  <2> HIDE DEF s
  <2> DEFINE r == Transition(s, "running")
  <2>2. Moved(r, s, "running")
    BY <2>1, TransitionMoves DEF LifeStates
  <2>3. t = [r EXCEPT !.run = "live"]
    OBVIOUS
  <2> HIDE DEF r, t
  <2>4. t \in Service
    BY <2>2, <2>3 DEF Moved, Service
  <2>5. /\ t.attempted = r.attempted /\ t.started = r.started /\ t.run = "live" /\ t.sawDraining = r.sawDraining
        /\ t.result = r.result /\ t.unexpected = r.unexpected /\ t.life = r.life /\ t.drained = r.drained
        /\ t.closes = r.closes
    BY <2>2, <2>3 DEF Moved, Service
  <2> QED
    BY <2>2, <2>4, <2>5 DEF Moved
<1> HIDE DEF t
<1>3. svc'[k] = t /\ \A j \in Services : j # k => svc'[j] = svc[j]
  BY <1>a, <1>c, OneServiceChanges DEF HostInv, TypeOK
<1>4. TypeOK'
  <2>1. svc' \in [Services -> Service]
    BY <1>a, <1>c, OneServiceChanges DEF HostInv, TypeOK
  <2> QED
    BY <1>2, <1>b, <2>1 DEF HostInv, TypeOK, StopStage
<1>5. PlaceInv' /\ RanInv'
  BY <1>2 DEF HostInv, PlaceInv, RanInv, StopStage
<1>6. ASSUME NEW i \in Services PROVE ServiceInv(i)'
  <2>1. CASE i # k
    BY <1>2, <1>3, <2>1 DEF HostInv, Critical, PlaceInv, ServiceInv, FlagsInv, StartInv, LifeInv,
       CleanupInv, IsLive, StillToStart, WasReady, WasDrained, WasAwaited, WasClosed, BeforeDrain, Early,
       Starts, AfterClose
  <2>2. CASE i = k
    <3>1. FlagsInv(i)'
      BY <1>1, <1>2, <1>3, <1>c, <2>2 DEF HostInv, TypeOK, Services, Critical, ServiceInv, FlagsInv
    <3>2. StartInv(i)'
      BY <1>1, <1>2, <1>3, <1>c, <2>2 DEF HostInv, TypeOK, Services, Critical, ServiceInv, FlagsInv,
         StartInv, LifeInv, IsLive, StillToStart, WasReady, BeforeDrain, Early, Starts, AfterClose
    <3>3. LifeInv(i)'
      BY <1>1, <1>2, <1>3, <1>c, <2>2 DEF HostInv, TypeOK, Services, Critical, ServiceInv, FlagsInv,
         StartInv, LifeInv, StillToStart, IsLive, WasClosed, BeforeDrain, Early, Starts, AfterClose
    <3>4. CleanupInv(i)'
      BY <1>1, <1>2, <1>3, <1>c, <2>2 DEF HostInv, TypeOK, Services, Critical, ServiceInv, FlagsInv,
         CleanupInv, WasDrained, WasAwaited, WasClosed, BeforeDrain, Early, Starts, AfterClose
    <3> QED
      BY <3>1, <3>2, <3>3, <3>4 DEF ServiceInv
  <2> QED
    BY <2>1, <2>2
<1>7. LivesStep
  <2>1. LifeStep(s.life, t.life)
    BY <1>1, <1>c DEF HostInv, ServiceInv, LifeInv, LifeStep
  <2> QED
    BY <1>3, <2>1 DEF LivesStep, LifeStep
<1> QED
  BY <1>4, <1>5, <1>6, <1>7 DEF HostInv

LEMMA RunReturnsKeeps ==
  ASSUME HostInv, NEW k \in Services,
         NEW result \in {"nil", "canceled", "error"}, RunReturns(k, result), app' = app
  PROVE  HostInv' /\ LivesStep
<1> DEFINE s == svc[k]
           t == [s EXCEPT !.run = "returned", !.result = result]
<1>1. svc[k].run = "live"
  BY DEF RunReturns
<1>2. UNCHANGED <<pc, idx, caller, cancelled, requested, otherErr, budget, state, ready, readyCh, draining, svcCtxDone, maxStage, server, ran, hasErr, reported>>
  BY DEF RunReturns, host, env, errors
<1>a. svc' = [svc EXCEPT ![k] = t]
  BY DEF HostInv, TypeOK, RunReturns
<1>b. serviceErr' \in Services \cup {0}
  BY DEF HostInv, TypeOK, RunReturns
<1>c. /\ t \in Service
      /\ t.attempted = s.attempted /\ t.started = s.started /\ t.run = "returned" /\ t.sawDraining = s.sawDraining
      /\ t.result = result /\ t.unexpected = s.unexpected /\ t.life = s.life /\ t.drained = s.drained
      /\ t.closes = s.closes
  <2>1. s \in Service
    BY DEF HostInv, TypeOK
  <2> HIDE DEF s
  <2> QED
    BY <2>1 DEF Service
<1> HIDE DEF t
<1>3. svc'[k] = t /\ \A j \in Services : j # k => svc'[j] = svc[j]
  BY <1>a, <1>c, OneServiceChanges DEF HostInv, TypeOK
<1>4. TypeOK'
  <2>1. svc' \in [Services -> Service]
    BY <1>a, <1>c, OneServiceChanges DEF HostInv, TypeOK
  <2> QED
    BY <1>2, <1>b, <2>1 DEF HostInv, TypeOK, StopStage
<1>5. PlaceInv' /\ RanInv'
  BY <1>2 DEF HostInv, PlaceInv, RanInv, StopStage
<1>6. ASSUME NEW i \in Services PROVE ServiceInv(i)'
  <2>1. CASE i # k
    BY <1>2, <1>3, <2>1 DEF HostInv, Critical, PlaceInv, ServiceInv, FlagsInv, StartInv, LifeInv,
       CleanupInv, IsLive, StillToStart, WasReady, WasDrained, WasAwaited, WasClosed, BeforeDrain, Early,
       Starts, AfterClose
  <2>2. CASE i = k
    <3>1. FlagsInv(i)'
      BY <1>1, <1>2, <1>3, <1>c, <2>2 DEF HostInv, TypeOK, Services, Critical, ServiceInv, FlagsInv
    <3>2. StartInv(i)'
      BY <1>1, <1>2, <1>3, <1>c, <2>2 DEF HostInv, TypeOK, Services, Critical, ServiceInv, FlagsInv,
         StartInv, LifeInv, IsLive, StillToStart, WasReady, BeforeDrain, Early, Starts, AfterClose
    <3>3. LifeInv(i)'
      BY <1>1, <1>2, <1>3, <1>c, <2>2 DEF HostInv, TypeOK, Services, Critical, ServiceInv, FlagsInv,
         StartInv, LifeInv, StillToStart, IsLive, WasClosed, BeforeDrain, Early, Starts, AfterClose
    <3>4. CleanupInv(i)'
      BY <1>1, <1>2, <1>3, <1>c, <2>2 DEF HostInv, TypeOK, Services, Critical, ServiceInv, FlagsInv,
         CleanupInv, WasDrained, WasAwaited, WasClosed, BeforeDrain, Early, Starts, AfterClose
    <3> QED
      BY <3>1, <3>2, <3>3, <3>4 DEF ServiceInv
  <2> QED
    BY <2>1, <2>2
<1>7. LivesStep
  <2>1. LifeStep(s.life, t.life)
    BY <1>1, <1>c DEF HostInv, ServiceInv, LifeInv, LifeStep
  <2> QED
    BY <1>3, <2>1 DEF LivesStep, LifeStep
<1> QED
  BY <1>4, <1>5, <1>6, <1>7 DEF HostInv

LEMMA LoadDrainingKeeps ==
  ASSUME HostInv, NEW k \in Services, LoadDraining(k), app' = app
  PROVE  HostInv' /\ LivesStep
<1> DEFINE s == svc[k]
           t == [s EXCEPT !.run = "checked", !.sawDraining = draining]
<1>1. svc[k].run = "returned"
  BY DEF LoadDraining
<1>2. UNCHANGED <<pc, idx, caller, cancelled, requested, otherErr, budget, state, ready, readyCh, draining, svcCtxDone, maxStage, server, ran, hasErr, reported>>
  BY DEF LoadDraining, host, env, errors
<1>a. svc' = [svc EXCEPT ![k] = t]
  BY DEF HostInv, TypeOK, LoadDraining
<1>b. serviceErr' \in Services \cup {0}
  BY DEF HostInv, TypeOK, LoadDraining
<1>d. draining \in BOOLEAN
  BY DEF HostInv, TypeOK
<1>c. /\ t \in Service
      /\ t.attempted = s.attempted /\ t.started = s.started /\ t.run = "checked" /\ t.sawDraining = draining
      /\ t.result = s.result /\ t.unexpected = s.unexpected /\ t.life = s.life /\ t.drained = s.drained
      /\ t.closes = s.closes
  <2>1. s \in Service
    BY DEF HostInv, TypeOK
  <2> HIDE DEF s
  <2> QED
    BY <2>1, <1>d DEF Service
<1> HIDE DEF t
<1>3. svc'[k] = t /\ \A j \in Services : j # k => svc'[j] = svc[j]
  BY <1>a, <1>c, OneServiceChanges DEF HostInv, TypeOK
<1>4. TypeOK'
  <2>1. svc' \in [Services -> Service]
    BY <1>a, <1>c, OneServiceChanges DEF HostInv, TypeOK
  <2> QED
    BY <1>2, <1>b, <2>1 DEF HostInv, TypeOK, StopStage
<1>5. PlaceInv' /\ RanInv'
  BY <1>2 DEF HostInv, PlaceInv, RanInv, StopStage
<1>6. ASSUME NEW i \in Services PROVE ServiceInv(i)'
  <2>1. CASE i # k
    BY <1>2, <1>3, <2>1 DEF HostInv, Critical, PlaceInv, ServiceInv, FlagsInv, StartInv, LifeInv,
       CleanupInv, IsLive, StillToStart, WasReady, WasDrained, WasAwaited, WasClosed, BeforeDrain, Early,
       Starts, AfterClose
  <2>2. CASE i = k
    <3>1. FlagsInv(i)'
      BY <1>1, <1>2, <1>3, <1>c, <2>2 DEF HostInv, TypeOK, Services, Critical, ServiceInv, FlagsInv
    <3>2. StartInv(i)'
      BY <1>1, <1>2, <1>3, <1>c, <2>2 DEF HostInv, TypeOK, Services, Critical, ServiceInv, FlagsInv,
         StartInv, LifeInv, IsLive, StillToStart, WasReady, BeforeDrain, Early, Starts, AfterClose
    <3>3. LifeInv(i)'
      BY <1>1, <1>2, <1>3, <1>c, <2>2 DEF HostInv, TypeOK, Services, Critical, ServiceInv, FlagsInv,
         StartInv, LifeInv, StillToStart, IsLive, WasClosed, BeforeDrain, Early, Starts, AfterClose
    <3>4. CleanupInv(i)'
      BY <1>1, <1>2, <1>3, <1>c, <2>2 DEF HostInv, TypeOK, Services, Critical, ServiceInv, FlagsInv,
         CleanupInv, WasDrained, WasAwaited, WasClosed, BeforeDrain, Early, Starts, AfterClose
    <3> QED
      BY <3>1, <3>2, <3>3, <3>4 DEF ServiceInv
  <2> QED
    BY <2>1, <2>2
<1>7. LivesStep
  <2>1. LifeStep(s.life, t.life)
    BY <1>1, <1>c DEF HostInv, ServiceInv, LifeInv, LifeStep
  <2> QED
    BY <1>3, <2>1 DEF LivesStep, LifeStep
<1> QED
  BY <1>4, <1>5, <1>6, <1>7 DEF HostInv

LEMMA ReportKeepsExpected ==
  ASSUME HostInv, NEW k \in Services, Report(k), app' = app,
         svc[k].sawDraining
  PROVE  HostInv' /\ LivesStep
<1> DEFINE s == svc[k]
           t == [s EXCEPT !.run = "reported"]
<1>1. svc[k].run = "checked"
  BY DEF Report
<1>2. UNCHANGED <<pc, idx, caller, cancelled, requested, otherErr, budget, state, ready, readyCh, draining, svcCtxDone, maxStage, server, ran, hasErr, reported>>
  BY DEF Report, host, env, errors
<1>a. svc' = [svc EXCEPT ![k] = t]
  BY DEF HostInv, TypeOK, Report
<1>b. serviceErr' \in Services \cup {0}
  BY DEF HostInv, TypeOK, Report
<1>c. /\ t \in Service
      /\ t.attempted = s.attempted /\ t.started = s.started /\ t.run = "reported" /\ t.sawDraining = s.sawDraining
      /\ t.result = s.result /\ t.unexpected = s.unexpected /\ t.life = s.life /\ t.drained = s.drained
      /\ t.closes = s.closes
  <2>1. s \in Service
    BY DEF HostInv, TypeOK
  <2> HIDE DEF s
  <2> QED
    BY <2>1 DEF Service
<1> HIDE DEF t
<1>3. svc'[k] = t /\ \A j \in Services : j # k => svc'[j] = svc[j]
  BY <1>a, <1>c, OneServiceChanges DEF HostInv, TypeOK
<1>4. TypeOK'
  <2>1. svc' \in [Services -> Service]
    BY <1>a, <1>c, OneServiceChanges DEF HostInv, TypeOK
  <2> QED
    BY <1>2, <1>b, <2>1 DEF HostInv, TypeOK, StopStage
<1>5. PlaceInv' /\ RanInv'
  BY <1>2 DEF HostInv, PlaceInv, RanInv, StopStage
<1>6. ASSUME NEW i \in Services PROVE ServiceInv(i)'
  <2>1. CASE i # k
    BY <1>2, <1>3, <2>1 DEF HostInv, Critical, PlaceInv, ServiceInv, FlagsInv, StartInv, LifeInv,
       CleanupInv, IsLive, StillToStart, WasReady, WasDrained, WasAwaited, WasClosed, BeforeDrain, Early,
       Starts, AfterClose
  <2>2. CASE i = k
    <3>1. FlagsInv(i)'
      BY <1>1, <1>2, <1>3, <1>c, <2>2 DEF HostInv, TypeOK, Services, Critical, ServiceInv, FlagsInv
    <3>2. StartInv(i)'
      BY <1>1, <1>2, <1>3, <1>c, <2>2 DEF HostInv, TypeOK, Services, Critical, ServiceInv, FlagsInv,
         StartInv, LifeInv, IsLive, StillToStart, WasReady, BeforeDrain, Early, Starts, AfterClose
    <3>3. LifeInv(i)'
      BY <1>1, <1>2, <1>3, <1>c, <2>2 DEF HostInv, TypeOK, Services, Critical, ServiceInv, FlagsInv,
         StartInv, LifeInv, StillToStart, IsLive, WasClosed, BeforeDrain, Early, Starts, AfterClose
    <3>4. CleanupInv(i)'
      BY <1>1, <1>2, <1>3, <1>c, <2>2 DEF HostInv, TypeOK, Services, Critical, ServiceInv, FlagsInv,
         CleanupInv, WasDrained, WasAwaited, WasClosed, BeforeDrain, Early, Starts, AfterClose
    <3> QED
      BY <3>1, <3>2, <3>3, <3>4 DEF ServiceInv
  <2> QED
    BY <2>1, <2>2
<1>7. LivesStep
  <2>1. LifeStep(s.life, t.life)
    BY <1>1, <1>c DEF HostInv, ServiceInv, LifeInv, LifeStep
  <2> QED
    BY <1>3, <2>1 DEF LivesStep, LifeStep
<1> QED
  BY <1>4, <1>5, <1>6, <1>7 DEF HostInv

LEMMA ReportKeepsUnexpected ==
  ASSUME HostInv, NEW k \in Services, Report(k), app' = app,
         ~svc[k].sawDraining
  PROVE  HostInv' /\ LivesStep
<1> DEFINE s == svc[k]
           t == [Transition(s, "failed") EXCEPT !.run = "reported", !.unexpected = TRUE, !.result = "error"]
<1>1. svc[k].run = "checked"
  BY DEF Report
<1>2. UNCHANGED <<pc, idx, caller, cancelled, requested, otherErr, budget, state, ready, readyCh, draining, svcCtxDone, maxStage, server, ran, hasErr, reported>>
  BY DEF Report, host, env, errors
<1>a. svc' = [svc EXCEPT ![k] = t]
  BY DEF HostInv, TypeOK, Report
<1>b. serviceErr' \in Services \cup {0}
  BY DEF HostInv, TypeOK, Report
<1>c. /\ t \in Service
      /\ t.attempted = s.attempted /\ t.started = s.started /\ t.run = "reported" /\ t.sawDraining = s.sawDraining
      /\ t.result = "error" /\ t.unexpected = TRUE /\ t.life = "failed" /\ t.drained = s.drained
      /\ t.closes = s.closes
  <2>1. s \in Service
    BY DEF HostInv, TypeOK
  <2> HIDE DEF s
  <2> DEFINE r == Transition(s, "failed")
  <2>2. Moved(r, s, "failed")
    BY <2>1, TransitionMoves DEF LifeStates
  <2>3. t = [r EXCEPT !.run = "reported", !.unexpected = TRUE, !.result = "error"]
    OBVIOUS
  <2> HIDE DEF r, t
  <2>4. t \in Service
    BY <2>2, <2>3 DEF Moved, Service
  <2>5. /\ t.attempted = r.attempted /\ t.started = r.started /\ t.run = "reported" /\ t.sawDraining = r.sawDraining
        /\ t.result = "error" /\ t.unexpected = TRUE /\ t.life = r.life /\ t.drained = r.drained
        /\ t.closes = r.closes
    BY <2>2, <2>3 DEF Moved, Service
  <2> QED
    BY <2>2, <2>4, <2>5 DEF Moved
<1> HIDE DEF t
<1>3. svc'[k] = t /\ \A j \in Services : j # k => svc'[j] = svc[j]
  BY <1>a, <1>c, OneServiceChanges DEF HostInv, TypeOK
<1>4. TypeOK'
  <2>1. svc' \in [Services -> Service]
    BY <1>a, <1>c, OneServiceChanges DEF HostInv, TypeOK
  <2> QED
    BY <1>2, <1>b, <2>1 DEF HostInv, TypeOK, StopStage
<1>5. PlaceInv' /\ RanInv'
  BY <1>2 DEF HostInv, PlaceInv, RanInv, StopStage
<1>6. ASSUME NEW i \in Services PROVE ServiceInv(i)'
  <2>1. CASE i # k
    BY <1>2, <1>3, <2>1 DEF HostInv, Critical, PlaceInv, ServiceInv, FlagsInv, StartInv, LifeInv,
       CleanupInv, IsLive, StillToStart, WasReady, WasDrained, WasAwaited, WasClosed, BeforeDrain, Early,
       Starts, AfterClose
  <2>2. CASE i = k
    <3>1. FlagsInv(i)'
      BY <1>1, <1>2, <1>3, <1>c, <2>2 DEF HostInv, TypeOK, Services, Critical, ServiceInv, FlagsInv
    <3>2. StartInv(i)'
      BY <1>1, <1>2, <1>3, <1>c, <2>2 DEF HostInv, TypeOK, Services, Critical, ServiceInv, FlagsInv,
         StartInv, LifeInv, IsLive, StillToStart, WasReady, BeforeDrain, Early, Starts, AfterClose
    <3>3. LifeInv(i)'
      BY <1>1, <1>2, <1>3, <1>c, <2>2 DEF HostInv, TypeOK, Services, Critical, ServiceInv, FlagsInv,
         StartInv, LifeInv, StillToStart, IsLive, WasClosed, BeforeDrain, Early, Starts, AfterClose
    <3>4. CleanupInv(i)'
      BY <1>1, <1>2, <1>3, <1>c, <2>2 DEF HostInv, TypeOK, Services, Critical, ServiceInv, FlagsInv,
         CleanupInv, WasDrained, WasAwaited, WasClosed, BeforeDrain, Early, Starts, AfterClose
    <3> QED
      BY <3>1, <3>2, <3>3, <3>4 DEF ServiceInv
  <2> QED
    BY <2>1, <2>2
<1>7. LivesStep
  <2>1. LifeStep(s.life, t.life)
    BY <1>1, <1>c DEF HostInv, ServiceInv, LifeInv, LifeStep
  <2> QED
    BY <1>3, <2>1 DEF LivesStep, LifeStep
<1> QED
  BY <1>4, <1>5, <1>6, <1>7 DEF HostInv

LEMMA FinishKeeps ==
  ASSUME HostInv, NEW k \in Services, Finish(k), app' = app
  PROVE  HostInv' /\ LivesStep
<1> DEFINE s == svc[k]
           t == [s EXCEPT !.run = "done"]
<1>1. svc[k].run = "reported"
  BY DEF Finish
<1>2. UNCHANGED <<pc, idx, caller, cancelled, requested, otherErr, budget, state, ready, readyCh, draining, svcCtxDone, maxStage, server, ran, hasErr, reported>>
  BY DEF Finish, host, env, errors
<1>a. svc' = [svc EXCEPT ![k] = t]
  BY DEF HostInv, TypeOK, Finish
<1>b. serviceErr' \in Services \cup {0}
  BY DEF HostInv, TypeOK, Finish
<1>c. /\ t \in Service
      /\ t.attempted = s.attempted /\ t.started = s.started /\ t.run = "done" /\ t.sawDraining = s.sawDraining
      /\ t.result = s.result /\ t.unexpected = s.unexpected /\ t.life = s.life /\ t.drained = s.drained
      /\ t.closes = s.closes
  <2>1. s \in Service
    BY DEF HostInv, TypeOK
  <2> HIDE DEF s
  <2> QED
    BY <2>1 DEF Service
<1> HIDE DEF t
<1>3. svc'[k] = t /\ \A j \in Services : j # k => svc'[j] = svc[j]
  BY <1>a, <1>c, OneServiceChanges DEF HostInv, TypeOK
<1>4. TypeOK'
  <2>1. svc' \in [Services -> Service]
    BY <1>a, <1>c, OneServiceChanges DEF HostInv, TypeOK
  <2> QED
    BY <1>2, <1>b, <2>1 DEF HostInv, TypeOK, StopStage
<1>5. PlaceInv' /\ RanInv'
  BY <1>2 DEF HostInv, PlaceInv, RanInv, StopStage
<1>6. ASSUME NEW i \in Services PROVE ServiceInv(i)'
  <2>1. CASE i # k
    BY <1>2, <1>3, <2>1 DEF HostInv, Critical, PlaceInv, ServiceInv, FlagsInv, StartInv, LifeInv,
       CleanupInv, IsLive, StillToStart, WasReady, WasDrained, WasAwaited, WasClosed, BeforeDrain, Early,
       Starts, AfterClose
  <2>2. CASE i = k
    <3>1. FlagsInv(i)'
      BY <1>1, <1>2, <1>3, <1>c, <2>2 DEF HostInv, TypeOK, Services, Critical, ServiceInv, FlagsInv
    <3>2. StartInv(i)'
      BY <1>1, <1>2, <1>3, <1>c, <2>2 DEF HostInv, TypeOK, Services, Critical, ServiceInv, FlagsInv,
         StartInv, LifeInv, IsLive, StillToStart, WasReady, BeforeDrain, Early, Starts, AfterClose
    <3>3. LifeInv(i)'
      BY <1>1, <1>2, <1>3, <1>c, <2>2 DEF HostInv, TypeOK, Services, Critical, ServiceInv, FlagsInv,
         StartInv, LifeInv, StillToStart, IsLive, WasClosed, BeforeDrain, Early, Starts, AfterClose
    <3>4. CleanupInv(i)'
      BY <1>1, <1>2, <1>3, <1>c, <2>2 DEF HostInv, TypeOK, Services, Critical, ServiceInv, FlagsInv,
         CleanupInv, WasDrained, WasAwaited, WasClosed, BeforeDrain, Early, Starts, AfterClose
    <3> QED
      BY <3>1, <3>2, <3>3, <3>4 DEF ServiceInv
  <2> QED
    BY <2>1, <2>2
<1>7. LivesStep
  <2>1. LifeStep(s.life, t.life)
    BY <1>1, <1>c DEF HostInv, ServiceInv, LifeInv, LifeStep
  <2> QED
    BY <1>3, <2>1 DEF LivesStep, LifeStep
<1> QED
  BY <1>4, <1>5, <1>6, <1>7 DEF HostInv

(* All services at once: each attempted one is told to stop. *)
LEMMA CancelServicesKeeps ==
  ASSUME HostInv, CancelServices, app' = app
  PROVE  HostInv' /\ LivesStep
<1>1. pc = "drain" /\ idx = 0 /\ pc' = "wait" /\ idx' = NumServices /\ state' = 9 /\ svcCtxDone' = TRUE
  BY DEF CancelServices, Goto
<1>2. UNCHANGED <<caller, cancelled, requested, otherErr, budget, ready, readyCh, draining, serviceErr,
                  maxStage, server, ran, hasErr, reported>>
  BY DEF CancelServices, env, errors
<1>3. ASSUME NEW i \in Services
      PROVE  /\ svc'[i] \in Service
             /\ svc'[i].attempted = svc[i].attempted
             /\ svc'[i].started = svc[i].started
             /\ svc'[i].run = svc[i].run
             /\ svc'[i].result = svc[i].result
             /\ svc'[i].unexpected = svc[i].unexpected
             /\ svc'[i].drained = svc[i].drained
             /\ svc'[i].closes = svc[i].closes
             /\ ~svc[i].attempted \/ svc[i].life = "failed" => svc'[i].life = svc[i].life
             /\ svc[i].attempted /\ svc[i].life # "failed" => svc'[i].life = "stopping"
  <2>1. svc[i] \in Service
    BY DEF HostInv, TypeOK
  <2>2. svc'[i] = IF svc[i].attempted THEN Transition(svc[i], "stopping") ELSE svc[i]
    BY DEF CancelServices
  <2>3. CASE svc[i].attempted
    <3>1. Moved(svc'[i], svc[i], "stopping")
      BY <2>1, <2>2, <2>3, TransitionMoves DEF LifeStates
    <3> QED
      BY <2>3, <3>1 DEF Moved
  <2>4. CASE ~svc[i].attempted
    BY <2>1, <2>2, <2>4
  <2> QED
    BY <2>3, <2>4
<1>4. TypeOK'
  <2>1. svc' = [i \in Services |-> svc'[i]]
    BY DEF CancelServices
  <2>2. svc' \in [Services -> Service]
    BY <1>3, <2>1
  <2> QED
    BY <1>1, <1>2, <2>2, HostAssumption, StateNames DEF HostInv, TypeOK, Places, StopStage
<1>5. PlaceInv' /\ RanInv'
  BY <1>1, <1>2, HostAssumption DEF HostInv, TypeOK, PlaceInv, RanInv, StopStage, BeforeDrain, Early,
     Starts, AfterClose
<1>6. ASSUME NEW i \in Services PROVE ServiceInv(i)'
  <2>1. FlagsInv(i)'
    BY <1>3 DEF HostInv, ServiceInv, FlagsInv
  <2>2. StartInv(i)'
    BY <1>1, <1>2 DEF HostInv, PlaceInv, StartInv, StillToStart, WasReady, Early, Starts
  <2>3. LifeInv(i)'
    BY <1>1, <1>3, HostAssumption DEF HostInv, ServiceInv, FlagsInv, LifeInv, Services, WasClosed,
       BeforeDrain, Early,
       Starts, AfterClose
  <2>4. CleanupInv(i)'
    BY <1>1, <1>2, <1>3, HostAssumption DEF HostInv, ServiceInv, CleanupInv, Services, WasDrained,
       WasAwaited, WasClosed,
       AfterClose
  <2> QED
    BY <2>1, <2>2, <2>3, <2>4 DEF ServiceInv
<1>7. LivesStep
  BY <1>1, <1>3 DEF HostInv, ServiceInv, LifeInv, LivesStep, LifeStep
<1> QED
  BY <1>4, <1>5, <1>6, <1>7 DEF HostInv

(* The end: what was never started says so. *)
LEMMA ExitKeeps ==
  ASSUME HostInv, Exit, app' = app
  PROVE  HostInv' /\ LivesStep
<1>1. pc = "exit" /\ pc' = "stopped" /\ idx' = 0 /\ state' = 10 /\ cancelled' = TRUE /\ svcCtxDone' = TRUE
  BY DEF Exit, Goto
<1>2. UNCHANGED <<requested, otherErr, budget, ready, readyCh, draining, serviceErr, maxStage, server, ran>>
  BY DEF Exit
<1>3. reported' = reported \cup (IF readyCh THEN OptionalExits ELSE {})
  BY DEF Exit
<1>4. hasErr' \in BOOLEAN
  <2>1. hasErr' = (hasErr \/ reported' # {})
    BY DEF Exit
  <2> QED
    BY <2>1
<1>5. caller' \in {"calling", "parked", "handle", "error", "nothing"}
  BY DEF Exit, Wake, HostInv, TypeOK
<1>6. ASSUME NEW i \in Services
      PROVE  /\ svc'[i] \in Service
             /\ svc'[i].attempted = svc[i].attempted
             /\ svc'[i].started = svc[i].started
             /\ svc'[i].run = svc[i].run
             /\ svc'[i].result = svc[i].result
             /\ svc'[i].unexpected = svc[i].unexpected
             /\ svc'[i].drained = svc[i].drained
             /\ svc'[i].closes = svc[i].closes
             /\ svc[i].attempted \/ svc[i].life = "failed" => svc'[i].life = svc[i].life
             /\ ~svc[i].attempted /\ svc[i].life # "failed" => svc'[i].life = "not_started"
  <2>1. svc[i] \in Service
    BY DEF HostInv, TypeOK
  <2>2. svc'[i] = IF svc[i].attempted THEN svc[i] ELSE Transition(svc[i], "not_started")
    BY DEF Exit, NotStarted
  <2>3. CASE ~svc[i].attempted
    BY <2>1, <2>2, <2>3, TransitionMoves DEF Moved, LifeStates
  <2>4. CASE svc[i].attempted
    BY <2>1, <2>2, <2>4
  <2> QED
    BY <2>3, <2>4
<1>7. TypeOK'
  <2>1. svc' = [i \in Services |-> svc'[i]]
    BY DEF Exit
  <2>2. svc' \in [Services -> Service]
    BY <1>6, <2>1
  <2>3. reported' \subseteq Services
    BY <1>3 DEF HostInv, TypeOK, OptionalExits
  <2> QED
    BY <1>1, <1>2, <1>4, <1>5, <2>2, <2>3, StateNames DEF HostInv, TypeOK, Places, StopStage
<1>8. PlaceInv' /\ RanInv'
  BY <1>1, <1>2 DEF HostInv, PlaceInv, RanInv, StopStage, BeforeDrain, Early, Starts, AfterClose
<1>9. ASSUME NEW i \in Services PROVE ServiceInv(i)'
  <2>1. FlagsInv(i)'
    BY <1>6 DEF HostInv, ServiceInv, FlagsInv
  <2>2. StartInv(i)'
    BY <1>1, <1>2 DEF HostInv, PlaceInv, StartInv, StillToStart, WasReady, Early, Starts
  <2>3. LifeInv(i)'
    BY <1>1, <1>6 DEF HostInv, ServiceInv, FlagsInv, LifeInv, WasClosed, BeforeDrain, Early, Starts,
        AfterClose
  <2>4. CleanupInv(i)'
    BY <1>1, <1>2, <1>3, <1>6 DEF HostInv, ServiceInv, FlagsInv, CleanupInv, WasDrained, WasAwaited,
       WasClosed, AfterClose,
       OptionalExits, Critical
  <2> QED
    BY <2>1, <2>2, <2>3, <2>4 DEF ServiceInv
<1>10. LivesStep
  BY <1>6 DEF HostInv, ServiceInv, LifeInv, LivesStep, LifeStep
<1> QED
  BY <1>7, <1>8, <1>9, <1>10 DEF HostInv

-----------------------------------------------------------------------------
LEMMA InitHost == Init => HostInv
<1> SUFFICES ASSUME Init PROVE HostInv
  OBVIOUS
<1>1. TypeOK
  <2>1. NewService \in Service
    BY DEF NewService, Service, LifeStates
  <2>2. svc \in [Services -> Service]
    BY <2>1 DEF Init
  <2>3. state \in DOMAIN States
    BY StateNames DEF Init
  <2>4. {cancelled, requested, otherErr, budget, ready, readyCh, draining, svcCtxDone, hasErr} \subseteq BOOLEAN
    BY DEF Init
  <2>5. app \in Apps /\ pc \in Places /\ pc = "prepare" /\ idx = 1 /\ caller = "calling" /\ serviceErr = 0
        /\ maxStage = -1 /\ server = "none" /\ ran = {} /\ reported = {}
    BY DEF Init, Places
  <2> QED
    BY <2>2, <2>3, <2>4, <2>5 DEF TypeOK
<1>2. PlaceInv /\ RanInv
  BY DEF Init, PlaceInv, RanInv, Early, BeforeDrain, AfterClose
<1>3. ASSUME NEW i \in Services PROVE ServiceInv(i)
  BY DEF Init, NewService, ServiceInv, FlagsInv, StartInv, LifeInv, CleanupInv, StillToStart, WasReady,
     WasDrained,
     WasAwaited, WasClosed, Early, Starts, BeforeDrain, AfterClose
<1> QED
  BY <1>1, <1>2, <1>3 DEF HostInv

LEMMA StepHost == HostInv /\ [Next]_vars => HostInv' /\ LivesStep
<1> SUFFICES ASSUME HostInv, [Next]_vars PROVE HostInv' /\ LivesStep
  OBVIOUS
<1>1. CASE Starting /\ app' = app
  BY <1>1, PrepareKeeps, StartHookKeeps, HooksDoneKeeps, ServiceStartKeeps, LaunchKeeps, AwaitLiveKeeps,
     ServiceReadyKeeps,
     ServiceNotReadyKeeps, BecomeReadyKeeps, StartFailedKeeps DEF Starting
<1>2. CASE Trigger /\ app' = app
  BY <1>2, TriggerKeeps
<1>3. CASE Stopping /\ app' = app
  BY <1>3, BeginShutdownKeeps, ShutServerKeeps, DrainKeeps, CancelServicesKeeps, WaitRunKeeps,
     WaitsDoneKeeps, CloseKeeps,
     ClosesDoneKeeps, AwaitServerKeeps, StopHookKeeps, StopsDoneKeeps, ExitKeeps DEF Stopping
<1>4. ASSUME app' = app, NEW k \in Services,
             RunStep(k) \/ \E result \in {"nil", "canceled", "error"} : RunReturns(k, result)
      PROVE  HostInv' /\ LivesStep
  BY <1>4, GoLiveKeeps, LoadDrainingKeeps, ReportKeepsExpected, ReportKeepsUnexpected, FinishKeeps,
     RunReturnsKeeps
     DEF RunStep
<1>5. CASE (EnterSelect \/ CancelParent \/ RequestShutdown \/ OtherFails \/ BudgetExpires \/ ServerStep) /\ app' = app
  BY <1>5, EnterSelectKeeps, CancelParentKeeps, RequestShutdownKeeps, OtherFailsKeeps, BudgetExpiresKeeps,
     ServerStepKeeps
<1>6. CASE UNCHANGED vars
  <2>1. TypeOK' /\ PlaceInv' /\ RanInv'
    BY <1>6 DEF vars, HostInv, TypeOK, PlaceInv, RanInv, StopStage
  <2>2. ASSUME NEW i \in Services PROVE ServiceInv(i)'
    BY <1>6 DEF vars, HostInv, ServiceInv, FlagsInv, StartInv, LifeInv, CleanupInv, IsLive, StillToStart,
       WasReady,
       WasDrained, WasAwaited, WasClosed, Critical
  <2>3. LivesStep
    BY <1>6 DEF vars, LivesStep, LifeStep
  <2> QED
    BY <2>1, <2>2, <2>3 DEF HostInv
<1>7. CASE Stopped /\ app' = app
  BY <1>6, <1>7 DEF Stopped, vars, env, flags, errors
<1> QED
  BY <1>1, <1>2, <1>3, <1>4, <1>5, <1>6, <1>7 DEF Next, HostStep

(* For any number of services and any application, the places of the host,  *)
(* the flags of its services and the hooks that ran stay in step: the       *)
(* inductive invariant the results below rest on (run.go:105-560,           *)
(* host.go:280-330).                                                        *)
THEOREM HostInvariant == Spec => []HostInv
  BY InitHost, StepHost, PTL DEF Spec

(* Every service whose Start was called is closed exactly once, after its   *)
(* drain and in reverse order, and not under a running Run unless the       *)
(* budget is spent; the OnStop hooks that run are those of the stages that  *)
(* began (run.go:422-530).                                                  *)
THEOREM CleanupIsComplete == Spec => []CleanupIsWhole
<1>1. HostInv => CleanupIsWhole
  <2> SUFFICES ASSUME HostInv PROVE CleanupIsWhole
    OBVIOUS
  <2>1. CloseOncePerStart
    BY DEF HostInv, ServiceInv, FlagsInv, CleanupInv, WasClosed, CloseOncePerStart, AfterClose
  <2>2. CleanupInOrder
    <3>1. svcCtxDone => \A i \in Services : svc[i].started => svc[i].drained
      BY DEF HostInv, PlaceInv, ServiceInv, CleanupInv, WasDrained, AfterClose
    <3>2. ASSUME NEW i \in Services, svc[i].closes > 0, ~budget PROVE svc[i].run \in {"none", "done"}
      <4>1. WasClosed(i)
        BY <3>2 DEF HostInv, ServiceInv, CleanupInv
      <4>2. WasAwaited(i)
        BY <4>1 DEF WasClosed, WasAwaited, AfterClose
      <4> QED
        BY <3>2, <4>2 DEF HostInv, ServiceInv, FlagsInv, CleanupInv
    <3>3. ASSUME NEW i \in Services, NEW j \in Services, i < j, svc[j].attempted, svc[i].closes > 0
          PROVE  svc[j].closes > 0
      <4>1. WasClosed(i)
        BY <3>3 DEF HostInv, ServiceInv, CleanupInv
      <4>2. WasClosed(j)
        BY <3>3, <4>1 DEF WasClosed, HostInv, TypeOK, Services
      <4> QED
        BY <3>3, <4>2 DEF HostInv, ServiceInv, CleanupInv
    <3> QED
      BY <3>1, <3>2, <3>3 DEF CleanupInOrder
  <2>3. StopsMirrorStarts
    BY HostAssumption DEF HostInv, TypeOK, PlaceInv, RanInv, StopsMirrorStarts, StopStage
  <2> QED
    BY <2>1, <2>2, <2>3 DEF HostInv, CleanupIsWhole
<1> QED
  BY <1>1, HostInvariant, PTL

-----------------------------------------------------------------------------
(* What the host says of itself is true, for any number of services: the    *)
(* Run errors that Wait returns, the final states of the services and       *)
(* readiness; and no reported lifecycle ever moves back, although the host  *)
(* and the Run goroutines both write it (run.go:105-130, 423, 532-543,      *)
(* state.go:59-83).                                                         *)
THEOREM HostReportsAreTrue == Spec => ReportsAreTrue
<1>1. HostInv => RunErrorsReported /\ FinalLifecycle /\ ReadyOnlyWhileServing
  <2> SUFFICES ASSUME HostInv PROVE RunErrorsReported /\ FinalLifecycle /\ ReadyOnlyWhileServing
    OBVIOUS
  <2>1. RunErrorsReported
    BY DEF HostInv, ServiceInv, FlagsInv, CleanupInv, WasAwaited, AfterClose, RunErrorsReported
  <2>2. FinalLifecycle
    BY DEF HostInv, ServiceInv, FlagsInv, LifeInv, WasClosed, AfterClose, FinalLifecycle
  <2>3. ReadyOnlyWhileServing
    BY DEF HostInv, PlaceInv, ServiceInv, StartInv, CleanupInv, WasReady, WasClosed, BeforeDrain, AfterClose,
       ReadyOnlyWhileServing
  <2> QED
    BY <2>1, <2>2, <2>3
<1>2. HostInv /\ [Next]_vars => [\A i \in Services : Rank(svc[i].life) <= Rank(svc'[i].life)]_vars
  <2> SUFFICES ASSUME HostInv, Next, NEW i \in Services
               PROVE  Rank(svc[i].life) <= Rank(svc'[i].life)
    OBVIOUS
  <2>1. HostInv' /\ LifeStep(svc[i].life, svc'[i].life)
    BY StepHost DEF LivesStep
  <2>2. svc[i].life \in LifeStates /\ svc'[i].life \in LifeStates
    BY <2>1 DEF HostInv, TypeOK, Service
  <2> QED
    BY <2>1, <2>2, LifeStepIsForward
<1> QED
  BY <1>1, <1>2, HostInvariant, PTL DEF Spec, ReportsAreTrue, LifecycleMovesForward

=============================================================================
