------------------------------ MODULE Telemetry ------------------------------
(***************************************************************************)
(* telemetry.Init and Shutdown, the labels of internal/metrics and the     *)
(* process-wide lifecycle counts of internal/hoststate.                    *)
(*                                                                         *)
(* All managed services here share one module and one name, so they share  *)
(* the keys of the aggregate.  A transition holds the lock of its service  *)
(* from the first to the last step and the lock of the aggregate in the    *)
(* first: counts may be read between the two.  SQL is its leading comment  *)
(* lines and the word after them.                                          *)
(*                                                                         *)
(* An operator whose name begins with that of the definition after it is a *)
(* faulty variant of it, against which a property is tested.               *)
(***************************************************************************)
EXTENDS Naturals, Integers, FiniteSets

CONSTANTS
  Services,   \* instances of one managed service
  Calls       \* contract streams of one method

ASSUME TelemetryAssumption == IsFiniteSet(Services) /\ IsFiniteSet(Calls)

VARIABLES
  export,    \* per signal: enabled, and whether its endpoint is valid
  provider,  \* per signal: none, open, closed
  setup,     \* of the process: starting, failed, ready, stopped
  lifecycle, \* per service: state, whether failed is sticky, the move under way
  counts,    \* current.values: instances per state
  streams,   \* per stream: new, open, closed
  gauge      \* appkit.contract.stream.active per label set

telemetryVars == <<export, provider, setup, lifecycle, counts, streams, gauge>>

Signals == {"traces", "metrics"}
States == {"created", "ready", "failed", "stopped"}

-----------------------------------------------------------------------------
(* The labels.  Raw values come from the code, the wire or an error; other *)
(* is what any value outside the enumeration becomes.                      *)
Transports == {"sse", "websocket"}
Directions == {"client_to_server", "server_to_client"}
Frames == [sse |-> {"event", "heartbeat", "error"},
           websocket |-> {"data", "half_close", "end", "error"}]
ErrorCodes == {"INTERNAL", "UNAVAILABLE"}
StatusClasses == {"1xx", "2xx", "3xx", "4xx", "5xx"}
HTTPMethods == {"GET", "POST"}
Verbs == {"SELECT", "WITH"}

OneOf(set, value) == IF value \in set THEN value ELSE "other"

(* HTTPClientCall: method, status class and outcome. *)
HTTPClientCall(method, status, err) ==
  <<OneOf(HTTPMethods, method), OneOf(StatusClasses, status),
    CASE err = "none" -> "ok" [] err = "canceled" -> "canceled"
      [] err = "deadline" -> "timeout" [] OTHER -> "error">>

(* streamAttrs, and the labels of the transports. *)
StreamAttrs == <<"local">>

StreamOutcome(err, timedOut) ==
  CASE timedOut -> "timeout"
    [] err \in {"none", "EOF"} -> "ok"
    [] err = "canceled" -> "canceled"
    [] err = "deadline" -> "timeout"
    [] OTHER -> "error"

StreamErrorCode(err) == OneOf(ErrorCodes, err)

(* streamFrameType looks at the transport as given, not as normalised. *)
StreamFrameType(transport, frame) ==
  IF transport \in Transports THEN OneOf(Frames[transport], frame) ELSE "other"

StreamFrameAttrs(transport, direction, frame) ==
  <<OneOf(Transports, transport), OneOf(Directions, direction), StreamFrameType(transport, frame)>>

(* Operation: the verb after the leading comments, "other" when a comment  *)
(* has no end or the word is no known verb.                                *)
Operation(sql) ==
  IF sql.comments > 0 /\ ~sql.terminated THEN "other" ELSE OneOf(Verbs, sql.word)

-----------------------------------------------------------------------------
(* configuredEndpoint and validateEndpoint: the environment replaces the   *)
(* configured endpoint of a signal that is enabled, and never enables one: *)
(* a disabled signal is tried with an endpoint in the environment alone.   *)
Exports == [enabled : {TRUE}, configured : {"none", "good"}, env : {"none", "good", "bad"}]
           \union [enabled : {FALSE}, configured : {"none"}, env : {"good", "bad"}]

TelemetryInit ==
  /\ export \in [Signals -> Exports]
  /\ provider = [s \in Signals |-> "none"]
  /\ setup = "starting"
  /\ lifecycle = [s \in Services |-> [state |-> "created", failed |-> FALSE, moving |-> "no"]]
  /\ counts = [x \in States |-> IF x = "created" THEN Cardinality(Services) ELSE 0]
  /\ streams = [c \in Calls |-> "new"]
  /\ gauge = [l \in {StreamAttrs} |-> 0]

Endpoint(s) == IF export[s].env # "none" THEN export[s].env ELSE export[s].configured

(* newTraceExporter and newMetricExporter may also fail by themselves. *)
Opens(s, works) == export[s].enabled /\ Endpoint(s) = "good" /\ works

(* InitWithExportConfig: traces first; when the metric exporter fails the  *)
(* trace provider is shut down again.                                      *)
InitTelemetry ==
  /\ setup = "starting"
  /\ \E tracesWork, metricsWork \in BOOLEAN :
       LET failed(s, works) == export[s].enabled /\ ~Opens(s, works) IN
         IF failed("traces", tracesWork)
           THEN setup' = "failed" /\ provider' = provider
         ELSE IF failed("metrics", metricsWork)
           THEN /\ setup' = "failed"
                /\ provider' = [provider EXCEPT !["traces"] = IF export["traces"].enabled THEN "closed" ELSE "none"]
         ELSE /\ setup' = "ready"
              /\ provider' = [s \in Signals |-> IF export[s].enabled THEN "open" ELSE "none"]
  /\ UNCHANGED <<export, lifecycle, counts, streams, gauge>>

(* Shutdown closes both providers, whatever the first one answers. *)
ShutdownTelemetry ==
  /\ setup = "ready" /\ setup' = "stopped"
  /\ provider' = [s \in Signals |-> IF provider[s] = "open" THEN "closed" ELSE provider[s]]
  /\ UNCHANGED <<export, lifecycle, counts, streams, gauge>>

-----------------------------------------------------------------------------
(* Service.Transition: nothing to do, or the counts move under the lock of *)
(* the aggregate; the state follows under the lock of the service.         *)
MoveKeepsLast(counted, from, to) ==
  [counted EXCEPT ![from] = IF @ <= 2 THEN 0 ELSE @ - 1, ![to] = @ + 1]

Move(counted, from, to) ==
  [counted EXCEPT ![from] = IF @ <= 1 THEN 0 ELSE @ - 1, ![to] = @ + 1]

BeginTransition(s, next) ==
  /\ setup = "ready" /\ lifecycle[s].moving = "no" /\ lifecycle[s].state # next
  /\ lifecycle[s].failed => next = "failed"
  /\ lifecycle' = [lifecycle EXCEPT ![s].moving = next, ![s].failed = @ \/ next = "failed"]
  /\ counts' = Move(counts, lifecycle[s].state, next)
  /\ UNCHANGED <<export, provider, setup, streams, gauge>>

EndTransition(s) ==
  /\ lifecycle[s].moving # "no"
  /\ lifecycle' = [lifecycle EXCEPT ![s].state = lifecycle[s].moving, ![s].moving = "no"]
  /\ UNCHANGED <<export, provider, setup, counts, streams, gauge>>

(* Snapshot: the positive rows, copied under the read lock. *)
Snapshot == {<<x, counts[x]>> : x \in {y \in States : counts[y] > 0}}

(* StreamOpened and StreamClosed: the gauge of active streams goes up and  *)
(* down under the same labels, without the outcome.                        *)
StreamOpened(c) ==
  /\ setup = "ready" /\ streams[c] = "new" /\ streams' = [streams EXCEPT ![c] = "open"]
  /\ gauge' = [gauge EXCEPT ![StreamAttrs] = @ + 1]
  /\ UNCHANGED <<export, provider, setup, lifecycle, counts>>

StreamClosed(c) ==
  /\ streams[c] = "open" /\ streams' = [streams EXCEPT ![c] = "closed"]
  /\ gauge' = [gauge EXCEPT ![StreamAttrs] = @ - 1]
  /\ UNCHANGED <<export, provider, setup, lifecycle, counts>>

TelemetryNext ==
  \/ InitTelemetry \/ ShutdownTelemetry
  \/ \E s \in Services : EndTransition(s) \/ \E next \in States : BeginTransition(s, next)
  \/ \E c \in Calls : StreamOpened(c) \/ StreamClosed(c)

TelemetrySpec == TelemetryInit /\ [][TelemetryNext]_telemetryVars

-----------------------------------------------------------------------------
(* However odd the method, status, frame, code or SQL that reaches a       *)
(* recorder, its labels are of the fixed enumerations: the number of       *)
(* series does not grow with the traffic (internal/metrics).               *)
Raw == {"odd", "GET", "2xx", "sse", "websocket", "event", "data", "error", "server_to_client", "INTERNAL", "SELECT"}

LabelsAreBounded ==
  \A x, y, z \in Raw :
    /\ HTTPClientCall(x, y, z)[1] \in HTTPMethods \union {"other"}
    /\ HTTPClientCall(x, y, z)[2] \in StatusClasses \union {"other"}
    /\ LET attrs == StreamFrameAttrs(x, y, z) IN
         /\ attrs[1] \in Transports \union {"other"} /\ attrs[2] \in Directions \union {"other"}
         /\ attrs[3] # "other" => attrs[1] # "other" /\ attrs[3] \in Frames[attrs[1]]
    /\ StreamErrorCode(x) \in ErrorCodes \union {"other"}
    /\ \A comments \in 0..2, terminated \in BOOLEAN :
         Operation([comments |-> comments, terminated |-> terminated, word |-> x]) \in Verbs \union {"other"}

Counted(s) == IF lifecycle[s].moving = "no" THEN lifecycle[s].state ELSE lifecycle[s].moving

(* The aggregates tell the truth at every moment they can be scraped: each *)
(* service is in exactly one row of Snapshot however many transitions are  *)
(* under way, the active gauge is the number of open streams, and no       *)
(* exporter stays open after a failed Init or a Shutdown; and no label is  *)
(* outside the enumerations (hoststate, internal/metrics, telemetry).      *)
MetricsAreTrue ==
  /\ Snapshot = {<<Counted(s), Cardinality({t \in Services : Counted(t) = Counted(s)})>> : s \in Services}
  /\ gauge[StreamAttrs] = Cardinality({c \in Calls : streams[c] = "open"})
  /\ setup \in {"failed", "stopped"} => \A s \in Signals : provider[s] # "open"
  /\ setup = "ready" => \A s \in Signals : (provider[s] = "open") <=> export[s].enabled
  /\ LabelsAreBounded

=============================================================================
