----------------------------- MODULE MCPlatform -----------------------------
(***************************************************************************)
(* The components whose properties are invariants and which do not         *)
(* interact: a behaviour is one of them (part), and the variables of the   *)
(* others keep one initial value.                                          *)
(***************************************************************************)
EXTENDS Assembly, Identity, Profile, ClientIP, OutboundCall, TokenBucket, SSEDecoder,
        PgTx, Job, PgMigrate, OutboxBackoff, AgentPlan, AccessPublish, DbAccess, Telemetry,
        WorkflowRef

VARIABLE part

platformVars ==
  <<part, asmVars, idVars, profileVars, ipVars, callVars, bucketVars, decoderVars, txVars,
    jobVars, migVars, backoffVars, planVars, publishVars, accessVars, telemetryVars, refVars>>

TwoModules == <<"a", "b">>

(* Access contracts: one that only reads, and what changes it. *)
Reads ==
  [header |-> "sound", required |-> {}, excluded |-> {"legacy"}, tables |-> ("t" :> {"SELECT"}),
   columns |-> ("t" :> Unlisted), attributes |-> MandatoryForbidden, privileges |-> {}, mutations |-> {},
   rls |-> ("t" :> [declared |-> FALSE])]
Protects(policySet, forced) ==
  [Reads EXCEPT !.rls["t"] = [declared |-> TRUE, enabled |-> TRUE, forced |-> forced, exact |-> TRUE,
                              policies |-> policySet]]
TheContracts ==
  {[Reads EXCEPT !.tables["t"] = g, !.columns["t"] = c, !.privileges = f[1], !.mutations = f[2]] :
     g \in {Unlisted, {"SELECT"}, {"SELECT", "INSERT"}}, c \in {Unlisted, {"INSERT"}},
     f \in {<<{}, {}>>, <<{"SELECT"}, {}>>, <<{"DELETE"}, {}>>, <<{}, {"t"}>>}}
  \cup {Protects({}, TRUE), Protects({[name |-> "p", body |-> "declared"]}, TRUE), Protects({}, FALSE),
        Protects({[name |-> "p", body |-> "malformed"]}, TRUE)}
  \cup {[Reads EXCEPT !.required = {r}, !.excluded = x] : r \in {"legacy", "permission"}, x \in {{}, {"legacy"}}}
  \cup {[Reads EXCEPT !.tables["t"] = {}], [Reads EXCEPT !.attributes = {"SUPERUSER"}], [Reads EXCEPT !.header = "unsound"]}
TheMigrations == ("m1" :> TheContracts) @@ ("m2" :> {Reads, [Reads EXCEPT !.required = {"legacy"}, !.excluded = {}]})

(* Every security, and, with a few of them, what a caller adds: one option  *)
(* of each kind, or two that contradict the deployment.                     *)
SomeSecurities ==
  {[env |-> "dev", mode |-> "", verifier |-> "none", user |-> "none"],
   [env |-> "prod", mode |-> "disabled", verifier |-> "none", user |-> "none"],
   [env |-> "prod", mode |-> "mixed", verifier |-> "config", user |-> "issuers"]}
Additions ==
  {<<>>} \cup {<<o>> : o \in CallerOptions}
    \cup {<<Set("chain", "own"), Set("security", "disabled")>>, <<Set("bus", "foreign"), Set("migrator", "foreign")>>}
TheProfiles ==
  RunInputs(Securities, {<<>>}) \cup RunInputs(SomeSecurities, Additions)
    \cup CoreInputs(SomeSecurities, Additions)
    \cup {i \in CoreInputs(Securities, {<<>>}) : i.http /\ i.probe = "none" /\ ~i.pprof}

Parts == {"assembly", "identity", "profile", "clientip", "outbound", "bucket", "decoder", "tx",
          "job", "migrate", "backoff", "plan", "publish", "access", "telemetry", "workflow"}

(* Components with many inputs rest without any.  The two databases are    *)
(* interchangeable: the first access migration runs in the first.          *)
IdentityRests ==
  /\ now = 0 /\ edge = [strict |-> FALSE] /\ request = "none" /\ view = "none"
  /\ stage = "rests" /\ origin = [via |-> "none"] /\ checked = "none"
ProfileRests ==
  /\ input = "none" /\ app = "pending" /\ options = <<>> /\ used = 0 /\ config = Default /\ chain = <<>>
PlanRests ==
  /\ disk = "none" /\ command = "none" /\ seen = "none" /\ listed = {} /\ plan = "none"
  /\ captured = "none" /\ document = "none" /\ applied = <<>> /\ exit = "rests" /\ edits = 0
AccessRests ==
  /\ manifest = "none" /\ location = "none" /\ cluster = "none" /\ db = "none" /\ policies = "none"
  /\ tx = [m \in Migrations |-> [at |-> "rests"]] /\ work = "none" /\ rowHolder = "none" /\ drifts = 0
BackoffRests == base = 1 /\ attempts = 0 /\ delay = 1 /\ doubled = 0 /\ result = 0

PlatformInit ==
  /\ part \in Parts
  /\ BucketInit /\ JobInit /\ PublishInit
  /\ AssemblyInit /\ (part = "assembly" \/ asm.entry = "Run")
  /\ DecoderInit /\ (part = "decoder" \/ budget = 9)
  /\ PgTxInit /\ (part = "tx" \/ \A f \in DOMAIN table : table[f])
  /\ MigrateInit /\ (part = "migrate" \/ (history = [f \in 1..Files |-> "none"]
                                         /\ \A b \in Builds, f \in 1..Files : content[b][f] = "a"))
  /\ ClientIPInit /\ (part = "clientip" \/ (/\ forwarded = <<>> /\ relayed = "absent"
                                            /\ client = CHOOSE c \in Strangers : TRUE))
  /\ CallInit /\ (part = "outbound" \/ (/\ \A f \in DOMAIN httpClient : httpClient[f]
                                        /\ out = [url |-> TRUE, to |-> "origin", host |-> "origin",
                                                  trailer |-> FALSE, ctx |-> TRUE, identity |-> FALSE]))
  /\ TelemetryInit /\ (part = "telemetry" \/ \A s \in Signals :
                          export[s] = [enabled |-> TRUE, configured |-> "good", env |-> "none"])
  /\ RefInit /\ (part = "workflow" \/ (head = "k1" /\ build = [main |-> "appkit", revision |-> "none"]
                                       /\ version = "v1"))
  /\ IF part = "access" THEN AccessInit /\ location["m1"] = "d1" ELSE AccessRests
  /\ IF part = "backoff" THEN BackoffInit ELSE BackoffRests
  /\ IF part = "plan" THEN PlanInit ELSE PlanRests
  /\ IF part = "identity" THEN IdentityInit ELSE IdentityRests
  /\ IF part = "profile" THEN ProfileInit ELSE ProfileRests

Runs(p) == part = p /\ UNCHANGED part

(* Every other component rests. *)
OthersRest ==
  /\ IF part = "assembly" THEN TRUE ELSE UNCHANGED asmVars
  /\ IF part = "identity" THEN TRUE ELSE UNCHANGED idVars
  /\ IF part = "profile" THEN TRUE ELSE UNCHANGED profileVars
  /\ IF part = "clientip" THEN TRUE ELSE UNCHANGED ipVars
  /\ IF part = "outbound" THEN TRUE ELSE UNCHANGED callVars
  /\ IF part = "bucket" THEN TRUE ELSE UNCHANGED bucketVars
  /\ IF part = "decoder" THEN TRUE ELSE UNCHANGED decoderVars
  /\ IF part = "tx" THEN TRUE ELSE UNCHANGED txVars
  /\ IF part = "job" THEN TRUE ELSE UNCHANGED jobVars
  /\ IF part = "migrate" THEN TRUE ELSE UNCHANGED migVars
  /\ IF part = "backoff" THEN TRUE ELSE UNCHANGED backoffVars
  /\ IF part = "plan" THEN TRUE ELSE UNCHANGED planVars
  /\ IF part = "publish" THEN TRUE ELSE UNCHANGED publishVars
  /\ IF part = "access" THEN TRUE ELSE UNCHANGED accessVars
  /\ IF part = "telemetry" THEN TRUE ELSE UNCHANGED telemetryVars
  /\ IF part = "workflow" THEN TRUE ELSE UNCHANGED refVars

PlatformNext ==
  /\ \/ Runs("assembly") /\ AssemblyNext
     \/ Runs("identity") /\ IdentityNext
     \/ Runs("profile") /\ ProfileNext
     \/ Runs("clientip") /\ ClientIPNext
     \/ Runs("outbound") /\ CallNext
     \/ Runs("bucket") /\ BucketNext
     \/ Runs("decoder") /\ DecoderNext
     \/ Runs("tx") /\ PgTxNext
     \/ Runs("job") /\ JobNext
     \/ Runs("migrate") /\ MigrateNext
     \/ Runs("backoff") /\ BackoffNext
     \/ Runs("plan") /\ PlanNext
     \/ Runs("publish") /\ PublishNext
     \/ Runs("access") /\ AccessNext
     \/ Runs("telemetry") /\ TelemetryNext
     \/ Runs("workflow") /\ RefNext
  /\ OthersRest

PlatformSpec == PlatformInit /\ [][PlatformNext]_platformVars
=============================================================================
