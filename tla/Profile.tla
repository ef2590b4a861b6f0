------------------------------- MODULE Profile -------------------------------
(***************************************************************************)
(* What bootstrap makes of a configuration: the checks of RunWithSecurity  *)
(* and NewCore, the appkit.Options they and the caller's AppOptions hand   *)
(* to appkit.New, and the application those add up to.                     *)
(*                                                                         *)
(* An operator whose name begins with that of the definition after it is a *)
(* faulty variant of it, against which a property is tested.               *)
(***************************************************************************)
EXTENDS Naturals, Sequences

CONSTANT ProfileInputs  \* the configurations, options and flags of a process

VARIABLES
  input,    \* those of this process
  app,      \* what has become of it: "pending", "refused", in appkit.New, "built"
  options,  \* the appkit.Options handed to appkit.New
  used,     \* how many of them it has applied
  config,   \* appConfig
  chain     \* its root middleware, the outermost first

profileVars == <<input, app, options, used, config, chain>>

(* The service verifier: of SecurityOptions, of the file, both, zero value, *)
(* a configuration verifier() refuses.  The user verifier: one issuer,      *)
(* several, both, an incomplete one.                                        *)
Verifiers == {"none", "options", "config", "both", "zero", "invalid"}
UserVerifiers == {"none", "single", "issuers", "both", "incomplete"}
Modes == {"", "disabled", "user_facing", "internal_service", "mixed", "other"}
Securities == [env : {"dev", "prod"}, mode : Modes, verifier : Verifiers, user : UserVerifiers]

ServesUsers(mode) == mode \in {"user_facing", "mixed"}
ServesServices(mode) == mode \in {"internal_service", "mixed"}

(* validateHTTPSecurityWithOptions and validateUserSecurity, and the two    *)
(* sources of the service verifier.                                         *)
ValidHTTPSecurity(s) ==
  /\ s.mode \in {"disabled", "user_facing", "internal_service", "mixed"}
  /\ s.mode = "disabled" => s.env = "dev"
  /\ s.verifier \in IF ServesServices(s.mode) THEN {"options", "config"} ELSE {"none"}
  /\ s.user \in IF ServesUsers(s.mode) THEN {"single", "issuers"} ELSE {"none"}

(* An option sets a field of appConfig, or appends to the middleware. *)
Set(field, value) == [field |-> field, value |-> value]

(* Those a caller may add, as many and as often as it likes. *)
CallerOptions ==
  {Set("security", m) : m \in Modes} \cup
  {Set("http", "off"), Set("bus", "none"), Set("bus", "foreign"), Set("migrator", "foreign"),
   Set("skip", "on"), Set("disabled", "on"), Set("chain", "own"), Set("pprof", "on")}

(* Of RunWithSecurity, and of NewCore.  bus: default, NewBus, default but   *)
(* allowed for a split target, NewBus that returns nil.                     *)
Buses == {"default", "new", "allowed", "nil"}
RunInputs(securities, added) ==
  [entry : {"run"}, minimal : BOOLEAN, migrate : BOOLEAN, minimalModules : BOOLEAN, split : BOOLEAN,
   bus : Buses \ {"nil"}, url : BOOLEAN, pprof : BOOLEAN, security : securities, added : added]
CoreInputs(securities, added) ==
  [entry : {"core"}, http : BOOLEAN, pg : BOOLEAN, bus : Buses \cup {"none"}, migrations : BOOLEAN,
   probe : {"none", "loopback", "exposed", "guarded"}, split : BOOLEAN, url : BOOLEAN, pprof : BOOLEAN,
   security : securities, added : added]

ASSUME ProfileAssumption ==
  ProfileInputs \subseteq RunInputs(Securities, Seq(CallerOptions))
                            \cup CoreInputs(Securities, Seq(CallerOptions))

(* The configuration appkit.New begins with. *)
Default ==
  [http |-> "on", security |-> "", bus |-> "none", migrator |-> "none", skip |-> "off",
   disabled |-> "off", pprof |-> "off"]

ProfileInit ==
  /\ input \in ProfileInputs
  /\ app = "pending" /\ options = <<>> /\ used = 0 /\ config = Default /\ chain = <<>>

DirectBusForSplit(i) == i.split /\ i.bus = "default"

(* RunWithSecurity: what it refuses before there is an application. *)
RunRefused(i) ==
  \/ ~i.minimal /\ ~i.migrate /\ DirectBusForSplit(i)
  \/ i.minimal /\ (i.migrate \/ i.security.env # "dev" \/ ~i.minimalModules)
  \/ ~i.migrate /\ ~ValidHTTPSecurity(i.security)
  \/ ~i.minimal /\ ~i.url

(* NewCore; normalizeProbeOptions. *)
CoreRefused(i) ==
  \/ i.migrations /\ ~i.pg
  \/ i.probe # "none" /\ i.http
  \/ i.probe = "exposed"
  \/ i.pprof /\ ~i.http
  \/ i.http /\ ~ValidHTTPSecurity(i.security)
  \/ DirectBusForSplit(i)
  \/ i.pg /\ ~i.url
  \/ i.bus = "nil"

-----------------------------------------------------------------------------
(* A process that only migrates does not read its security configuration. *)
ModeOf(i) == IF i.entry = "run" /\ i.migrate THEN "" ELSE i.security.mode

(* The middleware: Base, then who is verified, the user first; pprof. *)
Chain(i) ==
  <<Set("chain", "base")>>
    \o (IF ServesUsers(ModeOf(i)) THEN <<Set("chain", i.security.user)>> ELSE <<>>)
    \o (IF ServesServices(ModeOf(i)) THEN <<Set("chain", i.security.verifier)>> ELSE <<>>)
    \o (IF i.pprof THEN <<Set("pprof", "on")>> ELSE <<>>)

DataPlane(i) == IF i.minimal THEN <<>> ELSE <<Set("migrator", "runner"), Set("bus", i.bus)>>

RunOptionsSecurityFirst(i) ==
  <<Set("security", ModeOf(i))>> \o Chain(i) \o DataPlane(i) \o i.added

(* The options of RunWithSecurity: those of the caller before the mode. *)
RunOptions(i) ==
  Chain(i) \o DataPlane(i) \o i.added \o <<Set("security", ModeOf(i))>>

(* Those of Core.Start: the capabilities come after the caller's. *)
StartOptions(i) ==
  (IF i.http THEN Chain(i) ELSE <<>>)
    \o i.added
    \o <<IF i.http THEN Set("security", i.security.mode) ELSE Set("http", "off")>>
    \o <<Set("bus", i.bus)>>
    \o <<IF i.migrations THEN Set("migrator", "runner") ELSE Set("disabled", "on")>>

(* The caller of appkit.New: it is handed the options, or not called. *)
Configure(refused, list) ==
  /\ app = "pending"
  /\ IF refused THEN app' = "refused" /\ UNCHANGED options
                ELSE app' = "new" /\ options' = list
  /\ UNCHANGED <<input, used, config, chain>>

RunWithSecurity == input.entry = "run" /\ Configure(RunRefused(input), RunOptions(input))
StartProfile == input.entry = "core" /\ Configure(CoreRefused(input), StartOptions(input))

(* appkit.New: its loop over the options, and its return. *)
ApplyOption ==
  /\ app = "new" /\ used < Len(options)
  /\ LET option == options[used + 1]
     IN IF option.field = "chain"
          THEN chain' = Append(chain, option.value) /\ UNCHANGED config
          ELSE config' = [config EXCEPT ![option.field] = option.value] /\ UNCHANGED chain
  /\ used' = used + 1
  /\ UNCHANGED <<input, app, options>>

NewReturns ==
  /\ app = "new" /\ used = Len(options)
  /\ app' = "built"
  /\ UNCHANGED <<input, options, used, config, chain>>

ProfileNext == RunWithSecurity \/ StartProfile \/ ApplyOption \/ NewReturns

ProfileSpec == ProfileInit /\ [][ProfileNext]_profileVars

-----------------------------------------------------------------------------
(* Properties. *)

(* Requests pass Base first, then the verifiers of the mode, the user's     *)
(* before the service's, none of them nil, incomplete or doubled; only then *)
(* the middleware of the caller.                                            *)
VerifiesFirst(mode) ==
  LET services == IF ServesUsers(mode) THEN 3 ELSE 2
      own == IF ServesServices(mode) THEN services + 1 ELSE services
  IN /\ Len(chain) >= own - 1 /\ chain[1] = "base"
     /\ ServesUsers(mode) => chain[2] \in {"single", "issuers"}
     /\ ServesServices(mode) => chain[services] \in {"options", "config"}
     /\ \A j \in own..Len(chain) : chain[j] = "own"

(* Whatever the caller's AppOptions set, and however often: an application  *)
(* that listens does so in the mode of its configuration, which is right    *)
(* for it, behind the verifiers of that mode; one of a Profile has no       *)
(* listener, bus or migrations beyond its capabilities; a process that only *)
(* migrates has a database (bootstrap.go:270-343, profiles.go:299-343).     *)
ProfileIsKept ==
  app = "built" =>
    /\ config.http = "on" /\ (input.entry = "core" \/ ~input.migrate) =>
         /\ config.security = input.security.mode /\ ValidHTTPSecurity(input.security)
         /\ VerifiesFirst(config.security)
    /\ input.entry = "core" =>
         /\ config.http = "on" => input.http
         /\ config.bus = input.bus
         /\ config.migrator # "none" /\ config.disabled = "off" =>
              config.migrator = "runner" /\ input.migrations /\ input.url
    /\ input.entry = "run" /\ input.migrate => input.url
=============================================================================
