------------------------------ MODULE Assembly ------------------------------
(***************************************************************************)
(* Assembly of an App: Module.Register for the modules of the target, the  *)
(* resolution of the dependency graph (local before remote, contributions  *)
(* after bindings), migrations, Setup, ManagedService factories and the    *)
(* checks before anything listens; and the Migrate entry point.            *)
(*                                                                         *)
(* The code of the modules is not known here: which keys a module          *)
(* provides, what a constructor resolves, in which order, and whether it   *)
(* gives up or carries on when a dependency fails are chosen as they       *)
(* happen.  Keys and contributions are numbers, in the order in which      *)
(* sortedBindingKeys visits them.  Providers and migrations are declared   *)
(* in Register only; the code does not stop a Setup hook from doing so.    *)
(*                                                                         *)
(* An operator whose name begins with that of the definition after it is a *)
(* faulty variant of it, against which a property is tested.               *)
(***************************************************************************)
EXTENDS Naturals, Sequences, FiniteSets, SequencesExt

CONSTANTS
  AppModules,    \* modules of the target, a sequence
  Keys,          \* binding keys
  Contributions, \* keys of contributions, disjoint from Keys
  Codes,         \* permission codes
  MaxDeclared    \* bound: routes, permission bindings and consumers of Setups

ASSUME AssemblyAssumption ==
  /\ Keys \subseteq Nat /\ Contributions \subseteq Nat
  /\ Keys \cap Contributions = {} /\ MaxDeclared \in Nat

VARIABLES
  asm,       \* entry point, phase, next module, failure, and what was declared
  local,     \* keys with a local binding
  remote,    \* keys with a remote binding
  contrib,   \* declared contributions
  stack,     \* resolving: frames of constructors under way
  built,     \* how often the constructor of a binding succeeded
  deps       \* history: what the constructor of a binding resolved and uses

asmVars == <<asm, local, remote, contrib, stack, built, deps>>
graph == <<local, remote, contrib>>
resolution == <<stack, built, deps>>

RouteKinds == {"unclassified", "public", "authenticated", "permission", "internal_service"}
SecurityModes == {"disabled", "user_facing", "internal_service", "mixed"}

AssemblyInit ==
  /\ \E entry \in {"Run", "Migrate"} :
       asm = [entry |-> entry, phase |-> "target", enabled |-> 0, next |-> 1, failure |-> "none",
              at |-> 0, mode |-> "none", migrations |-> FALSE, migrated |-> "no", codes |-> {},
              routes |-> {}, binds |-> {}, consumers |-> 0, subscribed |-> 0]
  /\ local = {} /\ contrib = {} /\ remote = {}
  /\ stack = <<>>
  /\ built = [k \in Keys \cup Contributions |-> 0]
  /\ deps = [k \in Keys \cup Contributions |-> {}]

(* Phases whose callbacks resolve at will: Setup, ManagedService factories. *)
Callbacks == {"setup", "factories"}

Fails(why) == asm' = [asm EXCEPT !.phase = "failed", !.failure = why]

-----------------------------------------------------------------------------
(* enabledModules: the modules of the target, at least one, each known. *)
EnabledModules ==
  /\ asm.phase = "target"
  /\ \/ \E n \in 1..Len(AppModules) : asm' = [asm EXCEPT !.phase = "remotes", !.enabled = n]
     \/ Fails("target")
  /\ UNCHANGED <<graph, resolution>>

(* The Remote and RemoteNamed options; a named one given twice is an error. *)
ApplyRemotes(keys) ==
  /\ asm.phase = "remotes"
  /\ \/ asm' = [asm EXCEPT !.phase = "register"] /\ remote' = keys
     \/ Fails("remote") /\ UNCHANGED remote
  /\ UNCHANGED <<local, contrib, resolution>>

(* Provide, ProvideNamed, Contribute and Permissions panic on a second      *)
(* declaration, and registerModule turns the panic into an error.           *)
ProvidedTwice(keys) == keys \cap local # {}
ContributedTwice(contributions) == contributions \cap contrib # {}
DeclaredTwice(codes) == codes \cap asm.codes # {}

Register(keys, contributions, codes, migrations) ==
  /\ asm.phase = "register" /\ asm.next <= asm.enabled
  /\ IF ProvidedTwice(keys) \/ ContributedTwice(contributions) \/ DeclaredTwice(codes)
     THEN Fails("duplicate") /\ UNCHANGED <<local, contrib>>
     ELSE /\ local' = local \cup keys /\ contrib' = contrib \cup contributions
          /\ asm' = [asm EXCEPT !.next = @ + 1, !.codes = @ \cup codes,
                                !.migrations = @ \/ migrations]
  /\ UNCHANGED <<remote, resolution>>

(* Register returns an error or panics, or an argument of it is invalid:    *)
(* the name of an instance, a nil constructor, a ManagedService.            *)
RegisterFails ==
  /\ asm.phase = "register" /\ Fails("register")
  /\ UNCHANGED <<graph, resolution>>

(* validateSecurityMode, for Run. *)
Registered ==
  /\ asm.phase = "register" /\ asm.next > asm.enabled
  /\ \/ asm.entry = "Migrate" /\ asm' = [asm EXCEPT !.phase = "migrate"]
     \/ asm.entry = "Run" /\ asm' = [asm EXCEPT !.phase = "resolve"]
     \/ asm.entry = "Run" /\ Fails("mode")
  /\ UNCHANGED <<graph, resolution>>

-----------------------------------------------------------------------------
(* Registry.resolve.  A frame is a constructor under way: its key, and      *)
(* the Resolve it is in, and how that failed, at which key.                 *)
Inflight == {stack[i].key : i \in 1..Len(stack)}

Frame(k) == [key |-> k, dep |-> 0, err |-> "none", at |-> 0]

(* deps of a constructor that is called again, after an ignored error. *)
Restarted(k) == [deps EXCEPT ![k] = {}]

(* What the caller of resolve(k) is told; a binding that is found and is    *)
(* neither resolved nor under way is constructed.                           *)
LookupIgnoringInflight(k) ==
  CASE k \notin local \cup remote -> "missing"
    [] k \in local \cup remote /\ built[k] > 0 -> "value"
    [] OTHER -> "construct"

Lookup(k) ==
  CASE k \notin local \cup remote -> "missing"
    [] k \in local \cup remote /\ built[k] > 0 -> "value"
    [] k \in local \cup remote /\ built[k] = 0 /\ k \in Inflight -> "cycle"
    [] OTHER -> "construct"

(* The constructor on top resolves k. *)
ConstructorResolves(k) ==
  /\ stack # <<>> /\ Last(stack).err = "none"
  /\ k \notin deps[Last(stack).key]
  /\ deps' = [(IF Lookup(k) = "construct" THEN Restarted(k) ELSE deps)
                EXCEPT ![Last(stack).key] = @ \cup {k}]
  /\ LET waiting == [stack EXCEPT ![Len(stack)].dep = k] IN
     stack' = CASE Lookup(k) = "value" -> stack
                [] Lookup(k) = "construct" -> Append(waiting, Frame(k))
                [] OTHER -> [waiting EXCEPT ![Len(stack)].err = Lookup(k), ![Len(stack)].at = k]
  /\ UNCHANGED <<asm, graph, built>>

(* It carries on without a dependency that failed ... *)
ConstructorIgnores ==
  /\ stack # <<>> /\ Last(stack).err # "none"
  /\ stack' = [stack EXCEPT ![Len(stack)].err = "none"]
  /\ deps' = [deps EXCEPT ![Last(stack).key] = @ \ {Last(stack).dep}]
  /\ UNCHANGED <<asm, graph, built>>

(* ResolveContributions: refused until all of them are resolved. *)
ConstructorCollects ==
  /\ stack # <<>> /\ Last(stack).err = "none" /\ asm.phase = "resolve"
  /\ stack' = [stack EXCEPT ![Len(stack)].err = "early", ![Len(stack)].dep = 0]
  /\ UNCHANGED <<asm, graph, built, deps>>

(* The caller of the constructor on top gets its error: the constructor     *)
(* below, or resolveAll, resolveContribution or Setup.                      *)
ReturnError(err, k) ==
  /\ stack' = IF Len(stack) = 1 THEN <<>>
              ELSE [Front(stack) EXCEPT ![Len(stack) - 1].err = err, ![Len(stack) - 1].at = k]
  /\ \/ Len(stack) = 1 /\ asm' = [asm EXCEPT !.phase = "failed", !.failure = err, !.at = k]
     \/ Len(stack) > 1 /\ UNCHANGED asm
     \/ Len(stack) = 1 /\ asm.phase \in Callbacks /\ UNCHANGED asm   \* the callback ignores it

(* ... or returns the error, or one of its own. *)
ConstructorFails ==
  /\ stack # <<>>
  /\ ReturnError(IF Last(stack).err = "none" THEN "constructor" ELSE Last(stack).err,
                 Last(stack).at)
  /\ UNCHANGED <<graph, built, deps>>

ConstructorReturns ==
  /\ stack # <<>> /\ Last(stack).err = "none"
  /\ built' = [built EXCEPT ![Last(stack).key] = @ + 1]
  /\ stack' = Front(stack)
  /\ UNCHANGED <<asm, graph, deps>>

(* resolveAll: every local binding, then every contribution, in order. *)
Unresolved == {k \in local : built[k] = 0}
Uncontributed == {k \in contrib : built[k] = 0}

ResolveNext ==
  /\ asm.phase = "resolve" /\ stack = <<>> /\ Unresolved \cup Uncontributed # {}
  /\ LET pending == IF Unresolved # {} THEN Unresolved ELSE Uncontributed
         k == CHOOSE k \in pending : \A j \in pending : k <= j
     IN stack' = <<Frame(k)>> /\ deps' = Restarted(k)
  /\ UNCHANGED <<asm, graph, built>>

Resolved ==
  /\ asm.phase = "resolve" /\ stack = <<>> /\ Unresolved \cup Uncontributed = {}
  /\ asm' = [asm EXCEPT !.phase = "migrate"]
  /\ UNCHANGED <<graph, resolution>>

-----------------------------------------------------------------------------
(* migrate, and App.Migrate: a declared migration is applied, is skipped by *)
(* declaration, or is an error; Migrate does not know SkipMigrations.       *)
Migrate(capability) ==
  /\ asm.phase = "migrate" /\ stack = <<>>
  /\ LET done == IF asm.entry = "Run" THEN "setup" ELSE "migrated" IN
     CASE ~asm.migrations -> asm' = [asm EXCEPT !.phase = done]
       [] asm.migrations /\ capability = "skip" /\ asm.entry = "Run" ->
            asm' = [asm EXCEPT !.phase = done, !.migrated = "skipped"]
       [] asm.migrations /\ capability = "migrator" ->
            \/ asm' = [asm EXCEPT !.phase = done, !.migrated = "applied"]
            \/ Fails("migration")
       [] OTHER -> Fails("no_migrator")
  /\ UNCHANGED <<graph, resolution>>

-----------------------------------------------------------------------------
(* A Setup resolves bindings (a remote one is constructed now), mounts      *)
(* routes, binds permission codes and declares consumers.                   *)
SetupResolves(k) ==
  /\ asm.phase \in Callbacks /\ stack = <<>>
  /\ CASE Lookup(k) = "value" -> UNCHANGED <<stack, asm>>
       [] Lookup(k) = "construct" -> stack' = <<Frame(k)>> /\ UNCHANGED asm
       [] OTHER -> /\ asm' = [asm EXCEPT !.phase = "failed", !.failure = Lookup(k), !.at = k]
                   /\ UNCHANGED stack
  /\ deps' = IF Lookup(k) = "construct" THEN Restarted(k) ELSE deps
  /\ UNCHANGED <<graph, built>>

SetupDeclares(routes, binds, consumers) ==
  /\ asm.phase = "setup" /\ stack = <<>>
  /\ Cardinality(asm.routes) + Cardinality(asm.binds) + asm.consumers < MaxDeclared
  /\ asm' = [asm EXCEPT !.routes = @ \cup routes, !.binds = @ \cup binds,
                        !.consumers = @ + consumers]
  /\ UNCHANGED <<graph, resolution>>

(* A Setup returns an error or panics. *)
SetupFails ==
  /\ asm.phase = "setup" /\ stack = <<>> /\ Fails("setup")
  /\ UNCHANGED <<graph, resolution>>

SetupsDone ==
  /\ asm.phase = "setup" /\ stack = <<>>
  /\ asm' = [asm EXCEPT !.phase = "factories"]
  /\ UNCHANGED <<graph, resolution>>

(* resolveManagedServices: every factory returns a service, or one of them  *)
(* returns an error or nil, or panics.                                      *)
ResolveManagedServices ==
  /\ asm.phase = "factories" /\ stack = <<>>
  /\ asm' = [asm EXCEPT !.phase = "validate"] \/ Fails("factory")
  /\ UNCHANGED <<graph, resolution>>

(* The routes a mode cannot serve (validateRouteSecurity). *)
Refused(mode) ==
  CASE mode = "disabled" -> {}
    [] mode = "user_facing" -> {"unclassified", "internal_service"}
    [] mode = "internal_service" -> {"unclassified", "authenticated", "permission"}
    [] mode = "mixed" -> {"unclassified"}

PermsDeclared == asm.binds \subseteq asm.codes

(* validateRouteSecurity, or validateHeadlessRoutes without HTTP; then      *)
(* validatePermBindings.                                                    *)
Validate(mode, pprof) ==
  /\ asm.phase = "validate"
  /\ LET refused == IF mode = "headless" THEN asm.routes # {} \/ pprof
                    ELSE asm.routes \cap Refused(mode) # {} \/ (mode = "user_facing" /\ pprof)
     IN IF refused \/ ~PermsDeclared THEN Fails("validation")
        ELSE asm' = [asm EXCEPT !.phase = "subscribe", !.mode = mode]
  /\ UNCHANGED <<graph, resolution>>

(* subscribeConsumers: consumers without a bus are an error. *)
Subscribe(hasBus) ==
  /\ asm.phase = "subscribe"
  /\ IF asm.consumers > 0 /\ ~hasBus THEN Fails("no_bus")
     ELSE asm' = [asm EXCEPT !.phase = "mux", !.subscribed = asm.consumers]
  /\ UNCHANGED <<graph, resolution>>

(* buildMux: a pattern mounted twice is an error. *)
BuildMux ==
  /\ asm.phase = "mux"
  /\ asm' = [asm EXCEPT !.phase = "starting"] \/ Fails("mux")
  /\ UNCHANGED <<graph, resolution>>

(* A module declares bindings and contributions, or codes and migrations:   *)
(* the two meet only in what all modules together declare.                  *)
AssemblyNext ==
  \/ EnabledModules
  \/ \E keys \in SUBSET Keys : ApplyRemotes(keys)
  \/ \E keys \in SUBSET Keys, cs \in SUBSET Contributions : Register(keys, cs, {}, FALSE)
  \/ \E codes \in SUBSET Codes, mig \in BOOLEAN : Register({}, {}, codes, mig)
  \/ RegisterFails \/ Registered
  \/ \E k \in Keys : ConstructorResolves(k) \/ SetupResolves(k)
  \/ ConstructorIgnores \/ ConstructorFails \/ ConstructorReturns \/ ConstructorCollects \/ ResolveNext \/ Resolved
  \/ \E capability \in {"none", "disabled", "skip", "migrator"} : Migrate(capability)
  \/ \E route \in RouteKinds : SetupDeclares({route}, {}, 0)
  \/ \E code \in Codes : SetupDeclares({}, {code}, 0)
  \/ SetupDeclares({}, {}, 1)
  \/ SetupFails \/ SetupsDone \/ ResolveManagedServices
  \/ \E mode \in SecurityModes \cup {"headless"}, pprof \in BOOLEAN : Validate(mode, pprof)
  \/ \E hasBus \in BOOLEAN : Subscribe(hasBus)
  \/ BuildMux

AssemblySpec == AssemblyInit /\ [][AssemblyNext]_asmVars

-----------------------------------------------------------------------------
(* Properties. *)

(* What the constructor of k depends on, directly or through others: it is  *)
(* in every set of keys that holds its dependencies and theirs.             *)
Reaches(k) ==
  {j \in Keys : \A S \in SUBSET Keys : (deps[k] \subseteq S /\ \A i \in S : deps[i] \subseteq S) => j \in S}

(* What starts is assembled: every declared binding and contribution was    *)
(* constructed, exactly once, after everything it depends on (unless its    *)
(* constructor chose to live without it), declared migrations were applied  *)
(* or skipped by declaration, every route can be served under the mode and  *)
(* every consumer is subscribed.  And what is refused deserved it: a        *)
(* missing binding is missing, and a reported cycle is one                  *)
(* (registry.go:295-326, 339-353, run.go:42-103).                           *)
AssemblyIsSound ==
  /\ asm.phase = "starting" =>
       /\ \A k \in local \cup contrib : built[k] = 1
       /\ \A k \in Keys \cup Contributions : built[k] = 1 =>
            \A j \in deps[k] : built[j] = 1 /\ k \notin Reaches(j)
       /\ asm.migrations => asm.migrated \in {"applied", "skipped"}
       /\ asm.mode = "headless" => asm.routes = {}
       /\ asm.mode \in {"user_facing", "internal_service", "mixed"} => "unclassified" \notin asm.routes
       /\ asm.binds \subseteq asm.codes /\ asm.subscribed = asm.consumers
  /\ \A k \in Keys \cup Contributions : built[k] <= 1
  /\ asm.failure = "missing" => asm.at \notin local \cup remote
  /\ asm.failure = "cycle" => asm.at \in Reaches(asm.at)
=============================================================================
