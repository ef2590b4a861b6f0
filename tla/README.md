# A verification project for appkit

TLA+ models of `github.com/forgeplex/appkit`, checked with TLC on small
instances. Every safety property that holds is also proved with TLAPS, for every
value of the constants. Paths below are relative to the repository;
`PROJECT.json` maps every definition to the lines it models.

## 1. The system

appkit is a library for modular Go services on PostgreSQL, with a set of tools
for writing them. An `App` is assembled from modules; the host starts them,
serves HTTP, and stops them in order. Modules talk through contracts (in process
or over HTTP, as single calls or as streams), through events (a transactional
outbox with an inbox on the consumer's side) and share infrastructure for
transactions, idempotency keys, jobs and migrations. The tools generate code;
they change several files of a source tree as one transaction.

### Inventory

| component | state it keeps | what is hard | what makes it correct |
|---|---|---|---|
| outbox (`outbox/`) | tables `outbox` and `inbox`; per replica the claimed batch | several replicas, crashes between any two statements, leases that run out under a live owner, lost replies | no event is lost, effects happen once, a superseded claim changes nothing, every event settles |
| idem (`idem/`) | table `idempotency_keys` | the record changes between the statements of one `Claim`; owners that outlive their TTL | one execution per claim, replays only for the same payload, only the owner stores a response, every request ends |
| host (`host.go`, `run.go`) | host state, readiness, draining flag, one error slot, services, server, hooks | Run goroutines that end at any time, failures half way through startup, a shutdown budget | what was started is drained, awaited and closed once and in order, reports are true, the host stops |
| workers and durable bus (`worker.go`, `run.go`) | goroutines, their contexts and error channel | a worker that ends during startup or shutdown | no failure is silent, the bus is closed last |
| registry and assembly (`registry.go`, `app.go`, `module.go`, ...) | providers, bindings, in-flight stack, collected routes and permissions | cycles, missing and duplicate bindings, constructors that swallow errors | only a completely resolved application is assembled |
| profiles (`bootstrap/`) | options of a deployment; resources and lifecycle flags of a `Core` | caller options between the profile's own; Start, Execute, Shutdown, Wait and Close from several goroutines | the deployment's guarantees survive, resources are released once, calls return |
| streams (`contract/stream.go`) | two bounded queues, half-closes, terminal errors | both ends, the handler, the watcher and the context close at once | an ordered queue with one terminal, nobody waits for ever |
| WebSocket (`httpserver/websocket*.go`) | the hub's connections and limits; per connection two queues, goroutines, terminal; token buckets | drains and closes while upgrades arrive, terminals that compete, slow or broken peers | limits hold, what each side is told is true, both ends let go |
| SSE (`httpserver/sse*.go`) | one response, its decoder, two streams | a response that ends before `Dial` looks; line ends at the budget | ends are true, decoded lines are the lines sent, both ends let go |
| identity (`authn/`, `callctx/`, `security.go`, `permission.go`, `contract/`) | the identity in a context and on the wire | user and service credentials in either order, step-up proofs that age, headers from outside, hops | what a hop claims never passes as verified, nothing stale lets anyone in |
| client address, outbound calls (`httpserver/`, `outbound/`) | forwarded headers; one call with redirects, body, span | forged entries and lines; outcomes that race | the right address; every call observed once, credentials stay at their origin |
| transactions (`pgtx/`, `audit/`) | transaction in the context, savepoints, session settings | nested scopes and tenants, failures and panics inside | no statement sees or writes another tenant's rows |
| jobs, migrations (`job/`, `pgmigrate/`) | advisory lock of a session; version table | lost sessions, replicas of different builds, crash between files | one holder, each file once, in order |
| workspace (`internal/workspace`) | files, transaction directories, lock | a crash between any two file operations, a recovery that crashes, other writers | all or nothing, no content lost, only the exact call recovers, readers never see a part |
| agent plans (`internal/agentplan`, `internal/cli/agent.go`) | what a planner read, the document, its digest | edits between reading, review and apply | what is applied was derived from what is there |
| database access (`internal/dbaccess`, `internal/cli/db_access*.go`) | cluster roles, privileges, policies; the file being published | role of a cluster under locks of a database, drift; power failures, other publishers | the contract is true at the commit; a name is published once and whole |
| telemetry (`telemetry/`, `internal/metrics`, `internal/hoststate`) | exporters, lifecycle and stream counts | half-built exporters, lifecycles that overlap | counts are true, labels bounded |
| ruleset (`ruleset/`) | commit workflows are pinned to | the repository moves between git commands | the pinned commit is one of appkit's |
| generators, schema tools, CLI, doctor, lint, architecture checks, values | none that outlives a call | - | golden tests of the repository |

**How they interact.** Assembly hands the host its services, workers and server.
Shutdown cancels their contexts in a fixed order; the WebSocket hub is a service
that is drained and then closed. The relay runs as a worker, calls subscribers
through the bus in its own goroutine, a subscriber wraps its business write with
`Inbox` in one PostgreSQL transaction, and the outbox row is inserted by the
publisher's own transaction. WebSocket and SSE put a network between the two ends
of a contract stream. Identity is verified at the edge and carried by contexts,
headers and event metadata. The tools read a tree under the shared lock, build a
plan, and apply it under the exclusive one. Access contracts become migrations.

Where two parts share state, one model contains both: relay, bus, inbox and the
operator in `Outbox`; host, services and caller in `Host`; both ends, both streams
and the wire in `WebSocketConn` and `SSE`; workers, bus and host hooks in `Workers`.
Parts that share no state except through PostgreSQL or the file system are
separate models, each with as much of these as it sees.

## 2. The modules

| module | models |
|---|---|
| `Outbox`, `OutboxAbs` | the outbox; what it promises |
| `OutboxBackoff` | the retry delay on fixed-width integers, against its reference |
| `Idem` | idempotency keys and the middleware |
| `Host` | application host |
| `Workers` | worker and bus hooks, goroutines, shutdown budget |
| `Assembly` | registering, resolving, contributing, collecting |
| `Profile`, `ProfileCore` | the options a profile adds up to; the lifecycle of a Core |
| `Stream`, `StreamAbs` | the in-process stream; the abstract stream it implements |
| `WebSocketHub`, `WebSocketConn`, `TokenBucket` | admission, Drain, Close; one connection end to end; rate limits |
| `SSE`, `SSEDecoder` | one call end to end; the line decoder byte by byte |
| `Identity`, `ClientIP`, `OutboundCall` | who calls; from which address; one outgoing call |
| `PgTx`, `Job`, `PgMigrate` | transactions and tenants; locked jobs; migrations |
| `Workspace`, `AgentPlan` | the file transaction; planning, review and apply |
| `DbAccess`, `AccessPublish` | access contracts and their migration; publishing the SQL file |
| `Telemetry`, `WorkflowRef` | exporters and counts; the pinned commit |
| `MCOutbox`, `MCIdem`, `MCHost`, `MCWorkspace`, `MCStream` | instances for TLC |
| `MCEndings`, `MCPlatform` | several components side by side |
| `OutboxProofs` | theorems about `Outbox`, and that it implements `OutboxAbs`; about `OutboxBackoff` |
| `HostProofs`, `WorkspaceProofs` | theorems about `Host`; about `Workspace` |
| `StreamProofs` | `Stream` implements `StreamAbs`; theorems about `WebSocketConn` |
| `EndingsProofs` | theorems about `WebSocketHub`, `SSE`, `Workers` and `ProfileCore` |
| `BoundaryProofs` | theorems about `Idem`, `Identity`, `ClientIP`, `OutboundCall` and `SSEDecoder` |
| `DatabaseProofs` | theorems about `PgTx`, `Job`, `PgMigrate` and `DbAccess` |
| `PlatformProofs` | theorems about `Assembly`, `Profile`, `TokenBucket`, `AgentPlan`, `AccessPublish`, `Telemetry` and `WorkflowRef` |

`MCEndings` and `MCPlatform` hold components that do not interact. A variable `part`
chooses one in the initial state; a behaviour is a behaviour of that component and
the variables of the others keep one value. Nothing is lost by it: a property of
one component cannot depend on the steps of another. `MCEndings` has the
components whose properties include liveness and states their fairness.

A convention: a definition whose name extends that of the definition after it
(`OwnsWithoutToken` before `Owns`) is a faulty variant of the code, a dropped guard
or a forgotten reset. No specification uses it. It stands there so that each
property can be tested against an error it is meant to catch; `PROJECT.json` says
which property belongs to which variant.

### Outbox

`rows` is the table, one record of columns per event; `inbox` the committed
`(consumer, event)` keys; `effects` counts committed business writes; `rep` holds
the locals of `relayOnce` per replica. Every SQL statement is one action, and the
claim is two (`ClaimSelect` with `FOR UPDATE SKIP LOCKED`, then `ClaimCommit`), so
that other statements come in between. `HandlerBegin` and `HandlerCommit` are the
two ends of the inbox transaction: `InboxKeyHeld` models the insert that waits
for another transaction with the same key. A row update waits for row locks
(`RowsFree`). Finalising is three statements, each of which may fail alone;
`ClaimCommitLost` commits and loses the reply; `Crash` ends a process anywhere.
Timestamps are reduced to what the WHERE clauses compare: a lease is live or
expired, a row is due or not; `LeaseExpires` and `BackoffElapses` let time pass at
any moment. Attempts are unbounded in the model and bounded by the code
(`DeadIffBudgetSpent`).

### Idem

One key (keys do not interact), its record, and any number of requests. `Insert`,
`Get` and `Takeover` are the three statements of `Store.Claim`, separate steps of a
loop of `MaxTries`. Every statement may fail, also after it took effect, and a
handler may panic or be cut off at any point. `direct` says whether direct users of
the exported `Store.Release` exist; the middleware never calls it.

### Host and Workers

The host goroutine is a program counter (`pc`, `idx`) through `runHost`,
`startManagedServices` and `shutdown`; every service has a Run goroutine that goes
live, returns, loads `draining`, reports and finishes in separate steps. `Trigger`
is the select of `runHost`; `EnterSelect` and `Wake` are the caller inside
`App.start`. Callbacks of modules succeed or fail freely; the shutdown budget may
expire at any time. Registering, resolving, migrating and setting up are one
step here, `Prepare`, and `Assembly` in detail. `Workers` has the start and stop
hooks that `worker.go` and `registerBusLifecycle` add, with the goroutine of every
worker, the error channel and the bus's own context; Drain and Close of the bus, and
Shutdown of the server, may fail within their budget as well as at its end.

### Assembly and profiles

`Assembly` runs the phases of `App.assemble` in order. What modules register,
provide, bind, resolve inside their constructors, contribute and declare is chosen
freely; the in-flight stack of the registry decides on cycles. `Reaches(k)` is what
the constructor of `k` needs, directly or through others: the least set closed under
`deps`. `Profile` has the
list of options a configuration ends in, with whatever the caller adds, and the loop of
`appkit.New`, which applies one after the other to `config` and `chain`. In
`ProfileCore` several goroutines call `Execute`, `Start`, `Shutdown`, `Wait` and `Close`
of one Core, each in the steps its mutex separates.

### Streams, WebSocket, SSE

`Stream` has the two queues of `localSession`, its flags, and per goroutine the
operation under way at the level of channel operations: a `select` takes any ready
case. The handler returns, the watcher cancels, the context ends and `Close` gives up
at any time. `StreamAbs` is what a user may rely on: messages in order, none
after the terminal that was reported. `WebSocketConn` contains the client's
goroutines and stream, the wire with its close frames, and the server's reader,
writer, watcher and handler stream; `WebSocketHub` the mutex-protected maps and
counters, with upgrades that attach while `Drain` and `Close` take their snapshots;
`TokenBucket` the clock a sender reads before it gets the lock; its history variable
`granted` has the tokens granted in all until each tick, so that a span of time is a
difference (`GrantedWithin`). Tokens are exact where the code has float64, and there may
be several senders (`Senders`) where a direction of a connection has one. `SSE` does the same
for one response, its two streams taken for what `StreamAbs` says. The context of its
request may end while the handler runs (`RequestEnds`): `serveSSE` then returns without a
word and net/http ends the body like any other. `SSEDecoder` reads a
byte at a time and is compared with a reference that splits lines at once; its text is
valid UTF-8.

### Identity, addresses, calls

`Identity` follows one request through the boundary that strips headers, user
and service verification in either order, guards, permission and step-up checks, and
from there to another component in process, over HTTP or as an event. Credentials
verify or not, and expire; the history variable `checked` has the time at which each
verifier and the guard looked at them. `ClientIP` has the two headers that may say who the
client is, both of which it may forge: X-Forwarded-For, whose first line only is read
(`FirstLine`) and to which a proxy adds on that line or on its own, and X-Client-IP, which
a proxy removes or lets pass and an internal hop sets. `OutboundCall` is one call with its
redirects, which the client refuses or http.Client gives up by itself (`RedirectFails`),
the body that another goroutine may close, and the outcome recorded once.

### PostgreSQL

`PgTx` has a stack of `Do`, savepoints, `SET LOCAL` and row security as PostgreSQL
treats them. `Job` and `PgMigrate` have sessions that hold advisory locks until they
end or are lost. `DbAccess` has what `Validate` refuses, then the rendered script
statement by statement. Roles belong to the cluster, the script's advisory lock
to a database: two migrations meet at `CREATE ROLE` and `ALTER ROLE`, where a row in
doubt makes the second wait. An operator changes policies unless the table is
locked. Any statement may fail and roll everything back.

### Workspace, plans, publications

`content` and `dirs` are the public tree, `txns` the transaction directories with
their record and backups, `caller` the locals of `Apply`, `reader` those of
`WithReadLock`, `built` the plans made so far. Every file operation that changes
something is one action: creating and writing the record, a parent, a backup, an
installation, the renaming that commits, each removal of a cleanup, and the same
for rollback and recovery. `Crash` is possible at each; because the code syncs
every rename before it goes on, a power failure is a crash one step earlier.
`Fault` and `RollbackFault` let any operation fail. `Edit` is a program that
ignores the lock; it is excluded during the renames themselves, where the comment
of `Apply` makes no promise. Contents are opaque values that stand for digest and
mode. `committed`, the files as of the last decision to commit, and `vouched`, the
transactions that exist and whose gate passed, are history variables; a name that is
used again is not vouched for.

`AgentPlan` is the layer above: each read of a planner is a step between edits, the
plan and its guards are captured, reviewed by digest and applied as one step.
`AccessPublish` has every system call of writing a new SQL file, with what is
in the directory, what is durable, other publishers and a directory replaced
under its name, also by a link between the Lstat and the resolution of the path
(`EvalSymlinks`). `WorkflowRef` has the git commands that choose a commit for a version.

### Telemetry

`Init` and `Shutdown` of the trace and metric exporters, and the counters that host and
stream code move: a lifecycle is counted in exactly one state while it lives.

## 3. The runs

| run | instance | states | what it shows |
|---|---|---|---|
| `Outbox_safety` | 2 replicas, an event with 2 subscribers and one with none, batch 2, 2 attempts, 4 tokens | 488 000 | four safety properties, and that `Outbox` implements `OutboxAbs` |
| `Idem` | 4 requests, 2 payloads, with and without direct users of the store | 663 000 | the key is kept: executions, ownership, payloads, final states; every request ends |
| `Host` | an application with listener, a Critical and an Optional service; a headless one with two Critical ones | 481 000 | cleanup is whole and in order, reports are true, the host settles |
| `Workspace_apply` | 2 callers, a reader, 3 plans over 3 files and 2 nested directories, a gate, 2 crashes, 1 failing operation, 1 edit | 246 000 | files are whole, commits sound, the exact call recovers, eventually |
| `Stream` | 2 client goroutines, 1 server goroutine, capacity 0 and 1, 2 messages | 361 000 | `Stream` implements `StreamAbs`; every operation returns |
| `WebSocketConn` | 1 request, 1 response, rendezvous queues | 1 850 000 | ends are true across both streams and the wire; both ends let go |
| `Endings` | relay: 1 replica, 3 events, two of them undeliverable ahead of a good one, claimed one at a time; hub: 2 upgrades, limits 1 and 2; SSE: 2 events, rendezvous queues; one module worker and the bus; a Core with 3 callers | 633 000 | events settle although others fail ahead of them; the hub's shutdown ends with every socket accounted for; an SSE call ends truly on both sides; workers settle; a Core settles |
| `Platform` | sixteen components, bounds in `Platform.cfg` | 1 902 000 | sixteen invariants, one per component, below |

The invariants of `Platform`:

- `AssemblyIsSound`: what starts was constructed completely, each binding once and
  after what it uses, and its routes can be served; what is refused deserved it.
- `IdentityIsSound`: who is let in, and what the handler is told, is what the
  credentials say, in whichever order they are verified; each was within its lifetime
  when it was verified, and a challenged route is entered only with a step-up proof
  that was young enough at its guard (`CredentialsAreFresh`).
- `ProfileIsKept`: no caller option loses what the deployment requires: its security
  mode, the verifiers in front of the caller's middleware, its capabilities.
- `ClientIsFound`: a request is attributed to the address it came from, whatever the
  client wrote, unless the proxies break what the middleware relies on (section 5).
- `CallIsObserved`: one outcome, the right one, per call, but for a redirect that
  http.Client gives up by itself (section 5); credentials stay at their origin.
- `RateIsKept`: no span grants more than burst and rate allow, and a sender that slept
  as long as it computed, undisturbed, need not sleep again.
- `DecodesLines`: the events are those of the lines, in order; the budget is exceeded
  exactly when the lines say so, and the end is an end exactly if the text is complete.
- `TenantIsolation`: no statement of any nesting touches another tenant's rows.
- `JobIsExclusive`: two replicas run a task at once only if one lost its session, and
  no lock stays behind. `MigratedOnce`: each file takes effect once and in order.
- `BackoffIsCappedPower`: the delay is the capped power of two, every overflow noticed.
- `AppliedIsDerived`: what is applied was derived from what is there at that moment.
- `PublishedOnce`: a published file is whole, also after a power failure, and the work
  of the one command that reported success.
- `AccessIsAsDeclared`: a migration that commits has made its contract true.
- `MetricsAreTrue`: counts equal what is alive whenever they are read, no exporter
  stays open, labels stay in their enumeration.
- `PinnedToAppKit`: a ref that is written is a commit of appkit.

`CHECK_DEADLOCK FALSE` is set where the modelled part ends by design: a stream, a
connection, a call, a command, a bounded clock.

Four runs are expected to fail. Each one checks what a comment or a document
says, and its counterexample is behaviour of the code:

- `Host_start_result`: a host that became ready and stopped cleanly before its
  caller reached the select lets `Start` return neither a handle nor an error.
- `Host_run_errors`: a ready host has two Critical services that exit by themselves.
  The first exit's error is in the slot when the second finds it full, and the error
  of the second is in nothing the host returns (ADR 0047 says later run errors are kept).
  The property speaks only of this case: the host was ready, and no error lies unread in
  `serviceErr`.
- `Workspace_torn`: a process that dies between creating `prepared.json` and
  writing it leaves a transaction that the exact plan cannot recover
  (`apply.go:61`, `docs/AGENT_WORKFLOW.md:224`). `TransactionsRecover` shows that
  this is the only such state.
- `Profile_close`: `Core.Close` decides under the lock and releases after it, so a
  Start that begins in between runs on released resources (`profiles.go:422` says
  this is not allowed).

### Why the bounds are enough

- Outbox: two replicas are what a takeover needs; a third would act like the
  first after a crash. Four tokens allow three takeovers of one event beyond its
  first claim at the same time; tokens are reused only when neither a row nor a
  replica holds them, as random ones never would be. Two attempts make a first
  failure and a last one different. The proofs below remove all these bounds for
  the safety properties. For liveness one replica with undeliverable events ahead
  of a good one is the hard case; others only help.
- Idem: four requests let a record be claimed, taken over twice and read by one with
  another payload; `MaxTries` is the code's 3.
- Host, Workers: two services give an order and a competition for the one slot of
  `serviceErr`. Nothing in the models counts further.
- Workspace: three changes cover create, update, delete and assert, before and
  after each other; two nested new directories make creating and removing
  parents a loop. Two crashes let a recovery be interrupted, one fault a
  rollback. The reader builds the plans, so a plan is applied only if its
  precondition once held.
- Stream: two goroutines at one end compete for a message and for the end of the
  stream; capacity 0 is the rendezvous, 1 the smallest queue in which a message
  waits. WebSocketConn: one message per direction can be at every station when an
  end overtakes it; with rendezvous queues every goroutine blocks at once.
- Hub: two upgrades at limit 1 compete, at limit 2 one attaches while the other is
  worked off.
- Assembly, Identity, Telemetry: inputs are paired only where code reads both. A
  module declares bindings and contributions, or codes and migrations; proofs and
  missing permissions come with the routes that look at them; a disabled exporter has
  its endpoint in the environment.
- Profile: every security configuration without additions of the caller, and every
  option of the caller, alone and in two contradicting pairs, with three of them.
- PgTx: three nested `Do` have a savepoint inside a savepoint and two tenants.
  Job, PgMigrate, AccessPublish: two competitors, two rounds or restarts.
- TokenBucket: the one sender that a direction has (the theorem is about any number), a
  rate above one, so that a delay is rounded, a burst that one payload exhausts, and a
  clock on which it fills up again. SSEDecoder: five bytes hold every order of CR, LF
  and text around a line end, at budgets that cut and do not cut.
- Identity: ticks 0 to 2 with lifetimes and leeway of one put every comparison before,
  at and after its limit; step-up proofs are issued now or a tick ago and expire now or
  a tick later. ClientIP: up to three hops, two proxies, two forged entries on one or two
  lines, and a forged X-Client-IP.
- DbAccess: two migrations in one or two databases, one table with a column, grants
  and prohibitions of three privileges that differ in kind, compatible and
  contradictory, policies that are right, missing, changed or too many, and one change by an
  operator. Other tables and roles are treated alike.
- Backoff: the loop does the same at every width; 8 bits leave room for several
  doublings and for all overflows.

`Outbox_safety` uses the symmetry of replicas and tokens, which no operator tells
apart. No run with a liveness property uses symmetry.

### Fairness

- Outbox: a replica that can take a step takes it (`Relay.Run` loops until its
  context ends), leases and delays run out because time passes, and interruptions
  (crashes, failing statements, operator retries) stop some day. A step that the
  replica may take by itself is no interruption, also when a fault would do the same.
  Nothing is assumed of handlers: they may fail for ever, which ends in a dead letter.
- Idem: a request's goroutine goes on. Others may interfere for ever.
- Host: the host goroutine, the caller and the Run goroutines go on, and the
  shutdown context expires because it has a deadline. A Run need not return when it
  is cancelled. Workers: the same; workers need not end.
- Workspace: callers and readers go on once they hold the lock. `Retry` is strongly
  fair: somebody repeats the call that an interrupted transaction belongs to, which
  `docs/AGENT_WORKFLOW.md:224` asks of the user; no code does it by itself.
- Stream: an operation whose case is ready goes on, and the timers the configuration
  makes mandatory (`MaxDuration`, `CloseTimeout`) fire. The handler need not return.
- WebSocketConn, SSE: the goroutines of both ends run, and the contexts of the
  streams end, which the validated configuration bounds. Applications need not send,
  receive or return, and the network need not break.
- Hub: handlers of attached connections and the host's calls go on; nobody's budget
  need run out and no peer need go away.
- Core: calls that began go on, and a host that was asked to stop does.

## 4. The proofs

Eight modules hold theorems; each EXTENDS the modules it is about and TLAPS. Every
theorem is about the specification the runs check and holds for every value of the
constants that satisfies the assumption of its module. An assumption is a named
`ASSUME` in the module that declares the constants; TLC evaluates it on every run.

| module | theorem | what it states |
|---|---|---|
| `OutboxProofs` | `TypeCorrect` | `Spec => []TypeOK` |
| | `PublishedMeansHandled` | `Spec => []PublishedWasHandled` |
| | `EffectsHappenOnce` | `Spec => []EffectAtMostOnce` |
| | `DeadMeansBudgetSpent` | `Spec => []DeadIffBudgetSpent` |
| | `ClaimsAreWhole` | `Spec => []ClaimIsWhole` |
| | `LiveClaimsExclude` | `Spec => LiveClaimIsExclusive` |
| | `TerminalRowsStay` | `Spec => TerminalRowsAreFinal` |
| | `OutboxImplementsAbs` | `Spec => ImplementsAbs` |
| | `BackoffsAreCappedPowers` | `BackoffSpec => []BackoffIsCappedPower` |
| `HostProofs` | `HostInvariant` | `Spec => []HostInv` |
| | `CleanupIsComplete` | `Spec => []CleanupIsWhole` |
| | `HostReportsAreTrue` | `Spec => ReportsAreTrue` |
| `WorkspaceProofs` | `FilesStayWhole` | `Spec => []FilesAreWhole` |
| | `CommitsStaySound` | `Spec => CommitsAreSound` |
| `StreamProofs` | `StreamInvariant` | `Spec => []StreamInv` |
| | `StreamImplementsAbs` | `Spec => ImplementsStreamAbs` |
| | `ConnectionsEndTruly` | `ConnSpec => []EndsAreTrue` |
| `EndingsProofs` | `HubInvariant` | `HubSpec => []HubInv` |
| | `SocketsAreAccounted` | `HubSpec => []SocketsAccounted` |
| | `SSEStreamsEndTruly` | `SSESpec => []SSEEndsAreTrue` |
| | `ShutdownsAreOrderly` | `WorkersSpec => []OrderlyShutdown` |
| | `CoreReleasesInOrder` | `CoreSpec => []CoreReleases` |
| `BoundaryProofs` | `RecordInvariant` | `Spec => []IdemInv` |
| | `KeysAreKept` | `Spec => KeyIsKept` |
| | `IdentitiesAreSound` | `IdentitySpec => []IdentityIsSound` |
| | `ClientsAreFound` | `ClientIPSpec => []ClientIsFound` |
| | `CallsAreObserved` | `CallSpec => []CallIsObserved` |
| | `EventsAreOfTheLines` | `DecoderSpec => []DecodesLines` |
| `DatabaseProofs` | `JobsAreExclusive` | `JobSpec => []JobIsExclusive` |
| | `MigratedExactlyOnce` | `MigrateSpec => []MigratedOnce` |
| | `AccessIsEffective` | `AccessSpec => []AccessIsAsDeclared` |
| | `TenantsAreIsolated` | `PgTxSpec => []TenantIsolation` |
| `PlatformProofs` | `AssembledIsSound` | `AssemblySpec => []AssemblyIsSound` |
| | `ProfilesAreKept` | `ProfileSpec => []ProfileIsKept` |
| | `RatesAreKept` | `BucketSpec => []RateIsKept` |
| | `AppliedPlansAreDerived` | `PlanSpec => []AppliedIsDerived` |
| | `PublishedExactlyOnce` | `PublishSpec => []PublishedOnce` |
| | `MetricsTellTheTruth` | `TelemetrySpec => []MetricsAreTrue` |
| | `WorkflowsArePinned` | `RefSpec => []PinnedToAppKit` |

`TypeOK`, `ClaimIsWhole` and `TerminalRowsAreFinal` of the outbox are proved and not
part of a run. `LiveClaimIsExclusive`, `ReportsAreTrue`, `KeyIsKept` and
`CommitsAreSound` contain action properties. `OrderlyShutdown` and `CoreReleases` are the
safety halves of `WorkersSettle` and `CoreSettles`, whose other halves are liveness.

**What the constants are assumed to be.** Bounds are natural numbers, marks such as
`"nobody"` or `NoGate` are not names of anything else, sets that are counted are
finite, limits are those the code's validation accepts (`ValidHubLimits`,
`ValidWebSocketConfig`, `ValidSSEConfig`). `Workspace` assumes more: plans are plans
that `Plan` validation accepts, none expects or leaves the content that stands for
foreign edits, and one of them is the longest (`PlansAssumption`); a gate is none of
the states a record may be in (`CallsAssumption`); a file that is there at first has
its directories (`FilesAssumption`). `Workers` assumes that workers have different names,
none that of a hook, `ClientIP` that no proxy is a stranger, `OutboxBackoff` that the cap
is a positive integer of the width, and `Profile` that what it is started with is a
configuration, options and flags of the types the code has, with any list of options of the
caller (`ProfileAssumption`).

**How a proof is laid out.** Hardly any property is inductive as it stands. Each has an
inductive invariant, a conjunction of named parts, that TLC checked before it was
proved; one lemma for the initial states, one for a step with one case per action,
and one that derives the property. Lemmas about the operators of the model and
about what an action leaves alone come first and are cited by name. A theorem about
an action uses the same invariant before and after the step.

### The outbox

- `ReplicaShape`: the locals of `relayOnce` fit together. Needed for everything: a
  replica at work has a current event.
- `DeliveredWasHandled`: what a replica counts as delivered, all subscribers have
  committed. It carries the fact from the handlers to the UPDATE that publishes,
  across takeovers by others. Inbox keys are never removed (`InboxGrows`), so it
  survives the steps of others.
- `InboxCounts`: the inbox counts effects, and open inbox transactions hold
  different keys not yet in it. This is the argument for exactly-once.
- `ClaimLocks`: what an open claim transaction has read is still current because its
  row locks keep others out.
- `TokenGuardsRow`: as long as a row carries a replica's token, the attempts it read
  are the row's. With `ClaimLocks` it gives `DeadIffBudgetSpent`: the decision
  `attempts + 1 >= maxAttempts` on the value read and the increment of the column
  agree.
- `SettledIsDue`: published and dead rows have nothing left to change.
- `BatchIsPresent` (for the refinement): a batch holds rows that exist. With
  `InboxCounts` and `PublishedWasHandled` it shows that a handler which commits works
  on an event that is not yet published, although its relay may have lost the claim.

`NextChangesRows` and `OnlyOneActs` say once what a step can change. The refinement takes
the conjunction of all parts (`RefInv`): `Enqueue`, `HandlerCommit`, `MarkPublished`,
a `RecordFailure` that spends the budget and `Retry` map to the five abstract
actions, every other step is a stutter.

### The host

`HostInv`: `PlaceInv` ties the loop variable, the run context, the listener and
readiness to the place of the host goroutine; `RanInv` says which stop hooks have run.
Per service, `FlagsInv` ties the flags to the progress of its Run, `StartInv` and
`CleanupInv` say what startup and shutdown have done by then, and `LifeInv` which
lifecycle it may be in. The last is the delicate one: the host goroutine and Run both
write the lifecycle, and a Run that has not begun when the host moves on must find
"failed" there, or its late "running" would move a reported lifecycle back.

### The workspace

`LockInv` excludes callers from each other and from readers. `TxnsInv` allows one
transaction directory; `ActiveInv` and `Kept` say of the active one that each target
is as committed, as edited from outside, or its old content is in the backup: this
is what every recovery relies on, also one that is interrupted. `TreeInv`
keeps the directories of a file that is only in the backup. `PlaceInv` says what a
caller knows at each place, `JournalInv` what the journal of one that commits or
rolls back says: an entry means that the backup holds the content before and that the
gate has vouched. Rollback needs it to undo no more than was done.

### Streams and connections

`StreamInv`: queues hold what fits (`QueueBounded`); one Send per direction is in its
select, and none of the client's after its half-close (`OneSender`); whoever
looks at a queue a last time was told to by the session (`LastLookIsDue`); after the end a
direction takes at most the message of the Send in its select at that moment
(`LateSendIsLast`), from which it follows that EOF comes after everything promised. Each
action of `Stream` maps to one of `StreamAbs` or to a stutter, with the abstract
queue the messages sent and not received.

`ConnInv` has the same for a connection: `CountInv` says that whatever was taken out of a
queue or off the wire is passed on or in the hands of one goroutine, unless a drain or
expiry drops it; `FrameInv` that the terminal frame is the writer's last and comes after
all the stream had accepted; `HalfInv` and `PeerInv` carry the half-close and the
terminal from one application to the other. `SSEInv` is built alike: `RecvInv` counts
the event in the hands of the receiving goroutine or of its channel, `OutInv` says what
the response may already say of the end, `ClientInv` what client and `Dial` have seen.

`HubInv`: the two maps of the hub are what the handlers think they hold
(`MapsAreRight`), sockets are open in between only (`OpenIsHeld`), and an upgrade that
`Close` overtook is on the list that `forceAll` works off or was forced
(`ClosedForces`). The limit counts reservations, not sockets: the argument is
`HeldFits`, the number of upgrades that may have a socket.

### Keys, identity, calls

`IdemInv`: `RightsAreCounted` has the number of requests that may execute or have, against
takeovers. `Release` takes a right back with the record, so the two states of the
record count differently. `StoredByOwner` and `TakeoverIsOfPayload` give ownership and
replay; the last holds only without direct users of `Release` (section 5).

`IdInv`: `StrictInv` gives, for each stage of a strict edge, exactly the context that the
credentials verified so far produce (`Told`). It is what makes the order of the
verifiers irrelevant: both orders reach the same value. `OriginInv` says what a hop
carries. `FreshInv` carries to the handler what each look at a credential found at its
time. `CallInv` says who owns the request body, who may still record the outcome
and whether a credential was sent, by where the call is.

### The database

- `JobInv`: the lock's holder is a replica with an open session, or with one that the
  server has yet to end.
- `MigInv`: the files that ran are the first of the order, and the decision a replica
  took under the lock still holds at its commit.
- `AccessInv`: per migration, what the statements so far have established and others
  cannot take back: a row of the cluster in doubt is the migration's own (`RoleInv`),
  what was granted stays (`GrantInv`), a compared table is locked (`TableInv`).
- `TxInv`: all nested `Do` share one scope, and every savepoint but the first has its
  settings (`SettingsInv`), so rolling back to any of them keeps the tenant. `WritesInv`
  says for every `Do`, under way or ended, in which savepoints its rows are; from
  this it follows that they become durable together.

### The platform

- `AsmInv`: `StackInv` describes the constructors under way: of different keys, none
  built, each waiting for the one above it and knowing how its last Resolve failed.
  `BuiltInv` gives for every built key a set of built keys, closed under dependency,
  without the key itself: what had been built when it was. So a built key never reaches
  itself, and a cycle that is reported is one: the stack from the key to the top is a
  path. That needs every key on the path, and is shown by a least counterexample
  instead of an induction.
- `BucketInv`: `BudgetInv` says that what a bucket holds, plus what it granted since any
  earlier time, fits a burst and the rate from then on. The property has only the
  second summand and is not inductive. Senders read the clock before they get the
  lock, so the bucket's time does not go back although readings do. `Enough` says that
  whoever slept long enough finds its tokens, unless another took them.
- `AgentInv`: what was read (`SeenInv`) and what the plan made of it (`PlanInv`): its
  preconditions are the states it was rendered from.
- `PublishInv`: how far a command is with its temporary file (`CommandInv`); a name that
  exists is whole and its writer's, and is lost only to a power failure (`NameInv`).
- `TelemetryInv`: counters are the cardinalities of what they count. `RefInv`: what is being
  written is a commit of AppKit, and the files before the current one have it.

### Pure computations

The provers have no induction, so each of these is shown as an invariant of the loop that
computes it, and where a recursive function is compared with, by a least counterexample.

- `BackoffInv`: `DelayInv` says that the delay is the exact product and has not
  overflowed. A double that overflows is negative or zero, for it is less than twice the
  largest integer; that the powers of two satisfy their recursive equation is proved
  first, from approximations on finite domains.
- `ClientInv`: until a hop has said who the client is, the header has an entry of the client
  with nothing but proxies behind it (`Attests`), below whatever the client wrote itself; if
  a proxy has added to the first line, that line has such an entry too.
- `DecoderInv`: what the decoder holds is the open line and the open block of the text so
  far, and the events reported are those of its blank lines, in number and in order. The
  reference is defined on the whole text; its lemmas say that a further byte leaves alone
  what is closed (`EventAtExtends`, `BlanksExtend`).
- `ProfileInv`: a list of options adds the verifiers first (`AddsVerifiers`) and ends with
  the deployment's own (`RunHanded`, `CoreHanded`); `ChainSoFar` and the two `SoFar`
  predicates say what the first options have done, however many there are.

### Shutdown of workers and of a Core

- `WorkersInv`: the result of a worker waits in its channel until its stop hook takes it
  (`ResultInv`); within the budget a hook that is over has done what it is for, and an
  error of one is in the result (`StopHooksInv`); the bus follows (`BusInv`). `StartedInv`
  says how far a start came that failed half-way.
- `CoreInv` (of `ProfileCore`): the flags tell where Start is, who holds `finishOnce` has
  waited for the host, and what is released is the end of what was opened, by whoever holds
  `cleanupOnce` (`ReleaseInv`). `DecidedInv` is the delicate one: who decided to release
  found the host gone or not yet there, unless a Close overlapped a Start
  (the run `Profile_close`).

### Only model-checked

- All liveness, for fairness and ENABLED are outside the prover: `EventSettles`,
  `RequestsEnd`, `HostSettles`, `TransactionsRecover` and the endings of streams,
  connections, hubs, SSE calls, workers and Cores.
- The four runs that are expected to fail show counterexamples; there is nothing to
  prove.

## 5. Observations

Behaviour met while modelling that no run judges, because the repository promises
nothing definite about it or because it needs unusual use:

- `idem.go:193-196` does not compare the payload again when it takes a record over;
  with direct users of `Store.Release` a request may take over a record of another
  payload (`idem.go:168` says it is the same). The middleware alone is safe.
- A WebSocket server may report a service's error before a response it had already
  admitted (`websocket.go:815-819, 948-966`; ADR 0047, line 73).
- After a lost session the database may give a job's lock to another replica while
  the first still runs its task; `job.go:53-54` says one replica at any moment.
  `JobIsExclusive` allows exactly that.
- `Recv` that reported the terminal may deliver one message on a later call, if a
  `Send` was under way when the stream ended (`stream.go:58-59`).
- The end of a request's context (a deadline of a middleware, `ReadTimeout`) makes `serveSSE`
  return without a word (`sse.go:213-214, 224-226`), so that a client may see EOF although
  the handler has not returned; `sse_client.go:50-52` says that the protocol cannot tell the
  two apart. `SSEEndsAreTrue` excepts it.
- `r.Header.Get` gives the first line of X-Forwarded-For only (`httpserver.go:248`). A proxy
  that adds its own line leaves a client's first line to be believed, and one that does not
  remove X-Client-IP passes on what a client put there (`httpserver.go:243-247`).
- A redirect whose Location cannot be parsed, or whose body cannot be had again, makes
  http.Client fail without `CheckRedirect`: the call is then recorded as a success
  (`client.go:193-198`), although `Do` returned an error.
- The error of a Critical service is also lost if it comes while the host fails to start for
  another reason: nobody reads `serviceErr` (`run.go:536`).
- An explicit `-workflow-ref` takes any 40 hexadecimal digits (`ref.go:73`), of whatever
  repository; `PinnedToAppKit` is about refs resolved from a version.
- In process a component sees the caller of the previous hop, over HTTP the calling
  service (`callctx.go:64-67`, `contract.go:52-66`).
- A schema output that vanishes before its read and is back before the guard check
  is left as it is, and `New` has no directory guard (`internal/agentplan`).
- The directory is synced after the link of a published file at best effort only: after a
  power failure the name of a published file may be gone. What `PublishedOnce` says is
  that a file under the name is whole.
- `server.Shutdown` and the first `Drain` begin together (`run.go:444`): a service may
  be drained while the listener still accepts.
- Directories that an unguarded plan created before a crash stay after its recovery.
- A later access contract that drops a grant does not revoke it: only what is
  forbidden is revoked, and `forbidden.privileges` only on tables the contract names.

## 6. Not modelled

- Code generation, schema documentation and the schema tool (`internal/gen`,
  `internal/schemadoc`, `internal/scaffold`): functions from text or a catalogue to
  text, with golden tests. Their reads and writes of the tree are in `AgentPlan`
  and `Workspace`.
- Command line dispatch, doctor, linters and architecture checks: sequential, over
  files and syntax trees, and they keep nothing.
- Values and utilities (`money`, `page`, `apperr`, `config`, `refs`) and test
  support: no state.
- Inside the modelled parts: payloads, JSON, header syntax, key scoping, cryptography;
  SQL beyond the columns and privileges the statements compare; metrics that only
  add; providers or migrations declared as late as in a Setup hook (`registry.go:163, 233`);
  invalid UTF-8 in an event stream, which the decoder refuses; an explicit `-workflow-ref`;
  health checks other than readiness; logging and panic recovery of a single
  request; path, symlink, mode and size checks of the workspace, which only reject;
  Windows, where Apply refuses to run.

## 7. Plan

Every part with state of its own is modelled and checked, and its safety is proved.
Liveness is left to TLC (section 4). What is worth doing next, in this order:

1. The parts that are modelled in part: problem decoding and response limits of service
   calls, single-request timeouts of the middleware, health checks other than readiness.
2. The conformance suite of streams (`contract/streamtest`) as a third client of
   `StreamAbs`, beside WebSocket and SSE.
3. The transactional steps of the generators (`internal/gen`), if they come to keep state
   between calls.
