------------------------------- MODULE Identity -------------------------------
(***************************************************************************)
(* Who a request comes from: the identity boundary of App.wrap, the        *)
(* middleware that read headers and verify user and service credentials,   *)
(* the guards of the routes, and what crosses to the next component: a     *)
(* contract call in process or through NewSecureHTTPClient, or an event.   *)
(*                                                                         *)
(* A credential is a record; kind "forged" stands for every one that does  *)
(* not verify whatever the time (signature, type, issuer, purpose, missing *)
(* exp, a subject that is not allowed, two headers).  An empty string is   *)
(* an absent value, as in the code.                                        *)
(*                                                                         *)
(* An operator whose name begins with that of the definition after it is a *)
(* faulty variant of it, against which a property is tested.               *)
(***************************************************************************)
EXTENDS Integers, Sequences

CONSTANTS
  StepUpMaxAge,  \* stepUpMaxAge, in ticks
  CredentialTTL, \* TTL of the ServiceSigner, in ticks
  MaxTTL,        \* longest lifetime the ServiceVerifier accepts
  ClockSkew,     \* its leeway
  MaxTime        \* bound of the clock

ASSUME IdentityAssumption == {StepUpMaxAge, CredentialTTL, MaxTTL, ClockSkew, MaxTime} \subseteq Nat

VARIABLES
  now,     \* clock
  edge,    \* the receiving application: strict or disabled, verifiers, route
  request, \* what arrived: headers and credentials
  view,    \* ctx of the request, as the middleware rebuilt it
  stage,   \* how far the request is
  origin,  \* history: the ctx of the handler that made this call, its means
  checked  \* history: when the two verifiers and the guard looked at the request

idVars == <<now, edge, request, view, stage, origin, checked>>

Tenants == {"", "t"}
Partitions == {"", "p"}
Issuers == {"i", "j"}
PartitionOf(iss) == IF iss = "i" THEN "p" ELSE ""    \* Issuer.Partition

Meta(tenant, partition, caller) == [tenant |-> tenant, partition |-> partition, caller |-> caller]
NoMeta == Meta("", "", "")

NoUser == [kind |-> "none", iss |-> "", tid |-> "", perms |-> FALSE, exp |-> 0]
UserTokens ==
  {NoUser, [NoUser EXCEPT !.kind = "forged"]} \cup
  [kind : {"access"}, iss : Issuers, tid : Tenants, perms : BOOLEAN, exp : {1}]

(* Step-up proofs: of the same issuer and subject, or not (then forged). *)
NoStepUp == [kind |-> "none", iat |-> 0, exp |-> 0]
StepUps ==
  {NoStepUp, [NoStepUp EXCEPT !.kind = "forged"]} \cup [kind : {"proof"}, iat : {0 - 1, 0}, exp : {0, 1}]

NoService == [kind |-> "none", sub |-> "", tid |-> "", partition |-> "", iat |-> 0, exp |-> 0]
ServiceTokens ==
  {NoService, [NoService EXCEPT !.kind = "forged"]} \cup
  [kind : {"service"}, sub : {"s"}, tid : Tenants, partition : Partitions, iat : {0, 1}, exp : {1}]

(* ctx values; the zero of StepUpAt is long ago. *)
NoActor == [user |-> FALSE, tid |-> "", perms |-> FALSE, stepUpAt |-> 0 - 1 - StepUpMaxAge]
EmptyView == [meta |-> NoMeta, actor |-> NoActor, principal |-> "", scoped |-> FALSE,
              untrusted |-> NoMeta, expiry |-> 0]

Orders == {<<"user", "service">>, <<"service", "user">>}
Routes == {"public", "authenticated", "permission", "challenge", "internal_service", "probe"}

(* A request arrives; values a BaseContext may have put into its ctx too.   *)
(* Proofs and missing permissions come with the routes that look at them,  *)
(* and the disabled mode with one route: it guards nothing.                 *)
IdentityInit ==
  /\ now = 0
  /\ edge \in [strict : BOOLEAN, order : Orders, route : Routes]
  /\ request \in [headers : [tenant : Tenants, partition : Partitions, caller : {"", "c"}],
                  user : UserTokens, stepUp : StepUps, service : ServiceTokens]
  /\ request.user.kind # "access" => request.stepUp = NoStepUp
  /\ edge.route \notin {"permission", "challenge"} => request.user.perms = (request.user.kind = "access")
  /\ edge.route # "challenge" => request.stepUp.kind # "proof"
  /\ ~edge.strict => edge.route = "public"
  /\ view \in {EmptyView, [EmptyView EXCEPT !.meta.tenant = "t", !.actor.user = TRUE]}
  /\ stage = "arrived"
  /\ origin = [via |-> "network", meta |-> NoMeta]
  /\ checked = [user |-> 0, service |-> 0, guard |-> 0]

Tick ==
  /\ now < MaxTime /\ stage # "refused" /\ now' = now + 1
  /\ UNCHANGED <<edge, request, view, stage, origin, checked>>

-----------------------------------------------------------------------------
(* identityBoundary, unless the mode is disabled: the identity headers are  *)
(* moved out of reach, and what the ctx held is cleared.                    *)
IdentityBoundaryKeepingHeaders ==
  /\ stage = "arrived" /\ stage' = "bounded"
  /\ view' = IF edge.strict THEN [EmptyView EXCEPT !.untrusted = request.headers] ELSE view
  /\ UNCHANGED <<now, edge, request, origin, checked>>

IdentityBoundary ==
  /\ stage = "arrived" /\ stage' = "bounded"
  /\ IF edge.strict
     THEN /\ view' = [EmptyView EXCEPT !.untrusted = request.headers]
          /\ request' = [request EXCEPT !.headers = NoMeta]
     ELSE UNCHANGED <<view, request>>
  /\ UNCHANGED <<now, edge, origin, checked>>

(* callctx.Merge: the fields that are not empty replace those of the ctx. *)
Merge(meta, m) ==
  [f \in DOMAIN meta |-> IF m[f] # "" THEN m[f] ELSE meta[f]]

(* RequestID: the whitelist of the headers goes into the ctx. *)
RequestID ==
  /\ stage = "bounded" /\ stage' = "first"
  /\ view' = [view EXCEPT !.meta = Merge(@, request.headers)]
  /\ UNCHANGED <<now, edge, request, origin, checked>>

-----------------------------------------------------------------------------
(* parseStepUp: its age is the business of the route. *)
StepUpRefused(t) ==
  request.stepUp.kind = "forged" \/ (request.stepUp.kind = "proof" /\ t >= request.stepUp.exp)

(* authn.MultiIssuer. *)
UserRefused(v, t) ==
  \/ request.user.kind = "forged"
  \/ /\ request.user.kind = "access"
     /\ \/ t >= request.user.exp
        \/ v.scoped /\ \/ v.meta.tenant # request.user.tid
                       \/ v.meta.partition # PartitionOf(request.user.iss)
        \/ StepUpRefused(t)

WithUser(v) ==
  IF request.user.kind = "none" THEN v
  ELSE LET u == request.user IN
       [v EXCEPT !.actor = [user |-> TRUE, tid |-> u.tid, perms |-> u.perms,
                            stepUpAt |-> IF request.stepUp.kind = "proof" THEN request.stepUp.iat
                                         ELSE NoActor.stepUpAt],
                 !.expiry = u.exp,
                 !.meta.tenant = u.tid,
                 !.meta.partition = IF PartitionOf(u.iss) # "" THEN PartitionOf(u.iss) ELSE @]

(* checkServiceHeaders: an unsigned header says something else. *)
Contradicts(m, s) ==
  \/ m.caller \notin {"", s.sub} \/ m.tenant \notin {"", s.tid} \/ m.partition \notin {"", s.partition}

(* The lifetime of a service credential, at time t of the recipient. *)
Expired(s, t) ==
  \/ t >= s.exp + ClockSkew \/ t + ClockSkew < s.iat
  \/ s.exp - s.iat \notin 1..MaxTTL

(* ServiceVerifier.Middleware and verify; the delegation policy may refuse  *)
(* any scope that is not empty.                                             *)
ServiceRefused(v, t, denied) ==
  \/ request.service.kind = "forged"
  \/ /\ request.service.kind = "service"
     /\ LET s == request.service IN
        \/ Expired(s, t)
        \/ denied /\ (s.tid # "" \/ s.partition # "")
        \/ Contradicts(request.headers, s) \/ Contradicts(v.untrusted, s)
        \/ v.actor.user /\ (v.actor.tid # s.tid \/ v.meta.partition # s.partition)

WithService(v) ==
  IF request.service.kind = "none" THEN v
  ELSE LET s == request.service IN
       [v EXCEPT !.meta = Meta(s.tid, s.partition, s.sub), !.principal = s.sub, !.scoped = TRUE]

CredentialRefused(who, v, t, denied) ==
  IF who = "user" THEN UserRefused(v, t) ELSE ServiceRefused(v, t, denied)
Verified(who, v) == IF who = "user" THEN WithUser(v) ELSE WithService(v)

(* One of the two verifiers; neither looks at the probes. *)
Verify(n, at, next, denied) ==
  /\ stage = at
  /\ IF edge.route = "probe" THEN stage' = next /\ UNCHANGED view
     ELSE IF CredentialRefused(edge.order[n], view, now, denied) THEN stage' = "refused" /\ UNCHANGED view
     ELSE stage' = next /\ view' = Verified(edge.order[n], view)
  /\ checked' = [checked EXCEPT ![edge.order[n]] = now]
  /\ UNCHANGED <<now, edge, request, origin>>

VerifyFirst(denied) == Verify(1, "first", "second", denied)
VerifySecond(denied) == Verify(2, "second", "verified", denied)

(* requireUser, Require and requireService. *)
Require(challenge) ==
  /\ view.actor.user /\ view.actor.perms
  /\ challenge => now - view.actor.stepUpAt <= StepUpMaxAge

Admitted ==
  CASE edge.route \in {"public", "probe"} -> TRUE
    [] edge.route = "authenticated" -> view.actor.user
    [] edge.route \in {"permission", "challenge"} -> Require(edge.route = "challenge")
    [] edge.route = "internal_service" -> view.principal # ""

Guard ==
  /\ stage = "verified" /\ stage' = IF Admitted THEN "handler" ELSE "refused"
  /\ checked' = [checked EXCEPT !.guard = now]
  /\ UNCHANGED <<now, edge, request, view, origin>>

-----------------------------------------------------------------------------
(* The handler calls another component. *)

(* contract.Firewall: of the ctx, the callctx survives, nothing else. *)
Firewall(v) == [EmptyView EXCEPT !.meta = v.meta]

(* contract.Call, in process; refused in a transaction. *)
CallInProcess(inTx) ==
  /\ stage = "handler" /\ origin.via = "network" /\ edge.strict
  /\ IF inTx THEN stage' = "refused" /\ UNCHANGED <<view, origin>>
     ELSE /\ stage' = "callee" /\ view' = Firewall(view)
          /\ origin' = [via |-> "process", meta |-> view.meta]
  /\ UNCHANGED <<now, edge, request, checked>>

(* ServiceSigner.SignWithExpiry. *)
Sign(sub, meta) ==
  [kind |-> "service", sub |-> sub, tid |-> meta.tenant, partition |-> meta.partition,
   iat |-> now, exp |-> now + CredentialTTL]

(* serviceTransport.RoundTrip: a credential for the scope of the ctx, if    *)
(* the provider grants one that is still valid, replaces every header that  *)
(* speaks of identity.  It arrives at an internal service.                  *)
CallRemote(inTx, granted) ==
  /\ stage = "handler" /\ origin.via = "network" /\ edge.strict
  /\ IF inTx \/ ~granted \/ Sign("a", view.meta).exp <= now THEN stage' = "refused" /\ UNCHANGED <<view, origin, edge, request>>
     ELSE /\ stage' = "arrived"
          /\ request' = [headers |-> NoMeta, user |-> NoUser, stepUp |-> NoStepUp,
                         service |-> Sign("a", view.meta)]
          /\ edge' = [strict |-> TRUE, order |-> <<"service", "user">>, route |-> "internal_service"]
          /\ view' = EmptyView
          /\ origin' = [via |-> "http", meta |-> view.meta]
  /\ UNCHANGED <<now, checked>>

(* An event: Publish stores the callctx in its meta, the relay puts it into *)
(* the ctx of the consumer.                                                 *)
ToMap(meta) == {<<f, meta[f]>> : f \in {g \in DOMAIN meta : meta[g] # ""}}
FromMap(map) ==
  [f \in DOMAIN NoMeta |-> IF \E e \in map : e[1] = f THEN (CHOOSE e \in map : e[1] = f)[2] ELSE ""]

PublishEvent ==
  /\ stage = "handler" /\ origin.via = "network" /\ edge.strict
  /\ stage' = "callee"
  /\ view' = [EmptyView EXCEPT !.meta = FromMap(ToMap(view.meta))]
  /\ origin' = [via |-> "event", meta |-> view.meta]
  /\ UNCHANGED <<now, edge, request, checked>>

IdentityNext ==
  \/ Tick \/ IdentityBoundary \/ RequestID \/ Guard \/ PublishEvent
  \/ \E denied \in BOOLEAN : VerifyFirst(denied) \/ VerifySecond(denied)
  \/ \E inTx \in BOOLEAN : CallInProcess(inTx) \/ \E granted \in BOOLEAN : CallRemote(inTx, granted)

IdentitySpec == IdentityInit /\ [][IdentityNext]_idVars

-----------------------------------------------------------------------------
(* Properties. *)

User == request.user
Service == request.service
StepUp == request.stepUp

(* No credential had expired when it was looked at, and the proof of a      *)
(* challenged route was of this user's session and young enough when the    *)
(* route was entered.                                                       *)
CredentialsAreFresh ==
  /\ User.kind = "access" => checked.user < User.exp
  /\ Service.kind = "service" => ~Expired(Service, checked.service)
  /\ edge.route = "challenge" =>
       StepUp.kind = "proof" /\ checked.user < StepUp.exp /\ checked.guard - StepUp.iat <= StepUpMaxAge

(* In a strict mode a handler knows only what a credential of this very     *)
(* request says, whatever headers and ctx it came with: user, tenant,       *)
(* partition and caller; two credentials agree; a route is entered only by  *)
(* whom it is for and with fresh credentials, a challenged one with a young *)
(* proof.  And a component that is called learns the tenant of its caller,  *)
(* no user and, over HTTP, the service that called (security.go:145-223,    *)
(* authn.go:148-234, service.go:138-180, permission.go:152-153,             *)
(* secure_http.go:202-246, relay.go:379).                                   *)
IdentityIsVouched ==
  /\ edge.strict /\ stage = "handler" /\ edge.route # "probe" =>
       /\ view.actor.user => User.kind = "access" /\ view.actor.tid = User.tid
                             /\ view.actor.perms = User.perms
       /\ view.principal = Service.sub
       /\ view.meta.caller = Service.sub
       /\ view.meta.tenant = IF User.kind = "access" THEN User.tid ELSE Service.tid
       /\ view.meta.partition = IF User.kind = "access" THEN PartitionOf(User.iss) ELSE Service.partition
       /\ User.kind = "access" /\ Service.kind = "service" =>
            User.tid = Service.tid /\ PartitionOf(User.iss) = Service.partition
       /\ edge.route \in {"authenticated", "permission", "challenge"} => User.kind = "access"
       /\ edge.route \in {"permission", "challenge"} => User.perms
       /\ edge.route = "internal_service" => Service.kind = "service"
       /\ CredentialsAreFresh
  /\ edge.strict /\ stage = "handler" /\ edge.route = "probe" =>
       view.meta = NoMeta /\ ~view.actor.user
  /\ origin.via = "http" /\ stage = "handler" =>
       view.meta = [origin.meta EXCEPT !.caller = "a"] /\ ~view.actor.user
  /\ stage = "callee" => view = [EmptyView EXCEPT !.meta = origin.meta]

Outcome(first, second, denied) ==
  IF CredentialRefused(first, view, now, denied) THEN "refused"
  ELSE IF CredentialRefused(second, Verified(first, view), now, denied) THEN "refused" ELSE "verified"

(* The order in which the two verifiers are installed does not decide who   *)
(* is let in, nor what the handler is told (authn.go:180-184,               *)
(* service.go:170-176).                                                     *)
OrderIsIrrelevant ==
  edge.strict /\ stage = "first" =>
    \A denied \in BOOLEAN :
      /\ Outcome("user", "service", denied) = Outcome("service", "user", denied)
      /\ Outcome("user", "service", denied) = "verified" =>
           [WithService(WithUser(view)) EXCEPT !.scoped = TRUE]
             = [WithUser(WithService(view)) EXCEPT !.scoped = TRUE]

(* Who is let in and what the handler is told of it is what the credentials *)
(* of the request say, in whichever order they are verified.                *)
(* (security.go:145-223, authn.go:148-211, service.go:138-180)              *)
IdentityIsSound == IdentityIsVouched /\ OrderIsIrrelevant
=============================================================================
