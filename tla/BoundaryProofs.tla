---------------------------- MODULE BoundaryProofs ----------------------------
(***************************************************************************)
(* What crosses the boundary of the process: one HTTP call out of it       *)
(* (OutboundCall), who a request comes from (Identity), from which address *)
(* (ClientIP, for any number of hops), how often it is executed (Idem, for *)
(* any number of requests, keys and takeovers), and what a client decodes  *)
(* of a stream of events (SSEDecoder, for any text and any budget).        *)
(***************************************************************************)
EXTENDS Identity, ClientIP, OutboundCall, Idem, SSEDecoder, FiniteSetTheorems,
        WellFoundedInduction, TLAPS

-----------------------------------------------------------------------------
(* The outbound call. *)

BodyStates == {"none", "end", "error", "ended", "broken"}
SentRequest == [to : {"origin", "other"}, credential : BOOLEAN, identity : BOOLEAN]
Early == {"new", "unfit", "do", "invalid", "transport"}

CallTypeOK ==
  /\ httpClient \in [secure : BOOLEAN, fit : BOOLEAN]
  /\ out \in [url : BOOLEAN, to : {"origin", "other"}, host : {"origin", "other"}, trailer : BOOLEAN,
              ctx : BOOLEAN, identity : BOOLEAN]
  /\ at \in Early \cup {"sent", "redirect", "refusing", "body", "failed", "done"}
  /\ response \in Responses \cup {"none"}
  /\ refused \in BOOLEAN
  /\ body \in [reader : BodyStates, closer : BodyStates]
  /\ recorded \in {<<>>, <<"ok">>, <<"failed">>}
  /\ closed \in {<<>>, <<"transport">>, <<"client">>}

(* A request that left carries a credential to the origin only, and then    *)
(* nothing the request said of identity.                                    *)
SentInv ==
  \/ sent = <<>>
  \/ \E r \in SentRequest : sent = <<r>> /\ (r.credential => r.to = "origin" /\ ~r.identity)

(* Who owns the request body, by where the call is. *)
OwnerInv ==
  /\ at \in Early => sent = <<>> /\ closed = <<>>
  /\ at \in {"sent", "redirect", "refusing", "body", "done"} => sent # <<>> /\ closed = <<"transport">>
  /\ at = "failed" => \/ sent = <<>> /\ closed = <<"client">>
                      \/ sent # <<>> /\ closed = <<"transport">>

Untouched == body.reader = "none" /\ body.closer = "none"

(* What has been recorded, by where the call is. *)
RecordInv ==
  /\ at \in Early \cup {"sent", "redirect", "refusing"} => recorded = <<>>
  /\ at \in Early \cup {"sent"} => response = "none"
  /\ at \in {"redirect", "refusing"} => response = "redirect"
  /\ at # "body" => Untouched
  /\ at = "refusing" => refused
  /\ refused => at \in {"refusing", "failed"} /\ response = "redirect"
  /\ at = "failed" => recorded # <<>>
  /\ at = "failed" /\ ~RedirectUnseen => recorded = <<"failed">>
  /\ at = "done" => recorded = <<"ok">> /\ response \in {"upgrade", "empty"}

(* Once there is a body, whoever ends it first decides. *)
BodyInv ==
  at = "body" =>
    /\ response \in {"ok", "failed"}
    /\ Finished("reader") \/ Finished("closer") <=> recorded # <<>>
    /\ recorded = <<"ok">> => response = "ok" /\ "ended" \in {body.reader, body.closer}
    /\ recorded = <<"failed">> => response = "failed" \/ "broken" \in {body.reader, body.closer}

CallInv == CallTypeOK /\ SentInv /\ OwnerInv /\ RecordInv /\ BodyInv

LEMMA Sequences1 ==
  /\ \A x : <<x>> # <<>> /\ Len(<<x>>) = 1 /\ <<x>>[1] = x /\ Append(<<>>, x) = <<x>>
  /\ Len(<<>>) = 0
  /\ <<"ok">> # <<"failed">> /\ <<"client">> # <<"transport">>
<1>1. \A x : <<x>> # <<>> /\ Len(<<x>>) = 1 /\ <<x>>[1] = x /\ Append(<<>>, x) = <<x>>
  OBVIOUS
<1>2. Len(<<>>) = 0
  OBVIOUS
<1>3. <<"ok">>[1] # <<"failed">>[1] /\ <<"client">>[1] # <<"transport">>[1]
  OBVIOUS
<1> QED
  BY <1>1, <1>2, <1>3

LEMMA CallInitInv == CallInit => CallInv
<1> SUFFICES ASSUME CallInit PROVE CallInv
  OBVIOUS
<1>1. CallTypeOK
  BY DEF CallInit, CallTypeOK, Early, BodyStates
<1>2. SentInv /\ OwnerInv
  BY DEF CallInit, SentInv, OwnerInv, Early
<1>3. RecordInv /\ BodyInv
  BY DEF CallInit, RecordInv, RedirectUnseen, BodyInv, Untouched, Early
<1> QED
  BY <1>1, <1>2, <1>3 DEF CallInv

(* Before the transport: nothing has left and nothing is recorded. *)
LEMMA EarlyInv ==
  ASSUME CallInv, NewClient \/ DoRequest
  PROVE  CallInv'
<1>1. at \in Early /\ at' \in Early
  BY DEF NewClient, DoRequest, Early
<1>2. UNCHANGED <<httpClient, out, response, refused, body, sent, recorded, closed>>
  BY DEF NewClient, DoRequest
<1>3. CallTypeOK' /\ SentInv'
  BY <1>1, <1>2 DEF CallInv, CallTypeOK, SentInv
<1>4. OwnerInv'
  BY <1>1, <1>2 DEF CallInv, OwnerInv, Early
<1>5. RecordInv' /\ BodyInv'
  BY <1>1, <1>2 DEF CallInv, RecordInv, RedirectUnseen, BodyInv, Untouched, Early
<1> QED
  BY <1>3, <1>4, <1>5 DEF CallInv

(* The hand-over: the request leaves, or its body is closed at once. *)
LEMMA RoundTripInv ==
  ASSUME CallInv, NEW granted \in BOOLEAN, RoundTrip(granted)
  PROVE  CallInv'
<1>1. /\ at = "transport" /\ sent = <<>> /\ closed = <<>> /\ recorded = <<>>
      /\ response = "none" /\ ~refused /\ Untouched
      /\ UNCHANGED <<httpClient, out, response, refused, body>>
  BY DEF RoundTrip, CallInv, OwnerInv, RecordInv, RedirectUnseen, Early
<1>2. CASE MayHandOff(granted)
  <2> DEFINE r == [to |-> out.to, credential |-> httpClient.secure,
                   identity |-> out.identity /\ ~httpClient.secure]
  <2>1. r \in SentRequest /\ (r.credential => r.to = "origin" /\ ~r.identity)
    BY <1>2 DEF MayHandOff, SentRequest, CallInv, CallTypeOK
  <2>2. sent' = Append(sent, r) /\ at' = "sent" /\ closed' = Append(closed, "transport") /\ recorded' = recorded
    BY <1>2 DEF RoundTrip
  <2> HIDE DEF r
  <2>3. sent' = <<r>> /\ closed' = <<"transport">> /\ sent' # <<>>
    BY <1>1, <2>2, Sequences1
  <2>4. CallTypeOK'
    BY <1>1, <2>2, <2>3 DEF CallInv, CallTypeOK
  <2>5. SentInv'
    BY <2>1, <2>3 DEF SentInv
  <2>6. OwnerInv'
    BY <2>2, <2>3 DEF OwnerInv, Early
  <2>7. RecordInv' /\ BodyInv'
    BY <1>1, <2>2 DEF RecordInv, RedirectUnseen, BodyInv, Untouched, Early
  <2> QED
    BY <2>4, <2>5, <2>6, <2>7 DEF CallInv
<1>3. CASE ~MayHandOff(granted)
  <2>1. at' = "failed" /\ sent' = sent /\ closed' = <<"client">> /\ recorded' = <<"failed">>
    BY <1>1, <1>3, Sequences1 DEF RoundTrip, RecordCall, CallOutcome
  <2>2. CallTypeOK' /\ SentInv'
    BY <1>1, <2>1 DEF CallInv, CallTypeOK, SentInv
  <2>3. OwnerInv'
    BY <1>1, <2>1 DEF OwnerInv, Early
  <2>4. RecordInv' /\ BodyInv'
    BY <1>1, <2>1 DEF RecordInv, RedirectUnseen, BodyInv, Untouched, Early
  <2> QED
    BY <2>2, <2>3, <2>4 DEF CallInv
<1> QED
  BY <1>2, <1>3

(* An answer, or none. *)
LEMMA ReturnsInv ==
  ASSUME CallInv, NEW r \in Responses, RoundTripReturns(r)
  PROVE  CallInv'
<1>1. /\ at = "sent" /\ recorded = <<>> /\ ~refused /\ Untouched
      /\ sent # <<>> /\ closed = <<"transport">> /\ response' = r
      /\ UNCHANGED <<httpClient, out, refused, body, sent, closed>>
  BY DEF RoundTripReturns, CallInv, OwnerInv, RecordInv, RedirectUnseen, Early
<1>2. \/ r = "error" /\ at' = "failed" /\ recorded' = <<"failed">>
      \/ r \in {"upgrade", "empty"} /\ at' = "done" /\ recorded' = <<"ok">>
      \/ r = "redirect" /\ at' = "redirect" /\ recorded' = <<>>
      \/ r \in {"ok", "failed"} /\ at' = "body" /\ recorded' = <<>>
  BY <1>1 DEF RoundTripReturns, Responses
<1>3. CallTypeOK' /\ SentInv'
  BY <1>1, <1>2 DEF CallInv, CallTypeOK, SentInv
<1>4. OwnerInv'
  BY <1>1, <1>2 DEF OwnerInv, Early
<1>5. RecordInv'
  BY <1>1, <1>2 DEF RecordInv, RedirectUnseen, Untouched, Early
<1>6. BodyInv'
  BY <1>1, <1>2, Sequences1 DEF BodyInv, Untouched, Finished
<1> QED
  BY <1>3, <1>4, <1>5, <1>6 DEF CallInv

(* A redirect is refused, and counts as a failure whatever closing gives;  *)
(* or http.Client gives it up by itself, and only closing counts.          *)
LEMMA RedirectInv ==
  ASSUME CallInv, CheckRedirect \/ \E err \in BOOLEAN : RedirectRefused(err) \/ RedirectFails(err)
  PROVE  CallInv'
<1>1. CASE CheckRedirect
  <2>1. /\ at = "redirect" /\ at' = "refusing" /\ refused' = TRUE
        /\ UNCHANGED <<httpClient, out, response, body, sent, recorded, closed>>
    BY <1>1 DEF CheckRedirect
  <2>2. CallTypeOK' /\ SentInv'
    BY <2>1 DEF CallInv, CallTypeOK, SentInv
  <2>3. OwnerInv' /\ RecordInv' /\ BodyInv'
    BY <2>1 DEF CallInv, OwnerInv, RecordInv, RedirectUnseen, BodyInv, Untouched, Early
  <2> QED
    BY <2>2, <2>3 DEF CallInv
<1>2. CASE \E err \in BOOLEAN : RedirectRefused(err)
  <2>1. PICK err \in BOOLEAN : RedirectRefused(err)
    BY <1>2
  <2>2. at = "refusing" /\ refused /\ recorded = <<>> /\ response = "redirect"
    BY <2>1 DEF RedirectRefused, CallInv, RecordInv, RedirectUnseen
  <2>3. /\ at' = "failed" /\ recorded' = <<"failed">>
        /\ UNCHANGED <<httpClient, out, response, refused, body, sent, closed>>
    BY <2>1, <2>2 DEF RedirectRefused, RecordCall, CallOutcome
  <2>4. CallTypeOK' /\ SentInv'
    BY <2>3 DEF CallInv, CallTypeOK, SentInv
  <2>5. OwnerInv' /\ RecordInv' /\ BodyInv'
    BY <2>2, <2>3 DEF CallInv, OwnerInv, RecordInv, RedirectUnseen, BodyInv, Untouched, Early
  <2> QED
    BY <2>4, <2>5 DEF CallInv
<1>3. CASE \E err \in BOOLEAN : RedirectFails(err)
  <2>1. PICK err \in BOOLEAN : RedirectFails(err)
    BY <1>3
  <2>2. at = "redirect" /\ ~refused /\ recorded = <<>> /\ response = "redirect"
    BY <2>1 DEF RedirectFails, CallInv, RecordInv, RedirectUnseen
  <2>3. /\ at' = "failed" /\ recorded' \in {<<"ok">>, <<"failed">>}
        /\ UNCHANGED <<httpClient, out, response, refused, body, sent, closed>>
    BY <2>1, <2>2 DEF RedirectFails, RecordCall, CallOutcome
  <2>4. CallTypeOK' /\ SentInv'
    BY <2>3 DEF CallInv, CallTypeOK, SentInv
  <2>5. OwnerInv' /\ BodyInv'
    BY <2>2, <2>3 DEF CallInv, OwnerInv, BodyInv, Early
  <2>6. RecordInv'
    BY <2>2, <2>3, Sequences1 DEF CallInv, RecordInv, RedirectUnseen, Untouched, Early
  <2> QED
    BY <2>4, <2>5, <2>6 DEF CallInv
<1> QED
  BY <1>1, <1>2, <1>3

(* A Read or a Close that has its result and has not reported it yet. *)
LEMMA TouchedInv ==
  ASSUME CallInv, NEW result \in {"end", "error"}, ReadBody(result) \/ CloseBody(result)
  PROVE  CallInv'
<1>1. /\ at = "body" /\ body \in [reader : BodyStates, closer : BodyStates]
      /\ UNCHANGED <<httpClient, out, at, response, refused, sent, recorded, closed>>
  BY DEF ReadBody, CloseBody, CallInv, CallTypeOK
<1>2. \/ body.reader = "none" /\ body' = [body EXCEPT !.reader = result]
      \/ body.closer = "none" /\ body' = [body EXCEPT !.closer = result]
  BY DEF ReadBody, CloseBody
<1>3. \/ body.reader = "none" /\ body'.reader = result /\ body'.closer = body.closer
      \/ body.closer = "none" /\ body'.closer = result /\ body'.reader = body.reader
  BY <1>1, <1>2
<1>4. body' \in [reader : BodyStates, closer : BodyStates]
  BY <1>1, <1>2 DEF BodyStates
<1>5. CallTypeOK' /\ SentInv'
  BY <1>1, <1>4 DEF CallInv, CallTypeOK, SentInv
<1>6. OwnerInv' /\ RecordInv'
  BY <1>1 DEF CallInv, OwnerInv, RecordInv, RedirectUnseen, Early
<1>7. BodyInv'
  BY <1>1, <1>3 DEF CallInv, BodyInv, Finished
<1> QED
  BY <1>5, <1>6, <1>7 DEF CallInv

(* The first of the two that reports decides the outcome. *)
LEMMA FinishInv ==
  ASSUME CallInv, NEW g \in {"reader", "closer"}, FinishBody(g)
  PROVE  CallInv'
<1> DEFINE new == IF body[g] = "end" THEN "ended" ELSE "broken"
<1>1. /\ body[g] \in {"end", "error"} /\ body' = [body EXCEPT ![g] = new]
      /\ recorded' = IF recorded = <<>> THEN <<CallOutcome(body[g] = "error")>> ELSE recorded
      /\ UNCHANGED <<httpClient, out, at, response, refused, sent, closed>>
  BY DEF FinishBody, RecordCall
<1>2. body \in [reader : BodyStates, closer : BodyStates] /\ body[g] # "none"
  BY <1>1 DEF CallInv, CallTypeOK
<1>3. at = "body"
  BY <1>2 DEF CallInv, RecordInv, RedirectUnseen, Untouched
<1>4. ~refused /\ response \in {"ok", "failed"}
  BY <1>3 DEF CallInv, RecordInv, RedirectUnseen, BodyInv
<1>5. new \in {"ended", "broken"} /\ (new = "broken" <=> body[g] = "error")
  BY <1>1
<1>6. recorded = <<>> =>
        \/ recorded' = <<"ok">> /\ new = "ended" /\ response = "ok"
        \/ recorded' = <<"failed">> /\ (new = "broken" \/ response = "failed")
  BY <1>1, <1>4, <1>5 DEF CallOutcome
<1>7. recorded # <<>> => recorded' = recorded
  BY <1>1
<1> HIDE DEF new
<1>8. \/ g = "reader" /\ body'.reader = new /\ body'.closer = body.closer /\ ~Finished("reader")
      \/ g = "closer" /\ body'.closer = new /\ body'.reader = body.reader /\ ~Finished("closer")
  BY <1>1, <1>2 DEF Finished
<1>9. body' \in [reader : BodyStates, closer : BodyStates]
  <2>1. CASE g = "reader"
    BY <1>1, <1>2, <1>5, <2>1 DEF BodyStates
  <2>2. CASE g = "closer"
    BY <1>1, <1>2, <1>5, <2>2 DEF BodyStates
  <2> QED
    BY <2>1, <2>2
<1>10. CallTypeOK' /\ SentInv'
  BY <1>1, <1>6, <1>7, <1>9 DEF CallInv, CallTypeOK, SentInv
<1>11. OwnerInv' /\ RecordInv'
  BY <1>1, <1>3 DEF CallInv, OwnerInv, RecordInv, RedirectUnseen, Early
<1>12. BodyInv'
  <2>1. recorded' # <<>>
    BY <1>6, <1>7, Sequences1
  <2>2. (Finished("reader") \/ Finished("closer"))'
    BY <1>5, <1>8 DEF Finished
  <2>3. recorded' = <<"ok">> => response = "ok" /\ "ended" \in {body'.reader, body'.closer}
    BY <1>3, <1>5, <1>6, <1>7, <1>8, Sequences1 DEF CallInv, BodyInv, Finished
  <2>4. recorded' = <<"failed">> => response = "failed" \/ "broken" \in {body'.reader, body'.closer}
    BY <1>3, <1>5, <1>6, <1>7, <1>8, Sequences1 DEF CallInv, BodyInv, Finished
  <2> QED
    BY <1>1, <1>4, <2>1, <2>2, <2>3, <2>4 DEF BodyInv
<1> QED
  BY <1>10, <1>11, <1>12 DEF CallInv

LEMMA CallNextInv == CallInv /\ [CallNext]_callVars => CallInv'
<1> SUFFICES ASSUME CallInv, [CallNext]_callVars PROVE CallInv'
  OBVIOUS
<1>1. CASE NewClient \/ DoRequest
  BY <1>1, EarlyInv
<1>2. CASE CheckRedirect \/ \E err \in BOOLEAN : RedirectRefused(err) \/ RedirectFails(err)
  BY <1>2, RedirectInv
<1>3. CASE \E granted \in BOOLEAN : RoundTrip(granted)
  BY <1>3, RoundTripInv
<1>4. CASE \E r \in Responses : RoundTripReturns(r)
  BY <1>4, ReturnsInv
<1>5. CASE \E result \in {"end", "error"} : ReadBody(result) \/ CloseBody(result)
  BY <1>5, TouchedInv
<1>6. CASE \E g \in {"reader", "closer"} : FinishBody(g)
  BY <1>6, FinishInv
<1>7. CASE UNCHANGED callVars
  BY <1>7 DEF callVars, CallInv, CallTypeOK, SentInv, OwnerInv, RecordInv, RedirectUnseen, BodyInv, Untouched, Finished
<1> QED
  BY <1>1, <1>2, <1>3, <1>4, <1>5, <1>6, <1>7 DEF CallNext

LEMMA CallInvImpliesObserved == CallInv => CallIsObserved
<1> SUFFICES ASSUME CallInv PROVE CallIsObserved
  OBVIOUS
<1>1. at \in {"failed", "done"} \/ Finished("reader") \/ Finished("closer") <=> recorded # <<>>
  BY Sequences1 DEF CallInv, CallTypeOK, RecordInv, RedirectUnseen, BodyInv, Untouched, Finished
<1>2. (at = "failed" /\ ~RedirectUnseen) \/ (recorded # <<>> /\ response = "failed") =>
        recorded = <<"failed">>
  BY Sequences1 DEF CallInv, CallTypeOK, RecordInv, BodyInv, RedirectUnseen
<1>3. recorded = <<"failed">> =>
        at = "failed" \/ response = "failed" \/ "broken" \in {body.reader, body.closer}
  BY Sequences1 DEF CallInv, CallTypeOK, RecordInv, RedirectUnseen, BodyInv
<1>4. recorded = <<"ok">> /\ at = "body" => "ended" \in {body.reader, body.closer}
  BY DEF CallInv, BodyInv
<1>5. Len(sent) <= 1 /\ Len(closed) <= 1
  <2>1. sent = <<>> \/ \E r : sent = <<r>>
    BY DEF CallInv, SentInv
  <2>2. closed = <<>> \/ \E r : closed = <<r>>
    BY DEF CallInv, CallTypeOK
  <2>3. Len(sent) \in {0, 1} /\ Len(closed) \in {0, 1}
    BY <2>1, <2>2, Sequences1
  <2> QED
    BY <2>3
<1>6. \A i \in 1..Len(sent) : sent[i].credential => sent[i].to = "origin" /\ ~sent[i].identity
  BY Sequences1 DEF CallInv, SentInv
<1>7. (closed = <<"client">>) = (at = "failed" /\ sent = <<>>)
  BY Sequences1 DEF CallInv, CallTypeOK, OwnerInv
<1> QED
  BY <1>1, <1>2, <1>3, <1>4, <1>5, <1>6, <1>7 DEF CallIsObserved

(* outbound.Client and NewSecureHTTPClient: a call that reached the         *)
(* transport is recorded once it is over, with the outcome its caller saw,  *)
(* whichever goroutine ends the body first (only a redirect that            *)
(* http.Client gives up by itself may be recorded as a success); a service  *)
(* credential goes to the client's own origin only; the request body has    *)
(* one owner.                                                               *)
THEOREM CallsAreObserved == CallSpec => []CallIsObserved
<1>1. CallInit => CallInv
  BY CallInitInv
<1>2. CallInv /\ [CallNext]_callVars => CallInv'
  BY CallNextInv
<1>3. CallInv => CallIsObserved
  BY CallInvImpliesObserved
<1> QED
  BY <1>1, <1>2, <1>3, PTL DEF CallSpec

-----------------------------------------------------------------------------
(* Who a request comes from. *)

Words == {"", "t", "p", "c", "s", "a", "i", "j"}
MetaType == [tenant : Words, partition : Words, caller : Words]
UserType == [kind : {"none", "forged", "access"}, iss : Words, tid : Words, perms : BOOLEAN, exp : Nat]
StepUpType == [kind : {"none", "forged", "proof"}, iat : Int, exp : Nat]
ServiceType ==
  [kind : {"none", "forged", "service"}, sub : Words, tid : Words, partition : Words, iat : Nat, exp : Nat]

IdentityTypeOK ==
  /\ now \in Nat
  /\ edge \in [strict : BOOLEAN, order : Orders, route : Routes]
  /\ request \in [headers : MetaType, user : UserType, stepUp : StepUpType, service : ServiceType]
  /\ origin \in [via : {"network", "process", "http", "event"}, meta : MetaType]

(* A credential that is absent, or does not verify, says nothing. *)
AbsentInv ==
  request.service.kind # "service" =>
    request.service.sub = "" /\ request.service.tid = "" /\ request.service.partition = ""

Ctx(meta, actor, principal, scoped, untrusted, expiry) ==
  [meta |-> meta, actor |-> actor, principal |-> principal, scoped |-> scoped,
   untrusted |-> untrusted, expiry |-> expiry]

(* What the ctx says when the user, the service, both or none have been     *)
(* verified, the identity headers m being out of reach.                     *)
Told(rq, byUser, byService, m) ==
  LET u == byUser /\ rq.user.kind = "access"
      s == byService /\ rq.service.kind = "service"
  IN [meta |-> [tenant |-> IF u THEN rq.user.tid ELSE IF s THEN rq.service.tid ELSE "",
                partition |-> IF u THEN PartitionOf(rq.user.iss)
                              ELSE IF s THEN rq.service.partition ELSE "",
                caller |-> IF s THEN rq.service.sub ELSE ""],
      actor |-> IF u THEN [user |-> TRUE, tid |-> rq.user.tid, perms |-> rq.user.perms,
                           stepUpAt |-> IF rq.stepUp.kind = "proof" THEN rq.stepUp.iat
                                        ELSE 0 - 1 - StepUpMaxAge]
                ELSE NoActor,
      principal |-> IF s THEN rq.service.sub ELSE "",
      scoped |-> s,
      untrusted |-> m,
      expiry |-> IF u THEN rq.user.exp ELSE 0]

Agree ==
  request.user.kind = "access" /\ request.service.kind = "service" =>
    request.user.tid = request.service.tid /\ PartitionOf(request.user.iss) = request.service.partition

UserPassed == request.user.kind # "forged"
ServicePassed == request.service.kind # "forged"

(* Whom a route lets in. *)
EnteredBy ==
  /\ edge.route \in {"authenticated", "permission", "challenge"} => request.user.kind = "access"
  /\ edge.route \in {"permission", "challenge"} => request.user.perms
  /\ edge.route = "challenge" => request.stepUp.kind = "proof"
  /\ edge.route = "internal_service" => request.service.kind = "service"

ToldNow(byUser, byService) == \E m \in MetaType : view = Told(request, byUser, byService, m)

(* How far a request of a strict edge is, and what its ctx says by then. *)
StrictInv ==
  edge.strict =>
    /\ stage \in {"bounded", "first", "second", "verified", "handler"} => request.headers = NoMeta
    /\ stage \in {"bounded", "first"} => ToldNow(FALSE, FALSE)
    /\ stage \in {"second", "verified", "handler"} /\ edge.route = "probe" => ToldNow(FALSE, FALSE)
    /\ stage = "second" /\ edge.route # "probe" =>
         \/ edge.order[1] = "user" /\ UserPassed /\ ToldNow(TRUE, FALSE)
         \/ edge.order[1] = "service" /\ ServicePassed /\ ToldNow(FALSE, TRUE)
    /\ stage \in {"verified", "handler"} /\ edge.route # "probe" =>
         UserPassed /\ ServicePassed /\ Agree /\ ToldNow(TRUE, TRUE)
    /\ stage = "handler" => EnteredBy

(* What a call carries. *)
OriginInv ==
  /\ origin.via = "http" =>
       /\ edge.strict /\ edge.route = "internal_service" /\ request.user = NoUser
       /\ request.service.kind = "service" /\ request.service.sub = "a"
       /\ request.service.tid = origin.meta.tenant /\ request.service.partition = origin.meta.partition
  /\ stage = "callee" => view = [EmptyView EXCEPT !.meta = origin.meta]

IdInv == IdentityTypeOK /\ AbsentInv /\ StrictInv /\ OriginInv

(* What was looked at was valid then. *)
UserFresh ==
  request.user.kind = "access" =>
    /\ checked.user < request.user.exp
    /\ request.stepUp.kind = "proof" => checked.user < request.stepUp.exp
ServiceFresh == request.service.kind = "service" => ~Expired(request.service, checked.service)
GuardFresh == edge.route = "challenge" => checked.guard - request.stepUp.iat <= StepUpMaxAge

FreshInv ==
  /\ checked \in [user : Nat, service : Nat, guard : Nat]
  /\ edge.strict /\ edge.route # "probe" =>
       /\ stage = "second" => (edge.order[1] = "user" /\ UserFresh) \/ (edge.order[1] = "service" /\ ServiceFresh)
       /\ stage \in {"verified", "handler"} => UserFresh /\ ServiceFresh
       /\ stage = "handler" => GuardFresh

-----------------------------------------------------------------------------
(* What the two verifiers tell the handler. *)

LEMMA NoMetaType == NoMeta \in MetaType
  BY DEF NoMeta, Meta, MetaType, Words

LEMMA CtxUntrusted ==
  ASSUME NEW w, NEW m, w = [EmptyView EXCEPT !.untrusted = m]
  PROVE  w = Ctx(NoMeta, NoActor, "", FALSE, m, 0)
<1>1. PICK v : v = EmptyView
  OBVIOUS
<1>2. w = [v EXCEPT !.untrusted = m]
  BY <1>1
<1> QED
  BY <1>1, <1>2 DEF EmptyView, Ctx

LEMMA ToldNothing ==
  ASSUME NEW rq, NEW m
  PROVE  Told(rq, FALSE, FALSE, m) = Ctx(NoMeta, NoActor, "", FALSE, m, 0)
  BY DEF Told, Ctx, NoMeta, Meta

LEMMA ToldNothingFields ==
  ASSUME NEW m, NEW v, v = Told(request, FALSE, FALSE, m)
  PROVE  /\ v.meta = NoMeta /\ v.actor = NoActor /\ v.principal = "" /\ v.scoped = FALSE
         /\ v.untrusted = m /\ v.expiry = 0
         /\ v.meta.tenant = "" /\ v.meta.partition = "" /\ v.meta.caller = "" /\ v.actor.user = FALSE
  BY DEF Told, NoMeta, Meta, NoActor

LEMMA UserFromNothing ==
  ASSUME IdentityTypeOK, UserPassed, NEW m, NEW v, v = Told(request, FALSE, FALSE, m)
  PROVE  WithUser(v) = Told(request, TRUE, FALSE, m)
<1>1. CASE request.user.kind = "none"
  BY <1>1 DEF WithUser, Told
<1>2. CASE request.user.kind = "access"
  <2> DEFINE A == [user |-> TRUE, tid |-> request.user.tid, perms |-> request.user.perms,
                   stepUpAt |-> IF request.stepUp.kind = "proof" THEN request.stepUp.iat
                                ELSE NoActor.stepUpAt]
             P == PartitionOf(request.user.iss)
             T == request.user.tid
             X == request.user.exp
  <2>1. WithUser(v) = [v EXCEPT !.actor = A, !.expiry = X, !.meta.tenant = T,
                                !.meta.partition = IF P # "" THEN P ELSE @]
    BY <1>2 DEF WithUser
  <2>2. NoActor.stepUpAt = 0 - 1 - StepUpMaxAge
    BY DEF NoActor
  <2> HIDE DEF A, P, T, X
  <2>3. PICK x : x = Ctx(Meta("", "", ""), NoActor, "", FALSE, m, 0)
    OBVIOUS
  <2>4. PICK y : y = [x EXCEPT !.actor = A, !.expiry = X, !.meta.tenant = T,
                              !.meta.partition = IF P # "" THEN P ELSE @]
    OBVIOUS
  <2>5. y = Ctx(Meta(T, IF P # "" THEN P ELSE "", ""), A, "", FALSE, m, X)
    BY <2>3, <2>4 DEF Ctx, Meta
  <2>6. v = x
    BY <2>3 DEF Told, Ctx, Meta
  <2>7. WithUser(v) = y
    BY <2>1, <2>4, <2>6
  <2> QED
    BY <1>2, <2>2, <2>5, <2>7 DEF A, P, T, X, Told, Ctx, Meta
<1> QED
  BY <1>1, <1>2 DEF UserPassed, IdentityTypeOK, UserType

LEMMA ServiceFromNothing ==
  ASSUME IdentityTypeOK, ServicePassed, NEW m, NEW v, v = Told(request, FALSE, FALSE, m)
  PROVE  WithService(v) = Told(request, FALSE, TRUE, m)
<1>1. CASE request.service.kind = "none"
  BY <1>1 DEF WithService, Told
<1>2. CASE request.service.kind = "service"
  BY <1>2 DEF WithService, Told, Meta
<1> QED
  BY <1>1, <1>2 DEF ServicePassed, IdentityTypeOK, ServiceType

LEMMA ServiceAfterUser ==
  ASSUME IdentityTypeOK, ServicePassed, Agree, NEW m, NEW v, v = Told(request, TRUE, FALSE, m)
  PROVE  WithService(v) = Told(request, TRUE, TRUE, m)
<1>1. CASE request.service.kind = "none"
  BY <1>1 DEF WithService, Told
<1>2. CASE request.service.kind = "service"
  BY <1>2 DEF WithService, Told, Meta, Agree
<1> QED
  BY <1>1, <1>2 DEF ServicePassed, IdentityTypeOK, ServiceType

LEMMA UserAfterService ==
  ASSUME IdentityTypeOK, UserPassed, Agree, NEW m, NEW v, v = Told(request, FALSE, TRUE, m)
  PROVE  WithUser(v) = Told(request, TRUE, TRUE, m)
<1>1. CASE request.user.kind = "none"
  BY <1>1 DEF WithUser, Told
<1>2. CASE request.user.kind = "access"
  <2> DEFINE A == [user |-> TRUE, tid |-> request.user.tid, perms |-> request.user.perms,
                   stepUpAt |-> IF request.stepUp.kind = "proof" THEN request.stepUp.iat
                                ELSE NoActor.stepUpAt]
             P == PartitionOf(request.user.iss)
             T == request.user.tid
             X == request.user.exp
             S == request.service
  <2>1. WithUser(v) = [v EXCEPT !.actor = A, !.expiry = X, !.meta.tenant = T,
                                !.meta.partition = IF P # "" THEN P ELSE @]
    BY <1>2 DEF WithUser
  <2>2. NoActor.stepUpAt = 0 - 1 - StepUpMaxAge
    BY DEF NoActor
  <2> HIDE DEF A, P, T, X
  <2>3. CASE S.kind = "service"
    <3>1. PICK x : x = Ctx(Meta(S.tid, S.partition, S.sub), NoActor, S.sub, TRUE, m, 0)
      OBVIOUS
    <3>2. PICK y : y = [x EXCEPT !.actor = A, !.expiry = X, !.meta.tenant = T,
                                !.meta.partition = IF P # "" THEN P ELSE @]
      OBVIOUS
    <3>3. y = Ctx(Meta(T, IF P # "" THEN P ELSE S.partition, S.sub), A, S.sub, TRUE, m, X)
      BY <3>1, <3>2 DEF Ctx, Meta
    <3>4. v = x
      BY <2>3, <3>1 DEF Told, Ctx, Meta
    <3>5. WithUser(v) = y
      BY <2>1, <3>2, <3>4
    <3> QED
      BY <1>2, <2>2, <2>3, <3>3, <3>5 DEF A, P, T, X, Told, Ctx, Meta, Agree
  <2>4. CASE S.kind # "service"
    <3>1. PICK x : x = Ctx(Meta("", "", ""), NoActor, "", FALSE, m, 0)
      OBVIOUS
    <3>2. PICK y : y = [x EXCEPT !.actor = A, !.expiry = X, !.meta.tenant = T,
                                !.meta.partition = IF P # "" THEN P ELSE @]
      OBVIOUS
    <3>3. y = Ctx(Meta(T, IF P # "" THEN P ELSE "", ""), A, "", FALSE, m, X)
      BY <3>1, <3>2 DEF Ctx, Meta
    <3>4. v = x
      BY <2>4, <3>1 DEF Told, Ctx, Meta
    <3>5. WithUser(v) = y
      BY <2>1, <3>2, <3>4
    <3> QED
      BY <1>2, <2>2, <2>4, <3>3, <3>5 DEF A, P, T, X, Told, Ctx, Meta, Agree
  <2> QED
    BY <2>3, <2>4
<1> QED
  BY <1>1, <1>2 DEF UserPassed, IdentityTypeOK, UserType

(* What makes a credential unacceptable by itself. *)
UserFault(t) ==
  \/ request.user.kind = "forged"
  \/ request.user.kind = "access" /\ (t >= request.user.exp \/ StepUpRefused(t))

ServiceFault(m, t, denied) ==
  \/ request.service.kind = "forged"
  \/ /\ request.service.kind = "service"
     /\ \/ Expired(request.service, t)
        \/ denied /\ (request.service.tid # "" \/ request.service.partition # "")
        \/ Contradicts(request.headers, request.service) \/ Contradicts(m, request.service)

LEMMA UserRefusedFirst ==
  ASSUME NEW t, NEW m, NEW v, v = Told(request, FALSE, FALSE, m)
  PROVE  UserRefused(v, t) <=> UserFault(t)
  BY DEF UserRefused, UserFault, Told

LEMMA ServiceRefusedFirst ==
  ASSUME NEW t, NEW denied, NEW m, NEW v, v = Told(request, FALSE, FALSE, m)
  PROVE  ServiceRefused(v, t, denied) <=> ServiceFault(m, t, denied)
  BY DEF ServiceRefused, ServiceFault, Told, NoActor

LEMMA UserRefusedSecond ==
  ASSUME ServicePassed, NEW t, NEW m, NEW v, v = Told(request, FALSE, TRUE, m)
  PROVE  UserRefused(v, t) <=> UserFault(t) \/ ~Agree
  BY DEF UserRefused, UserFault, Told, Agree, ServicePassed

LEMMA ServiceRefusedSecond ==
  ASSUME UserPassed, NEW t, NEW denied, NEW m, NEW v, v = Told(request, TRUE, FALSE, m)
  PROVE  ServiceRefused(v, t, denied) <=> ServiceFault(m, t, denied) \/ ~Agree
  BY DEF ServiceRefused, ServiceFault, Told, NoActor, Agree, UserPassed

(* A ctx of a verified request has a callctx. *)
LEMMA ToldMeta ==
  ASSUME IdentityTypeOK, NEW byUser \in BOOLEAN, NEW byService \in BOOLEAN, NEW m \in MetaType,
         NEW v, v = Told(request, byUser, byService, m)
  PROVE  v.meta \in MetaType
<1>1. /\ request.user.tid \in Words /\ request.service.tid \in Words
      /\ request.service.partition \in Words /\ request.service.sub \in Words
  BY DEF IdentityTypeOK, UserType, ServiceType
<1>2. "" \in Words /\ PartitionOf(request.user.iss) \in Words
  BY DEF Words, PartitionOf
<1>3. PICK t \in Words, a \in Words, c \in Words : v.meta = [tenant |-> t, partition |-> a, caller |-> c]
  BY <1>1, <1>2 DEF Told
<1> QED
  BY <1>3 DEF MetaType

-----------------------------------------------------------------------------
(* The inductive invariant. *)

LEMMA IdInitInv == IdentityInit => IdInv
<1> SUFFICES ASSUME IdentityInit PROVE IdInv
  OBVIOUS
<1>0. /\ \A x \in Issuers : x \in Words
      /\ \A x \in Tenants : x \in Words
      /\ \A x \in Partitions : x \in Words
      /\ "s" \in Words
  BY DEF Words, Issuers, Tenants, Partitions
<1>1. request.user \in UserType
  <2>1. PICK u \in UserTokens : u = request.user
    BY DEF IdentityInit
  <2>2. u \in [kind : {"access"}, iss : Issuers, tid : Tenants, perms : BOOLEAN, exp : {1}] => u \in UserType
    BY <1>0, 1 \in Nat DEF UserType
  <2>3. NoUser \in UserType
    BY DEF NoUser, UserType, Words
  <2>4. [NoUser EXCEPT !.kind = "forged"] \in UserType
    BY <2>3 DEF NoUser, UserType, Words
  <2> QED
    BY <2>1, <2>2, <2>3, <2>4 DEF UserTokens
<1>2. request.service \in ServiceType /\ AbsentInv
  <2>1. PICK s \in ServiceTokens : s = request.service
    BY DEF IdentityInit
  <2>2. CASE s \in [kind : {"service"}, sub : {"s"}, tid : Tenants, partition : Partitions, iat : {0, 1}, exp : {1}]
    <3>1. s \in ServiceType /\ s.kind = "service"
      BY <1>0, <2>2 DEF ServiceType
    <3> QED
      BY <2>1, <3>1 DEF AbsentInv
  <2>3. NoService \in ServiceType
    BY DEF NoService, ServiceType, Words
  <2>4. CASE s = NoService
    <3>1. s \in ServiceType /\ s.sub = "" /\ s.tid = "" /\ s.partition = ""
      BY <2>3, <2>4 DEF NoService
    <3> QED
      BY <2>1, <3>1 DEF AbsentInv
  <2>5. CASE s = [NoService EXCEPT !.kind = "forged"]
    <3>1. s \in ServiceType /\ s.sub = "" /\ s.tid = "" /\ s.partition = ""
      BY <2>3, <2>5 DEF NoService, ServiceType
    <3> QED
      BY <2>1, <3>1 DEF AbsentInv
  <2> QED
    BY <2>1, <2>2, <2>4, <2>5 DEF ServiceTokens
<1>3. request.stepUp \in StepUpType
  <2>1. PICK s \in StepUps : s = request.stepUp
    BY DEF IdentityInit
  <2>2. CASE s \in [kind : {"proof"}, iat : {0 - 1, 0}, exp : {0, 1}]
    <3>1. \A i \in {0 - 1, 0} : i \in Int
      OBVIOUS
    <3>2. \A e \in {0, 1} : e \in Nat
      OBVIOUS
    <3>3. s \in StepUpType
      BY <2>2, <3>1, <3>2 DEF StepUpType
    <3> QED
      BY <2>1, <3>3
  <2>3. CASE s \in {NoStepUp, [NoStepUp EXCEPT !.kind = "forged"]}
    <3>1. NoStepUp \in StepUpType /\ [NoStepUp EXCEPT !.kind = "forged"] \in StepUpType
      BY DEF NoStepUp, StepUpType
    <3> QED
      BY <2>1, <2>3, <3>1
  <2> QED
    BY <2>1, <2>2, <2>3 DEF StepUps
<1>4. request.headers \in MetaType
  BY DEF IdentityInit, MetaType, Words, Tenants, Partitions
<1>5. IdentityTypeOK
  <2>1. origin \in [via : {"network", "process", "http", "event"}, meta : MetaType]
    BY NoMetaType DEF IdentityInit
  <2> QED
    BY <1>1, <1>2, <1>3, <1>4, <2>1 DEF IdentityInit, IdentityTypeOK
<1>6. StrictInv /\ OriginInv
  BY DEF IdentityInit, StrictInv, OriginInv
<1> QED
  BY <1>2, <1>5, <1>6 DEF IdInv

(* What does not depend on the stage. *)
LEMMA SameRequest ==
  ASSUME request' = request, edge' = edge
  PROVE  /\ UserPassed' = UserPassed /\ ServicePassed' = ServicePassed /\ Agree' = Agree
         /\ EnteredBy' = EnteredBy /\ (AbsentInv => AbsentInv')
         /\ view' = view => \A u, s \in BOOLEAN : ToldNow(u, s) => ToldNow(u, s)'
<1>1. UserPassed' = UserPassed /\ ServicePassed' = ServicePassed /\ Agree' = Agree
  BY DEF UserPassed, ServicePassed, Agree
<1>2. EnteredBy' = EnteredBy /\ (AbsentInv => AbsentInv')
  BY DEF EnteredBy, AbsentInv
<1>3. ASSUME view' = view, NEW u \in BOOLEAN, NEW s \in BOOLEAN, ToldNow(u, s)
      PROVE  ToldNow(u, s)'
  BY <1>3 DEF ToldNow
<1> QED
  BY <1>1, <1>2, <1>3

LEMMA TickInv ==
  ASSUME IdInv, Tick
  PROVE  IdInv'
<1>1. now' \in Nat /\ request' = request /\ edge' = edge /\ view' = view /\ stage' = stage /\ origin' = origin
  BY DEF Tick, IdInv, IdentityTypeOK
<1>2. IdentityTypeOK' /\ AbsentInv' /\ OriginInv'
  BY <1>1 DEF IdInv, IdentityTypeOK, AbsentInv, OriginInv
<1>3. StrictInv'
  BY <1>1, SameRequest DEF IdInv, StrictInv
<1> QED
  BY <1>2, <1>3 DEF IdInv

(* A step that only moves the request on. *)
LEMMA OnlyStage ==
  ASSUME IdInv, request' = request, edge' = edge, now' = now, origin' = origin, stage' # "callee", StrictInv'
  PROVE  IdInv'
<1>1. IdentityTypeOK' /\ AbsentInv'
  BY DEF IdInv, IdentityTypeOK, AbsentInv
<1>2. OriginInv'
  BY DEF IdInv, OriginInv
<1> QED
  BY <1>1, <1>2 DEF IdInv

LEMMA BoundaryInv ==
  ASSUME IdInv, IdentityBoundary
  PROVE  IdInv'
<1>1. stage' = "bounded" /\ now' = now /\ edge' = edge /\ origin' = origin
  BY DEF IdentityBoundary
<1>2. CASE edge.strict
  <2>1. view' = [EmptyView EXCEPT !.untrusted = request.headers] /\ request' = [request EXCEPT !.headers = NoMeta]
    BY <1>2 DEF IdentityBoundary
  <2>2. request \in [headers : MetaType, user : UserType, stepUp : StepUpType, service : ServiceType]
    BY DEF IdInv, IdentityTypeOK
  <2>3. /\ request' \in [headers : MetaType, user : UserType, stepUp : StepUpType, service : ServiceType]
        /\ request'.headers = NoMeta /\ request'.user = request.user /\ request'.service = request.service
    BY <2>1, <2>2, NoMetaType
  <2>4. IdentityTypeOK' /\ AbsentInv' /\ OriginInv'
    BY <1>1, <2>3 DEF IdInv, IdentityTypeOK, AbsentInv, OriginInv
  <2>5. PICK m \in MetaType : m = request.headers
    BY <2>2
  <2>6. view' = Ctx(NoMeta, NoActor, "", FALSE, m, 0)
    BY <2>1, <2>5, CtxUntrusted
  <2>7. ToldNow(FALSE, FALSE)'
    BY <2>6, ToldNothing DEF ToldNow
  <2>8. StrictInv'
    BY <1>1, <2>3, <2>7 DEF StrictInv
  <2> QED
    BY <2>4, <2>8 DEF IdInv
<1>3. CASE ~edge.strict
  <2>1. request' = request
    BY <1>3 DEF IdentityBoundary
  <2>2. StrictInv'
    BY <1>1, <1>3 DEF StrictInv
  <2> QED
    BY <1>1, <2>1, <2>2, OnlyStage
<1> QED
  BY <1>2, <1>3

(* Nothing is left of the headers for RequestID to merge. *)
LEMMA RequestIDInv ==
  ASSUME IdInv, RequestID
  PROVE  IdInv'
<1>1. /\ stage = "bounded" /\ stage' = "first" /\ now' = now /\ edge' = edge /\ origin' = origin
      /\ request' = request
      /\ view' = [view EXCEPT !.meta = Merge(@, request.headers)]
  BY DEF RequestID
<1>2. ASSUME edge.strict PROVE request.headers = NoMeta /\ ToldNow(FALSE, FALSE)'
  <2>1. request.headers = NoMeta /\ ToldNow(FALSE, FALSE)
    BY <1>1, <1>2 DEF IdInv, StrictInv
  <2>2. PICK m \in MetaType : view = Ctx(NoMeta, NoActor, "", FALSE, m, 0)
    BY <2>1, ToldNothing DEF ToldNow
  <2>3. Merge(NoMeta, NoMeta) = NoMeta
    BY DEF Merge, NoMeta, Meta
  <2>4. view.meta = NoMeta
    BY <2>2 DEF Ctx
  <2>5. view' = [view EXCEPT !.meta = NoMeta]
    BY <1>1, <2>1, <2>3, <2>4
  <2>6. PICK v : v = view
    OBVIOUS
  <2>7. view' = Ctx(NoMeta, NoActor, "", FALSE, m, 0)
    BY <2>2, <2>5, <2>6 DEF Ctx
  <2> QED
    BY <2>1, <2>7, ToldNothing DEF ToldNow
<1>3. StrictInv'
  BY <1>1, <1>2 DEF StrictInv
<1> QED
  BY <1>1, <1>3, OnlyStage

(* The first verifier. *)
LEMMA VerifyFirstInv ==
  ASSUME IdInv, NEW denied \in BOOLEAN, VerifyFirst(denied)
  PROVE  IdInv'
<1>1. /\ stage = "first" /\ stage' \in {"second", "refused"}
      /\ now' = now /\ edge' = edge /\ origin' = origin /\ request' = request
  BY DEF VerifyFirst, Verify
<1>2. ASSUME edge.strict, stage' = "second" PROVE StrictInv'
  <2>1. request.headers = NoMeta /\ ToldNow(FALSE, FALSE) /\ IdentityTypeOK
    BY <1>1, <1>2 DEF IdInv, StrictInv
  <2>2. CASE edge.route = "probe"
    <3>1. view' = view
      BY <2>2 DEF VerifyFirst, Verify
    <3>2. ToldNow(FALSE, FALSE)'
      BY <1>1, <2>1, <3>1, SameRequest
    <3> QED
      BY <1>1, <1>2, <2>1, <2>2, <3>2 DEF StrictInv
  <2>3. CASE edge.route # "probe"
    <3>1. ~CredentialRefused(edge.order[1], view, now, denied) /\ view' = Verified(edge.order[1], view)
      BY <1>2, <2>3 DEF VerifyFirst, Verify
    <3>2. PICK m \in MetaType : view = Told(request, FALSE, FALSE, m)
      BY <2>1 DEF ToldNow
    <3>3. edge.order[1] = "user" \/ edge.order[1] = "service"
      BY <2>1 DEF IdentityTypeOK, Orders
    <3>4. CASE edge.order[1] = "user"
      <4>1. ~UserRefused(view, now) /\ view' = WithUser(view)
        BY <3>1, <3>4 DEF CredentialRefused, Verified
      <4>2. UserPassed
        BY <3>2, <4>1, UserRefusedFirst DEF UserFault, UserPassed
      <4>3. view' = Told(request, TRUE, FALSE, m)
        BY <2>1, <3>2, <4>1, <4>2, UserFromNothing
      <4>4. ToldNow(TRUE, FALSE)'
        BY <1>1, <4>3 DEF ToldNow
      <4> QED
        BY <1>1, <1>2, <2>1, <2>3, <3>4, <4>2, <4>4, SameRequest DEF StrictInv
    <3>5. CASE edge.order[1] = "service"
      <4>1. ~ServiceRefused(view, now, denied) /\ view' = WithService(view)
        BY <3>1, <3>5 DEF CredentialRefused, Verified
      <4>2. ServicePassed
        BY <3>2, <4>1, ServiceRefusedFirst DEF ServiceFault, ServicePassed
      <4>3. view' = Told(request, FALSE, TRUE, m)
        BY <2>1, <3>2, <4>1, <4>2, ServiceFromNothing
      <4>4. ToldNow(FALSE, TRUE)'
        BY <1>1, <4>3 DEF ToldNow
      <4> QED
        BY <1>1, <1>2, <2>1, <2>3, <3>5, <4>2, <4>4, SameRequest DEF StrictInv
    <3> QED
      BY <3>3, <3>4, <3>5
  <2> QED
    BY <2>2, <2>3
<1>3. StrictInv'
  BY <1>1, <1>2 DEF StrictInv
<1> QED
  BY <1>1, <1>3, OnlyStage

(* The second verifier: what the first one said must agree. *)
LEMMA VerifySecondInv ==
  ASSUME IdInv, NEW denied \in BOOLEAN, VerifySecond(denied)
  PROVE  IdInv'
<1>1. /\ stage = "second" /\ stage' \in {"verified", "refused"}
      /\ now' = now /\ edge' = edge /\ origin' = origin /\ request' = request
  BY DEF VerifySecond, Verify
<1>2. ASSUME edge.strict, stage' = "verified" PROVE StrictInv'
  <2>1. request.headers = NoMeta /\ IdentityTypeOK
    BY <1>1, <1>2 DEF IdInv, StrictInv
  <2>2. CASE edge.route = "probe"
    <3>1. view' = view /\ ToldNow(FALSE, FALSE)
      BY <1>1, <1>2, <2>2 DEF VerifySecond, Verify, IdInv, StrictInv
    <3>2. ToldNow(FALSE, FALSE)'
      BY <1>1, <3>1, SameRequest
    <3> QED
      BY <1>1, <1>2, <2>1, <2>2, <3>2 DEF StrictInv
  <2>3. CASE edge.route # "probe"
    <3>1. ~CredentialRefused(edge.order[2], view, now, denied) /\ view' = Verified(edge.order[2], view)
      BY <1>2, <2>3 DEF VerifySecond, Verify
    <3>2. \/ edge.order[1] = "user" /\ UserPassed /\ ToldNow(TRUE, FALSE)
          \/ edge.order[1] = "service" /\ ServicePassed /\ ToldNow(FALSE, TRUE)
      BY <1>1, <1>2, <2>3 DEF IdInv, StrictInv
    <3>3. \/ edge.order[1] = "user" /\ edge.order[2] = "service"
          \/ edge.order[1] = "service" /\ edge.order[2] = "user"
      BY <2>1 DEF IdentityTypeOK, Orders
    <3>4. UserPassed /\ ServicePassed /\ Agree /\ ToldNow(TRUE, TRUE)'
      <4>1. CASE edge.order[1] = "user"
        <5>1. edge.order[2] = "service" /\ UserPassed /\ ToldNow(TRUE, FALSE)
          BY <3>2, <3>3, <4>1
        <5>2. PICK m \in MetaType : view = Told(request, TRUE, FALSE, m)
          BY <5>1 DEF ToldNow
        <5>3. ~ServiceRefused(view, now, denied) /\ view' = WithService(view)
          BY <3>1, <5>1 DEF CredentialRefused, Verified
        <5>4. ServicePassed /\ Agree
          BY <5>1, <5>2, <5>3, ServiceRefusedSecond DEF ServiceFault, ServicePassed
        <5>5. view' = Told(request, TRUE, TRUE, m)
          BY <2>1, <5>2, <5>3, <5>4, ServiceAfterUser
        <5> QED
          BY <1>1, <5>1, <5>4, <5>5 DEF ToldNow
      <4>2. CASE edge.order[1] = "service"
        <5>1. edge.order[2] = "user" /\ ServicePassed /\ ToldNow(FALSE, TRUE)
          BY <3>2, <3>3, <4>2
        <5>2. PICK m \in MetaType : view = Told(request, FALSE, TRUE, m)
          BY <5>1 DEF ToldNow
        <5>3. ~UserRefused(view, now) /\ view' = WithUser(view)
          BY <3>1, <5>1 DEF CredentialRefused, Verified
        <5>4. UserPassed /\ Agree
          BY <5>1, <5>2, <5>3, UserRefusedSecond DEF UserFault, UserPassed
        <5>5. view' = Told(request, TRUE, TRUE, m)
          BY <2>1, <5>2, <5>3, <5>4, UserAfterService
        <5> QED
          BY <1>1, <5>1, <5>4, <5>5 DEF ToldNow
      <4> QED
        BY <3>3, <4>1, <4>2
    <3> QED
      BY <1>1, <1>2, <2>1, <2>3, <3>4, SameRequest DEF StrictInv
  <2> QED
    BY <2>2, <2>3
<1>3. StrictInv'
  BY <1>1, <1>2 DEF StrictInv
<1> QED
  BY <1>1, <1>3, OnlyStage

(* A proof that is missing is older than any age a route accepts. *)
LEMMA GuardInv ==
  ASSUME IdInv, Guard
  PROVE  IdInv'
<1>1. /\ stage = "verified" /\ stage' = (IF Admitted THEN "handler" ELSE "refused")
      /\ now' = now /\ edge' = edge /\ origin' = origin /\ request' = request /\ view' = view
  BY DEF Guard
<1>2. ASSUME edge.strict, Admitted PROVE EnteredBy
  <2>1. CASE edge.route = "probe"
    BY <2>1 DEF EnteredBy
  <2>2. CASE edge.route # "probe"
    <3>1. ToldNow(TRUE, TRUE)
      BY <1>1, <1>2, <2>2 DEF IdInv, StrictInv
    <3>2. PICK m \in MetaType : view = Told(request, TRUE, TRUE, m)
      BY <3>1 DEF ToldNow
    <3>3. /\ view.principal = IF request.service.kind = "service" THEN request.service.sub ELSE ""
          /\ view.actor = IF request.user.kind = "access"
                          THEN [user |-> TRUE, tid |-> request.user.tid, perms |-> request.user.perms,
                                stepUpAt |-> IF request.stepUp.kind = "proof" THEN request.stepUp.iat
                                             ELSE 0 - 1 - StepUpMaxAge]
                          ELSE NoActor
      BY <3>2 DEF Told
    <3>4. view.actor.user => request.user.kind = "access"
      <4> SUFFICES ASSUME request.user.kind # "access" PROVE ~view.actor.user
        OBVIOUS
      <4>1. view.actor = NoActor
        BY <3>3
      <4>2. NoActor.user = FALSE
        BY DEF NoActor
      <4> QED
        BY <4>1, <4>2
    <3>5. request.user.kind = "access" =>
            /\ view.actor.perms = request.user.perms
            /\ request.stepUp.kind # "proof" => view.actor.stepUpAt = 0 - 1 - StepUpMaxAge
      <4> SUFFICES ASSUME request.user.kind = "access"
                   PROVE  /\ view.actor.perms = request.user.perms
                          /\ request.stepUp.kind # "proof" => view.actor.stepUpAt = 0 - 1 - StepUpMaxAge
        OBVIOUS
      <4>1. PICK a : a = view.actor
        OBVIOUS
      <4>2. a = [user |-> TRUE, tid |-> request.user.tid, perms |-> request.user.perms,
                 stepUpAt |-> IF request.stepUp.kind = "proof" THEN request.stepUp.iat
                              ELSE 0 - 1 - StepUpMaxAge]
        BY <3>3, <4>1
      <4> QED
        BY <4>1, <4>2
    <3>6. StepUpMaxAge \in Nat /\ now \in Nat
      BY IdentityAssumption DEF IdInv, IdentityTypeOK
    <3>7. edge.route \in Routes
      BY DEF IdInv, IdentityTypeOK
    <3>8. edge.route \in {"authenticated", "permission", "challenge"} => request.user.kind = "access"
      BY <1>2, <3>4 DEF Admitted, Require
    <3>9. edge.route \in {"permission", "challenge"} => request.user.perms
      BY <1>2, <3>4, <3>5 DEF Admitted, Require
    <3>10. edge.route = "challenge" => request.stepUp.kind = "proof"
      <4> SUFFICES ASSUME edge.route = "challenge", request.stepUp.kind # "proof" PROVE FALSE
        OBVIOUS
      <4>1. now - view.actor.stepUpAt <= StepUpMaxAge
        BY <1>2 DEF Admitted, Require
      <4>2. view.actor.stepUpAt = 0 - 1 - StepUpMaxAge
        BY <3>5, <3>8
      <4> QED
        BY <3>6, <4>1, <4>2
    <3>11. edge.route = "internal_service" => request.service.kind = "service"
      BY <1>2, <3>3 DEF Admitted
    <3> QED
      BY <3>8, <3>9, <3>10, <3>11 DEF EnteredBy
  <2> QED
    BY <2>1, <2>2
<1>3. StrictInv'
  BY <1>1, <1>2, SameRequest DEF IdInv, StrictInv
<1> QED
  BY <1>1, <1>3, OnlyStage


(* What goes into the meta of an event comes out of it. *)
LEMMA MapRoundTrip ==
  ASSUME NEW meta \in MetaType
  PROVE  FromMap(ToMap(meta)) = meta
<1> DEFINE M == ToMap(meta)
<1>1. DOMAIN meta = {"tenant", "partition", "caller"} /\ DOMAIN NoMeta = DOMAIN meta
  BY DEF MetaType, NoMeta, Meta
<1>2. \A e : e \in M <=> \E f \in DOMAIN meta : meta[f] # "" /\ e = <<f, meta[f]>>
  BY DEF ToMap
<1> HIDE DEF M
<1>3. ASSUME NEW f \in DOMAIN meta
      PROVE  (IF \E e \in M : e[1] = f THEN (CHOOSE e \in M : e[1] = f)[2] ELSE "") = meta[f]
  <2>1. \A e \in M : e[1] = f => e[2] = meta[f] /\ meta[f] # ""
    <3> SUFFICES ASSUME NEW e \in M, e[1] = f PROVE e[2] = meta[f] /\ meta[f] # ""
      OBVIOUS
    <3>1. PICK g \in DOMAIN meta : meta[g] # "" /\ e = <<g, meta[g]>>
      BY <1>2
    <3>2. e[1] = g /\ e[2] = meta[g]
      BY <3>1
    <3> QED
      BY <3>1, <3>2
  <2>2. CASE meta[f] = ""
    <3>1. ~\E e \in M : e[1] = f
      BY <2>1, <2>2
    <3> QED
      BY <2>2, <3>1
  <2>3. CASE meta[f] # ""
    <3>1. <<f, meta[f]>> \in M /\ <<f, meta[f]>>[1] = f
      BY <1>2, <2>3
    <3>2. \E e \in M : e[1] = f
      BY <3>1
    <3>3. (CHOOSE e \in M : e[1] = f) \in M /\ (CHOOSE e \in M : e[1] = f)[1] = f
      BY <3>2
    <3> QED
      BY <2>1, <3>2, <3>3
  <2> QED
    BY <2>2, <2>3
<1>4. FromMap(M) = [f \in DOMAIN meta |-> meta[f]]
  BY <1>1, <1>3 DEF FromMap
<1>5. meta = [f \in DOMAIN meta |-> meta[f]]
  BY DEF MetaType
<1> QED
  BY <1>4, <1>5 DEF M

(* What a handler of a strict edge may pass on. *)
LEMMA HandlerMeta ==
  ASSUME IdInv, edge.strict, stage = "handler"
  PROVE  view.meta \in MetaType
<1>1. ToldNow(FALSE, FALSE) \/ ToldNow(TRUE, TRUE)
  BY DEF IdInv, StrictInv
<1>2. PICK u \in BOOLEAN, s \in BOOLEAN, m \in MetaType : view = Told(request, u, s, m)
  BY <1>1 DEF ToldNow
<1> QED
  BY <1>2, ToldMeta DEF IdInv

(* A callee in process, and the consumer of an event. *)
LEMMA CalleeInv ==
  ASSUME IdInv, edge.strict, stage = "handler", stage' = "callee",
         now' = now, edge' = edge, request' = request,
         NEW via \in {"process", "event"}, origin' = [via |-> via, meta |-> view.meta],
         view' = [EmptyView EXCEPT !.meta = view.meta]
  PROVE  IdInv'
<1>1. origin' \in [via : {"network", "process", "http", "event"}, meta : MetaType]
      /\ origin'.via = via /\ origin'.meta = view.meta
  BY HandlerMeta
<1>2. IdentityTypeOK' /\ AbsentInv'
  BY <1>1 DEF IdInv, IdentityTypeOK, AbsentInv
<1>3. StrictInv'
  BY DEF StrictInv
<1>4. OriginInv'
  BY <1>1 DEF OriginInv, EmptyView, NoActor, NoMeta, Meta
<1> QED
  BY <1>2, <1>3, <1>4 DEF IdInv

LEMMA CallInProcessInv ==
  ASSUME IdInv, NEW inTx \in BOOLEAN, CallInProcess(inTx)
  PROVE  IdInv'
<1>1. CASE inTx
  <2>1. stage' = "refused" /\ now' = now /\ edge' = edge /\ request' = request /\ origin' = origin
    BY <1>1 DEF CallInProcess
  <2>2. StrictInv'
    BY <2>1 DEF StrictInv
  <2> QED
    BY <2>1, <2>2, OnlyStage
<1>2. CASE ~inTx
  <2>1. /\ edge.strict /\ stage = "handler" /\ stage' = "callee" /\ now' = now /\ edge' = edge
        /\ request' = request /\ origin' = [via |-> "process", meta |-> view.meta]
        /\ view' = [EmptyView EXCEPT !.meta = view.meta]
    BY <1>2 DEF CallInProcess, Firewall
  <2> QED
    BY <2>1, CalleeInv
<1> QED
  BY <1>1, <1>2

LEMMA PublishEventInv ==
  ASSUME IdInv, PublishEvent
  PROVE  IdInv'
<1>1. edge.strict /\ stage = "handler"
  BY DEF PublishEvent
<1>2. FromMap(ToMap(view.meta)) = view.meta
  BY <1>1, HandlerMeta, MapRoundTrip
<1>3. /\ stage' = "callee" /\ now' = now /\ edge' = edge /\ request' = request
      /\ origin' = [via |-> "event", meta |-> view.meta]
      /\ view' = [EmptyView EXCEPT !.meta = view.meta]
  BY <1>2 DEF PublishEvent
<1> QED
  BY <1>1, <1>3, CalleeInv

(* A call over HTTP starts over at the next edge, with a credential. *)
LEMMA CallRemoteInv ==
  ASSUME IdInv, NEW inTx \in BOOLEAN, NEW granted \in BOOLEAN, CallRemote(inTx, granted)
  PROVE  IdInv'
<1>1. CASE inTx \/ ~granted \/ Sign("a", view.meta).exp <= now
  <2>1. stage' = "refused" /\ now' = now /\ edge' = edge /\ request' = request /\ origin' = origin
    BY <1>1 DEF CallRemote
  <2>2. StrictInv'
    BY <2>1 DEF StrictInv
  <2> QED
    BY <2>1, <2>2, OnlyStage
<1>2. CASE ~(inTx \/ ~granted \/ Sign("a", view.meta).exp <= now)
  <2>1. /\ edge.strict /\ stage = "handler" /\ stage' = "arrived" /\ now' = now
        /\ request' = [headers |-> NoMeta, user |-> NoUser, stepUp |-> NoStepUp, service |-> Sign("a", view.meta)]
        /\ edge' = [strict |-> TRUE, order |-> <<"service", "user">>, route |-> "internal_service"]
        /\ origin' = [via |-> "http", meta |-> view.meta]
    BY <1>2 DEF CallRemote
  <2>2. view.meta \in MetaType
    BY <2>1, HandlerMeta
  <2>3. now \in Nat /\ CredentialTTL \in Nat
    BY IdentityAssumption DEF IdInv, IdentityTypeOK
  <2>4. PICK s : s = Sign("a", view.meta)
    OBVIOUS
  <2>5. s = [kind |-> "service", sub |-> "a", tid |-> view.meta.tenant, partition |-> view.meta.partition,
             iat |-> now, exp |-> now + CredentialTTL]
    BY <2>4 DEF Sign
  <2>6. s \in ServiceType
    <3>1. view.meta.tenant \in Words /\ view.meta.partition \in Words /\ now + CredentialTTL \in Nat
      BY <2>2, <2>3 DEF MetaType
    <3>2. "a" \in Words
      BY DEF Words
    <3> QED
      BY <2>3, <2>5, <3>1, <3>2 DEF ServiceType
  <2>7. NoUser \in UserType /\ NoStepUp \in StepUpType
    BY DEF NoUser, UserType, NoStepUp, StepUpType, Words
  <2>8. request' \in [headers : MetaType, user : UserType, stepUp : StepUpType, service : ServiceType]
        /\ request'.user = NoUser /\ request'.service = s
    BY <2>1, <2>4, <2>6, <2>7, NoMetaType
  <2>9. edge' \in [strict : BOOLEAN, order : Orders, route : Routes]
        /\ edge'.strict = TRUE /\ edge'.route = "internal_service"
    BY <2>1 DEF Orders, Routes
  <2>10. origin' \in [via : {"network", "process", "http", "event"}, meta : MetaType] /\ origin'.meta = view.meta
    BY <2>1, <2>2
  <2>11. IdentityTypeOK'
    BY <2>1, <2>3, <2>8, <2>9, <2>10 DEF IdentityTypeOK
  <2>12. AbsentInv'
    BY <2>5, <2>8 DEF AbsentInv
  <2>13. StrictInv'
    BY <2>1 DEF StrictInv
  <2>14. OriginInv'
    BY <2>1, <2>5, <2>8, <2>9, <2>10 DEF OriginInv
  <2> QED
    BY <2>11, <2>12, <2>13, <2>14 DEF IdInv
<1> QED
  BY <1>1, <1>2

LEMMA IdNextInv == IdInv /\ [IdentityNext]_idVars => IdInv'
<1> SUFFICES ASSUME IdInv, [IdentityNext]_idVars PROVE IdInv'
  OBVIOUS
<1>1. CASE Tick
  BY <1>1, TickInv
<1>2. CASE IdentityBoundary
  BY <1>2, BoundaryInv
<1>3. CASE RequestID
  BY <1>3, RequestIDInv
<1>4. CASE Guard
  BY <1>4, GuardInv
<1>5. CASE PublishEvent
  BY <1>5, PublishEventInv
<1>6. CASE \E denied \in BOOLEAN : VerifyFirst(denied) \/ VerifySecond(denied)
  BY <1>6, VerifyFirstInv, VerifySecondInv
<1>7. CASE \E inTx \in BOOLEAN : CallInProcess(inTx) \/ \E granted \in BOOLEAN : CallRemote(inTx, granted)
  BY <1>7, CallInProcessInv, CallRemoteInv
<1>8. CASE UNCHANGED idVars
  <2>1. now' = now /\ request' = request /\ edge' = edge /\ view' = view /\ stage' = stage /\ origin' = origin
    BY <1>8 DEF idVars
  <2>2. IdentityTypeOK' /\ AbsentInv' /\ OriginInv'
    BY <2>1 DEF IdInv, IdentityTypeOK, AbsentInv, OriginInv
  <2>3. StrictInv'
    BY <2>1, SameRequest DEF IdInv, StrictInv
  <2> QED
    BY <2>2, <2>3 DEF IdInv
<1> QED
  BY <1>1, <1>2, <1>3, <1>4, <1>5, <1>6, <1>7, <1>8 DEF IdentityNext

-----------------------------------------------------------------------------
(* Every credential was valid when it was looked at. *)

LEMMA FreshInitInv == IdentityInit => FreshInv
<1> SUFFICES ASSUME IdentityInit PROVE FreshInv
  OBVIOUS
<1>1. stage = "arrived" /\ checked = [user |-> 0, service |-> 0, guard |-> 0]
  BY DEF IdentityInit
<1> QED
  BY <1>1 DEF FreshInv

LEMMA FreshStays ==
  ASSUME FreshInv, request' = request, edge' = edge, checked' = checked, stage' # "second" \/ stage' = stage,
         stage' \notin {"verified", "handler"} \/ stage' = stage
  PROVE  FreshInv'
<1>1. UserFresh' = UserFresh /\ ServiceFresh' = ServiceFresh /\ GuardFresh' = GuardFresh
  BY DEF UserFresh, ServiceFresh, GuardFresh, Expired
<1> QED
  BY <1>1 DEF FreshInv

(* A verifier that lets a request pass. *)
LEMMA VerifierFresh ==
  ASSUME IdInv, FreshInv, NEW n \in {1, 2}, NEW here, NEW next, NEW denied,
         Verify(n, here, next, denied), edge.route # "probe", stage' = next, next # "refused"
  PROVE  /\ edge.order[n] = "user" => UserFresh' /\ (ServiceFresh => ServiceFresh')
         /\ edge.order[n] = "service" => ServiceFresh' /\ (UserFresh => UserFresh')
<1>1. /\ ~CredentialRefused(edge.order[n], view, now, denied) /\ request' = request
      /\ checked' = [checked EXCEPT ![edge.order[n]] = now]
  BY DEF Verify
<1>2. now \in Nat /\ request.user \in UserType /\ request.stepUp \in StepUpType
  BY DEF IdInv, IdentityTypeOK
<1>3. checked \in [user : Nat, service : Nat, guard : Nat]
  BY DEF FreshInv
<1>4. ASSUME edge.order[n] = "user" PROVE UserFresh' /\ (ServiceFresh => ServiceFresh')
  <2>1. checked'.user = now /\ checked'.service = checked.service
    BY <1>1, <1>3, <1>4
  <2>2. ~UserRefused(view, now)
    BY <1>1, <1>4 DEF CredentialRefused
  <2>3. request.user.kind = "access" => ~(now >= request.user.exp) /\ ~StepUpRefused(now)
    BY <2>2 DEF UserRefused
  <2>4. request.user.exp \in Nat /\ request.stepUp.exp \in Nat
    BY <1>2 DEF UserType, StepUpType
  <2>5. UserFresh'
    BY <1>1, <1>2, <2>1, <2>3, <2>4 DEF UserFresh, StepUpRefused
  <2>6. ServiceFresh => ServiceFresh'
    BY <1>1, <2>1 DEF ServiceFresh, Expired
  <2> QED
    BY <2>5, <2>6
<1>5. ASSUME edge.order[n] = "service" PROVE ServiceFresh' /\ (UserFresh => UserFresh')
  <2>1. checked'.service = now /\ checked'.user = checked.user
    BY <1>1, <1>3, <1>5
  <2>2. ~ServiceRefused(view, now, denied)
    BY <1>1, <1>5 DEF CredentialRefused
  <2>3. request.service.kind = "service" => ~Expired(request.service, now)
    BY <2>2 DEF ServiceRefused
  <2>4. ServiceFresh'
    BY <1>1, <2>1, <2>3 DEF ServiceFresh, Expired
  <2>5. UserFresh => UserFresh'
    BY <1>1, <2>1 DEF UserFresh
  <2> QED
    BY <2>4, <2>5
<1> QED
  BY <1>4, <1>5

LEMMA VerifierTypes ==
  ASSUME IdInv, FreshInv, NEW n \in {1, 2}, NEW here, NEW next, NEW denied, Verify(n, here, next, denied)
  PROVE  checked' \in [user : Nat, service : Nat, guard : Nat]
<1>1. checked' = [checked EXCEPT ![edge.order[n]] = now] /\ now \in Nat
  BY DEF Verify, IdInv, IdentityTypeOK
<1>2. checked \in [user : Nat, service : Nat, guard : Nat]
  BY DEF FreshInv
<1>3. edge.order[n] \in {"user", "service"}
  BY DEF IdInv, IdentityTypeOK, Orders
<1> QED
  BY <1>1, <1>2, <1>3

LEMMA VerifiersFresh ==
  ASSUME IdInv, FreshInv, NEW denied, VerifyFirst(denied) \/ VerifySecond(denied)
  PROVE  FreshInv'
<1>1. edge' = edge
  BY DEF VerifyFirst, VerifySecond, Verify
<1>2. checked' \in [user : Nat, service : Nat, guard : Nat]
  BY VerifierTypes DEF VerifyFirst, VerifySecond
<1>3. \/ edge.order[1] = "user" /\ edge.order[2] = "service"
      \/ edge.order[1] = "service" /\ edge.order[2] = "user"
  <2>1. IdentityTypeOK
    BY DEF IdInv
  <2> QED
    BY <2>1 DEF IdentityTypeOK, Orders
<1>4. CASE VerifyFirst(denied)
  <2>1. stage' \in {"second", "refused"}
    BY <1>4 DEF VerifyFirst, Verify
  <2>2. CASE edge.route # "probe" /\ stage' = "second"
    <3>1. /\ edge.order[1] = "user" => UserFresh'
          /\ edge.order[1] = "service" => ServiceFresh'
      BY <1>4, <2>2, VerifierFresh DEF VerifyFirst
    <3> QED
      BY <1>1, <1>2, <1>3, <2>2, <3>1 DEF FreshInv
  <2> QED
    BY <1>1, <1>2, <2>1, <2>2 DEF FreshInv
<1>5. CASE VerifySecond(denied)
  <2>1. stage = "second" /\ stage' \in {"verified", "refused"}
    BY <1>5 DEF VerifySecond, Verify
  <2>2. CASE edge.strict /\ edge.route # "probe" /\ stage' = "verified"
    <3>1. /\ edge.order[2] = "user" => UserFresh' /\ (ServiceFresh => ServiceFresh')
          /\ edge.order[2] = "service" => ServiceFresh' /\ (UserFresh => UserFresh')
      BY <1>5, <2>2, VerifierFresh DEF VerifySecond
    <3>2. (edge.order[1] = "user" /\ UserFresh) \/ (edge.order[1] = "service" /\ ServiceFresh)
      BY <2>1, <2>2 DEF FreshInv
    <3>3. UserFresh' /\ ServiceFresh'
      BY <1>3, <3>1, <3>2
    <3> QED
      BY <1>1, <1>2, <2>2, <3>3 DEF FreshInv
  <2> QED
    BY <1>1, <1>2, <2>1, <2>2 DEF FreshInv
<1> QED
  BY <1>4, <1>5

LEMMA GuardIsFresh ==
  ASSUME IdInv, FreshInv, Guard
  PROVE  FreshInv'
<1>1. /\ stage = "verified" /\ stage' = (IF Admitted THEN "handler" ELSE "refused")
      /\ edge' = edge /\ request' = request /\ checked' = [checked EXCEPT !.guard = now]
  BY DEF Guard
<1>2. now \in Nat /\ checked \in [user : Nat, service : Nat, guard : Nat]
  BY DEF IdInv, IdentityTypeOK, FreshInv
<1>3. /\ checked' \in [user : Nat, service : Nat, guard : Nat] /\ checked'.guard = now
      /\ checked'.user = checked.user /\ checked'.service = checked.service
  BY <1>1, <1>2
<1>4. UserFresh' = UserFresh /\ ServiceFresh' = ServiceFresh
  BY <1>1, <1>3 DEF UserFresh, ServiceFresh, Expired
<1>5. CASE edge.strict /\ Admitted /\ edge.route = "challenge"
  <2>1. ToldNow(TRUE, TRUE)
    BY <1>1, <1>5 DEF IdInv, StrictInv
  <2>2. PICK m \in MetaType : view = Told(request, TRUE, TRUE, m)
    BY <2>1 DEF ToldNow
  <2>3. view.actor.user /\ now - view.actor.stepUpAt <= StepUpMaxAge
    BY <1>5 DEF Admitted, Require
  <2>4. PICK a : a = view.actor
    OBVIOUS
  <2>5. EnteredBy
    <3>1. EnteredBy' /\ edge'.strict
      BY <1>1, <1>5, GuardInv DEF IdInv, StrictInv
    <3> QED
      BY <1>1, <3>1, SameRequest
  <2>6. request.user.kind = "access" /\ request.stepUp.kind = "proof"
    BY <1>5, <2>5 DEF EnteredBy
  <2>7. a = [user |-> TRUE, tid |-> request.user.tid, perms |-> request.user.perms,
             stepUpAt |-> IF request.stepUp.kind = "proof" THEN request.stepUp.iat ELSE 0 - 1 - StepUpMaxAge]
    BY <2>2, <2>4, <2>6 DEF Told
  <2>8. view.actor.stepUpAt = request.stepUp.iat
    BY <2>4, <2>6, <2>7
  <2>9. GuardFresh'
    BY <1>1, <1>3, <2>3, <2>8 DEF GuardFresh
  <2> QED
    BY <1>1, <1>3, <1>4, <2>9 DEF FreshInv
<1>6. CASE edge.route # "challenge"
  <2>1. GuardFresh'
    BY <1>1, <1>6 DEF GuardFresh
  <2> QED
    BY <1>1, <1>3, <1>4, <2>1 DEF FreshInv
<1>7. CASE ~edge.strict \/ ~Admitted
  BY <1>1, <1>3, <1>4, <1>7 DEF FreshInv
<1> QED
  BY <1>5, <1>6, <1>7

LEMMA FreshNextInv == IdInv /\ FreshInv /\ [IdentityNext]_idVars => FreshInv'
<1> SUFFICES ASSUME IdInv, FreshInv, [IdentityNext]_idVars PROVE FreshInv'
  OBVIOUS
<1>1. CASE Tick \/ UNCHANGED idVars
  BY <1>1, FreshStays DEF Tick, idVars
<1>2. CASE IdentityBoundary \/ \E inTx \in BOOLEAN, granted \in BOOLEAN : CallRemote(inTx, granted)
  <2>1. stage' \in {"bounded", "arrived", "refused"} /\ checked' = checked
    BY <1>2 DEF IdentityBoundary, CallRemote
  <2> QED
    BY <2>1 DEF FreshInv
<1>3. CASE RequestID \/ PublishEvent \/ \E inTx \in BOOLEAN : CallInProcess(inTx)
  <2>1. stage' \in {"first", "callee", "refused"} /\ checked' = checked
    BY <1>3 DEF RequestID, PublishEvent, CallInProcess
  <2> QED
    BY <2>1 DEF FreshInv
<1>4. CASE \E denied \in BOOLEAN : VerifyFirst(denied) \/ VerifySecond(denied)
  BY <1>4, VerifiersFresh
<1>5. CASE Guard
  BY <1>5, GuardIsFresh
<1> QED
  BY <1>1, <1>2, <1>3, <1>4, <1>5 DEF IdentityNext

-----------------------------------------------------------------------------
(* What the invariant says to the handler and to the callee. *)

LEMMA HandlerIsTold ==
  ASSUME IdInv, edge.strict, stage = "handler", edge.route # "probe"
  PROVE  /\ view.actor.user => request.user.kind = "access" /\ view.actor.tid = request.user.tid
                               /\ view.actor.perms = request.user.perms
         /\ view.principal = request.service.sub
         /\ view.meta = [tenant |-> IF request.user.kind = "access" THEN request.user.tid ELSE request.service.tid,
                         partition |-> IF request.user.kind = "access" THEN PartitionOf(request.user.iss)
                                       ELSE request.service.partition,
                         caller |-> request.service.sub]
<1>1. ToldNow(TRUE, TRUE) /\ AbsentInv
  BY DEF IdInv, StrictInv
<1>2. PICK m \in MetaType : view = Told(request, TRUE, TRUE, m)
  BY <1>1 DEF ToldNow
<1>3. view.principal = request.service.sub
  BY <1>1, <1>2 DEF Told, AbsentInv
<1>4. view.meta = [tenant |-> IF request.user.kind = "access" THEN request.user.tid ELSE request.service.tid,
                   partition |-> IF request.user.kind = "access" THEN PartitionOf(request.user.iss)
                                 ELSE request.service.partition,
                   caller |-> request.service.sub]
  BY <1>1, <1>2 DEF Told, AbsentInv
<1>5. CASE request.user.kind = "access"
  <2>1. PICK a : a = view.actor
    OBVIOUS
  <2>2. a = [user |-> TRUE, tid |-> request.user.tid, perms |-> request.user.perms,
             stepUpAt |-> IF request.stepUp.kind = "proof" THEN request.stepUp.iat ELSE 0 - 1 - StepUpMaxAge]
    BY <1>2, <1>5, <2>1 DEF Told
  <2>3. a.tid = request.user.tid /\ a.perms = request.user.perms
    BY <2>2
  <2> QED
    BY <1>3, <1>4, <1>5, <2>1, <2>3
<1>6. CASE request.user.kind # "access"
  <2>1. view.actor = NoActor
    BY <1>2, <1>6 DEF Told
  <2>2. NoActor.user = FALSE
    BY DEF NoActor
  <2> QED
    BY <1>3, <1>4, <2>1, <2>2
<1> QED
  BY <1>5, <1>6

LEMMA IdInvImpliesVouched == IdInv /\ FreshInv => IdentityIsVouched
<1> SUFFICES ASSUME IdInv, FreshInv PROVE IdentityIsVouched
  OBVIOUS
<1>1. ASSUME edge.strict, stage = "handler", edge.route # "probe"
      PROVE  /\ view.actor.user => User.kind = "access" /\ view.actor.tid = User.tid
                                   /\ view.actor.perms = User.perms
             /\ view.principal = Service.sub
             /\ view.meta.caller = Service.sub
             /\ view.meta.tenant = IF User.kind = "access" THEN User.tid ELSE Service.tid
             /\ view.meta.partition = IF User.kind = "access" THEN PartitionOf(User.iss) ELSE Service.partition
  BY <1>1, HandlerIsTold DEF User, Service
<1>2. ASSUME edge.strict, stage = "handler", edge.route # "probe"
      PROVE  /\ User.kind = "access" /\ Service.kind = "service" =>
                  User.tid = Service.tid /\ PartitionOf(User.iss) = Service.partition
             /\ edge.route \in {"authenticated", "permission", "challenge"} => User.kind = "access"
             /\ edge.route \in {"permission", "challenge"} => User.perms
             /\ edge.route = "internal_service" => Service.kind = "service"
             /\ CredentialsAreFresh
  <2>1. Agree /\ EnteredBy
    BY <1>2 DEF IdInv, StrictInv
  <2>2. UserFresh /\ ServiceFresh /\ GuardFresh
    BY <1>2 DEF FreshInv
  <2>3. CredentialsAreFresh
    BY <2>1, <2>2 DEF EnteredBy, UserFresh, ServiceFresh, GuardFresh, CredentialsAreFresh, User, Service, StepUp
  <2> QED
    BY <2>1, <2>3 DEF Agree, EnteredBy, User, Service
<1>3. ASSUME edge.strict, stage = "handler", edge.route = "probe"
      PROVE  view.meta = NoMeta /\ ~view.actor.user
  <2>1. PICK m \in MetaType : view = Told(request, FALSE, FALSE, m)
    BY <1>3 DEF IdInv, StrictInv, ToldNow
  <2> QED
    BY <2>1, ToldNothingFields
<1>4. ASSUME origin.via = "http", stage = "handler"
      PROVE  view.meta = [origin.meta EXCEPT !.caller = "a"] /\ ~view.actor.user
  <2>1. /\ edge.strict /\ edge.route = "internal_service" /\ request.user = NoUser
        /\ request.service.sub = "a" /\ request.service.tid = origin.meta.tenant
        /\ request.service.partition = origin.meta.partition
    BY <1>4 DEF IdInv, OriginInv
  <2>2. request.user.kind = "none"
    <3>1. NoUser.kind = "none"
      BY DEF NoUser
    <3> QED
      BY <2>1, <3>1
  <2>3. ~view.actor.user
    BY <1>4, <2>1, <2>2, HandlerIsTold
  <2>4. view.meta = [tenant |-> origin.meta.tenant, partition |-> origin.meta.partition, caller |-> "a"]
    BY <1>4, <2>1, <2>2, HandlerIsTold
  <2>5. PICK o \in MetaType : o = origin.meta
    BY DEF IdInv, IdentityTypeOK
  <2>6. PICK w : w = [o EXCEPT !.caller = "a"]
    OBVIOUS
  <2>7. w = [tenant |-> o.tenant, partition |-> o.partition, caller |-> "a"]
    BY <2>6 DEF MetaType
  <2> QED
    BY <2>3, <2>4, <2>5, <2>6, <2>7
<1>5. stage = "callee" => view = [EmptyView EXCEPT !.meta = origin.meta]
  BY DEF IdInv, OriginInv
<1> QED
  BY <1>1, <1>2, <1>3, <1>4, <1>5 DEF IdentityIsVouched

(* Whichever verifier comes first, the same requests are refused, and the   *)
(* ctx of the others is the same.                                           *)
LEMMA IdInvImpliesOrder == IdInv => OrderIsIrrelevant
<1> SUFFICES ASSUME IdInv, edge.strict, stage = "first", NEW denied \in BOOLEAN
             PROVE  /\ Outcome("user", "service", denied) = Outcome("service", "user", denied)
                    /\ Outcome("user", "service", denied) = "verified" =>
                         [WithService(WithUser(view)) EXCEPT !.scoped = TRUE]
                           = [WithUser(WithService(view)) EXCEPT !.scoped = TRUE]
  BY DEF OrderIsIrrelevant
<1>1. IdentityTypeOK
  BY DEF IdInv
<1>2. PICK m \in MetaType : view = Told(request, FALSE, FALSE, m)
  BY DEF IdInv, StrictInv, ToldNow
<1> DEFINE Bad == UserFault(now) \/ ServiceFault(m, now, denied) \/ ~Agree
<1>3. UserRefused(view, now) <=> UserFault(now)
  BY <1>2, UserRefusedFirst
<1>4. ServiceRefused(view, now, denied) <=> ServiceFault(m, now, denied)
  BY <1>2, ServiceRefusedFirst
<1>5. ~UserFault(now) => UserPassed
  BY DEF UserFault, UserPassed
<1>6. ~ServiceFault(m, now, denied) => ServicePassed
  BY DEF ServiceFault, ServicePassed
<1>7. UserPassed => WithUser(view) = Told(request, TRUE, FALSE, m)
  BY <1>1, <1>2, UserFromNothing
<1>8. ServicePassed => WithService(view) = Told(request, FALSE, TRUE, m)
  BY <1>1, <1>2, ServiceFromNothing
<1>9. UserPassed => (ServiceRefused(WithUser(view), now, denied) <=> ServiceFault(m, now, denied) \/ ~Agree)
  BY <1>7, ServiceRefusedSecond
<1>10. ServicePassed => (UserRefused(WithService(view), now) <=> UserFault(now) \/ ~Agree)
  BY <1>8, UserRefusedSecond
<1>11. Outcome("user", "service", denied) = IF Bad THEN "refused" ELSE "verified"
  BY <1>3, <1>5, <1>9 DEF Outcome, CredentialRefused, Verified
<1>12. Outcome("service", "user", denied) = IF Bad THEN "refused" ELSE "verified"
  BY <1>4, <1>6, <1>10 DEF Outcome, CredentialRefused, Verified
<1>13. ASSUME ~Bad PROVE WithService(WithUser(view)) = WithUser(WithService(view))
  <2>1. UserPassed /\ ServicePassed /\ Agree
    BY <1>5, <1>6, <1>13
  <2>2. WithService(WithUser(view)) = Told(request, TRUE, TRUE, m)
    BY <1>1, <1>7, <2>1, ServiceAfterUser
  <2>3. WithUser(WithService(view)) = Told(request, TRUE, TRUE, m)
    BY <1>1, <1>8, <2>1, UserAfterService
  <2> QED
    BY <2>2, <2>3
<1> HIDE DEF Bad
<1>14. Outcome("user", "service", denied) = Outcome("service", "user", denied)
  BY <1>11, <1>12
<1>15. ASSUME Outcome("user", "service", denied) = "verified"
       PROVE  [WithService(WithUser(view)) EXCEPT !.scoped = TRUE]
                = [WithUser(WithService(view)) EXCEPT !.scoped = TRUE]
  <2>1. ~Bad
    BY <1>11, <1>15
  <2>2. WithService(WithUser(view)) = WithUser(WithService(view))
    BY <1>13, <2>1
  <2> QED
    BY <2>2, Zenon
<1> QED
  BY <1>14, <1>15

(* App.wrap, authn.MultiIssuer and ServiceVerifier, for every time to live, *)
(* clock skew and step-up age: a handler behind a strict edge knows only    *)
(* what a credential of this very request says, a route is entered only by  *)
(* whom it is for and with fresh credentials, a callee learns the tenant of *)
(* its caller and no user, and the order of the two verifiers decides       *)
(* nothing.                                                                 *)
THEOREM IdentitiesAreSound == IdentitySpec => []IdentityIsSound
<1>1. IdentityInit => IdInv /\ FreshInv
  BY IdInitInv, FreshInitInv
<1>2. IdInv /\ FreshInv /\ [IdentityNext]_idVars => (IdInv /\ FreshInv)'
  BY IdNextInv, FreshNextInv
<1>3. IdInv /\ FreshInv => IdentityIsSound
  BY IdInvImpliesVouched, IdInvImpliesOrder DEF IdentityIsSound
<1> QED
  BY <1>1, <1>2, <1>3, PTL DEF IdentitySpec

-----------------------------------------------------------------------------
(* The address of the client. *)

Addresses == Proxies \cup Strangers

IPTypeOK ==
  /\ client \in Addresses /\ peer \in Addresses
  /\ forwarded \in Seq(Addresses \cup {"malformed"})
  /\ own \in 0..Len(forwarded) /\ onFirst \in 0..Len(forwarded) /\ (onFirst = 0 => Len(forwarded) = 0)

(* Entry i of a header is the client's, and what comes after it are         *)
(* proxies; one that is trusted itself is the first.                        *)
Attests(xff, i) ==
  /\ i \in 1..Len(xff) /\ xff[i] = client
  /\ \A j \in (i + 1)..Len(xff) : xff[j] \in Proxies
  /\ client \in Proxies => i = 1

(* Until some hop has said who the client is, it is the peer, or the first  *)
(* proxy has added it to what it has written itself.                        *)
OriginKnown ==
  \/ relayer = "hop" /\ relayed = client /\ peer \in Proxies
  \/ /\ relayer = "client" /\ peer = client
     /\ client \in Proxies => forwarded = <<>> /\ relayed = "absent"
     /\ own = Len(forwarded)
  \/ relayer = "client" /\ peer \in Proxies /\ Attests(forwarded, own + 1)

ClientInv == IPTypeOK /\ (kept => OriginKnown) /\ ClientIsFound

(* The walk from the right ends at the entry of the client. *)
LEMMA XffFindsClient ==
  ASSUME NEW xff \in Seq(Addresses \cup {"malformed"}), client \in Addresses,
         NEW k \in 1..Len(xff), Attests(xff, k)
  PROVE  XffClient(xff) = client
<1> DEFINE stops == {i \in 1..Len(xff) : xff[i] \notin Proxies /\ \A j \in (i + 1)..Len(xff) : xff[j] \in Proxies}
<1>1. CASE client \in Strangers
  <2>1. k \in stops
    BY <1>1, ClientIPAssumption DEF Attests
  <2>2. \A i \in stops : i = k
    <3> SUFFICES ASSUME NEW i \in stops, i # k PROVE FALSE
      OBVIOUS
    <3>1. CASE i > k
      BY <3>1 DEF Attests
    <3>2. CASE i < k
      BY <2>1, <3>2
    <3> QED
      BY <3>1, <3>2
  <2>3. (CHOOSE i \in stops : TRUE) = k
    BY <2>1, <2>2
  <2>4. xff[k] = client /\ xff[k] # "malformed"
    BY <1>1, ClientIPAssumption DEF Attests
  <2>5. stops # {}
    BY <2>1
  <2> HIDE DEF stops
  <2> QED
    BY <2>3, <2>4, <2>5 DEF XffClient, stops
<1>2. CASE client \in Proxies
  <2>1. \A i \in 1..Len(xff) : xff[i] \in Proxies
    BY <1>2 DEF Attests
  <2>2. stops = {}
    BY <2>1
  <2>3. xff # <<>> /\ Head(xff) = client
    BY <1>2 DEF Attests
  <2> HIDE DEF stops
  <2> QED
    BY <2>2, <2>3 DEF XffClient, stops
<1> QED
  BY <1>1, <1>2 DEF Addresses

LEMMA ClientInitInv == ClientIPInit => ClientInv
<1> SUFFICES ASSUME ClientIPInit PROVE ClientInv
  OBVIOUS
<1>1. PICK n \in 0..MaxForged : forwarded \in [1..n -> Addresses \cup {"malformed"}]
  BY DEF ClientIPInit, Addresses
<1>2. forwarded \in Seq(Addresses \cup {"malformed"}) /\ Len(forwarded) \in Nat
  <2>1. n \in Nat
    BY <1>1, ClientIPAssumption
  <2> QED
    BY <1>1, <2>1
<1>3. /\ own = Len(forwarded) /\ onFirst \in 0..own /\ (onFirst = 0 => own = 0) /\ relayer = "client"
      /\ client \in Addresses /\ peer = client /\ resolved = "none"
      /\ (client \in Proxies => forwarded = <<>> /\ relayed = "absent")
  BY DEF ClientIPInit, Addresses
<1>4. IPTypeOK
  BY <1>2, <1>3 DEF IPTypeOK
<1>5. OriginKnown
  BY <1>3 DEF OriginKnown
<1> QED
  BY <1>3, <1>4, <1>5 DEF ClientInv, ClientIsFound

LEMMA ForwardInv ==
  ASSUME ClientInv, NEW proxy \in Proxies, NEW strips \in BOOLEAN, NEW joins \in BOOLEAN,
         Forward(proxy, strips, joins)
  PROVE  ClientInv'
<1>1. /\ forwarded' = Append(forwarded, peer) /\ peer' = proxy
      /\ client' = client /\ resolved' = "none" /\ resolved = "none" /\ own' = own
      /\ onFirst' = (IF joins \/ onFirst = 0 THEN Len(forwarded) + 1 ELSE onFirst)
  BY DEF Forward
<1>2. /\ forwarded \in Seq(Addresses \cup {"malformed"}) /\ peer \in Addresses /\ client \in Addresses
      /\ own \in 0..Len(forwarded) /\ onFirst \in 0..Len(forwarded)
  BY DEF ClientInv, IPTypeOK
<1>0. PICK n \in Nat : n = Len(forwarded)
  BY <1>2
<1>3. /\ n \in Nat /\ Len(forwarded') = n + 1 /\ forwarded' \in Seq(Addresses \cup {"malformed"})
      /\ forwarded'[n + 1] = peer /\ \A i \in 1..n : forwarded'[i] = forwarded[i]
  <2>1. PICK f \in Seq(Addresses \cup {"malformed"}) : f = forwarded
    BY <1>2
  <2>2. PICK p \in Addresses \cup {"malformed"} : p = peer
    BY <1>2
  <2>3. forwarded' = Append(f, p) /\ n = Len(f)
    BY <1>1, <1>0, <2>1, <2>2
  <2>4. /\ Len(Append(f, p)) = Len(f) + 1 /\ Append(f, p) \in Seq(Addresses \cup {"malformed"})
        /\ Append(f, p)[Len(f) + 1] = p /\ \A i \in 1..Len(f) : Append(f, p)[i] = f[i]
    OBVIOUS
  <2> QED
    BY <2>1, <2>2, <2>3, <2>4
<1>4. IPTypeOK' /\ ClientIsFound'
  <2>1. own' \in 0..(n + 1) /\ onFirst' \in 1..(n + 1)
    BY <1>0, <1>1, <1>2
  <2>2. peer' \in Addresses
    BY <1>1 DEF Addresses
  <2> QED
    BY <1>1, <1>2, <1>3, <2>1, <2>2 DEF IPTypeOK, ClientIsFound
<1>5. ASSUME kept' PROVE OriginKnown'
  <2>1. kept /\ OriginKnown /\ relayer' = relayer /\ (relayer = "hop" => relayed' = relayed)
    BY <1>5 DEF Forward, ClientInv, OriginKnown
  <2>2. CASE relayer = "hop"
    BY <1>1, <2>1, <2>2 DEF OriginKnown
  <2>3. CASE relayer = "client" /\ peer = client /\ own = n /\ (client \in Proxies => forwarded = <<>>)
    <3>1. client \in Proxies => n = 0
      <4>1. Len(<<>>) = 0
        OBVIOUS
      <4> QED
        BY <2>3, <1>0, <4>1
    <3>2. Attests(forwarded, own + 1)'
      BY <1>1, <1>3, <2>3, <3>1 DEF Attests
    <3> QED
      BY <1>1, <2>1, <2>3, <3>2 DEF OriginKnown
  <2>4. CASE relayer = "client" /\ peer \in Proxies /\ Attests(forwarded, own + 1)
    <3>1. \A j \in (own + 2)..(n + 1) : forwarded'[j] \in Proxies
      BY <1>0, <1>2, <1>3, <2>4 DEF Attests
    <3>2. Attests(forwarded, own + 1)'
      BY <1>0, <1>1, <1>2, <1>3, <2>4, <3>1 DEF Attests
    <3> QED
      BY <1>1, <2>1, <2>4, <3>2 DEF OriginKnown
  <2> QED
    BY <1>0, <2>1, <2>2, <2>3, <2>4 DEF OriginKnown
<1> QED
  BY <1>4, <1>5 DEF ClientInv

(* The first line, when a proxy has added to it. *)
LEMMA FirstLineAttests ==
  ASSUME IPTypeOK, Attests(forwarded, own + 1), onFirst > own
  PROVE  FirstLine \in Seq(Addresses \cup {"malformed"}) /\ own + 1 \in 1..Len(FirstLine)
         /\ Attests(FirstLine, own + 1)
<1>1. PICK f \in Seq(Addresses \cup {"malformed"}) : f = forwarded
  BY DEF IPTypeOK
<1>2. PICK l \in 0..Len(f) : l = onFirst
  BY <1>1 DEF IPTypeOK
<1>3. /\ SubSeq(f, 1, l) \in Seq(Addresses \cup {"malformed"}) /\ Len(SubSeq(f, 1, l)) = l
      /\ \A i \in 1..l : SubSeq(f, 1, l)[i] = f[i]
  OBVIOUS
<1>4. FirstLine = SubSeq(f, 1, l)
  BY <1>1, <1>2 DEF FirstLine
<1>5. own \in Nat /\ own + 1 \in 1..l
  BY <1>1, <1>2 DEF IPTypeOK
<1> QED
  BY <1>1, <1>2, <1>3, <1>4, <1>5 DEF Attests

LEMMA ResolveInv ==
  ASSUME ClientInv, Resolve
  PROVE  ClientInv'
<1>1. /\ UNCHANGED <<client, peer, forwarded, onFirst, relayed, own, relayer>> /\ IPTypeOK
      /\ kept' = (kept /\ ~ReadsOwn)
  BY DEF Resolve, ClientInv
<1>2. "malformed" \notin Addresses /\ "absent" \notin Addresses /\ "none" \notin Addresses /\ Proxies \cap Strangers = {}
  BY ClientIPAssumption DEF Addresses
<1>0. /\ peer \notin Proxies => resolved' = peer
      /\ peer \in Proxies /\ ClaimIsRead => resolved' = relayed
      /\ peer \in Proxies /\ ~ClaimIsRead =>
           resolved' = IF XffClient(FirstLine) # "none" THEN XffClient(FirstLine) ELSE peer
  BY DEF Resolve
<1>3. ASSUME kept' PROVE OriginKnown /\ resolved' = client
  <2>0. OriginKnown /\ ~ReadsOwn
    BY <1>1, <1>3 DEF ClientInv
  <2>1. CASE relayer = "hop" /\ relayed = client /\ peer \in Proxies
    <3>1. ClaimIsRead
      BY <1>1, <1>2, <2>1 DEF ClaimIsRead, IPTypeOK
    <3> QED
      BY <1>0, <2>0, <2>1, <3>1
  <2>2. CASE peer = client /\ (client \in Proxies => forwarded = <<>> /\ relayed = "absent")
    <3>1. client \in Proxies => XffClient(FirstLine) = "none"
      <4> SUFFICES ASSUME client \in Proxies PROVE XffClient(FirstLine) = "none"
        OBVIOUS
      <4>1. {i \in 1..Len(<<>>) : <<>>[i] \notin Proxies
                                   /\ \A j \in (i + 1)..Len(<<>>) : <<>>[j] \in Proxies} = {}
        OBVIOUS
      <4>2. XffClient(<<>>) = "none"
        BY <4>1 DEF XffClient
      <4>3. forwarded = <<>> /\ onFirst = 0
        BY <1>1, <2>2 DEF IPTypeOK
      <4>4. SubSeq(<<>>, 1, 0) = <<>>
        OBVIOUS
      <4> QED
        BY <4>2, <4>3, <4>4 DEF FirstLine
    <3> QED
      BY <1>0, <2>0, <2>2, <3>1 DEF ClaimIsRead
  <2>3. CASE relayer = "client" /\ peer \in Proxies /\ Attests(forwarded, own + 1)
    <3>1. ~ClaimIsRead /\ onFirst \notin 1..own
      BY <2>0, <2>3 DEF ReadsOwn
    <3>2. onFirst > own
      BY <1>1, <2>3, <3>1 DEF IPTypeOK, Attests
    <3>3. XffClient(FirstLine) = client
      BY <1>1, <2>3, <3>2, FirstLineAttests, XffFindsClient DEF IPTypeOK
    <3>4. client # "none"
      BY <1>1, <1>2 DEF IPTypeOK
    <3> QED
      BY <1>0, <2>0, <2>3, <3>1, <3>3, <3>4
  <2> QED
    BY <2>0, <2>1, <2>2, <2>3 DEF OriginKnown
<1>4. IPTypeOK' /\ (kept' => OriginKnown')
  BY <1>1, <1>3 DEF IPTypeOK, OriginKnown, Attests
<1> QED
  BY <1>1, <1>3, <1>4 DEF ClientInv, ClientIsFound

LEMMA RelayInv ==
  ASSUME ClientInv, NEW proxy \in Proxies, Relay(proxy)
  PROVE  ClientInv'
<1>1. /\ client' = client /\ peer' = proxy /\ forwarded' = <<>> /\ onFirst' = 0 /\ own' = 0
      /\ relayed' = resolved /\ relayer' = "hop" /\ resolved' = "none" /\ kept' = kept /\ resolved # "none"
  BY DEF Relay
<1>2. client \in Addresses /\ (kept => resolved = client)
  BY <1>1 DEF ClientInv, IPTypeOK, ClientIsFound
<1>3. <<>> \in Seq(Addresses \cup {"malformed"}) /\ Len(<<>>) = 0
  OBVIOUS
<1>4. IPTypeOK'
  BY <1>1, <1>2, <1>3 DEF IPTypeOK, Addresses
<1>5. kept' => OriginKnown'
  BY <1>1, <1>2 DEF OriginKnown
<1> QED
  BY <1>1, <1>4, <1>5 DEF ClientInv, ClientIsFound

(* ClientIP, for any trusted prefixes, any headers a client may write and   *)
(* any number of proxies and internal hops: the request is attributed to    *)
(* the address it came from, unless a hop believed a header that only the   *)
(* client had written or a proxy removed what a hop had written.            *)
THEOREM ClientsAreFound == ClientIPSpec => []ClientIsFound
<1>1. ClientIPInit => ClientInv
  BY ClientInitInv
<1>2. ClientInv /\ [ClientIPNext]_ipVars => ClientInv'
  <2> SUFFICES ASSUME ClientInv, [ClientIPNext]_ipVars PROVE ClientInv'
    OBVIOUS
  <2>1. CASE UNCHANGED ipVars
    BY <2>1 DEF ipVars, ClientInv, IPTypeOK, OriginKnown, Attests, ClientIsFound
  <2>2. CASE ClientIPNext
    BY <2>2, ResolveInv, ForwardInv, RelayInv DEF ClientIPNext
  <2> QED
    BY <2>1, <2>2
<1>3. ClientInv => ClientIsFound
  BY DEF ClientInv
<1> QED
  BY <1>1, <1>2, <1>3, PTL DEF ClientIPSpec

-----------------------------------------------------------------------------
(* Idempotency keys. *)

(* The requests that spent a right to execute: they hold it still, or have  *)
(* made their business write.                                               *)
Holders == {q \in Requests : Executing(q)} \cup effects

(* A right is given with the record or by a takeover; Release, which takes  *)
(* the record away, gives one back.                                         *)
RightsAreCounted ==
  /\ IsFiniteSet(Holders)
  /\ rec.state = "absent" => Cardinality(Holders) <= takeovers
  /\ rec.state # "absent" => Cardinality(Holders) <= 1 + takeovers
  /\ \A q \in effects : req[q].pc \in {"committed", "ended"}

(* Without Release the payload compared in Get is still that of the record  *)
(* when the takeover UPDATE runs.                                           *)
TakeoverIsOfPayload ==
  \A q \in Requests : req[q].pc = "takeover" => rec.state # "absent" /\ rec.hash = Payload[q]

MiddlewareInv == OwnerHasRecordPayload /\ ReplayMatchesPayload /\ TakeoverIsOfPayload

IdemInv == TypeOK /\ RightsAreCounted /\ StoredByOwner /\ (direct \/ MiddlewareInv)

(* A step of one request: what it does to the locals of the others. *)
Acts(q) == Arrive(q) \/ Step(q) \/ ClaimFails(q) \/ Interrupted(q)

-----------------------------------------------------------------------------
(* Types. *)

LEMMA TokenType ==
  ASSUME TypeOK, NEW q \in Requests
  PROVE  Token(q) \in Tokens /\ Token(q)[1] = q
BY DEF TypeOK, Token, Tokens, Request

LEMMA ClaimedType ==
  ASSUME TypeOK, NEW q \in Requests
  PROVE  /\ Claimed(q) \in Record /\ Claimed(q).state = "in_progress"
         /\ Claimed(q).hash = Payload[q] /\ Claimed(q).token = Token(q)
BY TokenType, IdemAssumption DEF Claimed, Record

(* What the statements make of an existing record. *)
TakenBy(q) == [rec EXCEPT !.token = Token(q), !.old = FALSE]
StoredBy(q) == [rec EXCEPT !.state = "completed", !.resp = q]
Marked == [rec EXCEPT !.state = "executed"]
Aged == [rec EXCEPT !.old = TRUE]

LEMMA RecordUpdates ==
  ASSUME TypeOK, rec.state # "absent"
  PROVE  /\ rec \in Record
         /\ \A q \in Requests :
              /\ TakenBy(q) \in Record /\ TakenBy(q).state = rec.state /\ TakenBy(q).hash = rec.hash
              /\ TakenBy(q).token = Token(q)
              /\ StoredBy(q) \in Record /\ StoredBy(q).state = "completed" /\ StoredBy(q).hash = rec.hash
              /\ StoredBy(q).token = rec.token /\ StoredBy(q).resp = q
         /\ Marked \in Record /\ Marked.state = "executed" /\ Marked.hash = rec.hash
         /\ Marked.token = rec.token
         /\ Aged \in Record /\ Aged.state = rec.state /\ Aged.hash = rec.hash
         /\ Aged.token = rec.token /\ Aged.resp = rec.resp
<1>1. rec \in Record
  BY DEF TypeOK, Absent
<1>2. QED
  BY <1>1, TokenType DEF Record, TakenBy, StoredBy, Marked, Aged

(* The record after any step. *)
RecStep ==
  \/ rec' = rec
  \/ \E q \in Requests : rec.state = "absent" /\ req[q].pc = "insert" /\ rec' = Claimed(q)
  \/ \E q \in Requests : rec.state = "in_progress" /\ req[q].pc = "takeover" /\ rec' = TakenBy(q)
  \/ \E q \in Requests : Owns(q) /\ Executing(q) /\ rec' \in {StoredBy(q), Marked}
  \/ \E q \in Requests : direct /\ Owns(q) /\ req[q].pc = "running" /\ rec' = Absent
  \/ rec.state = "in_progress" /\ rec' = Aged

LEMMA NextChangesRec ==
  ASSUME [Next]_vars
  PROVE  RecStep
<1>1. ASSUME NEW q \in Requests, Arrive(q) \/ Interrupted(q) \/ Get(q) \/ HandlerCommits(q)
      PROVE  rec' = rec
  BY <1>1 DEF Arrive, Interrupted, Get, HandlerCommits
<1>2. ASSUME NEW q \in Requests, Insert(q) \/ Takeover(q) \/ ClaimFails(q) PROVE RecStep
  BY <1>2 DEF Insert, Takeover, ClaimFails, RecStep, TakenBy, TakeoverMatches
<1>3. ASSUME NEW q \in Requests, Complete(q) \/ MarkExecuted(q) \/ Release(q) PROVE RecStep
  BY <1>3 DEF Complete, MarkExecuted, Release, RecStep, Executing, StoredBy, Marked
<1>4. CASE Ages
  BY <1>4 DEF Ages, RecStep, Aged
<1>5. QED
  BY <1>1, <1>2, <1>3, <1>4 DEF Next, Step, vars, RecStep

(* The locals of the request that acts, and only they, change. *)
ReqStep(q) ==
  /\ req' \in [Requests -> Request]
  /\ \A p \in Requests : p # q => req'[p] = req[p]
  /\ req'[q].pc = "takeover" => TakeoverAllowed(q)
  /\ req'[q].outcome = "replayed" =>
       \/ req[q].outcome = "replayed" /\ req'[q].from = req[q].from
       \/ rec.state = "completed" /\ req'[q].from = rec.resp /\ rec.hash = Payload[q]

(* The ways a request goes on, one local record at a time. *)
LEMMA GotoStep ==
  ASSUME TypeOK, NEW q \in Requests, NEW pc \in Phases, Goto(q, pc),
         pc = "takeover" => TakeoverAllowed(q)
  PROVE  ReqStep(q) /\ req'[q].pc = pc
BY DEF TypeOK, Goto, ReqStep, Request

LEMMA EndsStep ==
  ASSUME TypeOK, NEW q \in Requests, NEW o \in Outcomes \ {"replayed"}, Ends(q, o)
  PROVE  ReqStep(q) /\ req'[q].pc = "ended"
<1>1. req \in [Requests -> Request] /\ req[q] \in Request
  BY DEF TypeOK
<1>2. PICK s \in Request : s = [req[q] EXCEPT !.pc = "ended", !.outcome = o]
  <2>1. [req[q] EXCEPT !.pc = "ended", !.outcome = o] \in Request
    BY <1>1 DEF Request, Phases
  <2> QED
    BY <2>1
<1>3. s.pc = "ended" /\ s.outcome = o
  BY <1>1, <1>2 DEF Request
<1>4. req' = [req EXCEPT ![q] = s]
  BY <1>1, <1>2 DEF Ends
<1>5. req' \in [Requests -> Request] /\ req'[q] = s /\ \A p \in Requests : p # q => req'[p] = req[p]
  BY <1>1, <1>4
<1> QED
  BY <1>3, <1>5 DEF ReqStep

LEMMA RetriesStep ==
  ASSUME TypeOK, NEW q \in Requests, Retries(q)
  PROVE  ReqStep(q) /\ req'[q].pc \in {"insert", "ended"}
<1>1. CASE req[q].try = MaxTries
  BY <1>1, EndsStep DEF Retries, Outcomes
<1>2. CASE req[q].try # MaxTries
  <2>1. req[q].try + 1 \in 1..MaxTries
    BY <1>2, IdemAssumption DEF TypeOK, Request
  <2>2. QED
    BY <1>2, <2>1 DEF Retries, TypeOK, ReqStep, Request, Phases
<1>3. QED
  BY <1>1, <1>2

LEMMA ReplyStep ==
  ASSUME TypeOK, NEW q \in Requests, ReplyExisting(q), rec.state # "absent"
  PROVE  ReqStep(q) /\ req'[q].pc = "ended"
<1>1. CASE rec.hash # Payload[q]
  BY <1>1, EndsStep DEF ReplyExisting, Outcomes
<1>2. CASE rec.hash = Payload[q] /\ rec.state = "completed"
  <2>1. req' = [req EXCEPT ![q].pc = "ended", ![q].outcome = "replayed", ![q].from = rec.resp]
    BY <1>2 DEF ReplyExisting
  <2>2. rec.resp \in Requests \cup {NoRequest}
    BY RecordUpdates DEF Record
  <2>3. req'[q] = [pc |-> "ended", try |-> req[q].try, outcome |-> "replayed", from |-> rec.resp]
    BY <2>1 DEF TypeOK, Request
  <2>4. req'[q] \in Request /\ req' \in [Requests -> Request]
    BY <2>1, <2>2, <2>3 DEF TypeOK, Request, Phases, Outcomes
  <2>5. QED
    BY <1>2, <2>1, <2>3, <2>4 DEF TypeOK, ReqStep
<1>3. CASE rec.hash = Payload[q] /\ rec.state = "executed"
  BY <1>3, EndsStep DEF ReplyExisting, Outcomes
<1>4. CASE rec.hash = Payload[q] /\ rec.state = "in_progress"
  BY <1>4, EndsStep DEF ReplyExisting, Outcomes
<1>5. QED
  BY <1>1, <1>2, <1>3, <1>4, RecordUpdates DEF Record

(* How rights to execute come and go with a step of q. *)
RightStep(q) ==
  LET had == Executing(q)
      has == Executing(q)'
  IN  /\ has /\ ~had =>
           \/ rec.state = "absent" /\ rec'.state # "absent" /\ takeovers' = takeovers
           \/ rec.state # "absent" /\ rec'.state # "absent" /\ takeovers' = takeovers + 1
      /\ effects' = effects \/ (had /\ has /\ effects' = effects \cup {q} /\ req'[q].pc = "committed")
      /\ req[q].pc = "committed" => req'[q].pc = "ended"
      /\ req[q].pc = "ended" => FALSE
      /\ rec'.state = "absent" =>
           \/ rec.state = "absent"
           \/ req[q].pc = "running" /\ ~has /\ effects' = effects
      /\ takeovers' \in {takeovers, takeovers + 1}
      /\ takeovers' = takeovers + 1 => rec.state # "absent"

LEMMA ActsStep ==
  ASSUME TypeOK, NEW q \in Requests, Acts(q)
  PROVE  ReqStep(q) /\ RightStep(q)
<1>0. Phases = {"new", "insert", "get", "takeover", "running", "committed", "ended"}
      /\ {"dead", "error", "own"} \subseteq Outcomes \ {"replayed"}
      /\ takeovers # takeovers + 1
  BY DEF Phases, Outcomes, TypeOK
<1>1. CASE Arrive(q)
  BY <1>0, <1>1, GotoStep DEF Arrive, RightStep, Executing
<1>2. CASE Insert(q)
  <2>1. CASE rec.state = "absent"
    BY <1>0, <1>2, <2>1, GotoStep, ClaimedType DEF Insert, RightStep, Executing
  <2>2. CASE rec.state # "absent"
    BY <1>0, <1>2, <2>2, GotoStep DEF Insert, RightStep, Executing
  <2>3. QED
    BY <2>1, <2>2
<1>3. CASE Get(q)
  BY <1>0, <1>3, GotoStep, RetriesStep, ReplyStep DEF Get, RightStep, Executing
<1>4. CASE Takeover(q)
  <2>1. CASE TakeoverMatches
    <3>1. rec.state = "in_progress" /\ rec' = TakenBy(q)
      BY <1>4, <2>1 DEF Takeover, TakeoverMatches, TakenBy
    <3>2. rec'.state = rec.state
      BY <3>1, RecordUpdates
    <3>3. QED
      BY <1>0, <1>4, <2>1, <3>1, <3>2, GotoStep DEF Takeover, RightStep, Executing
  <2>2. CASE ~TakeoverMatches
    BY <1>0, <1>4, <2>2, RetriesStep DEF Takeover, RightStep, Executing
  <2>3. QED
    BY <2>1, <2>2
<1>5. CASE ClaimFails(q)
  <2>1. /\ effects' = effects /\ Ends(q, "error") /\ req[q].pc \in {"insert", "get", "takeover"}
        /\ \/ rec' = rec /\ takeovers' = takeovers
           \/ rec.state = "absent" /\ rec' = Claimed(q) /\ takeovers' = takeovers
           \/ rec.state = "in_progress" /\ rec' = TakenBy(q) /\ takeovers' = takeovers + 1
    BY <1>5 DEF ClaimFails, TakeoverMatches, TakenBy
  <2>2. QED
    BY <1>0, <2>1, EndsStep, ClaimedType, RecordUpdates DEF RightStep, Executing
<1>6. CASE HandlerCommits(q)
  BY <1>0, <1>6, GotoStep DEF HandlerCommits, RightStep, Executing
<1>7. CASE Interrupted(q)
  BY <1>0, <1>7, EndsStep DEF Interrupted, RightStep, Executing
<1>8. CASE Complete(q) \/ MarkExecuted(q)
  <2>1. /\ UNCHANGED <<effects, takeovers>> /\ Ends(q, "own") /\ Executing(q)
        /\ rec' = rec \/ (rec.state = "in_progress" /\ rec' \in {StoredBy(q), Marked})
    BY <1>8 DEF Complete, MarkExecuted, Owns, Executing, StoredBy, Marked
  <2>2. QED
    BY <1>0, <2>1, EndsStep, RecordUpdates DEF RightStep, Executing
<1>9. CASE Release(q)
  BY <1>0, <1>9, EndsStep DEF Release, RightStep, Executing
<1>10. QED
  BY <1>1, <1>2, <1>3, <1>4, <1>5, <1>6, <1>7, <1>8, <1>9 DEF Acts, Step

(* Every step is one of a request, or leaves the locals alone. *)
LEMMA NextSplits ==
  ASSUME [Next]_vars
  PROVE  \/ \E q \in Requests : Acts(q) /\ UNCHANGED direct
         \/ (rec' = rec \/ (rec.state = "in_progress" /\ rec' = Aged))
            /\ UNCHANGED <<req, effects, takeovers, direct>>
BY DEF Next, Acts, Ages, Aged, vars

LEMMA TypeStep == TypeOK /\ [Next]_vars => TypeOK'
<1> SUFFICES ASSUME TypeOK, [Next]_vars PROVE TypeOK'
  OBVIOUS
<1>1. rec' = Absent \/ (rec' \in Record /\ rec'.state # "absent")
  BY NextChangesRec, ClaimedType, RecordUpdates DEF RecStep, TypeOK, Owns
<1>2. CASE UNCHANGED <<req, effects, takeovers, direct>>
  BY <1>1, <1>2 DEF TypeOK
<1>3. ASSUME NEW q \in Requests, Acts(q), UNCHANGED direct PROVE TypeOK'
  BY <1>1, <1>3, ActsStep DEF TypeOK, ReqStep, RightStep
<1>4. QED
  BY <1>2, <1>3, NextSplits

-----------------------------------------------------------------------------
(* The rights to execute. *)

LEMMA RightsStep ==
  ASSUME TypeOK, RightsAreCounted, [Next]_vars
  PROVE  RightsAreCounted'
<1>1. ASSUME NEW q \in Requests, Acts(q), UNCHANGED direct PROVE RightsAreCounted'
  <2>1. ReqStep(q) /\ RightStep(q)
    BY <1>1, ActsStep
  <2>2. \A p \in Requests : p # q => (Executing(p)' <=> Executing(p))
    BY <2>1 DEF ReqStep, Executing
  <2>3. effects \subseteq Requests /\ effects' \subseteq effects \cup {q} /\ takeovers \in Nat
    BY <2>1 DEF RightStep, TypeOK
  <2>4. q \in effects' => Executing(q) \/ q \in effects
    BY <2>1 DEF RightStep
  <2>5. \A p \in effects' : req'[p].pc \in {"committed", "ended"}
    <3>1. ASSUME NEW p \in effects', p # q PROVE req'[p].pc \in {"committed", "ended"}
      <4>1. p \in effects /\ p \in Requests
        BY <2>3, <3>1
      <4>2. QED
        BY <2>1, <3>1, <4>1 DEF ReqStep, RightsAreCounted
    <3>2. ASSUME q \in effects' PROVE req'[q].pc \in {"committed", "ended"}
      <4>1. CASE q \in effects
        BY <2>1, <4>1 DEF RightStep, RightsAreCounted
      <4>2. CASE q \notin effects
        BY <2>1, <3>2, <4>2 DEF RightStep
      <4>3. QED
        BY <4>1, <4>2
    <3>3. QED
      BY <3>1, <3>2
  <2>6. Cardinality(Holders) \in Nat /\ IsFiniteSet(Holders)
    BY FS_CardinalityType DEF RightsAreCounted
  <2>7. CASE Executing(q)' /\ ~Executing(q)
    <3>1. Holders' \subseteq Holders \cup {q}
      BY <2>2, <2>3 DEF Holders
    <3>2. IsFiniteSet(Holders \cup {q}) /\ Cardinality(Holders \cup {q}) <= Cardinality(Holders) + 1
      <4>1. Cardinality(Holders \cup {q}) \in {Cardinality(Holders), Cardinality(Holders) + 1}
        BY <2>6, FS_AddElement
      <4>2. QED
        BY <2>6, <4>1, FS_AddElement
    <3>3. IsFiniteSet(Holders') /\ Cardinality(Holders') <= Cardinality(Holders) + 1
          /\ Cardinality(Holders') \in Nat
      BY <2>6, <3>1, <3>2, FS_Subset, FS_CardinalityType
    <3>4. \/ rec.state = "absent" /\ rec'.state # "absent" /\ takeovers' = takeovers
          \/ rec.state # "absent" /\ rec'.state # "absent" /\ takeovers' = takeovers + 1
      BY <2>1, <2>7 DEF RightStep
    <3>5. QED
      BY <2>3, <2>5, <2>6, <3>3, <3>4 DEF RightsAreCounted
  <2>8. CASE ~(Executing(q)' /\ ~Executing(q)) /\ ~(rec'.state = "absent" /\ rec.state # "absent")
    <3>1. Holders' \subseteq Holders
      BY <2>2, <2>3, <2>4, <2>8 DEF Holders
    <3>2. IsFiniteSet(Holders') /\ Cardinality(Holders') <= Cardinality(Holders)
          /\ Cardinality(Holders') \in Nat
      BY <2>6, <3>1, FS_Subset, FS_CardinalityType
    <3>3. takeovers' \in Nat /\ takeovers' >= takeovers
      BY <2>1, <2>3 DEF RightStep
    <3>4. QED
      BY <2>3, <2>5, <2>6, <2>8, <3>2, <3>3 DEF RightsAreCounted
  <2>9. CASE rec'.state = "absent" /\ rec.state # "absent"
    <3>1. req[q].pc = "running" /\ ~Executing(q)' /\ effects' = effects
      BY <2>1, <2>9 DEF RightStep
    <3>2. q \in Holders /\ q \notin effects
      BY <3>1 DEF Holders, Executing, RightsAreCounted
    <3>3. Holders' \subseteq Holders \ {q}
      BY <2>2, <3>1, <3>2 DEF Holders
    <3>4. IsFiniteSet(Holders \ {q}) /\ Cardinality(Holders \ {q}) = Cardinality(Holders) - 1
      BY <2>6, <3>2, FS_RemoveElement
    <3>5. IsFiniteSet(Holders') /\ Cardinality(Holders') <= Cardinality(Holders) - 1
          /\ Cardinality(Holders') \in Nat
      BY <2>6, <3>3, <3>4, FS_Subset, FS_CardinalityType
    <3>6. takeovers' \in Nat /\ takeovers' >= takeovers
      BY <2>1, <2>3 DEF RightStep
    <3>7. QED
      BY <2>3, <2>5, <2>6, <2>9, <3>5, <3>6 DEF RightsAreCounted
  <2>10. QED
    BY <2>7, <2>8, <2>9
<1>2. CASE /\ rec' = rec \/ (rec.state = "in_progress" /\ rec' = Aged)
           /\ UNCHANGED <<req, effects, takeovers, direct>>
  <2>1. rec'.state = "absent" <=> rec.state = "absent"
    BY <1>2, RecordUpdates
  <2>2. Holders' = Holders /\ takeovers' = takeovers /\ effects' = effects /\ req' = req
    BY <1>2 DEF Holders, Executing
  <2>3. QED
    BY <2>1, <2>2 DEF RightsAreCounted
<1>3. QED
  BY <1>1, <1>2, NextSplits

-----------------------------------------------------------------------------
(* Owners, payloads and responses. *)

LEMMA StoredStep ==
  ASSUME TypeOK, StoredByOwner, [Next]_vars
  PROVE  StoredByOwner'
<1>1. ASSUME NEW q \in Requests, Owns(q), rec' \in {StoredBy(q), Marked} PROVE StoredByOwner'
  BY <1>1, RecordUpdates, TokenType DEF Owns, StoredByOwner
<1>2. ASSUME NEW q \in Requests, rec' = Claimed(q) PROVE StoredByOwner'
  BY <1>2, ClaimedType DEF StoredByOwner
<1>3. ASSUME rec.state = "in_progress", rec' = Aged \/ \E q \in Requests : rec' = TakenBy(q)
      PROVE  StoredByOwner'
  BY <1>3, RecordUpdates DEF StoredByOwner
<1>4. CASE rec' = rec \/ rec' = Absent
  BY <1>4 DEF StoredByOwner, Absent
<1>5. QED
  BY <1>1, <1>2, <1>3, <1>4, NextChangesRec DEF RecStep

(* The middleware never removes the record, so its payload stays. *)
LEMMA PayloadStays ==
  ASSUME TypeOK, ~direct, [Next]_vars, rec.state # "absent"
  PROVE  rec'.state # "absent" /\ rec'.hash = rec.hash
BY NextChangesRec, RecordUpdates DEF RecStep, Owns

LEMMA MiddlewareStep ==
  ASSUME TypeOK, StoredByOwner, ~direct, MiddlewareInv, [Next]_vars
  PROVE  MiddlewareInv'
<1>1. OwnerHasRecordPayload'
  <2>1. ASSUME NEW q \in Requests, rec' = Claimed(q) PROVE OwnerHasRecordPayload'
    BY <2>1, ClaimedType, TokenType DEF OwnerHasRecordPayload
  <2>2. ASSUME NEW q \in Requests, rec.state = "in_progress", req[q].pc = "takeover", rec' = TakenBy(q)
        PROVE  OwnerHasRecordPayload'
    BY <2>2, RecordUpdates, TokenType DEF OwnerHasRecordPayload, MiddlewareInv, TakeoverIsOfPayload
  <2>3. ASSUME NEW q \in Requests, Owns(q), rec' \in {StoredBy(q), Marked} PROVE OwnerHasRecordPayload'
    BY <2>3, RecordUpdates DEF OwnerHasRecordPayload, MiddlewareInv, Owns
  <2>4. CASE rec' = rec \/ (rec.state = "in_progress" /\ rec' = Aged)
    BY <2>4, RecordUpdates DEF OwnerHasRecordPayload, MiddlewareInv
  <2>5. QED
    BY <2>1, <2>2, <2>3, <2>4, NextChangesRec DEF RecStep
<1>2. ASSUME NEW q \in Requests, Acts(q) PROVE ReplayMatchesPayload' /\ TakeoverIsOfPayload'
  <2>1. ReqStep(q)
    BY <1>2, ActsStep
  <2>2. rec.state # "absent" => rec \in Record /\ rec.token[1] \in Requests
    BY RecordUpdates DEF Record, Tokens
  <2>3. TakeoverIsOfPayload'
    <3>1. req'[q].pc = "takeover" => rec.state # "absent" /\ rec.hash = Payload[q]
      BY <2>1 DEF ReqStep, TakeoverAllowed
    <3>2. \A p \in Requests : req'[p].pc = "takeover" => rec.state # "absent" /\ rec.hash = Payload[p]
      BY <2>1, <3>1 DEF ReqStep, MiddlewareInv, TakeoverIsOfPayload
    <3>3. QED
      BY <3>2, PayloadStays DEF TakeoverIsOfPayload
  <2>4. ReplayMatchesPayload'
    <3>1. rec.state = "completed" => rec.resp \in Requests /\ Payload[rec.resp] = rec.hash
      BY <2>2 DEF StoredByOwner, MiddlewareInv, OwnerHasRecordPayload
    <3>2. req'[q].outcome = "replayed" => req'[q].from \in Requests /\ Payload[req'[q].from] = Payload[q]
      BY <2>1, <3>1 DEF ReqStep, MiddlewareInv, ReplayMatchesPayload
    <3>3. QED
      BY <2>1, <3>2 DEF ReqStep, MiddlewareInv, ReplayMatchesPayload
  <2>5. QED
    BY <2>3, <2>4
<1>3. ASSUME UNCHANGED <<req, effects, takeovers, direct>> PROVE ReplayMatchesPayload' /\ TakeoverIsOfPayload'
  BY <1>3, PayloadStays DEF MiddlewareInv, ReplayMatchesPayload, TakeoverIsOfPayload
<1>4. QED
  BY <1>1, <1>2, <1>3, NextSplits DEF MiddlewareInv

-----------------------------------------------------------------------------
(* The record of a key, used by the middleware or directly, keeps track of  *)
(* every right to execute it gave, and of whose response it stores.         *)
THEOREM RecordInvariant == Spec => []IdemInv
<1>1. Init => IdemInv
  <2> SUFFICES ASSUME Init PROVE IdemInv
    OBVIOUS
  <2>1. TypeOK
    BY IdemAssumption DEF Init, TypeOK, Request, Phases, Outcomes
  <2>2. Holders = {}
    BY DEF Init, Holders, Executing
  <2>3. RightsAreCounted
    BY <2>2, FS_EmptySet DEF Init, RightsAreCounted, Absent
  <2>4. StoredByOwner /\ MiddlewareInv
    BY DEF Init, Absent, StoredByOwner, MiddlewareInv, OwnerHasRecordPayload, ReplayMatchesPayload,
       TakeoverIsOfPayload
  <2>5. QED
    BY <2>1, <2>3, <2>4 DEF IdemInv
<1>2. IdemInv /\ [Next]_vars => IdemInv'
  <2> SUFFICES ASSUME IdemInv, [Next]_vars PROVE IdemInv'
    OBVIOUS
  <2>1. direct' = direct
    BY DEF Next, vars
  <2>2. QED
    BY <2>1, TypeStep, RightsStep, StoredStep, MiddlewareStep DEF IdemInv
<1>3. QED
  BY <1>1, <1>2, PTL DEF Spec

(* However many requests race for a key: rights to execute are one more     *)
(* than takeovers at most, a stored response is its owner's and final, and  *)
(* through the middleware a client is only shown the answer to its own      *)
(* payload (idem.go:166-276, 525-550).                                      *)
THEOREM KeysAreKept == Spec => KeyIsKept
<1>1. IdemInv => /\ TypeOK /\ OneExecutionPerClaim /\ StoredByOwner
                 /\ direct \/ (OwnerHasRecordPayload /\ ReplayMatchesPayload)
  <2> SUFFICES ASSUME IdemInv PROVE OneExecutionPerClaim
    BY DEF IdemInv, MiddlewareInv
  <2>1. effects \in SUBSET Holders
    BY DEF Holders
  <2>2. /\ IsFiniteSet(Holders) /\ takeovers \in Nat
        /\ Cardinality(Holders) <= takeovers \/ Cardinality(Holders) <= 1 + takeovers
    BY DEF IdemInv, RightsAreCounted, TypeOK
  <2>3. IsFiniteSet(effects) /\ Cardinality(effects) <= Cardinality(Holders)
    BY <2>1, <2>2, FS_Subset
  <2>4. Cardinality(effects) \in Nat /\ Cardinality(Holders) \in Nat
    BY <2>2, <2>3, FS_CardinalityType
  <2>5. QED
    BY <2>2, <2>3, <2>4 DEF OneExecutionPerClaim
<1>2. IdemInv /\ [Next]_vars =>
        [rec.state \in {"completed", "executed"} =>
           /\ rec' = rec
           /\ \A q \in Requests : Executing(q)' => Executing(q)]_vars
  <2> SUFFICES ASSUME IdemInv, [Next]_vars, rec.state \in {"completed", "executed"}
               PROVE  rec' = rec /\ \A q \in Requests : Executing(q)' => Executing(q)
    OBVIOUS
  <2>1. TypeOK
    BY DEF IdemInv
  <2>2. rec' = rec
    BY NextChangesRec DEF RecStep, Owns
  <2>3. ASSUME NEW q \in Requests, Acts(q), NEW p \in Requests, Executing(p)' PROVE Executing(p)
    <3>1. CASE p # q
      BY <2>1, <2>3, <3>1, ActsStep DEF ReqStep, Executing
    <3>2. CASE p = q
      <4>1. takeovers' # takeovers + 1 => Executing(q)
        BY <2>1, <2>2, <2>3, <3>2, ActsStep DEF RightStep
      <4>2. takeovers' = takeovers
        BY <2>1, <2>3 DEF Acts, Step, Arrive, Insert, Get, Takeover, TakeoverMatches, ClaimFails,
           HandlerCommits, Interrupted, Complete, MarkExecuted, Release
      <4>3. takeovers # takeovers + 1
        BY <2>1 DEF TypeOK
      <4>4. QED
        BY <3>2, <4>1, <4>2, <4>3
    <3>3. QED
      BY <3>1, <3>2
  <2>4. CASE req' = req
    BY <2>2, <2>4 DEF Executing
  <2>5. QED
    BY <2>2, <2>3, <2>4, NextSplits
<1>3. QED
  BY <1>1, <1>2, RecordInvariant, PTL DEF Spec, KeyIsKept, TerminalIsFinal


-----------------------------------------------------------------------------
(* The decoder of server-sent events.  The lines of a text are defined by   *)
(* positions; the lemmas say how they change when a byte is appended, and   *)
(* the invariant that the decoder holds what the open line and the open     *)
(* event have so far.                                                       *)

LEMMA LeastNatural ==
  ASSUME NEW S, S \subseteq Nat, S # {}
  PROVE  \E x \in S : \A y \in S : x <= y
<1>1. PICK x \in S : \A y \in S : ~(<<y, x>> \in OpToRel(<, Nat))
  BY NatLessThanWellFounded, WFMin, Zenon
<1>2. ASSUME NEW y \in S PROVE x <= y
  <2>1. CASE y < x
    <3>1. <<y, x>> \in OpToRel(<, Nat)
      BY <2>1 DEF OpToRel
    <3> QED
      BY <1>1, <3>1
  <2> QED
    BY <2>1
<1> QED
  BY <1>2

LEMMA LastOfFacts ==
  ASSUME NEW n \in Nat, NEW S, S \subseteq 1..n
  PROVE  /\ LastOf(S) \in 0..n
         /\ S = {} <=> LastOf(S) = 0
         /\ S # {} => LastOf(S) \in S /\ LastOf(S) = Max(S)
         /\ \A y \in S : y <= LastOf(S)
<1>1. CASE S = {}
  BY <1>1 DEF LastOf
<1>2. CASE S # {}
  <2> DEFINE Above == {k \in Nat : \A y \in S : y <= k}
  <2>1. n \in Above
    OBVIOUS
  <2>2. PICK k \in Above : \A y \in Above : k <= y
    BY <2>1, LeastNatural
  <2>3. k \in S
    <3>1. SUFFICES ASSUME ~(k \in S) PROVE FALSE
      OBVIOUS
    <3>2. k # 0
      <4>1. PICK y \in S : TRUE
        BY <1>2
      <4>2. y \in Nat /\ 1 <= y /\ y <= k
        BY <2>2, <4>1
      <4> QED
        BY <4>2
    <3>3. k - 1 \in Nat /\ ~(k <= k - 1)
      BY <2>2, <3>2
    <3>4. \A y \in S : y <= k - 1
      BY <2>2, <3>1, <3>3
    <3>5. k - 1 \in Above
      BY <3>3, <3>4
    <3> QED
      BY <2>2, <3>3, <3>5
  <2>4. \A y \in S : k >= y
    BY <2>2
  <2>5. Max(S) \in S /\ \A y \in S : Max(S) >= y
    BY <2>3, <2>4, Zenon DEF Max
  <2>6. PICK m \in S : m = Max(S)
    BY <2>5
  <2>7. m \in 0..n /\ m # 0 /\ \A y \in S : y <= m
    BY <2>5, <2>6
  <2>8. LastOf(S) = m
    BY <1>2, <2>6, Zenon DEF LastOf
  <2> QED
    BY <1>2, <2>6, <2>7, <2>8
<1> QED
  BY <1>1, <1>2

LEMMA LastOfTop ==
  ASSUME NEW n \in Nat, NEW S, S \subseteq 1..n
  PROVE  LastOf(S \cup {n + 1}) = n + 1
<1>1. n + 1 \in Nat /\ S \cup {n + 1} \subseteq 1..(n + 1)
  OBVIOUS
<1>2. LastOf(S \cup {n + 1}) \in 0..(n + 1) /\ n + 1 <= LastOf(S \cup {n + 1})
  BY <1>1, LastOfFacts
<1> QED
  BY <1>2

(* x is w with b after it. *)
Extends(w, b, x) ==
  /\ w \in Seq(Bytes) /\ b \in Bytes /\ x \in Seq(Bytes)
  /\ Len(w) \in Nat /\ Len(x) = Len(w) + 1 /\ x[Len(w) + 1] = b
  /\ \A i \in 1..Len(w) : x[i] = w[i] /\ w[i] \in Bytes

LEMMA AppendExtends ==
  ASSUME NEW w \in Seq(Bytes), NEW b \in Bytes
  PROVE  Extends(w, b, Append(w, b))
BY DEF Extends

LEMMA SubSeqSame ==
  ASSUME NEW w, NEW b, NEW x, Extends(w, b, x), NEW s \in Nat, 1 <= s, NEW e \in Nat, e <= Len(w)
  PROVE  SubSeq(x, s, e) = SubSeq(w, s, e)
BY DEF Extends

LEMMA SubSeqGrows ==
  ASSUME NEW w, NEW b, NEW x, Extends(w, b, x), NEW s \in Nat, 1 <= s, s <= Len(w) + 1
  PROVE  SubSeq(x, s, Len(w) + 1) = Append(SubSeq(w, s, Len(w)), b)
BY SMTT(60) DEF Extends

LEMMA SubSeqFacts ==
  ASSUME NEW w \in Seq(Bytes), NEW s \in Nat, 1 <= s, s <= Len(w) + 1
  PROVE  /\ SubSeq(w, s, Len(w)) \in Seq(Bytes)
         /\ SubSeq(w, s, Len(w)) = <<>> <=> s = Len(w) + 1
<1>1. SubSeq(w, s, Len(w)) \in Seq(Bytes) /\ Len(w) \in Nat
  OBVIOUS
<1>2. Len(SubSeq(w, s, Len(w))) = Len(w) + 1 - s
  OBVIOUS
<1>3. PICK t \in Seq(Bytes) : t = SubSeq(w, s, Len(w))
  BY <1>1
<1>4. t = <<>> <=> Len(t) = 0
  OBVIOUS
<1> QED
  BY <1>1, <1>2, <1>3, <1>4

(* A line ends with b after w. *)
Closes(w, b) == b \in {"CR", "LF"} /\ ~(b = "LF" /\ Len(w) > 0 /\ w[Len(w)] = "CR")

LEMMA JoinedExtends ==
  ASSUME NEW w, NEW b, NEW x, Extends(w, b, x)
  PROVE  /\ \A i \in 1..Len(w) : Joined(x, i) <=> Joined(w, i)
         /\ Joined(x, Len(w) + 1) <=> b = "LF" /\ Len(w) > 0 /\ w[Len(w)] = "CR"
<1>1. ASSUME NEW i \in 1..Len(w) PROVE Joined(x, i) <=> Joined(w, i)
  <2>1. CASE i = 1
    BY <2>1 DEF Joined, Extends
  <2>2. CASE i # 1
    <3>1. i - 1 \in 1..Len(w)
      BY <2>2 DEF Extends
    <3> QED
      BY <3>1 DEF Joined, Extends
  <2> QED
    BY <2>1, <2>2
<1>2. CASE Len(w) = 0
  BY <1>1, <1>2 DEF Joined, Extends
<1>3. CASE Len(w) # 0
  <2>1. Len(w) \in 1..Len(w) /\ (Len(w) + 1) - 1 = Len(w) /\ Len(w) + 1 > 1 /\ Len(w) > 0
    BY <1>3 DEF Extends
  <2>2. x[Len(w)] = w[Len(w)] /\ x[Len(w) + 1] = b
    BY <2>1 DEF Extends
  <2> QED
    BY <1>1, <2>1, <2>2 DEF Joined
<1> QED
  BY <1>2, <1>3 DEF Extends

LEMMA LineEndsExtend ==
  ASSUME NEW w, NEW b, NEW x, Extends(w, b, x)
  PROVE  /\ LineEnds(w) \subseteq 1..Len(w)
         /\ LineEnds(x) = LineEnds(w) \cup (IF Closes(w, b) THEN {Len(w) + 1} ELSE {})
<1>1. \A i \in 1..Len(w) : (Joined(x, i) <=> Joined(w, i)) /\ x[i] = w[i]
  BY JoinedExtends DEF Extends
<1>2. Joined(x, Len(w) + 1) <=> b = "LF" /\ Len(w) > 0 /\ w[Len(w)] = "CR"
  BY JoinedExtends
<1>3. 1..Len(x) = 1..Len(w) \cup {Len(w) + 1} /\ x[Len(w) + 1] = b
  BY DEF Extends
<1> QED
  BY <1>1, <1>2, <1>3 DEF LineEnds, Closes

LEMMA JoinedAfterExtends ==
  ASSUME NEW w, NEW b, NEW x, Extends(w, b, x)
  PROVE  /\ \A i \in 0..(Len(w) - 1) : JoinedAfter(x, i) = JoinedAfter(w, i)
         /\ \A i : JoinedAfter(w, i) \in {0, 1}
         /\ JoinedAfter(w, Len(w)) = 0
         /\ JoinedAfter(w, 0) = 0
         /\ JoinedAfter(x, Len(x)) = 0
         /\ JoinedAfter(x, Len(w)) = IF b = "LF" /\ Len(w) > 0 /\ w[Len(w)] = "CR" THEN 1 ELSE 0
<1>1. ASSUME NEW i \in 0..(Len(w) - 1) PROVE JoinedAfter(x, i) = JoinedAfter(w, i)
  <2>1. i + 1 \in 1..Len(w) /\ i < Len(w) /\ i < Len(x)
    BY DEF Extends
  <2>2. Joined(x, i + 1) <=> Joined(w, i + 1)
    BY <2>1, JoinedExtends
  <2> QED
    BY <2>1, <2>2 DEF JoinedAfter
<1>2. Joined(x, Len(w) + 1) <=> b = "LF" /\ Len(w) > 0 /\ w[Len(w)] = "CR"
  BY JoinedExtends
<1>3. JoinedAfter(x, Len(w)) = IF b = "LF" /\ Len(w) > 0 /\ w[Len(w)] = "CR" THEN 1 ELSE 0
  BY <1>2 DEF JoinedAfter, Extends
<1>4. JoinedAfter(w, Len(w)) = 0 /\ JoinedAfter(x, Len(x)) = 0 /\ JoinedAfter(w, 0) = 0
  BY DEF JoinedAfter, Extends
<1>5. \A i : JoinedAfter(w, i) \in {0, 1}
  BY DEF JoinedAfter
<1> QED
  BY <1>1, <1>3, <1>4, <1>5

(* Where the line starts that w has not ended yet, and what it has so far. *)
NextStart(w) == LET j == LastOf(LineEnds(w)) IN j + 1 + JoinedAfter(w, j)
OpenText(w) == SubSeq(w, NextStart(w), Len(w))
Trimmed(first, text) == IF first /\ text # <<>> /\ text[1] = "bom" THEN Tail(text) ELSE text

LEMMA NextStartFacts ==
  ASSUME NEW w, NEW b, NEW x, Extends(w, b, x)
  PROVE  /\ NextStart(w) \in 1..(Len(w) + 1)
         /\ NextStart(w) = 1 <=> LineEnds(w) = {}
<1>1. LastOf(LineEnds(w)) \in 0..Len(w) /\ (LineEnds(w) = {} <=> LastOf(LineEnds(w)) = 0)
  BY LineEndsExtend, LastOfFacts DEF Extends
<1>2. PICK j \in 0..Len(w) : j = LastOf(LineEnds(w))
  BY <1>1
<1>3. JoinedAfter(w, j) \in {0, 1} /\ JoinedAfter(w, Len(w)) = 0 /\ JoinedAfter(w, 0) = 0
  BY JoinedAfterExtends
<1>4. NextStart(w) = j + 1 + JoinedAfter(w, j)
  BY <1>2 DEF NextStart
<1> QED
  BY <1>1, <1>2, <1>3, <1>4 DEF Extends

LEMMA StartExtends ==
  ASSUME NEW w, NEW b, NEW x, Extends(w, b, x), NEW i \in 1..Len(w)
  PROVE  Start(x, i) = Start(w, i) /\ Start(w, i) \in Nat /\ 1 <= Start(w, i)
<1> DEFINE S == {k \in LineEnds(w) : k < i}
<1>1. {k \in LineEnds(x) : k < i} = S
  BY LineEndsExtend DEF Extends
<1>2. S \subseteq 1..Len(w) /\ Len(w) \in Nat
  BY LineEndsExtend DEF Extends
<1>3. LastOf(S) \in 0..Len(w) /\ (S # {} => LastOf(S) \in S) /\ (S = {} <=> LastOf(S) = 0)
  BY <1>2, LastOfFacts
<1>4. LastOf(S) \in 0..(Len(w) - 1)
  BY <1>2, <1>3 DEF Extends
<1>5. PICK j \in 0..(Len(w) - 1) : j = LastOf(S)
  BY <1>4
<1>6. JoinedAfter(x, j) = JoinedAfter(w, j) /\ JoinedAfter(w, j) \in {0, 1}
  BY JoinedAfterExtends
<1>7. Start(w, i) = j + 1 + JoinedAfter(w, j)
  BY <1>5 DEF Start
<1>8. Start(x, i) = j + 1 + JoinedAfter(x, j)
  BY <1>1, <1>5, Zenon DEF Start
<1> QED
  BY <1>6, <1>7, <1>8

LEMMA LineAtExtends ==
  ASSUME NEW w, NEW b, NEW x, Extends(w, b, x), NEW i \in 1..Len(w)
  PROVE  LineAt(x, i) = LineAt(w, i)
<1>1. Start(x, i) = Start(w, i) /\ Start(w, i) \in Nat /\ 1 <= Start(w, i)
  BY StartExtends
<1>2. i - 1 \in Nat /\ i - 1 <= Len(w)
  BY DEF Extends
<1>3. SubSeq(x, Start(w, i), i - 1) = SubSeq(w, Start(w, i), i - 1)
  <2>1. PICK s \in Nat : s = Start(w, i)
    BY <1>1
  <2>2. PICK e \in Nat : e = i - 1
    BY <1>2
  <2>3. 1 <= s /\ e <= Len(w)
    BY <1>1, <1>2, <2>1, <2>2
  <2>4. SubSeq(x, s, e) = SubSeq(w, s, e)
    BY <2>3, SubSeqSame
  <2> QED
    BY <2>1, <2>2, <2>4
<1> QED
  BY <1>1, <1>3, Zenon DEF LineAt

LEMMA StartOfClosed ==
  ASSUME NEW w, NEW b, NEW x, Extends(w, b, x), Closes(w, b)
  PROVE  Start(x, Len(w) + 1) = NextStart(w)
<1>1. {k \in LineEnds(x) : k < Len(w) + 1} = LineEnds(w)
  BY LineEndsExtend DEF Extends
<1>2. LastOf(LineEnds(w)) \in 0..Len(w)
  BY LineEndsExtend, LastOfFacts DEF Extends
<1>3. PICK j \in 0..Len(w) : j = LastOf(LineEnds(w))
  BY <1>2
<1>4. JoinedAfter(x, j) = JoinedAfter(w, j)
  <2>1. CASE j = Len(w)
    <3>1. JoinedAfter(x, Len(w)) = IF b = "LF" /\ Len(w) > 0 /\ w[Len(w)] = "CR" THEN 1 ELSE 0
      BY JoinedAfterExtends
    <3>2. JoinedAfter(w, Len(w)) = 0
      BY JoinedAfterExtends
    <3> QED
      BY <2>1, <3>1, <3>2 DEF Closes
  <2>2. CASE j # Len(w)
    <3>1. j \in 0..(Len(w) - 1)
      BY <2>2 DEF Extends
    <3> QED
      BY <3>1, JoinedAfterExtends
  <2> QED
    BY <2>1, <2>2
<1>5. Start(x, Len(w) + 1) = j + 1 + JoinedAfter(x, j)
  BY <1>1, <1>3, Zenon DEF Start
<1>6. NextStart(w) = j + 1 + JoinedAfter(w, j)
  BY <1>3, Zenon DEF NextStart
<1> QED
  BY <1>4, <1>5, <1>6

LEMMA LineAtClosed ==
  ASSUME NEW w, NEW b, NEW x, Extends(w, b, x), Closes(w, b)
  PROVE  LineAt(x, Len(w) + 1) = Trimmed(LineEnds(w) = {}, OpenText(w))
<1>1. NextStart(w) \in 1..(Len(w) + 1) /\ (NextStart(w) = 1 <=> LineEnds(w) = {})
  BY NextStartFacts
<1>2. Start(x, Len(w) + 1) = NextStart(w)
  BY StartOfClosed
<1>3. (Len(w) + 1) - 1 = Len(w) /\ Len(w) \in Nat /\ Len(w) <= Len(w) /\ NextStart(w) \in Nat /\ 1 <= NextStart(w)
  BY <1>1 DEF Extends
<1>4. SubSeq(x, NextStart(w), Len(w)) = OpenText(w)
  <2>1. PICK s \in Nat : s = NextStart(w)
    BY <1>3
  <2>2. 1 <= s
    BY <1>3, <2>1
  <2>3. SubSeq(x, s, Len(w)) = SubSeq(w, s, Len(w))
    BY <1>3, <2>2, SubSeqSame
  <2> QED
    BY <2>1, <2>3, Zenon DEF OpenText
<1> QED
  BY <1>1, <1>2, <1>3, <1>4, Zenon DEF LineAt, Trimmed

LEMMA BlanksExtend ==
  ASSUME NEW w, NEW b, NEW x, Extends(w, b, x)
  PROVE  /\ Blanks(w) \subseteq LineEnds(w)
         /\ Blanks(x) = Blanks(w) \cup
              (IF Closes(w, b) /\ Trimmed(LineEnds(w) = {}, OpenText(w)) = <<>> THEN {Len(w) + 1} ELSE {})
<1>1. /\ LineEnds(w) \subseteq 1..Len(w) /\ ~(Len(w) + 1 \in 1..Len(w))
      /\ LineEnds(x) = LineEnds(w) \cup (IF Closes(w, b) THEN {Len(w) + 1} ELSE {})
  BY LineEndsExtend DEF Extends
<1>2. \A i \in 1..Len(w) : LineAt(x, i) = LineAt(w, i)
  BY LineAtExtends
<1>3. CASE Closes(w, b)
  <2>1. LineAt(x, Len(w) + 1) = Trimmed(LineEnds(w) = {}, OpenText(w))
    BY <1>3, LineAtClosed
  <2> QED
    BY <1>1, <1>2, <1>3, <2>1 DEF Blanks
<1>4. CASE ~Closes(w, b)
  BY <1>1, <1>2, <1>4 DEF Blanks
<1> QED
  BY <1>3, <1>4

LEMMA StartingExtends ==
  ASSUME NEW w, NEW b, NEW x, Extends(w, b, x), NEW cs, NEW ends \in SUBSET (1..Len(w))
  PROVE  /\ Starting(x, ends, cs) = Starting(w, ends, cs)
         /\ Lasting(x, ends, cs) = Lasting(w, ends, cs)
<1>1. \A i \in 1..Len(w) : LineAt(x, i) = LineAt(w, i)
  BY LineAtExtends
<1>2. Starting(x, ends, cs) = Starting(w, ends, cs)
  BY <1>1 DEF Starting
<1>3. Starting(w, ends, cs) \subseteq 1..Len(w) /\ Len(w) \in Nat
  BY DEF Starting, Extends
<1>4. PICK S : S = Starting(w, ends, cs)
  OBVIOUS
<1>5. CASE S = {}
  BY <1>2, <1>4, <1>5, Zenon DEF Lasting
<1>6. CASE S # {}
  <2>1. Max(S) \in S
    BY <1>3, <1>4, <1>6, LastOfFacts
  <2>2. LineAt(x, Max(S)) = LineAt(w, Max(S))
    BY <1>1, <1>3, <1>4, <2>1
  <2> QED
    BY <1>2, <1>4, <1>6, <2>2, Zenon DEF Lasting
<1> QED
  BY <1>5, <1>6

(* The lines of the event that w has not closed yet. *)
OpenLines(w) == {j \in LineEnds(w) : \A k \in Blanks(w) : j > k}

LEMMA LinesOfExtend ==
  ASSUME NEW w, NEW b, NEW x, Extends(w, b, x)
  PROVE  /\ \A i \in 1..Len(w) : LinesOf(x, i) = LinesOf(w, i) /\ LinesOf(w, i) \subseteq 1..Len(w)
         /\ \A i \in 1..Len(w) : {j \in LineEnds(x) : j < i} = {j \in LineEnds(w) : j < i}
         /\ LinesOf(x, Len(w) + 1) = OpenLines(w)
         /\ {j \in LineEnds(x) : j < Len(w) + 1} = LineEnds(w)
         /\ OpenLines(w) \subseteq 1..Len(w)
<1>1. /\ LineEnds(w) \subseteq 1..Len(w) /\ Len(w) \in Nat
      /\ LineEnds(x) = LineEnds(w) \/ LineEnds(x) = LineEnds(w) \cup {Len(w) + 1}
  BY LineEndsExtend DEF Extends
<1>2. /\ Blanks(w) \subseteq 1..Len(w)
      /\ Blanks(x) = Blanks(w) \/ Blanks(x) = Blanks(w) \cup {Len(w) + 1}
  BY <1>1, BlanksExtend
<1>3. \A i \in 1..Len(w) : {j \in LineEnds(x) : j < i} = {j \in LineEnds(w) : j < i}
  BY <1>1
<1>4. {j \in LineEnds(x) : j < Len(w) + 1} = LineEnds(w)
  BY <1>1
<1>5. ASSUME NEW i \in 1..Len(w) PROVE LinesOf(x, i) = LinesOf(w, i)
  <2>1. \A j : j \in LineEnds(x) /\ j < i <=> j \in LineEnds(w) /\ j < i
    BY <1>1
  <2>2. \A k : k \in Blanks(x) /\ k < i <=> k \in Blanks(w) /\ k < i
    BY <1>2
  <2> QED
    BY <2>1, <2>2, Zenon DEF LinesOf
<1>6. LinesOf(x, Len(w) + 1) = OpenLines(w)
  <2>1. \A j : j \in LineEnds(x) /\ j < Len(w) + 1 <=> j \in LineEnds(w)
    BY <1>1
  <2>2. \A k : k \in Blanks(x) /\ k < Len(w) + 1 <=> k \in Blanks(w)
    BY <1>2, <1>1
  <2> QED
    BY <2>1, <2>2, Zenon DEF LinesOf, OpenLines
<1>7. OpenLines(w) \subseteq 1..Len(w) /\ \A i : LinesOf(w, i) \subseteq 1..Len(w)
  BY <1>1 DEF OpenLines, LinesOf
<1> QED
  BY <1>3, <1>4, <1>5, <1>6, <1>7

LEMMA EventOfExtends ==
  ASSUME NEW w, NEW b, NEW x, Extends(w, b, x),
         NEW lines \in SUBSET (1..Len(w)), NEW ends \in SUBSET (1..Len(w))
  PROVE  EventOf(x, lines, ends) = EventOf(w, lines, ends)
<1>1. /\ Starting(x, lines, {"data"}) = Starting(w, lines, {"data"})
      /\ Starting(x, lines, {"comment"}) = Starting(w, lines, {"comment"})
      /\ Lasting(x, lines, {"error", "unknown"}) = Lasting(w, lines, {"error", "unknown"})
      /\ Lasting(x, ends, {"id", "noid"}) = Lasting(w, ends, {"id", "noid"})
  <2>1. ASSUME NEW cs
        PROVE  /\ Starting(x, lines, cs) = Starting(w, lines, cs)
               /\ Lasting(x, lines, cs) = Lasting(w, lines, cs)
    BY StartingExtends
  <2>2. ASSUME NEW cs PROVE Lasting(x, ends, cs) = Lasting(w, ends, cs)
    BY StartingExtends
  <2> QED
    BY <2>1, <2>2, Zenon
<1> QED
  BY <1>1 DEF EventOf

LEMMA EventAtExtends ==
  ASSUME NEW w, NEW b, NEW x, Extends(w, b, x), NEW i \in 1..Len(w)
  PROVE  EventAt(x, i) = EventAt(w, i)
<1> DEFINE before == {j \in LineEnds(w) : j < i}
<1>1. LinesOf(x, i) = LinesOf(w, i) /\ LinesOf(w, i) \subseteq 1..Len(w)
  BY LinesOfExtend
<1>2. {j \in LineEnds(x) : j < i} = before /\ before \subseteq 1..Len(w)
  BY LinesOfExtend, LineEndsExtend
<1>3. EventOf(x, LinesOf(w, i), before) = EventOf(w, LinesOf(w, i), before)
  BY <1>1, <1>2, EventOfExtends
<1> QED
  BY <1>1, <1>2, <1>3, Zenon DEF EventAt

(* What next would return if a blank line closed the event now. *)
OpenEvent(w) == EventOf(w, OpenLines(w), LineEnds(w))

LEMMA EventAtClosed ==
  ASSUME NEW w, NEW b, NEW x, Extends(w, b, x)
  PROVE  EventAt(x, Len(w) + 1) = OpenEvent(w)
<1>1. LinesOf(x, Len(w) + 1) = OpenLines(w) /\ OpenLines(w) \subseteq 1..Len(w)
  BY LinesOfExtend
<1>2. {j \in LineEnds(x) : j < Len(w) + 1} = LineEnds(w) /\ LineEnds(w) \subseteq 1..Len(w)
  BY LinesOfExtend, LineEndsExtend
<1>3. EventOf(x, OpenLines(w), LineEnds(w)) = EventOf(w, OpenLines(w), LineEnds(w))
  BY <1>1, <1>2, EventOfExtends
<1> QED
  BY <1>1, <1>2, <1>3, Zenon DEF EventAt, OpenEvent

(* Bytes of the event that w has not closed yet. *)
OpenSize(w) == LET k == LastOf(Blanks(w)) IN Len(w) - k - JoinedAfter(w, k)

LEMMA SizeAtExtends ==
  ASSUME NEW w, NEW b, NEW x, Extends(w, b, x)
  PROVE  SizeAt(x, Len(x)) =
           IF b = "LF" /\ Len(w) > 0 /\ w[Len(w)] = "CR" /\ Len(w) \in Blanks(w) THEN OpenSize(w)
           ELSE OpenSize(w) + 1
<1>1. Blanks(w) \subseteq 1..Len(w) /\ Len(w) \in Nat /\ Len(x) = Len(w) + 1
  BY BlanksExtend, LineEndsExtend DEF Extends
<1>2. {j \in Blanks(x) : j < Len(x)} = Blanks(w)
  BY <1>1, BlanksExtend
<1>3. /\ LastOf(Blanks(w)) \in 0..Len(w) /\ (Blanks(w) = {} <=> LastOf(Blanks(w)) = 0)
      /\ Blanks(w) # {} => LastOf(Blanks(w)) \in Blanks(w)
      /\ \A y \in Blanks(w) : y <= LastOf(Blanks(w))
  BY <1>1, LastOfFacts
<1>4. PICK k \in 0..Len(w) : k = LastOf(Blanks(w))
  BY <1>3
<1>5. SizeAt(x, Len(x)) = Len(w) + 1 - k - JoinedAfter(x, k)
  <2>1. SizeAt(x, Len(x)) = Len(x) - k - JoinedAfter(x, k)
    BY <1>2, <1>4, Zenon DEF SizeAt
  <2>2. JoinedAfter(x, k) \in {0, 1}
    BY DEF JoinedAfter
  <2> QED
    BY <1>1, <2>1, <2>2
<1>6. OpenSize(w) = Len(w) - k - JoinedAfter(w, k)
  BY <1>4 DEF OpenSize
<1>7. CASE k = Len(w)
  <2>1. JoinedAfter(w, k) = 0
    BY <1>7, JoinedAfterExtends
  <2>2. JoinedAfter(x, k) = IF b = "LF" /\ Len(w) > 0 /\ w[Len(w)] = "CR" THEN 1 ELSE 0
    BY <1>7, JoinedAfterExtends
  <2>3. Len(w) > 0 => Len(w) \in Blanks(w)
    BY <1>1, <1>3, <1>4, <1>7
  <2> QED
    BY <1>1, <1>5, <1>6, <1>7, <2>1, <2>2, <2>3
<1>8. CASE k # Len(w)
  <2>1. k \in 0..(Len(w) - 1)
    BY <1>1, <1>8
  <2>2. JoinedAfter(x, k) = JoinedAfter(w, k) /\ JoinedAfter(w, k) \in {0, 1}
    BY <2>1, JoinedAfterExtends
  <2>3. ~(Len(w) \in Blanks(w))
    BY <1>1, <1>3, <1>4, <1>8
  <2> QED
    BY <1>1, <1>5, <1>6, <2>2, <2>3
<1> QED
  BY <1>7, <1>8

Within(ends, w) == ends \in SUBSET (1..Len(w))

(* line is the one that ends where x is longer than w. *)
GrowsBy(w, x, ends, cs, line) ==
  /\ line # <<>> /\ line[1] \in cs =>
       /\ Starting(x, ends \cup {Len(w) + 1}, cs) = Starting(w, ends, cs) \cup {Len(w) + 1}
       /\ Lasting(x, ends \cup {Len(w) + 1}, cs) = line[1]
  /\ ~(line # <<>> /\ line[1] \in cs) =>
       /\ Starting(x, ends \cup {Len(w) + 1}, cs) = Starting(w, ends, cs)
       /\ Lasting(x, ends \cup {Len(w) + 1}, cs) = Lasting(w, ends, cs)

LEMMA StartingGrows ==
  ASSUME NEW w, NEW b, NEW x, NEW cs, NEW line, NEW ends,
         Within(ends, w), Extends(w, b, x), line = LineAt(x, Len(w) + 1)
  PROVE  GrowsBy(w, x, ends, cs, line)
<1>0. ends \in SUBSET (1..Len(w))
  BY DEF Within
<1> DEFINE hit == line # <<>> /\ line[1] \in cs
           more == ends \cup {Len(w) + 1}
<1>1. Starting(x, ends, cs) = Starting(w, ends, cs) /\ Lasting(x, ends, cs) = Lasting(w, ends, cs)
  BY <1>0, StartingExtends
<1>2. Starting(x, more, cs) = Starting(x, ends, cs) \cup (IF hit THEN {Len(w) + 1} ELSE {})
  BY DEF Starting
<1>3. Starting(w, ends, cs) \subseteq 1..Len(w) /\ Len(w) \in Nat
  BY <1>0 DEF Starting, Extends
<1>4. CASE hit
  <2>1. Starting(x, more, cs) = Starting(w, ends, cs) \cup {Len(w) + 1}
    BY <1>1, <1>2, <1>4
  <2>2. LastOf(Starting(w, ends, cs) \cup {Len(w) + 1}) = Len(w) + 1
    BY <1>3, LastOfTop
  <2>3. Starting(x, more, cs) # {}
    BY <2>1
  <2>4. Max(Starting(x, more, cs)) = Len(w) + 1
    BY <2>1, <2>2, <2>3, Zenon DEF LastOf
  <2>5. Lasting(x, more, cs) = line[1]
    BY <2>3, <2>4, Zenon DEF Lasting
  <2> QED
    BY <1>4, <2>1, <2>5, Zenon DEF GrowsBy
<1>5. CASE ~hit
  <2>1. Starting(x, more, cs) = Starting(x, ends, cs)
    BY <1>2, <1>5
  <2>2. Lasting(x, more, cs) = Lasting(x, ends, cs)
    BY <2>1, Zenon DEF Lasting
  <2> QED
    BY <1>1, <1>5, <2>1, <2>2, Zenon DEF GrowsBy
<1> QED
  BY <1>4, <1>5

LEMMA LastingType ==
  ASSUME NEW n \in Nat, NEW w, NEW cs, NEW ends \in SUBSET (1..n)
  PROVE  /\ Lasting(w, ends, cs) \in cs \cup {"absent"}
         /\ Starting(w, ends, cs) \subseteq 1..n
         /\ IsFiniteSet(Starting(w, ends, cs))
<1>1. Starting(w, ends, cs) \subseteq 1..n
  BY DEF Starting
<1>2. IsFiniteSet(Starting(w, ends, cs))
  <2>1. IsFiniteSet(1..n)
    BY FS_Interval
  <2> QED
    BY <1>1, <2>1, FS_Subset
<1>3. CASE Starting(w, ends, cs) = {}
  BY <1>1, <1>2, <1>3 DEF Lasting
<1>4. CASE Starting(w, ends, cs) # {}
  <2>1. Max(Starting(w, ends, cs)) \in Starting(w, ends, cs)
    BY <1>1, <1>4, LastOfFacts
  <2>2. LineAt(w, Max(Starting(w, ends, cs)))[1] \in cs
    BY <2>1 DEF Starting
  <2> QED
    BY <1>1, <1>2, <1>4, <2>2, Zenon DEF Lasting
<1> QED
  BY <1>3, <1>4

LEMMA NothingStarts ==
  ASSUME NEW w, NEW cs
  PROVE  Starting(w, {}, cs) = {} /\ Lasting(w, {}, cs) = "absent"
<1>1. Starting(w, {}, cs) = {}
  BY DEF Starting
<1> QED
  BY <1>1 DEF Lasting

(* The bytes and the lines of the open event, with one more byte. *)
LEMMA OpenSizeExtends ==
  ASSUME NEW w, NEW b, NEW x, Extends(w, b, x)
  PROVE  /\ Blanks(x) = Blanks(w) => OpenSize(x) = SizeAt(x, Len(x))
         /\ Blanks(x) # Blanks(w) => OpenSize(x) = 0
         /\ OpenSize(w) \in Nat
<1>1. Blanks(w) \subseteq 1..Len(w) /\ Len(w) \in Nat /\ Len(x) = Len(w) + 1
  BY BlanksExtend, LineEndsExtend DEF Extends
<1>2. {j \in Blanks(x) : j < Len(x)} = Blanks(w)
  BY <1>1, BlanksExtend
<1>3. Blanks(x) = Blanks(w) => OpenSize(x) = SizeAt(x, Len(x))
  BY <1>2, Zenon DEF OpenSize, SizeAt
<1>4. ASSUME Blanks(x) # Blanks(w) PROVE OpenSize(x) = 0
  <2>1. Blanks(x) = Blanks(w) \cup {Len(w) + 1}
    BY <1>4, BlanksExtend
  <2>2. LastOf(Blanks(x)) = Len(x)
    BY <1>1, <2>1, LastOfTop
  <2>3. JoinedAfter(x, Len(x)) = 0
    BY JoinedAfterExtends
  <2> QED
    BY <1>1, <2>2, <2>3 DEF OpenSize
<1>5. OpenSize(w) \in Nat
  <2>1. LastOf(Blanks(w)) \in 0..Len(w)
    BY <1>1, LastOfFacts
  <2>2. PICK k \in 0..Len(w) : k = LastOf(Blanks(w))
    BY <2>1
  <2>3. JoinedAfter(w, k) \in {0, 1} /\ JoinedAfter(w, Len(w)) = 0
    BY JoinedAfterExtends
  <2>4. OpenSize(w) = Len(w) - k - JoinedAfter(w, k)
    BY <2>2 DEF OpenSize
  <2> QED
    BY <1>1, <2>2, <2>3, <2>4
<1> QED
  BY <1>3, <1>4, <1>5

LEMMA OpenLinesExtend ==
  ASSUME NEW w, NEW b, NEW x, Extends(w, b, x)
  PROVE  /\ ~Closes(w, b) => /\ LineEnds(x) = LineEnds(w) /\ Blanks(x) = Blanks(w)
                             /\ OpenLines(x) = OpenLines(w)
         /\ Closes(w, b) =>
              /\ LineEnds(x) = LineEnds(w) \cup {Len(w) + 1}
              /\ IF Trimmed(LineEnds(w) = {}, OpenText(w)) = <<>>
                 THEN /\ Blanks(x) = Blanks(w) \cup {Len(w) + 1} /\ Blanks(x) # Blanks(w)
                      /\ OpenLines(x) = {}
                 ELSE Blanks(x) = Blanks(w) /\ OpenLines(x) = OpenLines(w) \cup {Len(w) + 1}
<1>1. LineEnds(w) \subseteq 1..Len(w) /\ Len(w) \in Nat /\ Blanks(w) \subseteq LineEnds(w)
  BY BlanksExtend, LineEndsExtend DEF Extends
<1>2. CASE ~Closes(w, b)
  <2>1. LineEnds(x) = LineEnds(w) /\ Blanks(x) = Blanks(w)
    BY <1>2, BlanksExtend, LineEndsExtend
  <2> QED
    BY <1>2, <2>1, Zenon DEF OpenLines
<1>3. CASE Closes(w, b)
  <2>1. LineEnds(x) = LineEnds(w) \cup {Len(w) + 1}
    BY <1>3, LineEndsExtend
  <2>2. CASE Trimmed(LineEnds(w) = {}, OpenText(w)) = <<>>
    <3>1. Blanks(x) = Blanks(w) \cup {Len(w) + 1} /\ ~(Len(w) + 1 \in Blanks(w))
      BY <1>1, <1>3, <2>2, BlanksExtend
    <3>2. OpenLines(x) = {}
      BY <1>1, <2>1, <3>1 DEF OpenLines
    <3> QED
      BY <1>3, <2>1, <2>2, <3>1, <3>2
  <2>3. CASE Trimmed(LineEnds(w) = {}, OpenText(w)) # <<>>
    <3>1. Blanks(x) = Blanks(w)
      BY <1>3, <2>3, BlanksExtend
    <3>2. \A k \in Blanks(w) : Len(w) + 1 > k
      BY <1>1
    <3>3. OpenLines(x) = OpenLines(w) \cup {Len(w) + 1}
      BY <2>1, <3>1, <3>2 DEF OpenLines
    <3> QED
      BY <1>3, <2>1, <2>3, <3>1, <3>3
  <2> QED
    BY <2>2, <2>3
<1> QED
  BY <1>2, <1>3

LEMMA OpenTextExtends ==
  ASSUME NEW w, NEW b, NEW x, Extends(w, b, x)
  PROVE  /\ b \in {"CR", "LF"} => OpenText(x) = <<>>
         /\ ~(b \in {"CR", "LF"}) => OpenText(x) = Append(OpenText(w), b)
         /\ b \in {"CR", "LF"} /\ ~Closes(w, b) => OpenText(w) = <<>>
         /\ OpenText(w) \in Seq(Bytes)
<1>1. /\ LineEnds(w) \subseteq 1..Len(w) /\ Len(w) \in Nat /\ Len(x) = Len(w) + 1
      /\ w \in Seq(Bytes) /\ x \in Seq(Bytes)
  BY LineEndsExtend DEF Extends
<1>2. PICK j \in 0..Len(w) : j = LastOf(LineEnds(w)) /\ \A y \in LineEnds(w) : y <= j
  BY <1>1, LastOfFacts
<1>3. NextStart(w) = j + 1 + JoinedAfter(w, j)
  BY <1>2, Zenon DEF NextStart
<1>4. PICK s \in 1..(Len(w) + 1) : s = NextStart(w)
  BY NextStartFacts
<1>5. OpenText(w) = SubSeq(w, s, Len(w))
  BY <1>4, Zenon DEF OpenText
<1>6. OpenText(w) \in Seq(Bytes) /\ (OpenText(w) = <<>> <=> s = Len(w) + 1)
  BY <1>1, <1>4, <1>5, SubSeqFacts
<1>7. ASSUME NextStart(x) = Len(x) + 1 PROVE OpenText(x) = <<>>
  <2>1. PICK t \in Nat : t = Len(x) + 1
    BY <1>1
  <2>2. SubSeq(x, t, Len(x)) = <<>>
    BY <1>1, <2>1, SubSeqFacts
  <2> QED
    BY <1>7, <2>1, <2>2, Zenon DEF OpenText
<1>8. CASE Closes(w, b)
  <2>1. LineEnds(x) = LineEnds(w) \cup {Len(w) + 1}
    BY <1>8, LineEndsExtend
  <2>2. LastOf(LineEnds(x)) = Len(x)
    BY <1>1, <2>1, LastOfTop
  <2>3. JoinedAfter(x, Len(x)) = 0
    BY JoinedAfterExtends
  <2>4. NextStart(x) = Len(x) + 1
    BY <1>1, <2>2, <2>3 DEF NextStart
  <2> QED
    BY <1>6, <1>7, <1>8, <2>4 DEF Closes
<1>9. CASE b \in {"CR", "LF"} /\ ~Closes(w, b)
  <2>1. b = "LF" /\ Len(w) > 0 /\ w[Len(w)] = "CR" /\ LineEnds(x) = LineEnds(w)
    BY <1>9, LineEndsExtend DEF Closes
  <2>2. Len(w) \in LineEnds(w)
    BY <1>1, <2>1 DEF LineEnds, Joined
  <2>3. j = Len(w)
    BY <1>1, <1>2, <2>2
  <2>4. JoinedAfter(x, Len(w)) = 1 /\ JoinedAfter(w, Len(w)) = 0
    BY <2>1, JoinedAfterExtends
  <2>5. NextStart(x) = j + 1 + JoinedAfter(x, j)
    BY <1>2, <2>1, Zenon DEF NextStart
  <2>6. NextStart(x) = Len(x) + 1 /\ s = Len(w) + 1
    BY <1>1, <1>3, <1>4, <2>3, <2>4, <2>5
  <2> QED
    BY <1>6, <1>7, <1>9, <2>6
<1>10. CASE ~(b \in {"CR", "LF"})
  <2>1. LineEnds(x) = LineEnds(w)
    BY <1>10, LineEndsExtend DEF Closes
  <2>2. JoinedAfter(x, j) = JoinedAfter(w, j)
    <3>1. CASE j = Len(w)
      BY <1>10, <3>1, JoinedAfterExtends
    <3>2. CASE j # Len(w)
      <4>1. j \in 0..(Len(w) - 1)
        BY <1>1, <3>2
      <4> QED
        BY <4>1, JoinedAfterExtends
    <3> QED
      BY <3>1, <3>2
  <2>3. NextStart(x) = j + 1 + JoinedAfter(x, j)
    BY <1>2, <2>1, Zenon DEF NextStart
  <2>4. NextStart(x) = s
    BY <1>3, <1>4, <2>2, <2>3
  <2>5. s \in Nat /\ 1 <= s /\ s <= Len(w) + 1
    BY <1>1, <1>4
  <2>6. SubSeq(x, s, Len(w) + 1) = Append(SubSeq(w, s, Len(w)), b)
    BY <2>5, SubSeqGrows
  <2>7. OpenText(x) = Append(OpenText(w), b)
    BY <1>1, <1>5, <2>4, <2>6, Zenon DEF OpenText
  <2> QED
    BY <1>6, <1>10, <2>7
<1> QED
  BY <1>8, <1>9, <1>10

EventNames == {"message", "error", "unknown"}
Blocks == [line : Seq(Bytes), size : Nat, lines : Nat, event : EventNames, comment : BOOLEAN]
Decoders == [block : Blocks, id : {"initial", "sent", "cleared"}, first : BOOLEAN,
             skipLF : BOOLEAN, blockLF : BOOLEAN]

NameOf(e) == IF e = "absent" THEN "message" ELSE e
EventRecords ==
  [kind : {"heartbeat", "other", "error", "data"}, id : {"initial", "sent", "cleared", "unset"}, lines : Nat]

IdOf(e) == IF e = "absent" THEN "initial" ELSE IF e = "id" THEN "sent" ELSE "cleared"

(* d is what the decoder has made of the lines of w. *)
FollowsLines(d, w) ==
  /\ d.first <=> LineEnds(w) = {}
  /\ d.block.lines = Cardinality(Starting(w, OpenLines(w), {"data"}))
  /\ d.block.comment <=> Starting(w, OpenLines(w), {"comment"}) # {}
  /\ d.block.event = NameOf(Lasting(w, OpenLines(w), {"error", "unknown"}))
  /\ d.id = IdOf(Lasting(w, LineEnds(w), {"id", "noid"}))

FollowsBytes(d, w) ==
  /\ d.skipLF <=> Len(w) > 0 /\ w[Len(w)] = "CR"
  /\ d.blockLF <=> Len(w) > 0 /\ w[Len(w)] = "CR" /\ Len(w) \in Blanks(w)
  /\ d.block.line = OpenText(w)
  /\ d.block.size = OpenSize(w)

(* evs are the events of the blank lines that end at bs. *)
Reported(evs, w, bs) ==
  /\ Len(evs) = Cardinality(bs)
  /\ \A i \in bs : evs[Cardinality({j \in bs : j <= i})] = EventAt(w, i)

LEMMA ReportsExtend ==
  ASSUME NEW w, NEW b, NEW x, Extends(w, b, x), NEW evs, Reported(evs, w, Blanks(w))
  PROVE  Reported(evs, x, Blanks(w))
<1>1. \A i \in Blanks(w) : EventAt(x, i) = EventAt(w, i)
  BY BlanksExtend, LineEndsExtend, EventAtExtends
<1> QED
  BY <1>1, Zenon DEF Reported

LEMMA ReportsGrow ==
  ASSUME NEW w, NEW b, NEW x, Extends(w, b, x), NEW evs \in Seq(EventRecords), NEW e \in EventRecords,
         Reported(evs, w, Blanks(w)), e = OpenEvent(w),
         Blanks(x) = Blanks(w) \cup {Len(w) + 1}
  PROVE  Reported(Append(evs, e), x, Blanks(x))
<1> DEFINE B == Blanks(w)
           upto(i) == {j \in Blanks(x) : j <= i}
<1>1. B \subseteq 1..Len(w) /\ Len(w) \in Nat /\ ~(Len(w) + 1 \in B)
  BY BlanksExtend, LineEndsExtend DEF Extends
<1>2. IsFiniteSet(B)
  <2>1. IsFiniteSet(1..Len(w))
    BY <1>1, FS_Interval
  <2> QED
    BY <1>1, <2>1, FS_Subset
<1>3. Cardinality(B) \in Nat /\ Cardinality(Blanks(x)) = Cardinality(B) + 1
  BY <1>1, <1>2, FS_CardinalityType, FS_AddElement
<1>4. Len(evs) = Cardinality(B) /\ Len(Append(evs, e)) = Cardinality(Blanks(x))
  BY <1>3 DEF Reported
<1>5. Append(evs, e)[Cardinality(upto(Len(w) + 1))] = EventAt(x, Len(w) + 1)
  <2>1. upto(Len(w) + 1) = Blanks(x)
    BY <1>1
  <2>2. Append(evs, e)[Len(evs) + 1] = e
    OBVIOUS
  <2>3. EventAt(x, Len(w) + 1) = e
    BY EventAtClosed
  <2> QED
    BY <1>3, <1>4, <2>1, <2>2, <2>3
<1>6. ASSUME NEW i \in B PROVE Append(evs, e)[Cardinality(upto(i))] = EventAt(x, i)
  <2>1. upto(i) = {j \in B : j <= i}
    BY <1>1
  <2>2. PICK S : S = {j \in B : j <= i}
    OBVIOUS
  <2>3. S \subseteq B /\ i \in S
    BY <1>1, <2>2
  <2>4. IsFiniteSet(S) /\ Cardinality(S) \in Nat /\ Cardinality(S) <= Cardinality(B)
    BY <1>2, <2>3, FS_Subset, FS_CardinalityType
  <2>5. Cardinality(S) # 0
    BY <2>3, <2>4, FS_EmptySet
  <2>6. PICK c \in 1..Len(evs) : c = Cardinality(S)
    BY <1>3, <1>4, <2>4, <2>5
  <2>7. Append(evs, e)[c] = evs[c]
    OBVIOUS
  <2>8. evs[c] = EventAt(w, i)
    BY <2>2, <2>6 DEF Reported
  <2>9. EventAt(x, i) = EventAt(w, i)
    BY <1>1, EventAtExtends
  <2> QED
    BY <2>1, <2>2, <2>6, <2>7, <2>8, <2>9
<1> QED
  BY <1>4, <1>5, <1>6 DEF Reported

DecoderInv ==
  /\ wire \in Seq(Bytes) /\ budget \in Nat
  /\ decoder \in Decoders
  /\ events \in Seq(EventRecords)
  /\ failure \in {"none", "eof", "torn", "limit", "unsupported"}
  /\ failure \in {"none", "eof", "torn"} => FollowsLines(decoder, wire) /\ FollowsBytes(decoder, wire)
  /\ DecodesLines

LEMMA FirstOfText ==
  ASSUME NEW text \in Seq(Bytes), NEW first \in BOOLEAN
  PROVE  /\ Trimmed(first, text) \in Seq(Bytes)
         /\ Trimmed(first, text) # <<>> => Trimmed(first, text)[1] \in Bytes
<1>1. CASE first /\ text # <<>> /\ text[1] = "bom"
  <2>1. Trimmed(first, text) = Tail(text) /\ Tail(text) \in Seq(Bytes)
    BY <1>1 DEF Trimmed
  <2>2. PICK t \in Seq(Bytes) : t = Tail(text)
    BY <2>1
  <2>3. t # <<>> => t[1] \in Bytes
    OBVIOUS
  <2> QED
    BY <2>1, <2>2, <2>3
<1>2. CASE ~(first /\ text # <<>> /\ text[1] = "bom")
  <2>1. Trimmed(first, text) = text
    BY <1>2 DEF Trimmed
  <2>2. text # <<>> => text[1] \in Bytes
    OBVIOUS
  <2> QED
    BY <2>1, <2>2
<1> QED
  BY <1>1, <1>2

LEMMA DispatchedFollows ==
  ASSUME NEW w, NEW n \in Nat, OpenLines(w) \in SUBSET (1..n), NEW d \in Decoders, FollowsLines(d, w),
         ~(d.block.lines > 0 /\ d.block.event = "unknown")
  PROVE  Dispatched(d.block, d.id) = OpenEvent(w)
<1>1. /\ Lasting(w, OpenLines(w), {"error", "unknown"}) \in {"error", "unknown", "absent"}
  BY LastingType
<1>2. d.block.lines \in Nat
  BY DEF Decoders, Blocks
<1>3. PICK name : name = Lasting(w, OpenLines(w), {"error", "unknown"})
  OBVIOUS
<1>4. PICK id : id = Lasting(w, LineEnds(w), {"id", "noid"})
  OBVIOUS
<1>5. PICK data : data = Cardinality(Starting(w, OpenLines(w), {"data"}))
  OBVIOUS
<1>6. OpenEvent(w) =
        IF data = 0
        THEN Event(IF Starting(w, OpenLines(w), {"comment"}) # {} THEN "heartbeat" ELSE "other", "unset", 0)
        ELSE Event(IF name = "error" THEN "error" ELSE "data", IdOf(id), data)
  BY <1>3, <1>4, <1>5, Zenon DEF OpenEvent, EventOf, IdOf
<1>7. /\ d.block.lines = data /\ d.id = IdOf(id) /\ d.block.event = NameOf(name)
      /\ d.block.comment <=> Starting(w, OpenLines(w), {"comment"}) # {}
  BY <1>3, <1>4, <1>5, Zenon DEF FollowsLines
<1>8. CASE data = 0
  <2>1. OpenEvent(w) = Event(IF d.block.comment THEN "heartbeat" ELSE "other", "unset", 0)
    BY <1>6, <1>7, <1>8
  <2> QED
    BY <1>7, <1>8, <2>1, Zenon DEF Dispatched
<1>9. CASE data # 0
  <2>1. d.block.event # "unknown"
    BY <1>2, <1>7, <1>9
  <2>2. (name = "error") <=> (d.block.event = "error")
    BY <1>1, <1>3, <1>7, <2>1 DEF NameOf
  <2> QED
    BY <1>6, <1>7, <1>9, <2>2 DEF Dispatched
<1> QED
  BY <1>8, <1>9

LEMMA DispatchedType ==
  ASSUME NEW d \in Decoders
  PROVE  Dispatched(d.block, d.id) \in EventRecords
<1>1. d.block.lines \in Nat /\ d.id \in {"initial", "sent", "cleared"}
  BY DEF Decoders, Blocks
<1> QED
  BY <1>1 DEF Dispatched, Event, EventRecords

(* The decoder that has counted a byte. *)
Counted(d) == [[d EXCEPT !.skipLF = FALSE, !.blockLF = FALSE] EXCEPT !.block.size = @ + 1]

LEMMA CountedFields ==
  ASSUME NEW d \in Decoders
  PROVE  /\ Counted(d) \in Decoders
         /\ ~Counted(d).skipLF /\ ~Counted(d).blockLF
         /\ Counted(d).first = d.first /\ Counted(d).id = d.id
         /\ Counted(d).block.size = d.block.size + 1
         /\ Counted(d).block.line = d.block.line /\ Counted(d).block.lines = d.block.lines
         /\ Counted(d).block.event = d.block.event /\ Counted(d).block.comment = d.block.comment
<1>1. PICK k \in Blocks : k = [d.block EXCEPT !.size = @ + 1]
  <2>1. d.block \in Blocks /\ d.block.size + 1 \in Nat
    BY DEF Decoders, Blocks
  <2>2. [d.block EXCEPT !.size = d.block.size + 1] \in Blocks
    BY <2>1 DEF Blocks
  <2> QED
    BY <2>2
<1>2. /\ k.size = d.block.size + 1 /\ k.line = d.block.line /\ k.lines = d.block.lines
      /\ k.event = d.block.event /\ k.comment = d.block.comment
  BY <1>1 DEF Decoders, Blocks
<1>3. Counted(d) = [d EXCEPT !.skipLF = FALSE, !.blockLF = FALSE, !.block = k]
  BY <1>1 DEF Counted, Decoders
<1>4. Counted(d) \in Decoders
  BY <1>3 DEF Decoders
<1>5. /\ Counted(d).skipLF = FALSE /\ Counted(d).blockLF = FALSE
      /\ Counted(d).first = d.first /\ Counted(d).id = d.id /\ Counted(d).block = k
  BY <1>3 DEF Decoders
<1> QED
  BY <1>2, <1>4, <1>5

(* The decoder at the end of its line. *)
Ended(d) == [d EXCEPT !.first = FALSE, !.block.line = <<>>]

LEMMA EndedFields ==
  ASSUME NEW d \in Decoders
  PROVE  /\ Ended(d) \in Decoders
         /\ ~Ended(d).first /\ Ended(d).block.line = <<>>
         /\ Ended(d).skipLF = d.skipLF /\ Ended(d).blockLF = d.blockLF /\ Ended(d).id = d.id
         /\ Ended(d).block.size = d.block.size /\ Ended(d).block.lines = d.block.lines
         /\ Ended(d).block.event = d.block.event /\ Ended(d).block.comment = d.block.comment
<1>0. <<>> \in Seq(Bytes)
  OBVIOUS
<1>1. PICK k \in Blocks : k = [d.block EXCEPT !.line = <<>>]
  BY <1>0 DEF Decoders, Blocks
<1>2. /\ k.size = d.block.size /\ k.line = <<>> /\ k.lines = d.block.lines
      /\ k.event = d.block.event /\ k.comment = d.block.comment
  BY <1>1 DEF Decoders, Blocks
<1>3. Ended(d) = [d EXCEPT !.first = FALSE, !.block = k]
  BY <1>1 DEF Ended, Decoders
<1>4. Ended(d) \in Decoders
  BY <1>3 DEF Decoders
<1>5. /\ Ended(d).first = FALSE /\ Ended(d).skipLF = d.skipLF /\ Ended(d).blockLF = d.blockLF
      /\ Ended(d).id = d.id /\ Ended(d).block = k
  BY <1>3 DEF Decoders
<1> QED
  BY <1>2, <1>4, <1>5

LEMMA FieldFields ==
  ASSUME NEW d \in Decoders, NEW line, line[1] \in Bytes
  PROVE  /\ Field(d, line) \in Decoders
         /\ Field(d, line).first = d.first /\ Field(d, line).skipLF = d.skipLF
         /\ Field(d, line).blockLF = d.blockLF
         /\ Field(d, line).block.size = d.block.size /\ Field(d, line).block.line = d.block.line
         /\ Field(d, line).block.lines = d.block.lines + IF line[1] = "data" THEN 1 ELSE 0
         /\ Field(d, line).block.comment <=> d.block.comment \/ line[1] = "comment"
         /\ Field(d, line).block.event = IF line[1] \in {"error", "unknown"} THEN line[1] ELSE d.block.event
         /\ Field(d, line).id = IF line[1] = "id" THEN "sent" ELSE IF line[1] = "noid" THEN "cleared" ELSE d.id
<1>0. d.block \in Blocks /\ d.block.lines \in Nat /\ d.block.lines + 0 = d.block.lines
  BY DEF Decoders, Blocks
<1>1. CASE line[1] = "data"
  <2>1. PICK k \in Blocks : k = [d.block EXCEPT !.lines = @ + 1]
    <3>1. d.block.lines + 1 \in Nat
      BY <1>0
    <3>2. [d.block EXCEPT !.lines = d.block.lines + 1] \in Blocks
      BY <1>0, <3>1 DEF Blocks
    <3> QED
      BY <3>2
  <2>2. /\ k.size = d.block.size /\ k.line = d.block.line /\ k.lines = d.block.lines + 1
        /\ k.event = d.block.event /\ k.comment = d.block.comment
    BY <2>1 DEF Decoders, Blocks
  <2>3. Field(d, line) = [d EXCEPT !.block = k]
    BY <1>1, <2>1 DEF Field, Decoders
  <2> QED
    BY <1>1, <2>2, <2>3 DEF Decoders
<1>2. CASE line[1] = "comment"
  <2>1. PICK k \in Blocks : k = [d.block EXCEPT !.comment = TRUE]
    BY DEF Decoders, Blocks
  <2>2. /\ k.size = d.block.size /\ k.line = d.block.line /\ k.lines = d.block.lines
        /\ k.event = d.block.event /\ k.comment = TRUE
    BY <2>1 DEF Decoders, Blocks
  <2>3. Field(d, line) = [d EXCEPT !.block = k]
    BY <1>2, <2>1 DEF Field, Decoders
  <2> QED
    BY <1>0, <1>2, <2>2, <2>3 DEF Decoders
<1>3. CASE line[1] \in {"error", "unknown"}
  <2>1. PICK k \in Blocks : k = [d.block EXCEPT !.event = line[1]]
    BY <1>3 DEF Decoders, Blocks, EventNames
  <2>2. /\ k.size = d.block.size /\ k.line = d.block.line /\ k.lines = d.block.lines
        /\ k.event = line[1] /\ k.comment = d.block.comment
    BY <2>1 DEF Decoders, Blocks
  <2>3. Field(d, line) = [d EXCEPT !.block = k]
    BY <1>3, <2>1 DEF Field, Decoders
  <2> QED
    BY <1>0, <1>3, <2>2, <2>3 DEF Decoders
<1>4. CASE line[1] \in {"id", "noid"}
  <2>1. Field(d, line) = [d EXCEPT !.id = IF line[1] = "id" THEN "sent" ELSE "cleared"]
    BY <1>4 DEF Field
  <2> QED
    BY <1>0, <1>4, <2>1 DEF Decoders
<1>5. CASE ~(line[1] \in {"data", "comment", "error", "unknown", "id", "noid"})
  <2>1. Field(d, line) = d
    BY <1>5 DEF Field
  <2> QED
    BY <1>0, <1>5, <2>1 DEF Decoders, Blocks
<1> QED
  BY <1>1, <1>2, <1>3, <1>4, <1>5

LEMMA FieldFollows ==
  ASSUME NEW w, NEW b, NEW x, Extends(w, b, x), Closes(w, b),
         NEW d \in Decoders, NEW f \in Decoders,
         /\ d.block.lines = Cardinality(Starting(w, OpenLines(w), {"data"}))
         /\ d.block.comment <=> Starting(w, OpenLines(w), {"comment"}) # {}
         /\ d.block.event = NameOf(Lasting(w, OpenLines(w), {"error", "unknown"}))
         /\ d.id = IdOf(Lasting(w, LineEnds(w), {"id", "noid"})),
         NEW line, line # <<>>, line[1] \in Bytes, line = Trimmed(LineEnds(w) = {}, OpenText(w)),
         ~d.first, f = Field(d, line)
  PROVE  FollowsLines(f, x)
<1>1. /\ LineEnds(x) = LineEnds(w) \cup {Len(w) + 1} /\ OpenLines(x) = OpenLines(w) \cup {Len(w) + 1}
      /\ LineEnds(w) \in SUBSET (1..Len(w)) /\ OpenLines(w) \in SUBSET (1..Len(w))
      /\ Len(w) \in Nat /\ ~(Len(w) + 1 \in 1..Len(w))
  BY OpenLinesExtend, LineEndsExtend, LinesOfExtend DEF Extends
<1>2. line = LineAt(x, Len(w) + 1)
  BY LineAtClosed
<1>3. ASSUME NEW cs
      PROVE  /\ Starting(x, OpenLines(x), cs) =
                  Starting(w, OpenLines(w), cs) \cup (IF line[1] \in cs THEN {Len(w) + 1} ELSE {})
             /\ Lasting(x, OpenLines(x), cs) = IF line[1] \in cs THEN line[1] ELSE Lasting(w, OpenLines(w), cs)
             /\ Lasting(x, LineEnds(x), cs) = IF line[1] \in cs THEN line[1] ELSE Lasting(w, LineEnds(w), cs)
  <2>1. Within(OpenLines(w), w) /\ Within(LineEnds(w), w)
    BY <1>1, Zenon DEF Within
  <2>2. GrowsBy(w, x, OpenLines(w), cs, line) /\ GrowsBy(w, x, LineEnds(w), cs, line)
    BY <1>2, <2>1, StartingGrows
  <2>3. CASE line[1] \in cs
    BY <1>1, <2>2, <2>3, Zenon DEF GrowsBy
  <2>4. CASE ~(line[1] \in cs)
    <3>1. Starting(w, OpenLines(w), cs) \cup {} = Starting(w, OpenLines(w), cs)
      OBVIOUS
    <3> QED
      BY <1>1, <2>2, <2>4, <3>1, Zenon DEF GrowsBy
  <2> QED
    BY <2>3, <2>4
<1>4. /\ f.first = d.first
      /\ f.block.lines = d.block.lines + IF line[1] = "data" THEN 1 ELSE 0
      /\ f.block.comment <=> d.block.comment \/ line[1] = "comment"
      /\ f.block.event = IF line[1] \in {"error", "unknown"} THEN line[1] ELSE d.block.event
      /\ f.id = IF line[1] = "id" THEN "sent" ELSE IF line[1] = "noid" THEN "cleared" ELSE d.id
  BY FieldFields
<1>5. f.first <=> LineEnds(x) = {}
  BY <1>1, <1>4
<1>6. f.block.lines = Cardinality(Starting(x, OpenLines(x), {"data"}))
  <2>1. PICK S : S = Starting(w, OpenLines(w), {"data"})
    OBVIOUS
  <2>2. IsFiniteSet(S) /\ ~(Len(w) + 1 \in S)
    BY <1>1, <2>1, LastingType
  <2>3. Cardinality(S) \in Nat /\ Cardinality(S \cup {Len(w) + 1}) = Cardinality(S) + 1
    BY <2>2, FS_CardinalityType, FS_AddElement
  <2>4. Starting(x, OpenLines(x), {"data"}) = S \cup (IF line[1] \in {"data"} THEN {Len(w) + 1} ELSE {})
    BY <1>3, <2>1, Zenon
  <2>5. CASE line[1] = "data"
    BY <1>4, <2>1, <2>3, <2>4, <2>5
  <2>6. CASE line[1] # "data"
    <3>1. Starting(x, OpenLines(x), {"data"}) = S
      BY <2>4, <2>6
    <3> QED
      BY <1>4, <2>1, <2>3, <2>6, <3>1
  <2> QED
    BY <2>5, <2>6
<1>7. f.block.comment <=> Starting(x, OpenLines(x), {"comment"}) # {}
  <2>1. Starting(x, OpenLines(x), {"comment"}) =
          Starting(w, OpenLines(w), {"comment"}) \cup (IF line[1] \in {"comment"} THEN {Len(w) + 1} ELSE {})
    BY <1>3, Zenon
  <2> QED
    BY <1>4, <2>1
<1>8. f.block.event = NameOf(Lasting(x, OpenLines(x), {"error", "unknown"}))
  <2>1. Lasting(x, OpenLines(x), {"error", "unknown"}) =
          IF line[1] \in {"error", "unknown"} THEN line[1] ELSE Lasting(w, OpenLines(w), {"error", "unknown"})
    BY <1>3, Zenon
  <2> QED
    BY <1>4, <2>1 DEF NameOf
<1>9. f.id = IdOf(Lasting(x, LineEnds(x), {"id", "noid"}))
  <2>1. Lasting(x, LineEnds(x), {"id", "noid"}) =
          IF line[1] \in {"id", "noid"} THEN line[1] ELSE Lasting(w, LineEnds(w), {"id", "noid"})
    BY <1>3, Zenon
  <2> QED
    BY <1>4, <2>1 DEF IdOf
<1> QED
  BY <1>5, <1>6, <1>7, <1>8, <1>9 DEF FollowsLines

LEMMA ClosedBefore ==
  ASSUME NEW w, NEW b, NEW x, Extends(w, b, x)
  PROVE  /\ {i \in Blanks(x) : i < Len(x)} = Blanks(w)
         /\ Len(w) \in Blanks(w) => OpenSize(w) = 0
         /\ x # <<>>
<1>1. Blanks(w) \subseteq 1..Len(w) /\ Len(w) \in Nat /\ Len(x) = Len(w) + 1 /\ x \in Seq(Bytes)
  BY BlanksExtend, LineEndsExtend DEF Extends
<1>2. {i \in Blanks(x) : i < Len(x)} = Blanks(w)
  BY <1>1, BlanksExtend
<1>3. ASSUME Len(w) \in Blanks(w) PROVE OpenSize(w) = 0
  <2>1. LastOf(Blanks(w)) = Len(w)
    <3>1. LastOf(Blanks(w)) \in 0..Len(w) /\ Len(w) <= LastOf(Blanks(w))
      BY <1>1, <1>3, LastOfFacts
    <3> QED
      BY <1>1, <3>1
  <2>2. JoinedAfter(w, Len(w)) = 0
    BY JoinedAfterExtends
  <2> QED
    BY <1>1, <2>1, <2>2 DEF OpenSize
<1>4. x # <<>>
  BY <1>1
<1> QED
  BY <1>2, <1>3, <1>4

LEMMA SameLinesFollow ==
  ASSUME NEW w, NEW b, NEW x, Extends(w, b, x), ~Closes(w, b), NEW d, NEW f, FollowsLines(d, w),
         f.first = d.first, f.id = d.id, f.block.lines = d.block.lines,
         f.block.comment = d.block.comment, f.block.event = d.block.event
  PROVE  FollowsLines(f, x)
<1>1. LineEnds(x) = LineEnds(w) /\ OpenLines(x) = OpenLines(w)
  BY OpenLinesExtend
<1>2. LineEnds(w) \in SUBSET (1..Len(w)) /\ OpenLines(w) \in SUBSET (1..Len(w))
  BY LineEndsExtend, LinesOfExtend
<1>3. /\ Starting(x, OpenLines(w), {"data"}) = Starting(w, OpenLines(w), {"data"})
      /\ Starting(x, OpenLines(w), {"comment"}) = Starting(w, OpenLines(w), {"comment"})
      /\ Lasting(x, OpenLines(w), {"error", "unknown"}) = Lasting(w, OpenLines(w), {"error", "unknown"})
  <2>1. ASSUME NEW cs
        PROVE  /\ Starting(x, OpenLines(w), cs) = Starting(w, OpenLines(w), cs)
               /\ Lasting(x, OpenLines(w), cs) = Lasting(w, OpenLines(w), cs)
    BY <1>2, StartingExtends
  <2> QED
    BY <2>1, Zenon
<1>4. Lasting(x, LineEnds(w), {"id", "noid"}) = Lasting(w, LineEnds(w), {"id", "noid"})
  <2>1. ASSUME NEW cs PROVE Lasting(x, LineEnds(w), cs) = Lasting(w, LineEnds(w), cs)
    BY <1>2, StartingExtends
  <2> QED
    BY <2>1, Zenon
<1> QED
  BY <1>1, <1>3, <1>4 DEF FollowsLines

LEMMA BlankFollows ==
  ASSUME NEW w, NEW b, NEW x, Extends(w, b, x), Closes(w, b), Trimmed(LineEnds(w) = {}, OpenText(w)) = <<>>,
         NEW f, ~f.first, f.block = NewBlock, f.id = IdOf(Lasting(w, LineEnds(w), {"id", "noid"}))
  PROVE  FollowsLines(f, x)
<1>1. LineEnds(x) = LineEnds(w) \cup {Len(w) + 1} /\ OpenLines(x) = {}
  BY OpenLinesExtend
<1>2. LineAt(x, Len(w) + 1) = <<>>
  BY LineAtClosed
<1>3. Within(LineEnds(w), w)
  BY LineEndsExtend DEF Within
<1>4. GrowsBy(w, x, LineEnds(w), {"id", "noid"}, <<>>)
  BY <1>2, <1>3, StartingGrows
<1>5. Lasting(x, LineEnds(x), {"id", "noid"}) = Lasting(w, LineEnds(w), {"id", "noid"})
  BY <1>1, <1>4, Zenon DEF GrowsBy
<1>6. \A cs : Starting(x, {}, cs) = {} /\ Lasting(x, {}, cs) = "absent"
  BY NothingStarts, Zenon
<1>7. /\ Starting(x, OpenLines(x), {"data"}) = {} /\ Starting(x, OpenLines(x), {"comment"}) = {}
      /\ Lasting(x, OpenLines(x), {"error", "unknown"}) = "absent"
  BY <1>1, <1>6, Zenon
<1>8. Cardinality({}) = 0
  BY FS_EmptySet
<1>9. f.block.lines = 0 /\ f.block.comment = FALSE /\ f.block.event = "message" /\ LineEnds(x) # {}
  BY <1>1 DEF NewBlock
<1> QED
  BY <1>5, <1>7, <1>8, <1>9 DEF FollowsLines, NameOf

(* The branches of ReadByte. *)
JoinedByte(b) == decoder.skipLF /\ b = "LF"

Skips(b) ==
  /\ JoinedByte(b) /\ decoder.blockLF
  /\ decoder' = [decoder EXCEPT !.skipLF = FALSE, !.blockLF = FALSE] /\ UNCHANGED <<events, failure>>
Exceeds(b) ==
  /\ ~(JoinedByte(b) /\ decoder.blockLF) /\ Counted(decoder).block.size > budget
  /\ failure' = "limit" /\ UNCHANGED <<decoder, events>>
Counts(b) ==
  /\ ~(JoinedByte(b) /\ decoder.blockLF) /\ ~(Counted(decoder).block.size > budget)
Joins(b) ==
  /\ Counts(b) /\ JoinedByte(b)
  /\ decoder' = Counted(decoder) /\ UNCHANGED <<events, failure>>
EndsLine(b) ==
  /\ Counts(b) /\ ~JoinedByte(b) /\ b \in {"CR", "LF"}
  /\ EndOfLine([Counted(decoder) EXCEPT !.skipLF = (b = "CR")])
Collects(b) ==
  /\ Counts(b) /\ ~JoinedByte(b) /\ ~(b \in {"CR", "LF"})
  /\ decoder' = [Counted(decoder) EXCEPT !.block.line = Append(@, b)] /\ UNCHANGED <<events, failure>>

(* What holds of any byte that is read. *)
Reading(b) ==
  /\ Extends(wire, b, wire') /\ failure = "none" /\ budget' = budget /\ b \in Bytes
  /\ wire \in Seq(Bytes) /\ wire' \in Seq(Bytes) /\ budget \in Nat
  /\ decoder \in Decoders /\ events \in Seq(EventRecords)
  /\ FollowsLines(decoder, wire) /\ FollowsBytes(decoder, wire)
  /\ Reported(events, wire, Blanks(wire))
  /\ JoinedByte(b) <=> b \in {"CR", "LF"} /\ ~Closes(wire, b)
  /\ SizeAt(wire', Len(wire')) =
       IF JoinedByte(b) /\ decoder.blockLF THEN decoder.block.size ELSE decoder.block.size + 1

LEMMA ReadByteBranches ==
  ASSUME NEW b \in Bytes, ReadByte(b)
  PROVE  Skips(b) \/ Exceeds(b) \/ Joins(b) \/ EndsLine(b) \/ Collects(b)
BY Zenon DEF ReadByte, Skips, Exceeds, Joins, EndsLine, Collects, Counts, Counted, JoinedByte

LEMMA ReadsInOrder ==
  ASSUME DecoderInv, NEW b \in Bytes, ReadByte(b)
  PROVE  Reading(b)
<1>1. /\ wire \in Seq(Bytes) /\ budget \in Nat /\ decoder \in Decoders /\ events \in Seq(EventRecords)
      /\ failure = "none" /\ wire' = Append(wire, b) /\ budget' = budget
      /\ FollowsLines(decoder, wire) /\ FollowsBytes(decoder, wire) /\ DecodesLines
  BY DEF ReadByte, DecoderInv
<1>2. Extends(wire, b, wire') /\ wire' \in Seq(Bytes)
  BY <1>1, AppendExtends DEF Extends
<1>3. Reported(events, wire, Blanks(wire))
  <2>1. {i \in Blanks(wire) : failure \in {"limit", "unsupported"} => i < Len(wire)} = Blanks(wire)
    BY <1>1
  <2> QED
    BY <1>1, <2>1, Zenon DEF DecodesLines, Reported
<1>4. JoinedByte(b) <=> b = "LF" /\ Len(wire) > 0 /\ wire[Len(wire)] = "CR"
  BY <1>1 DEF FollowsBytes, JoinedByte
<1>5. JoinedByte(b) <=> b \in {"CR", "LF"} /\ ~Closes(wire, b)
  BY <1>4 DEF Closes
<1>6. JoinedByte(b) /\ decoder.blockLF <=>
        b = "LF" /\ Len(wire) > 0 /\ wire[Len(wire)] = "CR" /\ Len(wire) \in Blanks(wire)
  BY <1>1, <1>4 DEF FollowsBytes
<1>7. OpenSize(wire) = decoder.block.size
  BY <1>1 DEF FollowsBytes
<1>8. SizeAt(wire', Len(wire')) =
        IF JoinedByte(b) /\ decoder.blockLF THEN decoder.block.size ELSE decoder.block.size + 1
  BY <1>2, <1>6, <1>7, SizeAtExtends
<1> QED
  BY <1>1, <1>2, <1>3, <1>5, <1>8 DEF Reading

LEMMA ReadsOn ==
  ASSUME NEW b, Reading(b), failure' = "none", decoder' \in Decoders, events' \in Seq(EventRecords),
         FollowsLines(decoder', wire'), Reported(events', wire', Blanks(wire')),
         ~(SizeAt(wire', Len(wire')) > budget),
         decoder'.skipLF <=> b = "CR",
         decoder'.blockLF <=> b = "CR" /\ Len(wire') \in Blanks(wire'),
         decoder'.block.line = OpenText(wire'), decoder'.block.size = OpenSize(wire')
  PROVE  DecoderInv'
<1>1. Len(wire') > 0 /\ wire'[Len(wire')] = b
  BY DEF Reading, Extends
<1>2. FollowsBytes(decoder', wire')
  BY <1>1, Zenon DEF FollowsBytes
<1>3. {i \in Blanks(wire') : failure' \in {"limit", "unsupported"} => i < Len(wire')} = Blanks(wire')
  OBVIOUS
<1>4. DecodesLines'
  <2>1. budget' = budget
    BY DEF Reading
  <2>2. (failure' = "limit") = (wire' # <<>> /\ SizeAt(wire', Len(wire')) > budget')
    BY <2>1
  <2>3. failure' # "unsupported" /\ ~(failure' \in {"eof", "torn"})
    OBVIOUS
  <2> QED
    BY <1>3, <2>2, <2>3, Zenon DEF DecodesLines, Reported
<1> QED
  BY <1>2, <1>4 DEF DecoderInv, Reading

LEMMA NothingCloses ==
  ASSUME NEW b, Reading(b), ~Closes(wire, b)
  PROVE  /\ Reported(events, wire', Blanks(wire'))
         /\ OpenSize(wire') = SizeAt(wire', Len(wire'))
         /\ ~(Len(wire') \in Blanks(wire'))
<1>1. Extends(wire, b, wire') /\ Reported(events, wire, Blanks(wire))
  BY DEF Reading
<1>2. Blanks(wire') = Blanks(wire)
  BY <1>1, OpenLinesExtend
<1>3. Blanks(wire) \subseteq 1..Len(wire) /\ Len(wire) \in Nat /\ Len(wire') = Len(wire) + 1
  BY <1>1, BlanksExtend, LineEndsExtend DEF Extends
<1> QED
  BY <1>1, <1>2, <1>3, ReportsExtend, OpenSizeExtends

LEMMA SkipsAfterBlank ==
  ASSUME NEW b, Reading(b), Skips(b)
  PROVE  DecoderInv'
<1>1. b = "LF" /\ ~Closes(wire, b) /\ Extends(wire, b, wire')
  BY DEF Reading, Skips, JoinedByte
<1>2. decoder' = [decoder EXCEPT !.skipLF = FALSE, !.blockLF = FALSE]
  BY DEF Skips
<1>3. decoder \in Decoders
  BY DEF Reading
<1>4. decoder' \in Decoders
  BY <1>2, <1>3 DEF Decoders
<1>5. /\ decoder'.skipLF = FALSE /\ decoder'.blockLF = FALSE /\ decoder'.first = decoder.first
      /\ decoder'.id = decoder.id /\ decoder'.block = decoder.block
  BY <1>2, <1>3 DEF Decoders
<1>6. FollowsLines(decoder', wire')
  BY <1>1, <1>5, SameLinesFollow DEF Reading
<1>7. OpenText(wire') = <<>> /\ OpenText(wire) = <<>>
  BY <1>1, OpenTextExtends
<1>8. decoder.block.line = OpenText(wire) /\ decoder.block.size = OpenSize(wire)
      /\ Len(wire) \in Blanks(wire)
  BY DEF Reading, FollowsBytes, Skips
<1>9. OpenSize(wire) = 0
  BY <1>1, <1>8, ClosedBefore
<1>10. SizeAt(wire', Len(wire')) = decoder.block.size
  BY DEF Reading, Skips
<1>11. ~(SizeAt(wire', Len(wire')) > budget)
  BY <1>8, <1>9, <1>10 DEF Reading
<1>12. /\ Reported(events, wire', Blanks(wire')) /\ OpenSize(wire') = SizeAt(wire', Len(wire'))
       /\ ~(Len(wire') \in Blanks(wire'))
  BY <1>1, NothingCloses
<1>13. failure' = "none" /\ events' = events /\ events \in Seq(EventRecords)
  BY DEF Skips, Reading
<1>14. /\ decoder'.skipLF <=> b = "CR"
       /\ decoder'.blockLF <=> b = "CR" /\ Len(wire') \in Blanks(wire')
       /\ decoder'.block.line = OpenText(wire') /\ decoder'.block.size = OpenSize(wire')
  BY <1>1, <1>5, <1>7, <1>8, <1>10, <1>12
<1> QED
  BY <1>4, <1>6, <1>11, <1>12, <1>13, <1>14, ReadsOn

LEMMA CountedIsSize ==
  ASSUME NEW b, Reading(b), Counts(b)
  PROVE  /\ SizeAt(wire', Len(wire')) = Counted(decoder).block.size
         /\ ~(SizeAt(wire', Len(wire')) > budget)
<1>1. Counted(decoder).block.size = decoder.block.size + 1
  BY CountedFields DEF Reading
<1> QED
  BY <1>1 DEF Reading, Counts

LEMMA JoinsLine ==
  ASSUME NEW b, Reading(b), Joins(b)
  PROVE  DecoderInv'
<1>1. b = "LF" /\ ~Closes(wire, b) /\ Extends(wire, b, wire') /\ decoder \in Decoders /\ Counts(b)
  BY DEF Reading, Joins, JoinedByte
<1>2. PICK f \in Decoders : f = Counted(decoder)
  BY <1>1, CountedFields
<1>3. /\ ~f.skipLF /\ ~f.blockLF
      /\ f.first = decoder.first /\ f.id = decoder.id
      /\ f.block.line = decoder.block.line /\ f.block.lines = decoder.block.lines
      /\ f.block.event = decoder.block.event /\ f.block.comment = decoder.block.comment
  BY <1>1, <1>2, CountedFields
<1>4. SizeAt(wire', Len(wire')) = f.block.size /\ ~(SizeAt(wire', Len(wire')) > budget)
  BY <1>1, <1>2, CountedIsSize
<1>5. decoder' = f /\ failure' = "none" /\ events' = events /\ events \in Seq(EventRecords)
  BY <1>2 DEF Joins, Reading
<1>6. FollowsLines(f, wire')
  BY <1>1, <1>3, SameLinesFollow DEF Reading
<1>7. OpenText(wire') = <<>> /\ OpenText(wire) = <<>> /\ decoder.block.line = OpenText(wire)
  BY <1>1, OpenTextExtends DEF Reading, FollowsBytes
<1>8. /\ Reported(events, wire', Blanks(wire')) /\ OpenSize(wire') = SizeAt(wire', Len(wire'))
      /\ ~(Len(wire') \in Blanks(wire'))
  BY <1>1, NothingCloses
<1>9. /\ f.skipLF <=> b = "CR"
      /\ f.blockLF <=> b = "CR" /\ Len(wire') \in Blanks(wire')
      /\ f.block.line = OpenText(wire') /\ f.block.size = OpenSize(wire')
  BY <1>1, <1>3, <1>4, <1>7, <1>8
<1> QED
  BY <1>4, <1>5, <1>6, <1>8, <1>9, ReadsOn

LEMMA CollectsByte ==
  ASSUME NEW b, Reading(b), Collects(b)
  PROVE  DecoderInv'
<1>1. /\ ~(b \in {"CR", "LF"}) /\ ~Closes(wire, b) /\ Extends(wire, b, wire') /\ decoder \in Decoders
      /\ Counts(b) /\ b \in Bytes
  BY DEF Reading, Collects, Closes
<1>2. PICK k \in Decoders : k = Counted(decoder)
  BY <1>1, CountedFields
<1>3. /\ ~k.skipLF /\ ~k.blockLF
      /\ k.first = decoder.first /\ k.id = decoder.id
      /\ k.block.line = decoder.block.line /\ k.block.lines = decoder.block.lines
      /\ k.block.event = decoder.block.event /\ k.block.comment = decoder.block.comment
  BY <1>1, <1>2, CountedFields
<1>4. SizeAt(wire', Len(wire')) = k.block.size /\ ~(SizeAt(wire', Len(wire')) > budget)
  BY <1>1, <1>2, CountedIsSize
<1>5. k.block \in Blocks /\ Append(k.block.line, b) \in Seq(Bytes)
  BY <1>1 DEF Decoders, Blocks
<1>6. PICK l \in Blocks : l = [k.block EXCEPT !.line = Append(k.block.line, b)]
  <2>1. [k.block EXCEPT !.line = Append(k.block.line, b)] \in Blocks
    BY <1>5 DEF Blocks
  <2> QED
    BY <2>1
<1>7. /\ l.line = Append(k.block.line, b) /\ l.size = k.block.size /\ l.lines = k.block.lines
      /\ l.event = k.block.event /\ l.comment = k.block.comment
  BY <1>5, <1>6 DEF Blocks
<1>8. decoder' = [k EXCEPT !.block = l]
  BY <1>2, <1>6 DEF Collects, Decoders
<1>9. decoder' \in Decoders
  BY <1>8 DEF Decoders
<1>10. /\ decoder'.skipLF = k.skipLF /\ decoder'.blockLF = k.blockLF /\ decoder'.first = k.first
       /\ decoder'.id = k.id /\ decoder'.block = l
  BY <1>8 DEF Decoders
<1>11. failure' = "none" /\ events' = events /\ events \in Seq(EventRecords)
  BY DEF Collects, Reading
<1>12. FollowsLines(decoder', wire')
  <2>1. /\ decoder'.first = decoder.first /\ decoder'.id = decoder.id
        /\ decoder'.block.lines = decoder.block.lines
        /\ decoder'.block.comment = decoder.block.comment /\ decoder'.block.event = decoder.block.event
    BY <1>3, <1>7, <1>10
  <2>2. FollowsLines(decoder, wire)
    BY DEF Reading
  <2> QED
    BY <1>1, <2>1, <2>2, SameLinesFollow
<1>13. OpenText(wire') = Append(OpenText(wire), b) /\ decoder.block.line = OpenText(wire)
  BY <1>1, OpenTextExtends DEF Reading, FollowsBytes
<1>14. /\ Reported(events, wire', Blanks(wire')) /\ OpenSize(wire') = SizeAt(wire', Len(wire'))
       /\ ~(Len(wire') \in Blanks(wire'))
  BY <1>1, NothingCloses
<1>15. /\ decoder'.skipLF <=> b = "CR"
       /\ decoder'.blockLF <=> b = "CR" /\ Len(wire') \in Blanks(wire')
       /\ decoder'.block.line = OpenText(wire') /\ decoder'.block.size = OpenSize(wire')
  BY <1>1, <1>3, <1>4, <1>7, <1>10, <1>13, <1>14
<1> QED
  BY <1>4, <1>9, <1>11, <1>12, <1>14, <1>15, ReadsOn

(* The decoder at the end of a line that b ends. *)
AtEnd(b) == [Counted(decoder) EXCEPT !.skipLF = (b = "CR")]

LEMMA AtEndFields ==
  ASSUME NEW b, Reading(b), EndsLine(b)
  PROVE  /\ AtEnd(b) \in Decoders /\ Closes(wire, b) /\ Extends(wire, b, wire')
         /\ AtEnd(b).skipLF <=> b = "CR"
         /\ ~AtEnd(b).blockLF
         /\ AtEnd(b).first <=> LineEnds(wire) = {}
         /\ AtEnd(b).block.line = OpenText(wire)
         /\ AtEnd(b).block.size = SizeAt(wire', Len(wire'))
         /\ AtEnd(b).block.lines = Cardinality(Starting(wire, OpenLines(wire), {"data"}))
         /\ AtEnd(b).block.comment <=> Starting(wire, OpenLines(wire), {"comment"}) # {}
         /\ AtEnd(b).block.event = NameOf(Lasting(wire, OpenLines(wire), {"error", "unknown"}))
         /\ AtEnd(b).id = IdOf(Lasting(wire, LineEnds(wire), {"id", "noid"}))
         /\ ~(SizeAt(wire', Len(wire')) > budget)
         /\ FollowsLines(AtEnd(b), wire)
<1>1. decoder \in Decoders /\ Counts(b) /\ Closes(wire, b) /\ Extends(wire, b, wire')
  BY DEF Reading, EndsLine
<1>2. PICK k \in Decoders : k = Counted(decoder)
  BY <1>1, CountedFields
<1>3. /\ ~k.blockLF /\ k.first = decoder.first /\ k.id = decoder.id
      /\ k.block.line = decoder.block.line /\ k.block.lines = decoder.block.lines
      /\ k.block.event = decoder.block.event /\ k.block.comment = decoder.block.comment
  BY <1>1, <1>2, CountedFields
<1>4. SizeAt(wire', Len(wire')) = k.block.size /\ ~(SizeAt(wire', Len(wire')) > budget)
  BY <1>1, <1>2, CountedIsSize
<1>5. AtEnd(b) = [k EXCEPT !.skipLF = (b = "CR")]
  BY <1>2 DEF AtEnd
<1>6. (b = "CR") \in BOOLEAN
  OBVIOUS
<1>7. /\ AtEnd(b) \in Decoders /\ (AtEnd(b).skipLF <=> b = "CR") /\ AtEnd(b).blockLF = k.blockLF
      /\ AtEnd(b).first = k.first /\ AtEnd(b).id = k.id /\ AtEnd(b).block = k.block
  BY <1>5, <1>6 DEF Decoders
<1>8. FollowsLines(decoder, wire) /\ decoder.block.line = OpenText(wire)
  BY DEF Reading, FollowsBytes
<1>9. /\ AtEnd(b).first <=> LineEnds(wire) = {}
      /\ AtEnd(b).block.lines = Cardinality(Starting(wire, OpenLines(wire), {"data"}))
      /\ AtEnd(b).block.comment <=> Starting(wire, OpenLines(wire), {"comment"}) # {}
      /\ AtEnd(b).block.event = NameOf(Lasting(wire, OpenLines(wire), {"error", "unknown"}))
      /\ AtEnd(b).id = IdOf(Lasting(wire, LineEnds(wire), {"id", "noid"}))
  BY <1>3, <1>7, <1>8 DEF FollowsLines
<1>10. FollowsLines(AtEnd(b), wire)
  BY <1>9, Zenon DEF FollowsLines
<1> QED
  BY <1>1, <1>3, <1>4, <1>7, <1>8, <1>9, <1>10

LEMMA EndOfLineBranches ==
  ASSUME NEW d, EndOfLine(d)
  PROVE  LET line == Trimmed(d.first, d.block.line)
         IN \/ line # <<>> /\ decoder' = Field(Ended(d), line) /\ UNCHANGED <<events, failure>>
            \/ /\ line = <<>> /\ d.block.lines > 0 /\ d.block.event = "unknown"
               /\ failure' = "unsupported" /\ decoder' = Ended(d) /\ UNCHANGED events
            \/ /\ line = <<>> /\ ~(d.block.lines > 0 /\ d.block.event = "unknown")
               /\ events' = Append(events, Dispatched(d.block, d.id))
               /\ decoder' = [Ended(d) EXCEPT !.blockLF = Ended(d).skipLF, !.block = NewBlock]
               /\ UNCHANGED failure
BY Zenon DEF EndOfLine, Trimmed, Ended

LEMMA EndsFieldLine ==
  ASSUME NEW b, Reading(b), EndsLine(b), NEW line, line # <<>>,
         line = Trimmed(LineEnds(wire) = {}, OpenText(wire)),
         decoder' = Field(Ended(AtEnd(b)), line), events' = events, failure' = failure
  PROVE  DecoderInv'
<1>1. PICK d \in Decoders : d = AtEnd(b)
  BY AtEndFields
<1>2. /\ Closes(wire, b) /\ Extends(wire, b, wire')
      /\ d.skipLF <=> b = "CR"
      /\ ~d.blockLF
      /\ d.block.size = SizeAt(wire', Len(wire'))
      /\ d.block.lines = Cardinality(Starting(wire, OpenLines(wire), {"data"}))
      /\ d.block.comment <=> Starting(wire, OpenLines(wire), {"comment"}) # {}
      /\ d.block.event = NameOf(Lasting(wire, OpenLines(wire), {"error", "unknown"}))
      /\ d.id = IdOf(Lasting(wire, LineEnds(wire), {"id", "noid"}))
      /\ ~(SizeAt(wire', Len(wire')) > budget)
  BY <1>1, AtEndFields
<1>3. PICK e \in Decoders : e = Ended(d)
  BY EndedFields
<1>4. /\ ~e.first /\ e.block.line = <<>>
      /\ e.skipLF = d.skipLF /\ e.blockLF = d.blockLF /\ e.id = d.id
      /\ e.block.size = d.block.size /\ e.block.lines = d.block.lines
      /\ e.block.event = d.block.event /\ e.block.comment = d.block.comment
  BY <1>3, EndedFields
<1>5. line[1] \in Bytes
  <2>1. OpenText(wire) \in Seq(Bytes) /\ (LineEnds(wire) = {}) \in BOOLEAN
    BY <1>2, OpenTextExtends
  <2> QED
    BY <2>1, FirstOfText
<1>6. PICK f \in Decoders : f = Field(e, line)
  BY <1>5, FieldFields
<1>7. f.skipLF = e.skipLF /\ f.blockLF = e.blockLF /\ f.block.size = e.block.size /\ f.block.line = e.block.line
  BY <1>5, <1>6, FieldFields
<1>8. decoder' = f /\ failure' = "none" /\ events' = events /\ events \in Seq(EventRecords)
  BY <1>1, <1>3, <1>6 DEF Reading
<1>9. FollowsLines(f, wire')
  <2>1. /\ e.block.lines = Cardinality(Starting(wire, OpenLines(wire), {"data"}))
        /\ e.block.comment <=> Starting(wire, OpenLines(wire), {"comment"}) # {}
        /\ e.block.event = NameOf(Lasting(wire, OpenLines(wire), {"error", "unknown"}))
        /\ e.id = IdOf(Lasting(wire, LineEnds(wire), {"id", "noid"}))
    BY <1>2, <1>4
  <2> QED
    BY <1>2, <1>4, <1>5, <1>6, <2>1, FieldFollows
<1>10. Blanks(wire') = Blanks(wire)
  BY <1>2, OpenLinesExtend
<1>11. Reported(events, wire', Blanks(wire'))
  BY <1>2, <1>10, ReportsExtend DEF Reading
<1>12. OpenSize(wire') = SizeAt(wire', Len(wire'))
  BY <1>2, <1>10, OpenSizeExtends
<1>13. ~(Len(wire') \in Blanks(wire'))
  <2>1. Blanks(wire) \subseteq 1..Len(wire) /\ Len(wire) \in Nat /\ Len(wire') = Len(wire) + 1
    BY <1>2, BlanksExtend, LineEndsExtend DEF Extends
  <2> QED
    BY <1>10, <2>1
<1>14. OpenText(wire') = <<>>
  BY <1>2, OpenTextExtends DEF Closes
<1>15. /\ f.skipLF <=> b = "CR"
       /\ f.blockLF <=> b = "CR" /\ Len(wire') \in Blanks(wire')
       /\ f.block.line = OpenText(wire') /\ f.block.size = OpenSize(wire')
  BY <1>2, <1>4, <1>7, <1>12, <1>13, <1>14
<1> QED
  BY <1>2, <1>8, <1>9, <1>11, <1>15, ReadsOn

LEMMA EndsEvent ==
  ASSUME NEW b, Reading(b), EndsLine(b), Trimmed(LineEnds(wire) = {}, OpenText(wire)) = <<>>,
         ~(AtEnd(b).block.lines > 0 /\ AtEnd(b).block.event = "unknown"),
         events' = Append(events, Dispatched(AtEnd(b).block, AtEnd(b).id)),
         decoder' = [Ended(AtEnd(b)) EXCEPT !.blockLF = Ended(AtEnd(b)).skipLF, !.block = NewBlock],
         failure' = failure
  PROVE  DecoderInv'
<1>1. PICK d \in Decoders : d = AtEnd(b)
  BY AtEndFields
<1>2. /\ Closes(wire, b) /\ Extends(wire, b, wire')
      /\ d.skipLF <=> b = "CR"
      /\ d.id = IdOf(Lasting(wire, LineEnds(wire), {"id", "noid"}))
      /\ ~(SizeAt(wire', Len(wire')) > budget)
      /\ FollowsLines(d, wire)
  BY <1>1, AtEndFields
<1>3. PICK e \in Decoders : e = Ended(d)
  BY EndedFields
<1>4. ~e.first /\ e.skipLF = d.skipLF /\ e.id = d.id
  BY <1>3, EndedFields
<1>5. NewBlock \in Blocks /\ NewBlock.line = <<>> /\ NewBlock.size = 0
  <2>1. <<>> \in Seq(Bytes)
    OBVIOUS
  <2> QED
    BY <2>1 DEF NewBlock, Blocks, EventNames
<1>6. decoder' = [e EXCEPT !.blockLF = e.skipLF, !.block = NewBlock]
  BY <1>1, <1>3
<1>7. e.skipLF \in BOOLEAN
  BY DEF Decoders
<1>8. decoder' \in Decoders
  BY <1>5, <1>6, <1>7 DEF Decoders
<1>9. /\ decoder'.first = e.first /\ decoder'.id = e.id /\ decoder'.block = NewBlock
      /\ decoder'.skipLF = e.skipLF /\ decoder'.blockLF = e.skipLF
  BY <1>6 DEF Decoders
<1>10. FollowsLines(decoder', wire')
  <2>1. ~decoder'.first /\ decoder'.id = IdOf(Lasting(wire, LineEnds(wire), {"id", "noid"}))
    BY <1>2, <1>4, <1>9
  <2> QED
    BY <1>2, <1>9, <2>1, BlankFollows
<1>11. /\ Blanks(wire') = Blanks(wire) \cup {Len(wire) + 1} /\ Blanks(wire') # Blanks(wire)
  BY <1>2, OpenLinesExtend
<1>12. Dispatched(d.block, d.id) = OpenEvent(wire) /\ Dispatched(d.block, d.id) \in EventRecords
  <2>1. OpenLines(wire) \in SUBSET (1..Len(wire)) /\ Len(wire) \in Nat
    BY <1>2, LinesOfExtend DEF Extends
  <2> QED
    BY <1>1, <1>2, <2>1, DispatchedFollows, DispatchedType
<1>13. PICK v \in EventRecords : v = Dispatched(d.block, d.id)
  BY <1>12
<1>14. events' = Append(events, v) /\ events \in Seq(EventRecords) /\ failure' = "none"
  BY <1>1, <1>13 DEF Reading
<1>15. events' \in Seq(EventRecords)
  BY <1>14
<1>16. Reported(events', wire', Blanks(wire'))
  <2>1. Reported(events, wire, Blanks(wire)) /\ v = OpenEvent(wire)
    BY <1>12, <1>13 DEF Reading
  <2>2. Reported(Append(events, v), wire', Blanks(wire'))
    BY <1>2, <1>11, <1>14, <2>1, ReportsGrow
  <2> QED
    BY <1>14, <2>2
<1>17. OpenSize(wire') = 0 /\ OpenText(wire') = <<>>
  BY <1>2, <1>11, OpenSizeExtends, OpenTextExtends DEF Closes
<1>18. Len(wire') \in Blanks(wire')
  BY <1>2, <1>11 DEF Extends
<1>19. /\ decoder'.skipLF <=> b = "CR"
       /\ decoder'.blockLF <=> b = "CR" /\ Len(wire') \in Blanks(wire')
       /\ decoder'.block.line = OpenText(wire') /\ decoder'.block.size = OpenSize(wire')
  BY <1>2, <1>4, <1>5, <1>9, <1>17, <1>18
<1> QED
  BY <1>2, <1>8, <1>10, <1>14, <1>15, <1>16, <1>19, ReadsOn

(* A byte after which nothing more is read. *)
LEMMA ReadsNoMore ==
  ASSUME NEW b, Reading(b), failure' \in {"limit", "unsupported"}, decoder' \in Decoders, events' = events,
         (failure' = "limit") = (SizeAt(wire', Len(wire')) > budget),
         failure' = "unsupported" =>
           /\ Lasting(wire, OpenLines(wire), {"error", "unknown"}) = "unknown"
           /\ Starting(wire, OpenLines(wire), {"data"}) # {}
  PROVE  DecoderInv'
<1>1. /\ Extends(wire, b, wire') /\ budget' = budget /\ Reported(events, wire, Blanks(wire))
      /\ events \in Seq(EventRecords)
  BY DEF Reading
<1>2. {i \in Blanks(wire') : failure' \in {"limit", "unsupported"} => i < Len(wire')} = Blanks(wire)
  BY <1>1, ClosedBefore
<1>3. Reported(events', wire', Blanks(wire))
  BY <1>1, ReportsExtend
<1>4. (failure' = "limit") = (wire' # <<>> /\ SizeAt(wire', Len(wire')) > budget')
  BY <1>1, ClosedBefore
<1>5. OpenLines(wire) \in SUBSET (1..Len(wire)) /\ LinesOf(wire', Len(wire')) = OpenLines(wire)
  BY <1>1, LinesOfExtend DEF Extends
<1>6. failure' = "unsupported" =>
        /\ Lasting(wire', LinesOf(wire', Len(wire')), {"error", "unknown"}) = "unknown"
        /\ Starting(wire', LinesOf(wire', Len(wire')), {"data"}) # {}
  <2>1. ASSUME NEW cs
        PROVE  /\ Starting(wire', OpenLines(wire), cs) = Starting(wire, OpenLines(wire), cs)
               /\ Lasting(wire', OpenLines(wire), cs) = Lasting(wire, OpenLines(wire), cs)
    BY <1>1, <1>5, StartingExtends
  <2>2. /\ Starting(wire', OpenLines(wire), {"data"}) = Starting(wire, OpenLines(wire), {"data"})
        /\ Lasting(wire', OpenLines(wire), {"error", "unknown"}) = Lasting(wire, OpenLines(wire), {"error", "unknown"})
    BY <2>1, Zenon
  <2> QED
    BY <1>5, <2>2
<1>7. ~(failure' \in {"none", "eof", "torn"}) /\ ~(failure' \in {"eof", "torn"})
  OBVIOUS
<1>8. DecodesLines'
  BY <1>2, <1>3, <1>4, <1>6, <1>7, Zenon DEF DecodesLines, Reported
<1> QED
  BY <1>1, <1>7, <1>8 DEF DecoderInv, Reading

LEMMA ExceedsBudget ==
  ASSUME NEW b, Reading(b), Exceeds(b)
  PROVE  DecoderInv'
<1>1. Counted(decoder).block.size = decoder.block.size + 1
  BY CountedFields DEF Reading
<1>2. SizeAt(wire', Len(wire')) > budget
  BY <1>1 DEF Reading, Exceeds
<1>3. failure' = "limit" /\ decoder' \in Decoders /\ events' = events
  BY DEF Exceeds, Reading
<1> QED
  BY <1>2, <1>3, ReadsNoMore

LEMMA RefusesEvent ==
  ASSUME NEW b, Reading(b), EndsLine(b),
         AtEnd(b).block.lines > 0, AtEnd(b).block.event = "unknown",
         failure' = "unsupported", decoder' = Ended(AtEnd(b)), events' = events
  PROVE  DecoderInv'
<1>1. PICK d \in Decoders : d = AtEnd(b)
  BY AtEndFields
<1>2. /\ Extends(wire, b, wire')
      /\ d.block.lines = Cardinality(Starting(wire, OpenLines(wire), {"data"}))
      /\ d.block.event = NameOf(Lasting(wire, OpenLines(wire), {"error", "unknown"}))
      /\ ~(SizeAt(wire', Len(wire')) > budget)
  BY <1>1, AtEndFields
<1>3. decoder' \in Decoders
  BY <1>1, EndedFields
<1>4. Starting(wire, OpenLines(wire), {"data"}) # {}
  <2>1. Cardinality({}) = 0 /\ d.block.lines # 0
    BY <1>1, FS_EmptySet
  <2> QED
    BY <1>2, <2>1
<1>5. Lasting(wire, OpenLines(wire), {"error", "unknown"}) = "unknown"
  BY <1>1, <1>2 DEF NameOf
<1> QED
  BY <1>2, <1>3, <1>4, <1>5, ReadsNoMore

LEMMA EndsTheLine ==
  ASSUME NEW b, Reading(b), EndsLine(b)
  PROVE  DecoderInv'
<1>1. EndOfLine(AtEnd(b))
  BY Zenon DEF EndsLine, AtEnd
<1>2. PICK line : line = Trimmed(AtEnd(b).first, AtEnd(b).block.line)
  OBVIOUS
<1>3. line = Trimmed(LineEnds(wire) = {}, OpenText(wire))
  <2>1. (AtEnd(b).first <=> LineEnds(wire) = {}) /\ AtEnd(b).block.line = OpenText(wire)
    BY AtEndFields
  <2>2. (LineEnds(wire) = {}) \in BOOLEAN /\ AtEnd(b).first \in BOOLEAN
    BY AtEndFields DEF Decoders
  <2>3. AtEnd(b).first = (LineEnds(wire) = {})
    BY <2>1, <2>2
  <2> QED
    BY <1>2, <2>1, <2>3 DEF Trimmed
<1>4. \/ line # <<>> /\ decoder' = Field(Ended(AtEnd(b)), line) /\ UNCHANGED <<events, failure>>
      \/ /\ line = <<>> /\ AtEnd(b).block.lines > 0 /\ AtEnd(b).block.event = "unknown"
         /\ failure' = "unsupported" /\ decoder' = Ended(AtEnd(b)) /\ UNCHANGED events
      \/ /\ line = <<>> /\ ~(AtEnd(b).block.lines > 0 /\ AtEnd(b).block.event = "unknown")
         /\ events' = Append(events, Dispatched(AtEnd(b).block, AtEnd(b).id))
         /\ decoder' = [Ended(AtEnd(b)) EXCEPT !.blockLF = Ended(AtEnd(b)).skipLF, !.block = NewBlock]
         /\ UNCHANGED failure
  BY <1>1, <1>2, EndOfLineBranches, Zenon
<1>5. CASE line # <<>> /\ decoder' = Field(Ended(AtEnd(b)), line) /\ UNCHANGED <<events, failure>>
  BY <1>3, <1>5, EndsFieldLine
<1>6. CASE /\ line = <<>> /\ AtEnd(b).block.lines > 0 /\ AtEnd(b).block.event = "unknown"
           /\ failure' = "unsupported" /\ decoder' = Ended(AtEnd(b)) /\ UNCHANGED events
  BY <1>6, RefusesEvent
<1>7. CASE /\ line = <<>> /\ ~(AtEnd(b).block.lines > 0 /\ AtEnd(b).block.event = "unknown")
           /\ events' = Append(events, Dispatched(AtEnd(b).block, AtEnd(b).id))
           /\ decoder' = [Ended(AtEnd(b)) EXCEPT !.blockLF = Ended(AtEnd(b)).skipLF, !.block = NewBlock]
           /\ UNCHANGED failure
  BY <1>3, <1>7, EndsEvent
<1> QED
  BY <1>4, <1>5, <1>6, <1>7

LEMMA EndsText ==
  ASSUME DecoderInv, EndOfText
  PROVE  DecoderInv'
<1>1. /\ failure = "none" /\ wire' = wire /\ budget' = budget /\ decoder' = decoder /\ events' = events
      /\ failure' = IF decoder.block.lines > 0 \/ decoder.block.line # <<>> THEN "torn" ELSE "eof"
  BY DEF EndOfText
<1>2. /\ wire \in Seq(Bytes) /\ budget \in Nat /\ decoder \in Decoders /\ events \in Seq(EventRecords)
      /\ FollowsLines(decoder, wire) /\ FollowsBytes(decoder, wire) /\ DecodesLines
  BY <1>1 DEF DecoderInv
<1>3. failure' \in {"eof", "torn"} /\ failure' # "limit" /\ failure' # "unsupported"
  BY <1>1
<1>4. PICK x : Extends(wire, "LF", x)
  BY <1>2, AppendExtends DEF Bytes
<1>5. decoder.block.lines > 0 <=> Starting(wire, OpenLines(wire), {"data"}) # {}
  <2>1. OpenLines(wire) \in SUBSET (1..Len(wire)) /\ Len(wire) \in Nat
    BY <1>4, LinesOfExtend DEF Extends
  <2>2. IsFiniteSet(Starting(wire, OpenLines(wire), {"data"}))
    BY <2>1, LastingType
  <2>3. PICK S : S = Starting(wire, OpenLines(wire), {"data"})
    OBVIOUS
  <2>4. Cardinality(S) \in Nat /\ (Cardinality(S) = 0 <=> S = {})
    BY <2>2, <2>3, FS_CardinalityType, FS_EmptySet
  <2>5. decoder.block.lines = Cardinality(S)
    BY <1>2, <2>3, Zenon DEF FollowsLines
  <2> QED
    BY <2>3, <2>4, <2>5
<1>6. decoder.block.line = <<>> <=>
        LastOf(LineEnds(wire)) + JoinedAfter(wire, LastOf(LineEnds(wire))) = Len(wire)
  <2>1. PICK s \in 1..(Len(wire) + 1) : s = NextStart(wire)
    BY <1>4, NextStartFacts
  <2>2. Len(wire) \in Nat /\ s \in Nat /\ 1 <= s /\ s <= Len(wire) + 1
    BY <1>4, <2>1 DEF Extends
  <2>3. SubSeq(wire, s, Len(wire)) = <<>> <=> s = Len(wire) + 1
    BY <1>2, <2>2, SubSeqFacts
  <2>4. decoder.block.line = SubSeq(wire, s, Len(wire))
    BY <1>2, <2>1, Zenon DEF FollowsBytes, OpenText
  <2>5. LastOf(LineEnds(wire)) \in 0..Len(wire)
    BY <1>4, <2>2, LineEndsExtend, LastOfFacts
  <2>6. PICK j \in 0..Len(wire) : j = LastOf(LineEnds(wire))
    BY <2>5
  <2>7. JoinedAfter(wire, j) \in {0, 1}
    BY DEF JoinedAfter
  <2>8. s = j + 1 + JoinedAfter(wire, j)
    BY <2>1, <2>6, Zenon DEF NextStart
  <2>9. s = Len(wire) + 1 <=> j + JoinedAfter(wire, j) = Len(wire)
    BY <2>2, <2>7, <2>8
  <2> QED
    BY <2>3, <2>4, <2>6, <2>9
<1>7. (failure' = "eof") =
        (LastOf(LineEnds(wire)) + JoinedAfter(wire, LastOf(LineEnds(wire))) = Len(wire)
           /\ Starting(wire, OpenLines(wire), {"data"}) = {})
  BY <1>1, <1>5, <1>6
<1>8. {i \in Blanks(wire) : failure' \in {"limit", "unsupported"} => i < Len(wire)} =
        {i \in Blanks(wire) : failure \in {"limit", "unsupported"} => i < Len(wire)}
  BY <1>1, <1>3
<1>9. ~(wire # <<>> /\ SizeAt(wire, Len(wire)) > budget)
  BY <1>1, <1>2 DEF DecodesLines
<1>10. Reported(events, wire, {i \in Blanks(wire) : failure' \in {"limit", "unsupported"} => i < Len(wire)})
  BY <1>2, <1>8, Zenon DEF DecodesLines, Reported
<1>11. DecodesLines'
  <2>1. (failure' = "limit") = (wire # <<>> /\ SizeAt(wire, Len(wire)) > budget)
    BY <1>3, <1>9
  <2> QED
    BY <1>1, <1>3, <1>7, <1>10, <2>1, Zenon DEF DecodesLines, Reported, OpenLines
<1> QED
  BY <1>1, <1>2, <1>3, <1>11 DEF DecoderInv

LEMMA StartsDecoding ==
  ASSUME DecoderInit
  PROVE  DecoderInv
<1>1. /\ wire = <<>> /\ budget \in Nat /\ events = <<>> /\ failure = "none"
      /\ decoder = [block |-> NewBlock, id |-> "initial", first |-> TRUE, skipLF |-> FALSE, blockLF |-> FALSE]
  BY SSEDecoderAssumption DEF DecoderInit
<1>2. wire \in Seq(Bytes) /\ events \in Seq(EventRecords) /\ Len(wire) = 0
  BY <1>1
<1>3. NewBlock \in Blocks /\ NewBlock.line = <<>> /\ NewBlock.size = 0 /\ NewBlock.lines = 0
      /\ NewBlock.event = "message" /\ NewBlock.comment = FALSE
  <2>1. <<>> \in Seq(Bytes)
    OBVIOUS
  <2> QED
    BY <2>1 DEF NewBlock, Blocks, EventNames
<1>4. decoder \in Decoders
  BY <1>1, <1>3 DEF Decoders
<1>5. LineEnds(wire) = {}
  BY <1>2 DEF LineEnds
<1>6. Blanks(wire) = {} /\ OpenLines(wire) = {}
  BY <1>5 DEF Blanks, OpenLines
<1>7. \A cs : Starting(wire, {}, cs) = {} /\ Lasting(wire, {}, cs) = "absent"
  BY NothingStarts, Zenon
<1>8. /\ Starting(wire, {}, {"data"}) = {} /\ Starting(wire, {}, {"comment"}) = {}
      /\ Lasting(wire, {}, {"error", "unknown"}) = "absent" /\ Lasting(wire, {}, {"id", "noid"}) = "absent"
  BY <1>7, Zenon
<1>9. FollowsLines(decoder, wire)
  BY <1>1, <1>3, <1>5, <1>6, <1>8, FS_EmptySet DEF FollowsLines, NameOf, IdOf
<1>10. LastOf(LineEnds(wire)) = 0 /\ LastOf(Blanks(wire)) = 0 /\ JoinedAfter(wire, 0) = 0
  BY <1>5, <1>6 DEF LastOf, JoinedAfter
<1>11. OpenText(wire) = <<>>
  <2>1. NextStart(wire) = 1
    BY <1>10 DEF NextStart
  <2>2. SubSeq(wire, 1, Len(wire)) = <<>>
    BY <1>2, SubSeqFacts
  <2> QED
    BY <2>1, <2>2 DEF OpenText
<1>12. OpenSize(wire) = 0
  BY <1>2, <1>10 DEF OpenSize
<1>13. FollowsBytes(decoder, wire)
  BY <1>1, <1>2, <1>3, <1>11, <1>12 DEF FollowsBytes
<1>14. DecodesLines
  <2>1. {i \in Blanks(wire) : failure \in {"limit", "unsupported"} => i < Len(wire)} = {}
    BY <1>6
  <2>2. Len(events) = Cardinality({})
    BY <1>1, FS_EmptySet
  <2> QED
    BY <1>1, <2>1, <2>2 DEF DecodesLines
<1> QED
  BY <1>1, <1>2, <1>4, <1>9, <1>13, <1>14 DEF DecoderInv

(* What next returns (sse_client_parser.go:38-137) is, for every text,      *)
(* every split of it into lines by CR, LF or both, every byte at which it   *)
(* stops and every budget, the events its lines stand for; the size, the    *)
(* type and the torn end are refused where they are wrong and nowhere else. *)
THEOREM EventsAreOfTheLines == DecoderSpec => []DecodesLines
<1>1. DecoderInit => DecoderInv
  BY StartsDecoding
<1>2. DecoderInv /\ [DecoderNext]_decoderVars => DecoderInv'
  <2>1. ASSUME DecoderInv, UNCHANGED decoderVars PROVE DecoderInv'
    BY <2>1 DEF decoderVars, DecoderInv, DecodesLines
  <2>2. ASSUME DecoderInv, NEW b \in Bytes, ReadByte(b) PROVE DecoderInv'
    <3>1. Reading(b)
      BY <2>2, ReadsInOrder
    <3>2. Skips(b) \/ Exceeds(b) \/ Joins(b) \/ EndsLine(b) \/ Collects(b)
      BY <2>2, ReadByteBranches
    <3> QED
      BY <3>1, <3>2, SkipsAfterBlank, ExceedsBudget, JoinsLine, EndsTheLine, CollectsByte
  <2> QED
    BY <2>1, <2>2, EndsText DEF DecoderNext
<1>3. DecoderInv => DecodesLines
  BY DEF DecoderInv
<1> QED
  BY <1>1, <1>2, <1>3, PTL DEF DecoderSpec

=============================================================================
