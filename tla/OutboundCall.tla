----------------------------- MODULE OutboundCall -----------------------------
(***************************************************************************)
(* One HTTP call out of the process, through outbound.Client or the client *)
(* of NewSecureHTTPClient: what may be sent, whereto, and the span and the *)
(* metric of the call, which end when its response body does.              *)
(*                                                                         *)
(* net/http is modelled by what it does to this code: the transport closes *)
(* the request body it is given, and http.Client asks CheckRedirect before *)
(* it closes the body of a redirect, unless it cannot make the next        *)
(* request at all: then it closes that body and fails without asking.      *)
(*                                                                         *)
(* An operator whose name begins with that of the definition after it is a *)
(* faulty variant of it, against which a property is tested.               *)
(***************************************************************************)
EXTENDS Naturals, Sequences

VARIABLES
  httpClient,   \* which client, and whether its configuration is fit
  out,      \* the request
  at,       \* where the call is
  response, \* of the server, or "none"
  refused,  \* outboundstate.State: RedirectRefused
  body,     \* per goroutine: what its Read or Close of the body gave
  sent,     \* history: requests that left
  recorded, \* history: outcomes of finish
  closed    \* history: whose round trip closed the body of the request

callVars == <<httpClient, out, at, response, refused, body, sent, recorded, closed>>

Responses == {"error", "ok", "failed", "redirect", "upgrade", "empty"}

CallInit ==
  /\ httpClient \in [secure : BOOLEAN, fit : BOOLEAN]
  /\ out \in [url : BOOLEAN, to : {"origin", "other"}, host : {"origin", "other"}, trailer : BOOLEAN,
              ctx : BOOLEAN, identity : BOOLEAN]
  /\ at = "new" /\ response = "none" /\ refused = FALSE
  /\ body = [reader |-> "none", closer |-> "none"]
  /\ sent = <<>> /\ recorded = <<>> /\ closed = <<>>

(* NewClient and NewSecureHTTPClient: TLS that verifies, a plain transport, *)
(* no cookies; redirects are refused.                                       *)
NewClient ==
  /\ at = "new" /\ at' = IF httpClient.fit THEN "do" ELSE "unfit"
  /\ UNCHANGED <<httpClient, out, response, refused, body, sent, recorded, closed>>

(* Do; only outbound.Client looks at the URL here. *)
DoRequest ==
  /\ at = "do" /\ at' = IF ~httpClient.secure /\ ~out.url THEN "invalid" ELSE "transport"
  /\ UNCHANGED <<httpClient, out, response, refused, body, sent, recorded, closed>>

-----------------------------------------------------------------------------
(* finish: the first outcome counts. *)
CallOutcomeIgnoringRedirect(err) == IF err \/ response = "failed" THEN "failed" ELSE "ok"

CallOutcome(err) == IF err \/ refused \/ response = "failed" THEN "failed" ELSE "ok"

RecordCall(err) == recorded' = IF recorded = <<>> THEN <<CallOutcome(err)>> ELSE recorded

(* serviceTransport.RoundTrip, up to the transport: no trailer, the origin  *)
(* it is bound to, a live ctx, and a credential.                            *)
MayHandOff(granted) ==
  httpClient.secure => /\ ~out.trailer /\ out.url /\ out.to = "origin" /\ out.host = "origin"
                   /\ out.ctx /\ granted

(* instrumentedTransport.RoundTrip around it. *)
RoundTrip(granted) ==
  /\ at = "transport"
  /\ IF MayHandOff(granted)
     THEN /\ at' = "sent" /\ closed' = Append(closed, "transport")
          /\ sent' = Append(sent, [to |-> out.to, credential |-> httpClient.secure,
                                   identity |-> out.identity /\ ~httpClient.secure])
          /\ UNCHANGED recorded
     ELSE at' = "failed" /\ closed' = Append(closed, "client") /\ RecordCall(TRUE) /\ UNCHANGED sent
  /\ UNCHANGED <<httpClient, out, response, refused, body>>

(* The server answers, or nothing comes of it. *)
RoundTripReturns(r) ==
  /\ at = "sent" /\ response' = r
  /\ CASE r = "error" -> at' = "failed" /\ recorded' = <<"failed">>
       [] r \in {"upgrade", "empty"} -> at' = "done" /\ recorded' = <<"ok">>
       [] r = "redirect" -> at' = "redirect" /\ UNCHANGED recorded
       [] r \in {"ok", "failed"} -> at' = "body" /\ UNCHANGED recorded
  /\ UNCHANGED <<httpClient, out, refused, body, sent, closed>>

(* CheckRedirect, then the client closes the body and Do fails. *)
CheckRedirect ==
  /\ at = "redirect" /\ at' = "refusing" /\ refused' = TRUE
  /\ UNCHANGED <<httpClient, out, response, body, sent, recorded, closed>>

RedirectRefused(err) ==
  /\ at = "refusing" /\ at' = "failed" /\ RecordCall(err)
  /\ UNCHANGED <<httpClient, out, response, refused, body, sent, closed>>

(* http.Client cannot parse the Location, or GetBody fails: it closes the   *)
(* body without CheckRedirect, and Do fails.                                *)
RedirectFails(err) ==
  /\ at = "redirect" /\ at' = "failed" /\ RecordCall(err)
  /\ UNCHANGED <<httpClient, out, response, refused, body, sent, closed>>

(* observedBody.Read and Close: what the body gives, and then finish. *)
ReadBody(result) ==
  /\ at = "body" /\ body.reader = "none" /\ body' = [body EXCEPT !.reader = result]
  /\ UNCHANGED <<httpClient, out, at, response, refused, sent, recorded, closed>>

CloseBody(result) ==
  /\ at = "body" /\ body.closer = "none" /\ body' = [body EXCEPT !.closer = result]
  /\ UNCHANGED <<httpClient, out, at, response, refused, sent, recorded, closed>>

FinishBody(g) ==
  /\ body[g] \in {"end", "error"} /\ RecordCall(body[g] = "error")
  /\ body' = [body EXCEPT ![g] = IF @ = "end" THEN "ended" ELSE "broken"]
  /\ UNCHANGED <<httpClient, out, at, response, refused, sent, closed>>

CallNext ==
  \/ NewClient \/ DoRequest \/ CheckRedirect
  \/ \E granted \in BOOLEAN : RoundTrip(granted)
  \/ \E r \in Responses : RoundTripReturns(r)
  \/ \E err \in BOOLEAN : RedirectRefused(err) \/ RedirectFails(err)
  \/ \E result \in {"end", "error"} : ReadBody(result) \/ CloseBody(result)
  \/ \E g \in {"reader", "closer"} : FinishBody(g)

CallSpec == CallInit /\ [][CallNext]_callVars

-----------------------------------------------------------------------------
(* Properties. *)

Finished(g) == body[g] \in {"ended", "broken"}

(* Do failed over a redirect that never reached CheckRedirect: the one      *)
(* error the round trip does not learn of.                                  *)
RedirectUnseen == at = "failed" /\ response = "redirect" /\ ~refused

(* A call that reached the transport is recorded once it is over, and only  *)
(* then, whoever ends the body first; never as a success when the status    *)
(* was a failure or Do gave its caller an error, unless that error is of    *)
(* http.Client over an unusable redirect; as a failure only then or if the  *)
(* body broke; a redirect is never followed.  A service credential goes to  *)
(* the origin of the client only, and without what the request said of      *)
(* identity; the request body has one owner (client.go:126-229,             *)
(* secure_http.go:174-247, state.go:27-38).                                 *)
CallIsObserved ==
  /\ at \in {"failed", "done"} \/ Finished("reader") \/ Finished("closer") <=> recorded # <<>>
  /\ (at = "failed" /\ ~RedirectUnseen) \/ (recorded # <<>> /\ response = "failed") =>
       recorded = <<"failed">>
  /\ recorded = <<"failed">> =>
       at = "failed" \/ response = "failed" \/ "broken" \in {body.reader, body.closer}
  /\ recorded = <<"ok">> /\ at = "body" => "ended" \in {body.reader, body.closer}
  /\ Len(sent) <= 1 /\ Len(closed) <= 1
  /\ \A i \in 1..Len(sent) : sent[i].credential => sent[i].to = "origin" /\ ~sent[i].identity
  /\ (closed = <<"client">>) = (at = "failed" /\ sent = <<>>)
=============================================================================
