------------------------------- MODULE ClientIP -------------------------------
(***************************************************************************)
(* httpserver.ClientIP: whose address a request is attributed to, after    *)
(* proxies that are trusted have passed it on.  Each adds the address of   *)
(* its peer to X-Forwarded-For, on the one line it makes of all lines or   *)
(* on a line of its own, and removes X-Client-IP or lets it pass.          *)
(*                                                                         *)
(* An operator whose name begins with that of the definition after it is a *)
(* faulty variant of it, against which a property is tested.               *)
(***************************************************************************)
EXTENDS Naturals, Sequences, SequencesExt

CONSTANTS
  Proxies,    \* addresses in the trusted prefixes
  Strangers,  \* addresses that are not
  MaxForged,  \* bound: entries a client puts into the header
  MaxHops     \* bound: proxies on the way

ASSUME ClientIPAssumption ==
  /\ Proxies \cap Strangers = {} /\ {"malformed", "absent", "none"} \cap (Proxies \cup Strangers) = {}
  /\ MaxForged \in Nat /\ MaxHops \in Nat

VARIABLES
  client,    \* who sent the request
  peer,      \* RemoteAddr of the hop under way
  forwarded, \* X-Forwarded-For: the entries of all its lines
  onFirst,   \* how many of them are on its first line
  relayed,   \* X-Client-IP, or "absent"
  hops,      \* proxies passed
  resolved,  \* callctx.ClientIP at the application, "none" before
  own,       \* history: how many entries the client wrote itself
  relayer,   \* history: who wrote X-Client-IP, the client or a hop
  kept       \* history: no hop read what only the client wrote, and what a
             \* hop wrote was not removed

ipVars == <<client, peer, forwarded, onFirst, relayed, hops, resolved, own, relayer, kept>>

(* What a client may have written; a trusted one writes nothing.  An empty  *)
(* line is one malformed entry.                                             *)
ClientIPInit ==
  /\ client \in Proxies \cup Strangers /\ peer = client
  /\ forwarded \in UNION {[1..n -> Proxies \cup Strangers \cup {"malformed"}] : n \in 0..MaxForged}
  /\ own = Len(forwarded) /\ onFirst \in 0..own /\ (onFirst = 0 => own = 0)
  /\ relayed \in {"absent", "malformed"} \cup Strangers /\ relayer = "client"
  /\ client \in Proxies => forwarded = <<>> /\ relayed = "absent"
  /\ hops = 0 /\ resolved = "none" /\ kept = TRUE

Forward(proxy, strips, joins) ==
  /\ hops < MaxHops /\ resolved = "none" /\ hops' = hops + 1
  /\ forwarded' = Append(forwarded, peer) /\ peer' = proxy
  /\ onFirst' = IF joins \/ onFirst = 0 THEN Len(forwarded) + 1 ELSE onFirst
  /\ IF strips
     THEN relayed' = "absent" /\ relayer' = "client" /\ kept' = (kept /\ relayer = "client")
     ELSE UNCHANGED <<relayed, relayer, kept>>
  /\ UNCHANGED <<client, resolved, own>>

(* xffClient: from the right, the first that is not trusted, or the last    *)
(* before one that cannot be parsed.                                        *)
XffClientFromLeft(xff) ==
  IF \E i \in 1..Len(xff) : xff[i] \notin Proxies
  THEN xff[CHOOSE i \in 1..Len(xff) : xff[i] \notin Proxies /\ \A j \in 1..(i - 1) : xff[j] \in Proxies]
  ELSE IF xff = <<>> THEN "none" ELSE Head(xff)

XffClient(xff) ==
  LET stops == {i \in 1..Len(xff) : xff[i] \notin Proxies /\ \A j \in (i + 1)..Len(xff) : xff[j] \in Proxies}
  IN IF stops = {} THEN IF xff = <<>> THEN "none" ELSE Head(xff)
     ELSE LET i == CHOOSE i \in stops : TRUE
          IN IF xff[i] # "malformed" THEN xff[i] ELSE IF i = Len(xff) THEN "none" ELSE xff[i + 1]

(* r.Header.Get gives the first line of a header. *)
FirstLine == SubSeq(forwarded, 1, onFirst)

ClaimIsRead == relayed \notin {"absent", "malformed"}

(* The header that is believed, X-Client-IP or else X-Forwarded-For, has    *)
(* been touched by nobody but the client.                                   *)
ReadsOwn == peer \in Proxies /\ IF ClaimIsRead THEN relayer = "client" ELSE onFirst \in 1..own

(* resolveClientIP. *)
Resolve ==
  /\ resolved = "none"
  /\ resolved' = IF peer \notin Proxies THEN peer
                 ELSE IF ClaimIsRead THEN relayed
                 ELSE IF XffClient(FirstLine) # "none" THEN XffClient(FirstLine) ELSE peer
  /\ kept' = (kept /\ ~ReadsOwn)
  /\ UNCHANGED <<client, peer, forwarded, onFirst, relayed, hops, own, relayer>>

(* An internal hop passes the address on in X-Client-IP, as it resolved it. *)
Relay(proxy) ==
  /\ hops < MaxHops /\ resolved # "none" /\ hops' = hops + 1
  /\ relayed' = resolved /\ relayer' = "hop" /\ peer' = proxy /\ resolved' = "none"
  /\ forwarded' = <<>> /\ onFirst' = 0 /\ own' = 0
  /\ UNCHANGED <<client, kept>>

ClientIPNext ==
  \/ Resolve
  \/ \E proxy \in Proxies :
       Relay(proxy) \/ \E strips, joins \in BOOLEAN : Forward(proxy, strips, joins)

ClientIPSpec == ClientIPInit /\ [][ClientIPNext]_ipVars

-----------------------------------------------------------------------------
(* Whatever a client puts into the two headers and however many proxies and *)
(* internal hops pass the request on, it is attributed to the address it    *)
(* came from, unless the deployment breaks what the middleware relies on:   *)
(* an X-Client-IP or a first line of X-Forwarded-For that only the client   *)
(* wrote came through to a hop that believes it, or a proxy removed the     *)
(* X-Client-IP of a hop (httpserver.go:236-283).                            *)
ClientIsFound == resolved # "none" /\ kept => resolved = client
=============================================================================
