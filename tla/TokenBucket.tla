----------------------------- MODULE TokenBucket -----------------------------
(***************************************************************************)
(* The rate limits of a WebSocket connection: in each direction a bucket   *)
(* of frames and one of bytes, from which a sender takes one frame, then   *)
(* the bytes of the payload, sleeping for as long as it computes that the  *)
(* missing tokens need.                                                    *)
(*                                                                         *)
(* Time is in ticks, and rates in tokens per tick; tokens are exact, where *)
(* the code has float64.  Time passes between the moment a sender reads    *)
(* the clock and the one it takes the lock.  A connection gives each       *)
(* direction one sender; what the lock allows, several, is modelled.       *)
(*                                                                         *)
(* An operator whose name begins with that of the definition after it is a *)
(* faulty variant of it, against which a property is tested.               *)
(***************************************************************************)
EXTENDS Integers, FiniteSetsExt

CONSTANTS
  Senders,                 \* goroutines that take from the buckets of a direction
  FrameRate, FrameBurst, ByteRate, ByteBurst,
  MaxClock                 \* bound of the clock

ASSUME TokenBucketAssumption ==
  {FrameRate, FrameBurst, ByteRate, ByteBurst} \subseteq Nat \ {0} /\ MaxClock \in Nat

VARIABLES
  clock,
  buckets,  \* tokens and last, per bucket
  senders,  \* per sender: which bucket, payload, clock it read, when it wakes
  granted,  \* history: tokens granted in all, per bucket, until each time of the bucket
  stolen    \* history: per sender, another took tokens since it went to sleep

bucketVars == <<clock, buckets, senders, granted, stolen>>

Names == {"frames", "bytes"}
Rate == [frames |-> FrameRate, bytes |-> ByteRate]
Burst == [frames |-> FrameBurst, bytes |-> ByteBurst]

IdleSender == [at |-> "idle", bucket |-> "frames", payload |-> 0, read |-> 0, wake |-> 0, slept |-> FALSE]

BucketInit ==
  /\ clock = 0
  /\ buckets = [b \in Names |-> [tokens |-> Burst[b], last |-> 0]]
  /\ senders = [s \in Senders |-> IdleSender]
  /\ granted = [b \in Names |-> [t \in 0..MaxClock |-> 0]]
  /\ stolen = [s \in Senders |-> FALSE]

(* waitWebSocketRateBudget; more than a burst is refused, and nothing is    *)
(* taken of the bytes for an empty payload.                                 *)
Send(s, payload) ==
  /\ senders[s].at = "idle"
  /\ senders' = [senders EXCEPT ![s] = [IdleSender EXCEPT !.at = "loop", !.payload = payload]]
  /\ UNCHANGED <<clock, buckets, granted, stolen>>

Count(s) == IF senders[s].bucket = "frames" THEN 1 ELSE senders[s].payload

ReadClock(s) ==
  /\ senders[s].at = "loop"
  /\ senders' = [senders EXCEPT ![s].at = "lock", ![s].read = clock]
  /\ UNCHANGED <<clock, buckets, granted, stolen>>

(* The bucket as of a clock that may be older than the last one. *)
Refilled(b, read) ==
  IF read > buckets[b].last
  THEN [tokens |-> Min({Burst[b], buckets[b].tokens + (read - buckets[b].last) * Rate[b]}), last |-> read]
  ELSE buckets[b]

(* Ticks until so many tokens are there. *)
DelayRoundedDown(b, missing) == missing \div Rate[b]

Delay(b, missing) == (missing + Rate[b] - 1) \div Rate[b]

Granted(s) ==
  senders' = [senders EXCEPT ![s] =
    IF @.bucket = "frames" /\ @.payload > 0
    THEN [@ EXCEPT !.at = "loop", !.bucket = "bytes", !.slept = FALSE]
    ELSE IdleSender]

(* Under the lock: refill, then take or compute the sleep. *)
TakeTokens(s) ==
  /\ senders[s].at = "lock"
  /\ LET b == senders[s].bucket
         r == Refilled(b, senders[s].read)
     IN IF r.tokens >= Count(s)
        THEN /\ buckets' = [buckets EXCEPT ![b] = [r EXCEPT !.tokens = @ - Count(s)]]
             /\ granted' = [granted EXCEPT ![b] = [t \in 0..MaxClock |-> @[t] + (IF t < r.last THEN 0 ELSE Count(s))]]
             /\ stolen' = [q \in Senders |-> q # s /\ (stolen[q] \/ senders[q].bucket = b)]
             /\ Granted(s)
        ELSE /\ buckets' = [buckets EXCEPT ![b] = r]
             /\ senders' = [senders EXCEPT ![s].at = "sleep", ![s].slept = TRUE,
                              ![s].wake = clock + Delay(b, Count(s) - r.tokens)]
             /\ stolen' = [stolen EXCEPT ![s] = FALSE] /\ UNCHANGED granted
  /\ UNCHANGED clock

Wake(s) ==
  /\ senders[s].at = "sleep" /\ clock >= senders[s].wake
  /\ senders' = [senders EXCEPT ![s].at = "loop"]
  /\ UNCHANGED <<clock, buckets, granted, stolen>>

(* The ctx or the idle timeout ends the wait; a frame token stays taken. *)
WaitEnds(s) ==
  /\ senders[s].at \in {"loop", "sleep"} /\ senders' = [senders EXCEPT ![s] = IdleSender]
  /\ UNCHANGED <<clock, buckets, granted, stolen>>

ClockTicks ==
  /\ clock < MaxClock /\ clock' = clock + 1
  /\ UNCHANGED <<buckets, senders, granted, stolen>>

BucketNext ==
  \/ ClockTicks
  \/ \E s \in Senders : \/ ReadClock(s) \/ TakeTokens(s) \/ Wake(s) \/ WaitEnds(s)
                        \/ \E payload \in 0..ByteBurst : Send(s, payload)

BucketSpec == BucketInit /\ [][BucketNext]_bucketVars

-----------------------------------------------------------------------------
(* Properties. *)

(* What bucket b granted from time t1 to time t2, both included.            *)
GrantedWithin(b, t1, t2) == granted[b][t2] - (IF t1 = 0 THEN 0 ELSE granted[b][t1 - 1])

(* Whatever the interleaving of the senders, what is granted over any span  *)
(* of the bucket's time, which lags by what a sender waits for the lock, is *)
(* at most a burst and what the rate adds in that span; and a sender that   *)
(* slept the time it computed, while nobody else took tokens, need not      *)
(* sleep again (websocket_limits.go:104-213).                               *)
RateIsKept ==
  /\ \A b \in Names : \A t2 \in 0..MaxClock : \A t1 \in 0..t2 :
       GrantedWithin(b, t1, t2) <= Burst[b] + Rate[b] * (t2 - t1)
  /\ \A s \in Senders : senders[s].at = "lock" /\ senders[s].slept /\ ~stolen[s] =>
       Refilled(senders[s].bucket, senders[s].read).tokens >= Count(s)
=============================================================================
