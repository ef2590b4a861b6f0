---------------------------- MODULE OutboxBackoff ----------------------------
(***************************************************************************)
(* The retry delay of the outbox relay: the loop of backoff, on signed     *)
(* integers of Width bits (time.Duration has 64).                          *)
(*                                                                         *)
(* An operator whose name begins with that of the definition after it is a *)
(* faulty variant of it, against which a property is tested.               *)
(***************************************************************************)
EXTENDS Integers

CONSTANTS
  Width,        \* bits of a duration
  MaxBackoff,   \* maxBackoff
  MaxFailures   \* bound: largest attempts value passed in

Pow2[n \in Nat] == IF n = 0 THEN 1 ELSE 2 * Pow2[n - 1]

ASSUME BackoffAssumption ==
  /\ Width \in Nat /\ Width >= 2
  /\ MaxBackoff \in 1..(Pow2[Width - 1] - 1)
  /\ MaxFailures \in Nat

VARIABLES
  base,      \* the parameter base: a positive interval
  attempts,  \* the parameter attempts
  delay,     \* the local d
  doubled,   \* iterations made
  result     \* the value returned, 0 before that

backoffVars == <<base, attempts, delay, doubled, result>>

BackoffInit ==
  /\ base \in 1..(Pow2[Width - 1] - 1)
  /\ attempts \in 0..MaxFailures
  /\ delay = base /\ doubled = 0 /\ result = 0

(* n as a two's complement integer of Width bits. *)
Wrap(n) ==
  LET m == n % Pow2[Width] IN IF m >= Pow2[Width - 1] THEN m - Pow2[Width] ELSE m

CappedUnlessNegative(n) == n >= MaxBackoff

(* The test of the loop: the cap is reached, or the product overflowed. *)
Capped(n) == n >= MaxBackoff \/ n <= 0

Return(n) == result' = n /\ UNCHANGED <<base, attempts, doubled>>

Double ==
  /\ result = 0 /\ doubled < attempts
  /\ delay' = Wrap(2 * delay)
  /\ IF Capped(delay') THEN Return(MaxBackoff)
     ELSE doubled' = doubled + 1 /\ UNCHANGED <<base, attempts, result>>

Finish ==
  /\ result = 0 /\ doubled = attempts
  /\ Return(IF delay < MaxBackoff THEN delay ELSE MaxBackoff)
  /\ UNCHANGED delay

BackoffNext == Double \/ Finish

BackoffSpec == BackoffInit /\ [][BackoffNext]_backoffVars

-----------------------------------------------------------------------------
(* backoff returns base * 2^attempts capped at maxBackoff, "d <= 0" being   *)
(* enough to notice every overflow (relay.go:415-425): no interval, however *)
(* large, and no number of failures gives a zero, negative or short delay.  *)
BackoffIsCappedPower ==
  result # 0 =>
    result = LET exact == base * Pow2[attempts]
             IN IF exact < MaxBackoff THEN exact ELSE MaxBackoff
=============================================================================
