------------------------------ MODULE MCOutbox ------------------------------
(* Instances of Outbox for TLC. *)
EXTENDS Outbox, TLC

CONSTANTS c1, c2

(* Event 1 has two subscribers, the others none. *)
TwoAndNone == [e \in Events |-> IF e = 1 THEN <<c1, c2>> ELSE <<>>]

MCBadMeta == {}

MCSymmetry == Permutations(Replicas) \cup Permutations(Tokens)
=============================================================================
