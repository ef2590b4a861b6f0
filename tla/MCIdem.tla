------------------------------- MODULE MCIdem -------------------------------
(* Instances of Idem for TLC. *)
EXTENDS Idem

CONSTANTS q1, q2, q3, q4, A, B

(* q3 reuses the key for another payload. *)
MCPayload == [q \in Requests |-> IF q = q3 THEN B ELSE A]
=============================================================================
