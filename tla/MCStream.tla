------------------------------ MODULE MCStream ------------------------------
EXTENDS Stream, TLC

CONSTANTS c1, c2, s1

MCCalls == (c1 :> {"Send"}) @@ (c2 :> {"Recv", "CloseSend"}) @@ (s1 :> {"Send", "Recv"})
=============================================================================
