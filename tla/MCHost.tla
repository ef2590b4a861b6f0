------------------------------- MODULE MCHost -------------------------------
(* Instances of Host for TLC. *)
EXTENDS Host

(* An infrastructure hook and the listener, one of two services Critical;   *)
(* the listener is closed by shutdown itself, the other stages have a stop  *)
(* hook each.                                                               *)
WithServer == [critical |-> {1}, hooks |-> <<10, 40>>, server |-> 2, stops |-> <<40, 30, 10>>]

(* Infrastructure hooks of two modules and a worker's, no listener; every   *)
(* service is Critical.                                                     *)
Headless == [critical |-> Services, hooks |-> <<10, 10, 30>>, server |-> 0,
             stops |-> <<40, 30, 10>>]

HeadlessOnly == {Headless}
ServedAndHeadless == {WithServer, Headless}
=============================================================================
