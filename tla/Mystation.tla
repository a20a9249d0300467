------------------------------- MODULE Mystation -------------------------------
(***************************************************************************)
(* What the models of mystation share: the number of buses startStation()  *)
(* creates.  Shutdown is about the processes, PlateList about the plates   *)
(* they get.                                                               *)
(***************************************************************************)
EXTENDS Integers, Sequences

CONSTANT Buses  \* parser.buses

ASSUME BusesAssumption == Buses \in Nat \ {0}
===============================================================================
