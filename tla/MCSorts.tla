------------------------------- MODULE MCSorts -------------------------------
(* Instances of Sorts for TLC. *)
EXTENDS Sorts
===============================================================================
