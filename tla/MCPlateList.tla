----------------------------- MODULE MCPlateList -----------------------------
(* Instances of PlateList for TLC. *)
EXTENDS PlateList
===============================================================================
