----------------------------- MODULE MCRegistry -----------------------------
(* Instances of Registry for TLC. *)
EXTENDS Registry, TLC

\* Ids 1 and 2 share bits in some sizes of the filter; id 3 is a long one.
Djb2OfId   == <<4, 7, 9>>
MurmurOfId == <<2, 4, 0>>

Symmetry == Permutations(Codes)
===============================================================================
