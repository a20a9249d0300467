---------------------------- MODULE MCRedBlackTree ----------------------------
(* Instances of RedBlackTree for TLC. *)
EXTENDS RedBlackTree

\* What follows a slip is not explored: the properties promise nothing there.
NotSlipped == ~slipped
===============================================================================
