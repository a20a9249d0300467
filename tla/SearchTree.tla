------------------------------ MODULE SearchTree ------------------------------
(***************************************************************************)
(* What rbt.h of ElectionsSimulation offers to the rest of the program:    *)
(* abstract specification of a tree of unique keys.  rbt_insert(),         *)
(* rbt_find() and rbt_delete() tell whether the key was there.             *)
(*                                                                         *)
(* One thing the header does not say: a deletion may free more than the    *)
(* deleted node; the tree then points to memory that is not its own, and   *)
(* nothing is promised any more.  It can happen only when keys are left.   *)
(***************************************************************************)
CONSTANT Keys

VARIABLES
  held,    \* the keys in the tree
  answer,  \* the operation that was decided last: its name, key and result;
           \* none while the next one is at work
  broken   \* nodes of the tree are freed: anything may happen

vars == <<held, answer, broken>>

\* The operation op on k is decided: was the key there?
Decided(op, k) ==
  /\ answer'.op = op /\ answer'.key = k
  /\ answer'.found = (k \in held)

Init ==
  /\ held = {} /\ broken = FALSE
  /\ answer = [op |-> "none"]

\* The next operation is called.
Ask ==
  /\ answer' = [op |-> "none"]
  /\ UNCHANGED <<held, broken>>

Insert(k) == Decided("insert", k) /\ held' = held \cup {k} /\ UNCHANGED broken

Find(k) == Decided("find", k) /\ UNCHANGED <<held, broken>>

Delete(k) == Decided("delete", k) /\ held' = held \ {k} /\ UNCHANGED broken

\* The second half of a deletion that goes wrong.
Break ==
  /\ answer.op = "delete" /\ answer.found /\ held # {}
  /\ broken' = TRUE

Next ==
  \/ ~broken /\ \E k \in Keys : Insert(k) \/ Find(k) \/ Delete(k)
  \/ ~broken /\ (Ask \/ Break)
  \/ broken /\ broken'

Spec == Init /\ [][Next]_vars
===============================================================================
