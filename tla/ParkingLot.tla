------------------------------ MODULE ParkingLot ------------------------------
(***************************************************************************)
(* What the station promises, without semaphores, forms or a manager's     *)
(* loop: a bus is admitted to a free spot of its own bay, or of PEL when   *)
(* its own bay is full; at most one bus maneuvers into the station and at  *)
(* most one out of it at any time; a spot is given back when its bus is    *)
(* allowed to leave.  BusStation implements this specification.            *)
(***************************************************************************)
EXTENDS Integers

CONSTANTS Bus, SpotsNumber

Bays == {"VOR", "ASK", "PEL"}

SpotsOf(bay) == {bay} \X (0 .. SpotsNumber[bay] - 1)
Spots == UNION {SpotsOf(bay) : bay \in Bays}

NoSpot == <<"UNSET", 0>>

VARIABLES type,    \* the area each bus comes from
          stage,   \* how far it is
          spotOf   \* the spot it holds, NoSpot when it holds none

vars == <<type, stage, spotOf>>

TypeOK ==
  /\ type \in [Bus -> Bays]
  /\ stage \in [Bus -> {"outside", "parking", "parked", "leaving", "gone"}]
  /\ spotOf \in [Bus -> Spots \cup {NoSpot}]

Init ==
  /\ type \in [Bus -> Bays]
  /\ stage = [b \in Bus |-> "outside"]
  /\ spotOf = [b \in Bus |-> NoSpot]

Free(bay) == {s \in SpotsOf(bay) : \A b \in Bus : spotOf[b] # s}

Goes(b, from, to) == stage[b] = from /\ stage' = [stage EXCEPT ![b] = to]

\* The own bay has priority over PEL.
Admit(b) ==
  /\ Goes(b, "outside", "parking")
  /\ \A c \in Bus : stage[c] # "parking"
  /\ \E s \in IF Free(type[b]) # {} THEN Free(type[b]) ELSE Free("PEL") :
       spotOf' = [spotOf EXCEPT ![b] = s]
  /\ UNCHANGED type

Park(b) == Goes(b, "parking", "parked") /\ UNCHANGED <<type, spotOf>>

Release(b) ==
  /\ Goes(b, "parked", "leaving")
  /\ \A c \in Bus : stage[c] # "leaving"
  /\ spotOf' = [spotOf EXCEPT ![b] = NoSpot]
  /\ UNCHANGED type

Exit(b) == Goes(b, "leaving", "gone") /\ UNCHANGED <<type, spotOf>>

Next == \E b \in Bus : Admit(b) \/ Park(b) \/ Release(b) \/ Exit(b)

Spec == Init /\ [][Next]_vars
===============================================================================
