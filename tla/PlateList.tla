------------------------------ MODULE PlateList ------------------------------
(***************************************************************************)
(* The list of licence plates with which busExec() keeps the plates of the *)
(* buses apart: insertOrdered() of linkedList.c with the comparison        *)
(* licensePlateCmp(), and the loop that draws plates until one is taken.   *)
(* A plate is a number in the order of strcmp(); the list is a sequence.   *)
(***************************************************************************)
EXTENDS Mystation

CONSTANT Plate  \* the plates generateLicensePlate() may draw

ASSUME PlateAssumption == Plate \subseteq Int /\ Plate # {}

VARIABLES
  list,     \* licensePlatesList, from firstNode on
  plated,   \* the number of buses that have got a plate
  refused   \* the plate that was drawn last had to be drawn again

platesVars == <<list, plated, refused>>

PlatesInit == list = <<>> /\ plated = 0 /\ refused = FALSE

-------------------------------------------------------------------------------

\* licensePlateCmp(key, data) is strcmp(data, key): the greater plate is first.
Before(key, data) == data < key

\* A new node before the k-th one.
InsertAt(s, k, d) == SubSeq(s, 1, k - 1) \o <<d>> \o SubSeq(s, k, Len(s))

\* The nodes where the loop stops; it looks at the second one first.
Stops(s, d) == {k \in 2 .. Len(s) : Before(d, s[k]) \/ s[k] = d}
FirstStop(s, d) == CHOOSE k \in Stops(s, d) : \A i \in Stops(s, d) : k <= i

AtFront(s, d) == s = <<>> \/ Before(d, s[1])
InLoop(s, d) == ~AtFront(s, d) /\ Stops(s, d) # {}
AtEnd(s, d) == ~AtFront(s, d) /\ Stops(s, d) = {}

\* Without the comparison in the loop.
RefusesAtEnd(s, d) == AtEnd(s, d) /\ s[Len(s)] = d

\* insertOrdered() returns EXIT_FAILURE.
Refuses(s, d) ==
  \/ InLoop(s, d) /\ s[FirstStop(s, d)] = d
  \/ AtEnd(s, d) /\ s[Len(s)] = d

\* The rest of the list is linked without the node where the loop stops.
InsertedOver(s, d) ==
  IF AtFront(s, d) THEN <<d>> \o s
  ELSE IF InLoop(s, d) THEN [s EXCEPT ![FirstStop(s, d)] = d]
  ELSE Append(s, d)

\* Behind the node where the loop stops.
InsertedBehind(s, d) ==
  IF AtFront(s, d) THEN <<d>> \o s
  ELSE IF InLoop(s, d) THEN InsertAt(s, FirstStop(s, d) + 1, d)
  ELSE Append(s, d)

\* The list after insertOrdered() with EXIT_SUCCESS.
Inserted(s, d) ==
  IF AtFront(s, d) THEN <<d>> \o s
  ELSE IF InLoop(s, d) THEN InsertAt(s, FirstStop(s, d), d)
  ELSE Append(s, d)

\* free(licensePlate), and the loop of busExec() draws another one.
DrawAgain(d) ==
  /\ plated < Buses /\ Refuses(list, d)
  /\ refused' = TRUE
  /\ UNCHANGED <<list, plated>>

\* The plate is taken and the bus plated with it.
BusExec(d) ==
  /\ plated < Buses /\ ~Refuses(list, d)
  /\ list' = Inserted(list, d)
  /\ plated' = plated + 1
  /\ refused' = FALSE

PlatesNext == \E d \in Plate : DrawAgain(d) \/ BusExec(d)

PlatesSpec == PlatesInit /\ [][PlatesNext]_platesVars

-------------------------------------------------------------------------------
(* Properties. *)

PlatesTypeOK ==
  /\ list \in Seq(Plate) /\ plated \in 0 .. Buses /\ Len(list) = plated
  /\ refused \in BOOLEAN

\* No node comes before one with a greater plate.
Ordered == \A i, j \in 1 .. Len(list) : i < j => list[j] <= list[i]

\* Although the first node escapes the comparison, no plate is given to more
\* than two buses, for the second node with it is found.
AtMostTwice ==
  \A i, j \in 1 .. Len(list) : list[i] = list[j] => j <= i + 1

\* insertOrdered() never reaches the branch behind its loop that would link a
\* node before the last one: the place was found before.
EndIsGreater ==
  \A d \in Plate : AtEnd(list, d) => d <= list[Len(list)]
===============================================================================
