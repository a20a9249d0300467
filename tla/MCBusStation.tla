----------------------------- MODULE MCBusStation -----------------------------
(* Instances of BusStation for TLC. *)
EXTENDS BusStation

OneSpotEach  == [b \in Bays |-> 1]

\* Who comes: two for one bay with a third for another or for PEL, one for each,
\* two and three that only PEL takes.  Which of the buses has which type makes no
\* difference.
Nth == CHOOSE f \in [1 .. 3 -> Bus] : {f[n] : n \in 1 .. 3} = Bus

MixedInit ==
  Init /\ [n \in 1 .. 3 |-> type[Nth[n]]] \in
    {<<"VOR", "VOR", "ASK">>, <<"VOR", "VOR", "PEL">>, <<"VOR", "ASK", "PEL">>,
     <<"VOR", "PEL", "PEL">>, <<"PEL", "PEL", "PEL">>}

MixedSpec == MixedInit /\ [][Next]_vars /\ Fairness
===============================================================================
