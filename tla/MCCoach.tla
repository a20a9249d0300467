-------------------------------- MODULE MCCoach --------------------------------
(* Instances of Coach for TLC. *)
EXTENDS Coach

\* One record leaves the first of two sorters without any, four give one chunk
\* to each when a pipe holds two records, five two chunks to the second.
SmallFiles == {<<1>>, <<2, 1>>, <<4, 3, 2, 1>>, <<2, 5, 3, 1, 4>>}

\* Four sorters share two records: the last has both and needs a full pipe.
TurnsInit == Init /\ (coachnum = 2 <=> Len(file) = 2)

\* One and two sorters are unrestricted.  Of four, only the first that can run
\* does, and an error text has length 1; the coach and SIGUSR1 come in between.
InTurn(i) ==
  coachnum = 2 =>
    /\ \A j \in 0 .. i - 1 : ~ENABLED SorterRuns(j)
    /\ child'[i] = "error" => Head(pipe'[i]) = <<"count", 1>>

TurnsNext ==
  \/ CoachRuns \/ TakeSignals \/ Stop
  \/ \E i \in Sorter : SorterRuns(i) /\ InTurn(i)

TurnsSpec == TurnsInit /\ [][TurnsNext]_vars /\ Fairness
===============================================================================
