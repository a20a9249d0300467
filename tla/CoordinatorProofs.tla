--------------------------- MODULE CoordinatorProofs ---------------------------
(***************************************************************************)
(* Theorems about Coordinator: what the table of times is worth, whatever  *)
(* the number of coaches and the order in which they end.                  *)
(***************************************************************************)
EXTENDS Coordinator, FiniteSetTheorems, TLAPS

\* A coach is done with when its exit code was looked at and mysort went on.
Passed == IF mpc = "finished" THEN reaped \ {current} ELSE reaped

\* What a coach that was passed has left with mysort.
PassedWell ==
  \A c \in Passed :
    /\ outcome[c] \in Ended \ {"failure"}
    /\ outcome[c] = "success" => runtimes[c] = "times"

\* The pipe has the times exactly when the coach has succeeded.
ReportsMatch ==
  \A c \in Coach : report[c] = "times" <=> outcome[c] = "success"

\* The order of the phases.
Phases ==
  /\ mpc = "fork" => /\ reaped = {} /\ left = NumCoaches
                     /\ \A c \in Coach : c >= idx => outcome[c] = "none"
  /\ mpc = "finished" => current \in reaped
  /\ mpc \in {"kill", "forcewait"} => idx < NumCoaches
  /\ reaped \subseteq {c \in Coach : outcome[c] \in Ended}
  /\ printed # "nothing" <=> mpc = "ended"

\* The inductive invariant.
CoordinatorInv ==
  /\ TypeOK /\ ReportsMatch /\ Phases /\ WaitsMatch /\ TableRight
  /\ mpc \in {"wait", "finished"} => PassedWell

\* The coaches can be counted.
LEMMA CoachFinite == IsFiniteSet(Coach) /\ Cardinality(Coach) = NumCoaches
  BY FS_Interval, NumCoachesAssumption DEF Coach

\* The indices of the loops over the coaches.
LEMMA Slots ==
  /\ NumCoaches \in Nat /\ 0 \in Coach
  /\ \A i \in 0 .. NumCoaches : i # NumCoaches => i \in Coach /\ i + 1 \in 0 .. NumCoaches
  /\ \A c \in Coach : c \in 0 .. NumCoaches /\ c < NumCoaches
  BY NumCoachesAssumption DEF Coach

\* The coordinator starts with nothing reaped.
LEMMA InitInv == Init => CoordinatorInv
  <1> SUFFICES ASSUME Init PROVE CoordinatorInv
    OBVIOUS
  <1>1. TypeOK
    BY Slots, 0 \in 0 .. NumCoaches, NumCoaches \in 0 .. NumCoaches
       DEF Init, TypeOK, Report, Ended
  <1>2. Phases /\ ReportsMatch /\ TableRight
    BY DEF Init, Phases, ReportsMatch, TableRight
  <1>3. WaitsMatch /\ mpc \notin {"wait", "finished"}
    BY DEF Init, WaitsMatch
  <1> QED
    BY <1>1, <1>2, <1>3 DEF CoordinatorInv

\* What waitpid() returns is a coach.
LEMMA WaitableCoach ==
  /\ Zombies \subseteq Coach
  /\ \A c \in Coach : Waitable(c) \subseteq Coach /\ StatusOf(c) \in {"exited", "signaled"}
  BY DEF Zombies, Waitable, StatusOf

\* The types are kept by every step.
LEMMA TypeStep == TypeOK /\ Phases /\ [Next]_vars => TypeOK'
  <1> SUFFICES ASSUME TypeOK, Phases, [Next]_vars PROVE TypeOK'
    OBVIOUS
  <1> USE Slots, WaitableCoach DEF TypeOK, EnterForce
  <1>1. CASE Fork
    BY <1>1 DEF Fork
  <1>2. CASE ForkFails
    BY <1>2 DEF ForkFails
  <1>3. CASE AllForked
    BY <1>3 DEF AllForked
  <1>4. CASE WaitAny
    <2>1. left' \in 0 .. NumCoaches
      BY <1>4 DEF WaitAny
    <2>2. PICK c \in Zombies : current' = c /\ reaped' = reaped \cup {c}
      BY <1>4 DEF WaitAny
    <2>3. current' \in Coach /\ reaped' \subseteq Coach
      BY <2>2
    <2> QED
      BY <1>4, <2>1, <2>3 DEF WaitAny
  <1>5. CASE CoachSucceeded
    BY <1>5 DEF CoachSucceeded
  <1>6. CASE CoachFailed
    BY <1>6 DEF CoachFailed
  <1>7. CASE CoachIgnored
    BY <1>7 DEF CoachIgnored
  <1>8. CASE PrintResults
    BY <1>8 DEF PrintResults
  <1>9. CASE TryWait
    <2>1. idx \in Coach
      BY <1>9 DEF TryWait
    <2>2. status' \in {"exited", "signaled"} /\ reaped' \subseteq Coach
      BY <1>9, <2>1 DEF TryWait
    <2>3. mpc' \in {"forced", "kill"} /\ idx' \in 0 .. NumCoaches
      BY <1>9, <2>1 DEF TryWait
    <2> QED
      BY <1>9, <2>2, <2>3 DEF TryWait
  <1>10. CASE Kill
    <2>1. told' \subseteq Coach
      BY <1>10 DEF Kill
    <2> QED
      BY <1>10, <2>1 DEF Kill
  <1>11. CASE Wait
    <2>1. idx \in Coach
      BY <1>11 DEF Wait, Phases
    <2>2. status' \in {"exited", "signaled"} /\ reaped' \subseteq Coach
      BY <1>11, <2>1 DEF Wait
    <2>3. idx' \in 0 .. NumCoaches
      BY <1>11, <2>1 DEF Wait
    <2> QED
      BY <1>11, <2>2, <2>3 DEF Wait
  <1>12. CASE ForceExit
    BY <1>12 DEF ForceExit
  <1>13. ASSUME NEW c \in Coach, CoachRuns(c) PROVE TypeOK'
    BY <1>13 DEF CoachRuns, Succeed, Fail, Complain, Die, NoExec, Hang, Ends, mysort,
                 Report, Ended
  <1>14. CASE UNCHANGED vars
    BY <1>14 DEF vars, mysort
  <1> QED
    BY <1>1, <1>2, <1>3, <1>4, <1>5, <1>6, <1>7, <1>8, <1>9, <1>10, <1>11, <1>12,
       <1>13, <1>14 DEF Next, MysortRuns

\* A step of a coach changes neither what mysort knows nor a coach that has ended.
LEMMA CoachStep ==
  ASSUME CoordinatorInv, TypeOK', NEW c \in Coach, CoachRuns(c)
  PROVE  CoordinatorInv'
  <1> USE DEF CoordinatorInv
  <1>1. /\ outcome[c] = "running"
        /\ UNCHANGED <<mpc, idx, left, current, runtimes, printed, reaped>>
    BY DEF CoachRuns, Succeed, Fail, Complain, Die, NoExec, Hang, Ends, mysort
  <1>2. PICK how \in Ended \cup {"running", "hung"}, what \in Report :
          /\ outcome' = [outcome EXCEPT ![c] = how]
          /\ report' = [report EXCEPT ![c] = what]
          /\ what = "times" <=> how = "success"
    <2>1. /\ outcome \in [Coach -> Ended \cup {"none", "running", "hung"}]
          /\ report \in [Coach -> Report] /\ report[c] # "times"
      BY <1>1 DEF ReportsMatch, TypeOK
    <2>2. outcome = [outcome EXCEPT ![c] = outcome[c]]
          /\ report = [report EXCEPT ![c] = report[c]]
      BY <2>1
    <2>3. CASE Succeed(c)
      BY <2>3 DEF Succeed, Ends, Report, Ended
    <2>4. CASE Fail(c)
      BY <2>4 DEF Fail, Ends, Report, Ended
    <2>5. CASE Complain(c)
      <3>1. outcome' = [outcome EXCEPT ![c] = "running"]
        BY <1>1, <2>2, <2>5 DEF Complain
      <3> QED
        BY <2>5, <3>1 DEF Complain, Report, Ended
    <2>6. ASSUME report' = report,
                 NEW how \in (Ended \ {"success"}) \cup {"hung"}, Ends(c, how)
          PROVE  \E h \in Ended \cup {"running", "hung"}, w \in Report :
                    /\ outcome' = [outcome EXCEPT ![c] = h]
                    /\ report' = [report EXCEPT ![c] = w]
                    /\ w = "times" <=> h = "success"
      BY <2>1, <2>2, <2>6 DEF Ends
    <2> QED
      BY <2>3, <2>4, <2>5, <2>6 DEF CoachRuns, Die, NoExec, Hang, Ended
  <1>3. /\ \A d \in Coach \ {c} : outcome'[d] = outcome[d] /\ report'[d] = report[d]
        /\ outcome'[c] = how /\ report'[c] = what
    BY <1>2 DEF TypeOK
  <1>4. report[c] # "times" /\ c \notin reaped
    BY <1>1 DEF ReportsMatch, Phases, Ended
  <1>5. ReportsMatch'
    BY <1>2, <1>3 DEF ReportsMatch
  <1>6. Phases'
    BY <1>1, <1>3, <1>4 DEF Phases
  <1>7. WaitsMatch'
    BY <1>1 DEF WaitsMatch
  <1>8. (mpc \in {"wait", "finished"} => PassedWell)'
    <2>1. Passed' = Passed /\ c \notin Passed /\ Passed \subseteq Coach
      BY <1>1, <1>4 DEF Passed, TypeOK
    <2> QED
      BY <1>1, <1>3, <2>1 DEF PassedWell
  <1>9. TableRight'
    BY <1>1, <1>3, <1>4 DEF TableRight
  <1> QED
    BY <1>5, <1>6, <1>7, <1>8, <1>9

\* What mysort does after the loop, on the way out, and while it forks.
Leaving ==
  ForkFails \/ CoachFailed \/ TryWait \/ Kill \/ Wait \/ ForceExit

\* On the way out no table is printed and no times are read.
LEMMA LeavingStep == CoordinatorInv /\ TypeOK' /\ Leaving => CoordinatorInv'
  <1> SUFFICES ASSUME CoordinatorInv, TypeOK', Leaving PROVE CoordinatorInv'
    OBVIOUS
  <1> USE DEF CoordinatorInv
  <1>1. /\ mpc' \notin {"fork", "wait", "finished"} /\ mpc # "ended"
        /\ printed' # "times" /\ UNCHANGED <<outcome, report, runtimes>>
    BY DEF Leaving, ForkFails, CoachFailed, TryWait, Kill, Wait, ForceExit, EnterForce,
           Phases
  <1>2. /\ mpc' \in {"kill", "forcewait"} => idx' < NumCoaches
        /\ printed' # "nothing" <=> mpc' = "ended"
    BY DEF Leaving, ForkFails, CoachFailed, TryWait, Kill, Wait, ForceExit, EnterForce,
           Phases
  <1>3. reaped' \subseteq reaped \cup Zombies
    <2>1. CASE TryWait
      BY <2>1 DEF TryWait, Waitable
    <2>2. CASE Wait
      BY <2>2 DEF Wait, Waitable
    <2> QED
      BY <2>1, <2>2 DEF Leaving, ForkFails, CoachFailed, Kill, ForceExit
  <1>4. Phases'
    <2>1. reaped' \subseteq {c \in Coach : outcome[c] \in Ended}
      BY <1>3 DEF Phases, Zombies
    <2> QED
      BY <1>1, <1>2, <2>1 DEF Phases
  <1>5. ReportsMatch' /\ WaitsMatch' /\ TableRight'
    BY <1>1 DEF ReportsMatch, WaitsMatch, TableRight
  <1> QED
    BY <1>1, <1>4, <1>5

\* A coach is forked.
LEMMA ForkStep == CoordinatorInv /\ TypeOK' /\ Fork => CoordinatorInv'
  <1> SUFFICES ASSUME CoordinatorInv, TypeOK', Fork PROVE CoordinatorInv'
    OBVIOUS
  <1> USE DEF CoordinatorInv
  <1>1. /\ idx \in Coach /\ outcome[idx] = "none" /\ mpc = "fork" /\ mpc' = "fork"
        /\ outcome' = [outcome EXCEPT ![idx] = "running"] /\ idx' = idx + 1
        /\ UNCHANGED <<report, reaped, runtimes, left, printed>>
    BY Slots DEF Fork, Phases, TypeOK
  <1>2. /\ \A c \in Coach \ {idx} : outcome'[c] = outcome[c]
        /\ outcome'[idx] = "running"
    BY <1>1 DEF TypeOK
  <1>3. ReportsMatch'
    BY <1>1, <1>2 DEF ReportsMatch
  <1>4. \A c \in Coach : c >= idx' => c >= idx /\ c # idx
    BY <1>1, Slots DEF Coach
  <1>5. Phases'
    BY <1>1, <1>2, <1>4 DEF Phases
  <1>6. WaitsMatch' /\ TableRight'
    BY <1>1 DEF WaitsMatch, TableRight, Phases
  <1> QED
    BY <1>1, <1>3, <1>5, <1>6

\* The loop around wait() begins with every coach to be waited for.
LEMMA AllForkedStep == CoordinatorInv /\ TypeOK' /\ AllForked => CoordinatorInv'
  <1> SUFFICES ASSUME CoordinatorInv, TypeOK', AllForked PROVE CoordinatorInv'
    OBVIOUS
  <1> USE DEF CoordinatorInv
  <1>1. /\ mpc = "fork" /\ mpc' = "wait" /\ reaped = {} /\ left = NumCoaches
        /\ UNCHANGED <<outcome, report, reaped, runtimes, left, printed>>
    BY DEF AllForked, Phases
  <1>2. ReportsMatch' /\ Phases' /\ TableRight'
    BY <1>1 DEF ReportsMatch, Phases, TableRight
  <1>3. PassedWell' /\ Coach \ reaped = Coach
    BY <1>1 DEF PassedWell, Passed
  <1>4. WaitsMatch'
    BY <1>1, <1>3, CoachFinite DEF WaitsMatch
  <1> QED
    BY <1>2, <1>3, <1>4

\* wait() takes one coach from those that are left.
LEMMA WaitAnyStep == CoordinatorInv /\ TypeOK' /\ WaitAny => CoordinatorInv'
  <1> SUFFICES ASSUME CoordinatorInv, TypeOK', WaitAny PROVE CoordinatorInv'
    OBVIOUS
  <1> USE DEF CoordinatorInv
  <1>1. PICK c \in Zombies : current' = c /\ reaped' = reaped \cup {c}
    BY DEF WaitAny
  <1>2. /\ mpc = "wait" /\ mpc' = "finished" /\ left' = left - 1
        /\ UNCHANGED <<outcome, report, runtimes, printed>>
    BY DEF WaitAny
  <1>3. c \in Coach /\ c \notin reaped /\ outcome[c] \in Ended
    BY DEF Zombies
  <1>4. ReportsMatch' /\ Phases' /\ TableRight'
    BY <1>1, <1>2, <1>3 DEF ReportsMatch, Phases, TableRight
  <1>5. PassedWell'
    <2>1. Passed' = Passed
      BY <1>1, <1>2, <1>3 DEF Passed
    <2> QED
      BY <1>2, <2>1 DEF PassedWell
  <1>6. WaitsMatch'
    <2>1. IsFiniteSet(Coach \ reaped) /\ c \in Coach \ reaped
      BY CoachFinite, FS_Subset, <1>3
    <2>2. Cardinality((Coach \ reaped) \ {c}) = Cardinality(Coach \ reaped) - 1
      BY <2>1, FS_RemoveElement
    <2>3. Coach \ reaped' = (Coach \ reaped) \ {c}
      BY <1>1
    <2> QED
      BY <1>2, <2>2, <2>3 DEF WaitsMatch
  <1> QED
    BY <1>4, <1>5, <1>6

\* coach_finished() takes the times of a coach that has succeeded; it goes on
\* without any when the coach was killed or has an exit code of its own.
LEMMA PassStep ==
  CoordinatorInv /\ TypeOK' /\ (CoachSucceeded \/ CoachIgnored) => CoordinatorInv'
  <1> SUFFICES ASSUME CoordinatorInv, TypeOK', CoachSucceeded \/ CoachIgnored
               PROVE  CoordinatorInv'
    OBVIOUS
  <1> USE DEF CoordinatorInv
  <1>1. /\ mpc = "finished" /\ mpc' = "wait"
        /\ UNCHANGED <<outcome, report, reaped, left, printed, current>>
    BY DEF CoachSucceeded, CoachIgnored
  <1>2. current \in Coach /\ current \in reaped /\ outcome[current] \in Ended
    BY <1>1 DEF TypeOK, Phases
  <1>3. /\ \A c \in Coach \ {current} : runtimes'[c] = runtimes[c]
        /\ outcome[current] = "success" => runtimes'[current] = "times"
        /\ outcome[current] # "failure"
    <2>1. CASE CoachSucceeded
      <3>1. /\ runtimes' = [runtimes EXCEPT ![current] = report[current]]
            /\ outcome[current] # "failure"
        BY <2>1 DEF CoachSucceeded, ExitCode
      <3> QED
        BY <1>2, <3>1 DEF TypeOK, ReportsMatch
    <2>2. CASE CoachIgnored
      <3>1. UNCHANGED runtimes /\ outcome[current] \notin {"success", "failure"}
        BY <2>2 DEF CoachIgnored, ExitCode
      <3> QED
        BY <3>1
    <2> QED
      BY <2>1, <2>2
  <1>4. ReportsMatch' /\ Phases' /\ WaitsMatch'
    BY <1>1 DEF ReportsMatch, Phases, WaitsMatch
  <1>5. PassedWell'
    <2>1. Passed' = Passed \cup {current} /\ reaped \subseteq Coach
      BY <1>1, <1>2 DEF Passed, TypeOK
    <2>2. current \notin Passed /\ Passed \subseteq Coach
      BY <1>1, <2>1 DEF Passed
    <2> QED
      BY <1>1, <1>2, <1>3, <2>1, <2>2 DEF PassedWell
  <1>6. TableRight'
    BY <1>1 DEF TableRight, Phases
  <1> QED
    BY <1>1, <1>4, <1>5, <1>6

\* The table is printed when no coach is left.
LEMMA PrintStep == CoordinatorInv /\ TypeOK' /\ PrintResults => CoordinatorInv'
  <1> SUFFICES ASSUME CoordinatorInv, TypeOK', PrintResults PROVE CoordinatorInv'
    OBVIOUS
  <1> USE DEF CoordinatorInv
  <1>1. /\ mpc = "wait" /\ left = 0 /\ mpc' = "ended" /\ printed' = "times"
        /\ UNCHANGED <<outcome, report, reaped, runtimes>>
    BY DEF PrintResults
  <1>2. ReportsMatch' /\ Phases' /\ WaitsMatch'
    BY <1>1 DEF ReportsMatch, Phases, WaitsMatch
  <1>3. Coach \ reaped = {}
    <2>1. IsFiniteSet(Coach \ reaped) /\ Cardinality(Coach \ reaped) = 0
      BY <1>1, CoachFinite, FS_Subset DEF WaitsMatch
    <2> QED
      BY <2>1, FS_EmptySet
  <1>4. Passed = reaped /\ PassedWell
    BY <1>1 DEF Passed
  <1>5. TableRight'
    BY <1>1, <1>3, <1>4 DEF TableRight, PassedWell
  <1> QED
    BY <1>1, <1>2, <1>5

\* The invariant is inductive.
LEMMA CoordinatorStep == CoordinatorInv /\ [Next]_vars => CoordinatorInv'
  <1> SUFFICES ASSUME CoordinatorInv, [Next]_vars PROVE CoordinatorInv'
    OBVIOUS
  <1>1. TypeOK'
    BY TypeStep DEF CoordinatorInv
  <1>2. CASE UNCHANGED vars
    BY <1>2 DEF vars, mysort, CoordinatorInv, TypeOK, ReportsMatch, Phases,
                WaitsMatch, PassedWell, Passed, TableRight
  <1>3. CASE MysortRuns
    BY <1>1, <1>3, LeavingStep, ForkStep, AllForkedStep, WaitAnyStep, PassStep,
       PrintStep DEF MysortRuns, Leaving
  <1>4. ASSUME NEW c \in Coach, CoachRuns(c) PROVE CoordinatorInv'
    BY <1>1, <1>4, CoachStep
  <1> QED
    BY <1>2, <1>3, <1>4 DEF Next

\* Every variable has its type, for any number of coaches (mysort.c).
THEOREM TypeCorrect == Spec => []TypeOK
  <1>1. CoordinatorInv => TypeOK
    BY DEF CoordinatorInv
  <1> QED
    BY InitInv, CoordinatorStep, <1>1, PTL DEF Spec

\* What mysort prints: a table only after every coach was waited for and none of
\* them ended with EXIT_FAILURE, with the times of every coach that succeeded, for
\* any number of coaches and any order in which they end (mysort.c:190-203).  It
\* says nothing of the rows of coaches that were killed or never started.
THEOREM TableIsRight == Spec => []TableRight
  <1>1. CoordinatorInv => TableRight
    BY DEF CoordinatorInv
  <1> QED
    BY InitInv, CoordinatorStep, <1>1, PTL DEF Spec

\* mysort waits exactly as often as it has coaches left (mysort.c:187-195).
THEOREM WaitsAreCounted == Spec => []WaitsMatch
  <1>1. CoordinatorInv => WaitsMatch
    BY DEF CoordinatorInv
  <1> QED
    BY InitInv, CoordinatorStep, <1>1, PTL DEF Spec
===============================================================================
