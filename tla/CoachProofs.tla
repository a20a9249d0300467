------------------------------ MODULE CoachProofs ------------------------------
(***************************************************************************)
(* Theorems about Coach, for every file, size of pipe and number of        *)
(* sorters: comp_records() divides the records without remainder; the      *)
(* coach keeps its contract with the coordinator; what it reads is what    *)
(* the sorters wrote, the loop ends when everything has been read, a       *)
(* success is complete, a failure has a cause, and no SIGUSR2 is counted   *)
(* twice.                                                                  *)
(***************************************************************************)
EXTENDS Coach, SequenceTheorems, FiniteSetTheorems, WellFoundedInduction,
        TLAPS

\* records_end of the k-th sorter in closed form.
Eighths(k) == CASE k = 1 -> 1 [] k = 2 -> 2 [] OTHER -> 4
Sixteenths(k) ==
  IF k <= 4 THEN k ELSE CASE k = 5 -> 6 [] k = 6 -> 8 [] OTHER -> 12
Bound(k) ==
  IF k = NumOfSorters THEN NumOfRecords
  ELSE CASE coachnum = 1 -> NumOfRecords \div 2
         [] coachnum = 2 -> Eighths(k) * (NumOfRecords \div 8)
         [] OTHER -> Sixteenths(k) * (NumOfRecords \div 16)

\* Where all sorters have been forked.
Collecting == {"spawned", "poll", "scan", "body", "time", "reap", "text", "write",
               "report"}
Leaving == {"forced", "kill", "wait", "ended"}

\* What PartsCover needs to be inductive: where the coach is, how many ends there
\* are by then, and the value of each.
PartsInv ==
  /\ file \in Seq(Nat) /\ coachnum \in 0 .. 3
  /\ cpc \in {"unset", "set", "spawn"} \cup Collecting \cup Leaving
  /\ idx \in Nat /\ ends \in Seq(Int)
  /\ cpc \in {"unset", "set"} => ends = <<>> /\ idx = 0
  /\ cpc = "spawn" => Len(ends) = idx /\ idx < NumOfSorters
  /\ cpc \in Collecting => Len(ends) = NumOfSorters
  /\ Len(ends) <= NumOfSorters
  /\ \A k \in 1 .. Len(ends) : ends[k] = Bound(k)

\* The number of sorters is 1 << coachnum.
LEMMA Sorters ==
  ASSUME coachnum \in 0 .. 3
  PROVE  /\ NumOfSorters \in {1, 2, 4, 8}
         /\ coachnum = 0 => NumOfSorters = 1
         /\ coachnum = 1 => NumOfSorters = 2
         /\ coachnum = 2 => NumOfSorters = 4
         /\ coachnum = 3 => NumOfSorters = 8
  BY DEF NumOfSorters, Shl

\* The closed form is monotonic and ends with the last record.
LEMMA BoundMonotonic ==
  ASSUME coachnum \in 0 .. 3, NumOfRecords \in Nat,
         NEW k \in 1 .. NumOfSorters
  PROVE  /\ Bound(k) \in Nat
         /\ k = NumOfSorters => Bound(k) = NumOfRecords
         /\ k > 1 => Bound(k - 1) <= Bound(k)
         /\ Bound(k) <= NumOfRecords
  <1> DEFINE n == NumOfRecords
  <1>1. n \div 2 \in Nat /\ n \div 2 <= n
    OBVIOUS
  <1>2. n \div 8 \in Nat /\ 8 * (n \div 8) <= n
    OBVIOUS
  <1>3. n \div 16 \in Nat /\ 16 * (n \div 16) <= n
    OBVIOUS
  <1>4. CASE coachnum = 0
    BY <1>4, Sorters DEF Bound, Eighths, Sixteenths
  <1>5. CASE coachnum = 1
    <2>1. NumOfSorters = 2 /\ (k = 1 \/ k = 2)
      BY <1>5, Sorters
    <2>2. Bound(2) = n /\ Bound(1) = n \div 2
      BY <2>1, <1>5, <1>1 DEF Bound, Eighths, Sixteenths
    <2> QED
      BY <2>1, <2>2, <1>1
  <1>6. CASE coachnum = 2
    <2>1. NumOfSorters = 4 /\ k \in {1, 2, 3, 4}
      BY <1>6, Sorters
    <2> QED
      BY <2>1, <1>6, <1>2 DEF Bound, Eighths, Sixteenths
  <1>7. CASE coachnum = 3
    <2>1. NumOfSorters = 8 /\ k \in {1, 2, 3, 4, 5, 6, 7, 8}
      BY <1>7, Sorters
    <2>2. CASE k \in {1, 2}
      BY <2>1, <2>2, <1>7, <1>3 DEF Bound, Eighths, Sixteenths
    <2>6. CASE k \in {3, 4}
      BY <2>1, <2>6, <1>7, <1>3 DEF Bound, Eighths, Sixteenths
    <2>3. CASE k \in {5, 6}
      BY <2>1, <2>3, <1>7, <1>3 DEF Bound, Eighths, Sixteenths
    <2>4. CASE k = 7
      BY <2>1, <2>4, <1>7, <1>3 DEF Bound, Eighths, Sixteenths
    <2>5. CASE k = 8
      <3>1. Bound(8) = n /\ Bound(7) = 12 * (n \div 16)
        BY <2>1, <1>7 DEF Bound, Eighths, Sixteenths
      <3> QED
        BY <3>1, <2>1, <2>5, <1>3
    <2> QED
      BY <2>1, <2>2, <2>3, <2>4, <2>5, <2>6
  <1> QED
    BY <1>4, <1>5, <1>6, <1>7

\* One call of comp_records() goes from one bound to the next.
LEMMA CompRecordsBound ==
  ASSUME coachnum \in 0 .. 3, NumOfRecords \in Nat,
         NEW i \in 0 .. NumOfSorters - 1,
         NEW start, start = IF i = 0 THEN 0 ELSE Bound(i)
  PROVE  CompRecords(i, start) = Bound(i + 1)
  <1> DEFINE n == NumOfRecords
  <1>1. n \div 2 \in Nat /\ n \div 8 \in Nat /\ n \div 16 \in Nat
    OBVIOUS
  <1>2. CASE coachnum = 0
    BY <1>2, Sorters DEF CompRecords, Bound, Eighths, Sixteenths
  <1>3. CASE coachnum = 1
    <2>1. NumOfSorters = 2 /\ i \in {0, 1}
      BY <1>3, Sorters
    <2> QED
      BY <2>1, <1>3, <1>1 DEF CompRecords, Bound, Eighths, Sixteenths
  <1>4. CASE coachnum = 2
    <2>1. NumOfSorters = 4 /\ i \in {0, 1, 2, 3}
      BY <1>4, Sorters
    <2> QED
      BY <2>1, <1>4, <1>1 DEF CompRecords, Bound, Shl, Eighths, Sixteenths
  <1>5. CASE coachnum = 3
    <2>1. NumOfSorters = 8 /\ i \in {0, 1, 2, 3, 4, 5, 6, 7}
      BY <1>5, Sorters
    <2>2. CASE i = 0
      BY <2>1, <2>2, <1>5, <1>1 DEF CompRecords, Bound, Eighths, Sixteenths
    <2>7. CASE i = 1
      BY <2>1, <2>7, <1>5, <1>1 DEF CompRecords, Bound, Eighths, Sixteenths
    <2>6. CASE i \in {2, 3}
      BY <2>1, <2>6, <1>5, <1>1 DEF CompRecords, Bound, Eighths, Sixteenths
    <2>3. CASE i \in {4, 5}
      BY <2>1, <2>3, <1>5, <1>1 DEF CompRecords, Bound, Eighths, Sixteenths
    <2>4. CASE i = 6
      BY <2>1, <2>4, <1>5, <1>1 DEF CompRecords, Bound, Shl, Eighths, Sixteenths
    <2>5. CASE i = 7
      BY <2>1, <2>5, <1>5 DEF CompRecords, Bound, Eighths, Sixteenths
    <2> QED
      BY <2>1, <2>2, <2>3, <2>4, <2>5, <2>6, <2>7
  <1> QED
    BY <1>2, <1>3, <1>4, <1>5

\* The first state of the coach.
LEMMA PartsInit == Init => PartsInv
  <1> SUFFICES ASSUME Init PROVE PartsInv
    OBVIOUS
  <1>1. /\ file \in Seq(Nat) /\ coachnum \in 0 .. 3
        /\ cpc = "unset" /\ idx = 0 /\ ends = <<>>
    BY FilesAssumption, CoachNumsAssumption DEF Init
  <1>2. NumOfSorters \in {1, 2, 4, 8}
    BY <1>1, Sorters
  <1> QED
    BY <1>1, <1>2 DEF PartsInv, Collecting, Leaving

\* A step that forks nobody keeps the ends and stays within one of the phases.
LEMMA PartsKept ==
  ASSUME PartsInv, UNCHANGED <<file, coachnum, ends>>, idx' \in Nat,
         \/ cpc = "unset" /\ cpc' = "set" /\ idx' = 0
         \/ cpc = "set" /\ cpc' = "spawn" /\ idx' = 0
         \/ cpc \in Collecting /\ cpc' \in Collecting
         \/ cpc' \in Leaving
         \/ cpc' = cpc /\ idx' = idx
  PROVE  PartsInv'
  <1>1. NumOfSorters' = NumOfSorters /\ \A k : Bound(k)' = Bound(k)
    BY DEF NumOfSorters, Bound, NumOfRecords
  <1>2. NumOfSorters \in {1, 2, 4, 8}
    BY Sorters DEF PartsInv
  <1>3. Len(<<>>) = 0
    OBVIOUS
  <1> QED
    BY <1>1, <1>2, <1>3 DEF PartsInv, Collecting, Leaving

\* Forking a sorter adds the next bound.
LEMMA PartsSpawn == PartsInv /\ Spawn => PartsInv'
  <1> SUFFICES ASSUME PartsInv, Spawn PROVE PartsInv'
    OBVIOUS
  <1> DEFINE start == IF idx = 0 THEN 0 ELSE ends[idx]
  <1>1. /\ Len(ends) = idx /\ idx \in 0 .. NumOfSorters - 1
        /\ coachnum \in 0 .. 3 /\ NumOfRecords \in Nat
        /\ NumOfSorters \in {1, 2, 4, 8}
    BY Sorters DEF Spawn, PartsInv, NumOfRecords
  <1>2. start = IF idx = 0 THEN 0 ELSE Bound(idx)
    BY <1>1 DEF PartsInv
  <1>3. CompRecords(idx, start) = Bound(idx + 1)
    BY <1>1, <1>2, CompRecordsBound
  <1>4. Bound(idx + 1) \in Nat
    BY <1>1, BoundMonotonic
  <1>5. ends' = Append(ends, Bound(idx + 1))
    BY <1>3 DEF Spawn
  <1>6. UNCHANGED <<file, coachnum>>
    BY DEF Spawn, args
  <1>7. NumOfSorters' = NumOfSorters /\ \A k : Bound(k)' = Bound(k)
    BY <1>6 DEF NumOfSorters, Bound, NumOfRecords
  <1>8. /\ ends' \in Seq(Int) /\ Len(ends') = idx + 1
        /\ \A k \in 1 .. Len(ends') : ends'[k] = Bound(k)
    BY <1>1, <1>4, <1>5 DEF PartsInv
  <1>9. \/ idx + 1 = NumOfSorters /\ cpc' = "spawned" /\ idx' = 0
        \/ idx + 1 # NumOfSorters /\ cpc' = "spawn" /\ idx' = idx + 1
    BY DEF Spawn, Goto
  <1> QED
    BY <1>1, <1>6, <1>7, <1>8, <1>9 DEF PartsInv, Collecting, Leaving

\* Every other step of the coach is of the kind of PartsKept.
LEMMA PartsCoach == PartsInv /\ CoachRuns => PartsInv'
  <1> SUFFICES ASSUME PartsInv, CoachRuns PROVE PartsInv'
    OBVIOUS
  <1> USE DEF Goto, EnterForce, Onward, args, poller, Leaving, Collecting
  <1>0. idx \in Nat
    BY DEF PartsInv
  <1>1. CASE CheckUnset
    BY <1>0, <1>1, PartsKept DEF CheckUnset
  <1>2. CASE CheckFlag
    BY <1>0, <1>2, PartsKept DEF CheckFlag
  <1>3. CASE Spawn
    BY <1>3, PartsSpawn
  <1>4. CASE SpawnFails
    BY <1>0, <1>4, PartsKept DEF SpawnFails
  <1>5. CASE Poll
    BY <1>0, <1>5, PartsKept DEF Poll
  <1>6. CASE PollInterrupted
    BY <1>0, <1>6, PartsKept DEF PollInterrupted
  <1>7. CASE LeaveLoop
    BY <1>0, <1>7, PartsKept DEF LeaveLoop
  <1>8. CASE Skip
    BY <1>0, <1>8, PartsKept DEF Skip
  <1>9. CASE ReadCount
    BY <1>0, <1>9, PartsKept DEF ReadCount
  <1>10. CASE ReadRecords
    <2>1. /\ cpc = "body" /\ UNCHANGED <<file, coachnum, ends>> /\ idx' \in Nat
          /\ cpc' \in {"time", "forced", "poll", "scan"}
      BY <1>0, <1>10 DEF ReadRecords
    <2> QED
      BY <2>1, PartsKept
  <1>11. CASE ReadTime
    BY <1>0, <1>11, PartsKept DEF ReadTime
  <1>12. CASE HangUp
    BY <1>0, <1>12, PartsKept DEF HangUp
  <1>13. CASE Reap
    BY <1>0, <1>13, PartsKept DEF Reap
  <1>14. CASE ReadText
    BY <1>0, <1>14, PartsKept DEF ReadText
  <1>15. CASE WriteResults
    BY <1>0, <1>15, PartsKept DEF WriteResults
  <1>16. CASE WriteFails
    BY <1>0, <1>16, PartsKept DEF WriteFails
  <1>17. CASE Report
    BY <1>0, <1>17, PartsKept DEF Report
  <1>18. CASE TryWait
    BY <1>0, <1>18, PartsKept DEF TryWait
  <1>19. CASE Kill
    BY <1>0, <1>19, PartsKept DEF Kill
  <1>20. CASE Wait
    BY <1>0, <1>20, PartsKept DEF Wait
  <1>21. CASE ForceExit
    BY <1>0, <1>21, PartsKept DEF ForceExit
  <1> QED
    BY <1>1, <1>2, <1>3, <1>4, <1>5, <1>6, <1>7, <1>8, <1>9, <1>10, <1>11,
       <1>12,
       <1>13, <1>14, <1>15, <1>16, <1>17, <1>18, <1>19, <1>20, <1>21 DEF CoachRuns

\* Signals, sorters and stuttering leave the coach where it is.
LEMMA PartsStep == PartsInv /\ [Next]_vars => PartsInv'
  <1> SUFFICES ASSUME PartsInv, [Next]_vars PROVE PartsInv'
    OBVIOUS
  <1> USE DEF args, poller, coach
  <1>0. idx \in Nat
    BY DEF PartsInv
  <1>1. CASE CoachRuns
    BY <1>1, PartsCoach
  <1>2. CASE TakeSignals
    BY <1>0, <1>2, PartsKept DEF TakeSignals
  <1>3. CASE Stop
    BY <1>0, <1>3, PartsKept DEF Stop
  <1>4. CASE \E i \in Sorter : SorterRuns(i)
    <2>1. PICK i \in Sorter : SorterRuns(i)
      BY <1>4
    <2>2. UNCHANGED <<args, cpc, idx, ends>>
      BY <2>1
         DEF SorterRuns, Exec, FailStart, ExitFailure, Crash, Sort, WriteCount,
                  WriteRecords, WriteTime, BreakPipe, Close, Exit
    <2> QED
      BY <1>0, <2>2, PartsKept
  <1>5. CASE UNCHANGED vars
    BY <1>0, <1>5, PartsKept DEF vars
  <1> QED
    BY <1>1, <1>2, <1>3, <1>4, <1>5 DEF Next

\* Between the sorters of every coach comp_records() divides every file without a
\* gap, an overlap or a remainder.
THEOREM PartsCovered == Spec => []PartsCover
  <1>1. PartsInv => PartsCover
    <2> SUFFICES ASSUME PartsInv PROVE PartsCover
      OBVIOUS
    <2>1. /\ coachnum \in 0 .. 3 /\ NumOfRecords \in Nat
          /\ NumOfSorters \in {1, 2, 4, 8}
      BY Sorters DEF PartsInv, NumOfRecords
    <2>2. ASSUME NEW k \in 1 .. Len(ends)
          PROVE  (IF k = 1 THEN 0 ELSE ends[k - 1]) <= ends[k]
      <3>1. k \in 1 .. NumOfSorters /\ ends[k] = Bound(k)
        BY <2>1, <2>2 DEF PartsInv
      <3>2. k # 1 => ends[k - 1] = Bound(k - 1)
        BY <2>1, <2>2 DEF PartsInv
      <3> QED
        BY <2>1, <3>1, <3>2, BoundMonotonic
    <2>3. ASSUME cpc = "poll"
          PROVE  Len(ends) = NumOfSorters /\ ends[NumOfSorters] = NumOfRecords
      <3>1. Len(ends) = NumOfSorters /\ ends[NumOfSorters] = Bound(NumOfSorters)
        BY <2>1, <2>3 DEF PartsInv, Collecting
      <3> QED
        BY <2>1, <3>1, BoundMonotonic
    <2> QED
      BY <2>2, <2>3 DEF PartsCover
  <1> QED
    BY <1>1, PartsInit, PartsStep, PTL DEF Spec

-------------------------------------------------------------------------------
\* Until it leaves, the coach has written nothing to its pipe, and its outcome is
\* decided by the step that ends it.
ContractInv ==
  /\ outcome = "running" <=> cpc # "ended"
  /\ cpc \notin Leaving => report = "none"

\* A step that touches neither the pipe nor the outcome.
Silent ==
  /\ UNCHANGED <<report, outcome>>
  /\ cpc' = "ended" <=> cpc = "ended"
  /\ cpc \in Leaving => cpc' \in Leaving

\* It keeps ContractInv and is a stuttering step of the contract.
LEMMA SilentStep ==
  ASSUME ContractInv, Silent
  PROVE  ContractInv' /\ [Contract!Next]_Contract!vars
  BY DEF ContractInv, Silent, Leaving, Contract!vars

\* Every step of the coach keeps ContractInv and is allowed by the contract.
LEMMA ContractCoach ==
  ASSUME ContractInv, CoachRuns
  PROVE  ContractInv' /\ [Contract!Next]_Contract!vars
  <1> USE DEF Goto, EnterForce, Onward, ending, Leaving
  <1>1. CASE CheckUnset
    <2>1. CASE cpc' = "set" /\ UNCHANGED <<report, outcome>>
      BY <1>1, <2>1, SilentStep DEF CheckUnset, Silent
    <2>2. CASE /\ cpc' = "ended"
               /\ \/ outcome' = "killed" /\ UNCHANGED report
                  \/ outcome' = "failure" /\ report' = "error"
      BY <1>1, <2>2 DEF CheckUnset, ContractInv, Contract!Next, Contract!Die,
                        Contract!Fail
    <2> QED
      BY <1>1, <2>1, <2>2 DEF CheckUnset
  <1>2. CASE CheckFlag
    BY <1>2, SilentStep DEF CheckFlag, Silent
  <1>3. CASE Spawn
    BY <1>3, SilentStep DEF Spawn, Silent
  <1>4. CASE SpawnFails
    BY <1>4, SilentStep DEF SpawnFails, Silent
  <1>5. CASE Poll
    BY <1>5, SilentStep DEF Poll, Silent
  <1>6. CASE PollInterrupted
    BY <1>6, SilentStep DEF PollInterrupted, Silent
  <1>7. CASE LeaveLoop
    BY <1>7, SilentStep DEF LeaveLoop, Silent
  <1>8. CASE Skip
    BY <1>8, SilentStep DEF Skip, Silent
  <1>9. CASE ReadCount
    BY <1>9, SilentStep DEF ReadCount, Silent
  <1>10. CASE ReadRecords
    <2>1. /\ cpc = "body" /\ UNCHANGED <<report, outcome>>
          /\ cpc' \in {"time", "forced", "poll", "scan"}
      BY <1>10 DEF ReadRecords
    <2> QED
      BY <2>1, SilentStep DEF Silent
  <1>11. CASE ReadTime
    BY <1>11, SilentStep DEF ReadTime, Silent
  <1>12. CASE HangUp
    BY <1>12, SilentStep DEF HangUp, Silent
  <1>13. CASE Reap
    BY <1>13, SilentStep DEF Reap, Silent
  <1>14. CASE ReadText
    BY <1>14 DEF ReadText, ContractInv, Contract!Next, Contract!Die,
                 Contract!Complain
  <1>15. CASE WriteResults
    BY <1>15, SilentStep DEF WriteResults, Silent
  <1>16. CASE WriteFails
    BY <1>16, SilentStep DEF WriteFails, Silent
  <1>17. CASE Report
    BY <1>17 DEF Report, ContractInv, Contract!Next, Contract!Succeed
  <1>18. CASE TryWait
    BY <1>18, SilentStep DEF TryWait, Silent
  <1>19. CASE Kill
    BY <1>19, SilentStep DEF Kill, Silent
  <1>20. CASE Wait
    BY <1>20, SilentStep DEF Wait, Silent
  <1>21. CASE ForceExit
    BY <1>21 DEF ForceExit, ContractInv, Contract!Next, Contract!Fail
  <1> QED
    BY <1>1, <1>2, <1>3, <1>4, <1>5, <1>6, <1>7, <1>8, <1>9, <1>10, <1>11,
       <1>12,
       <1>13, <1>14, <1>15, <1>16, <1>17, <1>18, <1>19, <1>20, <1>21 DEF CoachRuns

\* The same for every step of the system.
LEMMA ContractStep ==
  ASSUME ContractInv, [Next]_vars
  PROVE  ContractInv' /\ [Contract!Next]_Contract!vars
  <1> USE DEF ending, coach
  <1>1. CASE CoachRuns
    BY <1>1, ContractCoach
  <1>2. CASE TakeSignals
    BY <1>2, SilentStep DEF TakeSignals, Silent
  <1>3. CASE Stop
    BY <1>3, SilentStep DEF Stop, Silent
  <1>4. CASE \E i \in Sorter : SorterRuns(i)
    <2>1. PICK i \in Sorter : SorterRuns(i)
      BY <1>4
    <2>2. UNCHANGED <<cpc, report, outcome>>
      BY <2>1
         DEF SorterRuns, Exec, FailStart, ExitFailure, Crash, Sort, WriteCount,
                  WriteRecords, WriteTime, BreakPipe, Close, Exit
    <2> QED
      BY <2>2, SilentStep DEF Silent
  <1>5. CASE UNCHANGED vars
    BY <1>5, SilentStep DEF vars, Silent
  <1> QED
    BY <1>1, <1>2, <1>3, <1>4, <1>5 DEF Next

\* The coach keeps its promise to the coordinator: exit code 0 only with the times
\* in the pipe and nothing before them, exit code 1 only with a message.
THEOREM ContractKept == Spec => ContractSpec
  <1>1. Init => ContractInv /\ Contract!Init
    BY DEF Init, ContractInv, Contract!Init
  <1> QED
    BY <1>1, ContractStep, PTL DEF Spec, ContractSpec, Contract!Spec

-------------------------------------------------------------------------------
(* What goes through the pipes, and what the coach makes of it. *)

ChildPc == {"none", "forked", "loading", "writing", "timed", "closed", "error",
            "ok", "fail", "killed"}
InLoop == {"scan", "body", "time", "reap", "text"}

\* The types the proofs use.
ShapeInv ==
  /\ cpc \in InLoop => idx \in Sorter
  /\ revents \in [Sorter -> {"none", "in", "hup"}]
  /\ listening \subseteq Sorter
  /\ toRead \in Nat /\ remaining \in Int /\ have \in [Sorter -> Nat]
  /\ results \in [Sorter -> Seq(Unit)]
  /\ pending \subseteq {"USR1", "USR2"}
  /\ child \in [Sorter -> ChildPc] /\ sflag \in [Sorter -> BOOLEAN]
  /\ sent \in [Sorter -> Nat] /\ toWrite \in [Sorter -> Nat]
  /\ pipe \in [Sorter -> Seq(Unit)]

\* A sorter that has written its run time, and one with an error.
TimedPc == {"timed", "closed", "ok"}
Failed(i) == child[i] \in {"error", "fail"}

\* The sorters forked so far; none of them is told to stop before the coach
\* leaves, and each is polled until it has been waited for.
ForkInv ==
  /\ \A i \in Sorter : child[i] = "none" <=> i >= Len(ends)
  /\ cpc \notin Leaving =>
       \A i \in Sorter :
         /\ ~sflag[i]
         /\ child[i] \notin Dead \cup {"none"} => i \in listening
         /\ child[i] \in {"error", "fail", "killed"} => disturbed

\* The coach has read a number of records of sorter i and not yet the records.
Reading(i) == cpc = "body" /\ idx = i

\* A chunk of n records that follows the first records of sorter i: a full one,
\* or the last.
IsChunk(i, first, n) ==
  /\ n \in 1 .. PipeSz - 1 /\ first + n <= Share(i)
  /\ n = PipeSz - 1 \/ first + n = Share(i)

\* The next n records are in the pipe after the first k units.
RecordsFrom(i, k, n) ==
  \A r \in 1 .. n : pipe[i][k + r] = <<"record", Array(i)[have[i] + r]>>

IsTime(unit) == unit = <<"time", 0>> \/ unit = <<"time", 1>>

\* Before it writes, a sorter has written nothing, and the coach has not read.
Fresh(i) ==
  /\ ~Reading(i) /\ pipe[i] = <<>> /\ have[i] = 0
  /\ toWrite[i] = 0 /\ sent[i] = 0

\* Nothing is on its way: the sorter is before a chunk or its run time, or done.
Idle(i) ==
  /\ ~Reading(i) /\ pipe[i] = <<>>
  /\ toWrite[i] = 0 /\ sent[i] = have[i] /\ have[i] <= Share(i)
  /\ \/ child[i] = "writing"
     \/ /\ child[i] \in TimedPc /\ have[i] = Share(i)
        /\ Share(i) > 0 => i \in timed

\* The run time is: the coach waits for it, or takes it for a number of records
\* when it has not waited for any.
OnlyTime(i) ==
  /\ ~Reading(i) /\ Len(pipe[i]) = 1 /\ IsTime(pipe[i][1])
  /\ toWrite[i] = 0 /\ sent[i] = have[i] /\ have[i] = Share(i)
  /\ child[i] \in TimedPc
  /\ Share(i) = 0 \/ (cpc = "time" /\ idx = i)

TimeTaken(i) ==
  /\ Reading(i) /\ pipe[i] = <<>> /\ toRead \in {0, Garbage}
  /\ toWrite[i] = 0 /\ sent[i] = 0 /\ have[i] = 0 /\ Share(i) = 0
  /\ child[i] \in TimedPc

\* A number n of records has been written; it is one of the first k units, or
\* has been read.  Then the records follow, and then the run time.
Announced(i, k, n) ==
  /\ Len(pipe[i]) = k /\ toWrite[i] = n /\ sent[i] = have[i]
  /\ child[i] = "writing"

Chunked(i, k, n) ==
  /\ Len(pipe[i]) = k + n /\ RecordsFrom(i, k, n)
  /\ toWrite[i] = 0 /\ sent[i] = have[i] + n
  /\ child[i] = "writing"

LastChunk(i, k, n) ==
  /\ Len(pipe[i]) = k + n + 1 /\ RecordsFrom(i, k, n)
  /\ IsTime(pipe[i][k + n + 1])
  /\ toWrite[i] = 0 /\ sent[i] = have[i] + n /\ sent[i] = Share(i)
  /\ child[i] \in TimedPc

\* When the coach has read the number of this chunk, there is room for the number
\* of the next one.
NextAnnounced(i, n) ==
  /\ Len(pipe[i]) = n + 1 /\ RecordsFrom(i, 0, n)
  /\ pipe[i][n + 1] = <<"count", toWrite[i]>>
  /\ IsChunk(i, have[i] + n, toWrite[i])
  /\ sent[i] = have[i] + n
  /\ child[i] = "writing"

\* The number of a chunk is the first in the pipe, or the coach has read it.
Sending(i) ==
  \E n \in 1 .. PipeSz - 1 :
    /\ ~Reading(i) /\ IsChunk(i, have[i], n)
    /\ pipe[i][1] = <<"count", n>>
    /\ Announced(i, 1, n) \/ Chunked(i, 1, n) \/ LastChunk(i, 1, n)

Receiving(i) ==
  /\ Reading(i) /\ IsChunk(i, have[i], toRead)
  /\ \/ Announced(i, 0, toRead) \/ Chunked(i, 0, toRead)
     \/ LastChunk(i, 0, toRead) \/ NextAnnounced(i, toRead)

StreamOf(i) ==
  \/ child[i] \in {"none", "forked", "loading", "killed"} /\ Fresh(i)
  \/ Failed(i)
  \/ Idle(i) \/ OnlyTime(i) \/ TimeTaken(i)
  \/ Sending(i) \/ Receiving(i)

StreamInv == cpc \notin Leaving => \A i \in Sorter : StreamOf(i)

\* What poll() found is still there when the loop comes to it.
Ahead(i) ==
  \/ cpc = "scan" /\ i >= idx
  \/ cpc \in {"body", "time", "reap", "text"} /\ i > idx

PollOf(i) ==
  /\ Ahead(i) /\ revents[i] = "in" => pipe[i] # <<>>
  /\ (Ahead(i) \/ (cpc = "reap" /\ idx = i)) /\ revents[i] = "hup" =>
       have[i] < Share(i) \/ Share(i) = 0
  /\ cpc \in InLoop /\ revents[i] = "hup" => disturbed \/ Share(i) = 0

PollInv == \A i \in Sorter : PollOf(i)

\* results[] holds what the coach takes it to hold.
ResultsOf(i) ==
  /\ have[i] = 0 => results[i] = <<>>
  /\ Spawned(i) /\ ~Failed(i) /\ have[i] <= Share(i) =>
       /\ Len(results[i]) = have[i]
       /\ \A k \in 1 .. have[i] : results[i][k] = <<"record", Array(i)[k]>>

ResultsInv == \A i \in Sorter : ResultsOf(i)

\* remaining is what the coach still has to get from each sorter.
Owed(i) == IF i \in Sorter THEN Share(i) - have[i] ELSE 0
AllOwed == Owed(0) + Owed(1) + Owed(2) + Owed(3)
           + Owed(4) + Owed(5) + Owed(6) + Owed(7)
Working == InLoop \cup {"poll", "write", "report"}
OwedInv ==
  /\ cpc \in {"unset", "set", "spawn", "spawned"} => \A i \in Sorter : have[i] = 0
  /\ cpc \in Working =>
       /\ \A i \in Sorter : have[i] <= Share(i)
       /\ remaining = AllOwed

\* A sorter that has delivered is timed, waited for and not polled any more,
\* except that the coach may be about to do so.
AtHand(i) == idx = i /\ cpc \in {"time", "reap", "text"}
Settled(i) ==
  /\ i \in timed /\ i \in reaped /\ i \notin listening
  /\ child[i] \in {"ok", "killed"}

DoneOf(i) ==
  /\ cpc \in {"body", "time"} /\ idx = i => revents[i] = "none"
  /\ cpc = "time" /\ idx = i => have[i] = Share(i)
  /\ cpc = "reap" /\ idx = i /\ revents[i] # "hup" =>
       /\ have[i] = Share(i)
       /\ Share(i) > 0 /\ ~Failed(i) => i \in timed /\ child[i] \in TimedPc
  /\ cpc = "text" /\ idx = i => child[i] = "fail"
  /\ cpc \in Working /\ Share(i) > 0 /\ have[i] = Share(i) /\ ~AtHand(i) =>
       Settled(i)

DoneInv == \A i \in Sorter : DoneOf(i)

\* Why the coach may give up.
Cause == disturbed \/ \E i \in Sorter : i < Len(ends) /\ Share(i) = 0
CauseInv ==
  /\ flag => disturbed
  /\ "USR1" \in pending => disturbed
  /\ cpc \notin Leaving /\ "USR2" \in pending =>
       \E i \in listening : child[i] = "ok"
  /\ cpc \in {"forced", "kill", "wait"} => Cause
  /\ outcome \in {"failure", "killed"} => Cause

\* From the end of the loop on, everything has been delivered.
Delivered(i) == [n \in 1 .. Share(i) |-> <<"record", Array(i)[n]>>]
Complete ==
  /\ Len(ends) = NumOfSorters
  /\ output = FlattenSeq([k \in 1 .. NumOfSorters |-> Delivered(k - 1)])
  /\ \A i \in Sorter : Share(i) > 0 => i \in timed /\ i \in reaped
CompleteInv ==
  /\ cpc = "write" => \A i \in Sorter : have[i] = Share(i)
  /\ cpc = "report" => Complete
  /\ outcome = "success" => Complete

\* What a sorter has yet to write of its open chunk is a part of its records.
RoomInv ==
  \A i \in Sorter : toWrite[i] > 0 =>
    i < Len(ends) /\ sent[i] + toWrite[i] <= Share(i)

\* The inductive invariant.
IInv ==
  /\ PartsInv /\ ContractInv /\ ShapeInv
  /\ ForkInv /\ StreamInv /\ PollInv /\ ResultsInv
  /\ OwedInv /\ DoneInv /\ CauseInv /\ CompleteInv /\ RoomInv

\* What comes of PartsInv: as many sorters as there are, and each part a number of
\* records.
LEMMA PartsFacts ==
  ASSUME PartsInv
  PROVE  /\ NumOfSorters \in {1, 2, 4, 8} /\ Sorter = 0 .. NumOfSorters - 1
         /\ NumOfRecords \in Nat /\ Len(ends) \in 0 .. NumOfSorters
         /\ \A i \in Sorter : i < Len(ends) =>
              /\ Start(i) \in Nat /\ ends[i + 1] \in Nat /\ Share(i) \in Nat
              /\ Start(i) <= ends[i + 1] /\ ends[i + 1] <= NumOfRecords
         /\ cpc \in Collecting => Len(ends) = NumOfSorters
         /\ (cpc \notin Collecting /\ cpc \notin Leaving) =>
               cpc \in {"unset", "set", "spawn"}
  <1>1. /\ NumOfSorters \in {1, 2, 4, 8} /\ Sorter = 0 .. NumOfSorters - 1
        /\ NumOfRecords \in Nat /\ Len(ends) \in 0 .. NumOfSorters
    BY Sorters DEF PartsInv, Sorter, NumOfRecords
  <1>2. ASSUME NEW i \in Sorter, i < Len(ends)
        PROVE  /\ Start(i) \in Nat /\ ends[i + 1] \in Nat /\ Share(i) \in Nat
               /\ Start(i) <= ends[i + 1] /\ ends[i + 1] <= NumOfRecords
    <2>1. i \in Nat /\ i + 1 \in 1 .. NumOfSorters /\ i + 1 \in 1 .. Len(ends)
          /\ (i > 0 => i \in 1 .. NumOfSorters /\ i \in 1 .. Len(ends))
      BY <1>1, <1>2
    <2>2. ends[i + 1] = Bound(i + 1) /\ (i > 0 => ends[i] = Bound(i))
      BY <2>1 DEF PartsInv
    <2>3. coachnum \in 0 .. 3
      BY DEF PartsInv
    <2>4. /\ Bound(i + 1) \in Nat /\ Bound(i + 1) <= NumOfRecords
          /\ i > 0 => Bound(i) \in Nat /\ Bound(i) <= Bound(i + 1)
      BY <2>1, <2>3, <1>1, BoundMonotonic
    <2> QED
      BY <2>1, <2>2, <2>4 DEF Start, Share
  <1> QED
    BY <1>1, <1>2 DEF PartsInv

\* A set of natural numbers has a least one.
LEMMA LeastNumber ==
  ASSUME NEW S \in SUBSET Nat, S # {}
  PROVE  \E n \in S : \A m \in S : n <= m
  <1> DEFINE R == OpToRel(<, Nat)
  <1>1. IsWellFoundedOn(R, Nat)
    BY NatLessThanWellFounded
  <1>2. PICK n \in S : \A m \in S : ~(<<m, n>> \in R)
    <2> HIDE DEF R
    <2> QED
      BY <1>1, WFMin
  <1>3. \A m \in S : ~(m < n)
    BY <1>2 DEF OpToRel
  <1> QED
    BY <1>3

\* The larger of two numbers.
LEMMA LargerOf ==
  ASSUME NEW a \in Nat, NEW b \in Nat
  PROVE  \E c \in Nat : a <= c /\ b <= c
  <1>1. CASE a <= b
    BY <1>1
  <1>2. CASE b <= a
    BY <1>2
  <1> QED
    BY <1>1, <1>2

\* The keys of a file have a bound.
LEMMA KeysBounded ==
  ASSUME NEW s \in Seq(Nat)
  PROVE  \E b \in Nat : \A i \in 1 .. Len(s) : s[i] <= b
  <1> DEFINE Under(k, b) == \A i \in 1 .. k : s[i] <= b
             T == {k \in 0 .. Len(s) : \A b \in Nat : ~Under(k, b)}
  <1>0. Len(s) \in Nat /\ \A i \in 1 .. Len(s) : s[i] \in Nat
    OBVIOUS
  <1>1. CASE T = {}
    <2>1. \E b \in Nat : Under(Len(s), b)
      <3> HIDE DEF Under
      <3> QED
        BY <1>0, <1>1
    <2> QED
      BY <2>1
  <1>2. CASE T # {}
    <2>1. PICK k \in T : \A m \in T : k <= m
      <3>1. T \in SUBSET Nat
        OBVIOUS
      <3> HIDE DEF T
      <3> QED
        BY <1>2, <3>1, LeastNumber
    <2>2. k \in 0 .. Len(s) /\ \A b \in Nat : ~Under(k, b)
      <3> HIDE DEF Under
      <3> QED
        BY <2>1
    <2>3. k # 0
      <3>1. Under(0, 0)
        OBVIOUS
      <3> HIDE DEF Under
      <3> QED
        BY <2>2, <3>1
    <2>4. k \in 0 .. Len(s) /\ k - 1 \in 0 .. Len(s) /\ ~(k <= k - 1)
      <3> HIDE DEF Under
      <3> QED
        BY <1>0, <2>2, <2>3
    <2>5. k - 1 \notin T
      <3> HIDE DEF T
      <3> QED
        BY <2>1, <2>4
    <2>6. PICK b \in Nat : Under(k - 1, b)
      <3> HIDE DEF Under
      <3> QED
        BY <2>4, <2>5
    <2> HIDE DEF T
    <2>7. k \in 1 .. Len(s) /\ s[k] \in Nat
      BY <1>0, <2>3, <2>4
    <2>8. PICK c \in Nat : b <= c /\ s[k] <= c
      BY <2>7, LargerOf
    <2>9. Under(k, c)
      <3> SUFFICES ASSUME NEW i \in 1 .. k PROVE s[i] <= c
        OBVIOUS
      <3>1. CASE i = k
        BY <2>8, <3>1
      <3>2. CASE i # k
        <4>1. i \in 1 .. k - 1 /\ i \in 1 .. Len(s)
          BY <1>0, <2>7, <3>2
        <4>2. s[i] <= b /\ s[i] \in Nat
          BY <1>0, <2>6, <4>1
        <4> QED
          BY <2>8, <4>2
      <3> QED
        BY <3>1, <3>2
    <2> HIDE DEF Under
    <2> QED
      BY <2>2, <2>9
  <1> QED
    BY <1>1, <1>2

\* InOrder() gives as many keys as it gets, each of its rank.
LEMMA InOrderKeys ==
  ASSUME NEW s \in Seq(Nat)
  PROVE  /\ Len(InOrder(s)) = Len(s)
         /\ \A k \in 1 .. Len(s) :
              LET key == InOrder(s)[k] IN
              /\ key \in Nat
              /\ Cardinality({i \in DOMAIN s : s[i] < key}) < k
              /\ Cardinality({i \in DOMAIN s : s[i] <= key}) >= k
  <1>1. Len(InOrder(s)) = Len(s)
    BY DEF InOrder
  <1>2. ASSUME NEW k \in 1 .. Len(s)
        PROVE  LET key == InOrder(s)[k] IN
               /\ key \in Nat
               /\ Cardinality({i \in DOMAIN s : s[i] < key}) < k
               /\ Cardinality({i \in DOMAIN s : s[i] <= key}) >= k
    <2> DEFINE UpTo(n) == {i \in 1 .. Len(s) : s[i] <= n}
               Below(n) == {i \in 1 .. Len(s) : s[i] < n}
               S == {n \in Nat : Cardinality(UpTo(n)) >= k}
    <2>0. IsFiniteSet(1 .. Len(s)) /\ Cardinality(1 .. Len(s)) = Len(s)
      <3>1. 1 \in Int /\ Len(s) \in Int /\ Len(s) \in Nat
        OBVIOUS
      <3> HIDE DEF UpTo, Below, S
      <3>2. /\ IsFiniteSet(1 .. Len(s))
            /\ Cardinality(1 .. Len(s)) = IF 1 > Len(s) THEN 0 ELSE Len(s) - 1 + 1
        BY <3>1, FS_Interval
      <3> QED
        BY <3>1, <3>2
    <2>1. \A n \in Nat : /\ Cardinality(UpTo(n)) \in Nat
                         /\ Cardinality(Below(n)) \in Nat
      BY <2>0, FS_Subset, FS_CardinalityType
    <2>2. S # {}
      <3>1. PICK b \in Nat : \A i \in 1 .. Len(s) : s[i] <= b
        BY KeysBounded
      <3>2. UpTo(b) = 1 .. Len(s)
        BY <3>1
      <3>3. Cardinality(UpTo(b)) >= k
        <4> HIDE DEF UpTo
        <4> QED
          BY <2>0, <3>2
      <3> HIDE DEF UpTo
      <3> QED
        BY <3>3
    <2>3. PICK n \in S : \A m \in S : n <= m
      <3>1. S \in SUBSET Nat
        OBVIOUS
      <3> HIDE DEF S
      <3> QED
        BY <2>2, <3>1, LeastNumber
    <2>4. n \in Nat /\ Cardinality(UpTo(n)) >= k
      BY <2>3
    <2>5. Cardinality(Below(n)) < k
      <3>1. CASE n = 0
        <4>1. Below(n) = {}
          BY <3>1
        <4>2. Cardinality({}) = 0
          BY FS_EmptySet
        <4> HIDE DEF Below
        <4> QED
          BY <4>1, <4>2
      <3>2. CASE n # 0
        <4>1. n - 1 \in Nat /\ n - 1 \notin S
          BY <2>3, <2>4, <3>2
        <4>2. Below(n) = UpTo(n - 1)
          BY <2>4
        <4>3. ~(Cardinality(UpTo(n - 1)) >= k)
          BY <4>1
        <4>4. Cardinality(UpTo(n - 1)) \in Nat
          BY <2>1, <4>1
        <4> HIDE DEF UpTo, Below
        <4> QED
          BY <4>2, <4>3, <4>4
      <3> QED
        BY <3>1, <3>2
    <2>6. n \in Range(s)
      <3> SUFFICES ASSUME n \notin Range(s) PROVE FALSE
        OBVIOUS
      <3>1. Below(n) = UpTo(n)
        BY <2>4 DEF Range
      <3>2. /\ Cardinality(UpTo(n)) \in Nat
            /\ Cardinality(UpTo(n)) >= k /\ Cardinality(UpTo(n)) < k
        <4> HIDE DEF UpTo, Below
        <4> QED
          BY <2>1, <2>4, <2>5, <3>1
      <3> HIDE DEF UpTo
      <3> QED
        BY <3>2
    <2> DEFINE Fits(v) == /\ Cardinality({i \in DOMAIN s : s[i] < v}) < k
                          /\ Cardinality({i \in DOMAIN s : s[i] <= v}) >= k
    <2>7. Fits(n)
      <3>1. DOMAIN s = 1 .. Len(s)
        OBVIOUS
      <3> QED
        BY <2>4, <2>5, <3>1
    <2>8. InOrder(s)[k] = CHOOSE v \in Range(s) : Fits(v)
      BY DEF InOrder
    <2> HIDE DEF Fits
    <2>9. InOrder(s)[k] \in Range(s) /\ Fits(InOrder(s)[k])
      BY <2>6, <2>7, <2>8
    <2>10. InOrder(s)[k] \in Nat
      BY <2>9 DEF Range
    <2> QED
      BY <2>9, <2>10 DEF Fits
  <1> QED
    BY <1>1, <1>2

\* InOrder() gives the keys in ascending order.
LEMMA InOrderAscends ==
  ASSUME NEW s \in Seq(Nat), NEW j \in 1 .. Len(s), NEW k \in 1 .. Len(s), j <= k
  PROVE  InOrder(s)[j] <= InOrder(s)[k]
  <1> DEFINE UpTo(n) == {i \in DOMAIN s : s[i] <= n}
             Below(n) == {i \in DOMAIN s : s[i] < n}
             a == InOrder(s)[j]
             b == InOrder(s)[k]
  <1>1. /\ a \in Nat /\ Cardinality(Below(a)) < j
        /\ b \in Nat /\ Cardinality(UpTo(b)) >= k
    <2> HIDE DEF UpTo, Below, a, b
    <2> QED
      BY InOrderKeys DEF UpTo, Below, a, b
  <1>2. IsFiniteSet(DOMAIN s)
    <2>1. DOMAIN s = 1 .. Len(s) /\ 1 \in Int /\ Len(s) \in Int
      OBVIOUS
    <2> QED
      BY <2>1, FS_Interval
  <1>3. \A n : UpTo(n) \subseteq DOMAIN s /\ Below(n) \subseteq DOMAIN s
    OBVIOUS
  <1>4. \A n : /\ IsFiniteSet(UpTo(n)) /\ Cardinality(UpTo(n)) \in Nat
               /\ IsFiniteSet(Below(n)) /\ Cardinality(Below(n)) \in Nat
    <2> HIDE DEF UpTo, Below
    <2> QED
      BY <1>2, <1>3, FS_Subset, FS_CardinalityType
  <1> SUFFICES ASSUME b < a PROVE FALSE
    <2> HIDE DEF a, b
    <2>1. a <= b
      BY <1>1
    <2> QED
      BY <2>1 DEF a, b
  <1>5. UpTo(b) \subseteq Below(a)
    <2>1. \A i \in DOMAIN s : s[i] \in Nat
      OBVIOUS
    <2> HIDE DEF a, b
    <2> QED
      BY <1>1, <2>1
  <1> HIDE DEF UpTo, Below, a, b
  <1>6. Cardinality(UpTo(b)) <= Cardinality(Below(a))
    BY <1>4, <1>5, FS_Subset
  <1> QED
    BY <1>1, <1>4, <1>6

\* The array of a sorter has a key for every record of its part.
LEMMA ArrayKeys ==
  ASSUME PartsInv, NEW i \in Sorter, i < Len(ends)
  PROVE  /\ Len(Array(i)) = Share(i)
         /\ \A k \in 1 .. Share(i) : Array(i)[k] \in Nat
         /\ \A j, k \in 1 .. Share(i) : j <= k => Array(i)[j] <= Array(i)[k]
  <1> DEFINE s == SubSeq(file, Start(i) + 1, ends[i + 1])
  <1>1. /\ Start(i) \in Nat /\ ends[i + 1] \in Nat
        /\ Start(i) <= ends[i + 1] /\ ends[i + 1] <= Len(file)
    BY PartsFacts DEF NumOfRecords
  <1>2. file \in Seq(Nat)
    BY DEF PartsInv
  <1>3. s \in Seq(Nat) /\ Len(s) = ends[i + 1] - Start(i)
    BY <1>1, <1>2
  <1>4. Share(i) = ends[i + 1] - Start(i) /\ Array(i) = InOrder(s)
    BY DEF Share, Array
  <1>5. Len(InOrder(s)) = Len(s) /\ \A k \in 1 .. Len(s) : InOrder(s)[k] \in Nat
    <2> HIDE DEF s
    <2> QED
      BY <1>3, InOrderKeys
  <1>6. \A j, k \in 1 .. Len(s) : j <= k => InOrder(s)[j] <= InOrder(s)[k]
    <2> HIDE DEF s
    <2> QED
      BY <1>3, InOrderAscends
  <1> HIDE DEF s
  <1> QED
    BY <1>3, <1>4, <1>5, <1>6

\* The parts of the sorters forked do not change any more.
LEMMA SameParts ==
  ASSUME PartsInv, [Next]_vars
  PROVE  /\ UNCHANGED <<file, coachnum>>
         /\ Sorter' = Sorter /\ NumOfSorters' = NumOfSorters
         /\ NumOfRecords' = NumOfRecords
         /\ ends' = ends \/ (cpc = "spawn" /\ Len(ends') = Len(ends) + 1)
         /\ Len(ends) <= Len(ends')
         /\ \A i \in Sorter : i < Len(ends) =>
              Share(i)' = Share(i) /\ Array(i)' = Array(i)
  <1>1. UNCHANGED <<file, coachnum>>
    <2> USE DEF args, coach
    <2>1. CASE CoachRuns
      BY <2>1 DEF CoachRuns, CheckUnset, CheckFlag, Spawn, SpawnFails, Poll,
         PollInterrupted, LeaveLoop, Skip, ReadCount, ReadRecords, ReadTime,
         HangUp, Reap, ReadText, WriteResults, WriteFails, Report, TryWait, Kill,
         Wait, ForceExit
    <2>2. CASE TakeSignals \/ Stop
      BY <2>2 DEF TakeSignals, Stop
    <2>3. ASSUME NEW i \in Sorter, SorterRuns(i)
          PROVE  UNCHANGED <<file, coachnum>>
      BY <2>3 DEF SorterRuns, Exec, FailStart, ExitFailure, Crash, Sort,
         WriteCount, WriteRecords, WriteTime, BreakPipe, Close, Exit
    <2>4. CASE UNCHANGED vars
      BY <2>4 DEF vars
    <2> QED
      BY <2>1, <2>2, <2>3, <2>4 DEF Next
  <1>2. \/ ends' = ends
        \/ cpc = "spawn" /\ \E x : ends' = Append(ends, x)
    <2> USE DEF poller, coach
    <2>1. CASE CoachRuns
      <3>1. CASE Spawn
        BY <3>1 DEF Spawn
      <3> QED
        BY <2>1, <3>1 DEF CoachRuns, CheckUnset, CheckFlag, SpawnFails, Poll,
         PollInterrupted, LeaveLoop, Skip, ReadCount, ReadRecords, ReadTime,
         HangUp, Reap, ReadText, WriteResults, WriteFails, Report, TryWait, Kill,
         Wait, ForceExit
    <2>2. CASE TakeSignals \/ Stop
      BY <2>2 DEF TakeSignals, Stop
    <2>3. ASSUME NEW i \in Sorter, SorterRuns(i)
          PROVE  ends' = ends
      BY <2>3 DEF SorterRuns, Exec, FailStart, ExitFailure, Crash, Sort,
         WriteCount, WriteRecords, WriteTime, BreakPipe, Close, Exit
    <2>4. CASE UNCHANGED vars
      BY <2>4 DEF vars
    <2> QED
      BY <2>1, <2>2, <2>3, <2>4 DEF Next
  <1>3. /\ Sorter' = Sorter /\ NumOfSorters' = NumOfSorters
        /\ NumOfRecords' = NumOfRecords
    BY <1>1 DEF Sorter, NumOfSorters, NumOfRecords
  <1>4. /\ Len(ends) <= Len(ends')
        /\ ends' = ends \/ (cpc = "spawn" /\ Len(ends') = Len(ends) + 1)
        /\ \A k \in 1 .. Len(ends) : ends'[k] = ends[k]
    BY <1>2 DEF PartsInv
  <1>5. ASSUME NEW i \in Sorter, i < Len(ends)
        PROVE  Share(i)' = Share(i) /\ Array(i)' = Array(i)
    <2>1. ends'[i + 1] = ends[i + 1] /\ (i # 0 => ends'[i] = ends[i])
      <3>1. i + 1 \in 1 .. Len(ends) /\ (i # 0 => i \in 1 .. Len(ends))
        <4>1. i \in Nat /\ Len(ends) \in Nat
          BY PartsFacts
        <4> QED
          BY <1>5, <4>1
      <3> QED
        BY <1>4, <3>1
    <2>2. Start(i)' = Start(i)
      BY <2>1 DEF Start
    <2> QED
      BY <1>1, <2>1, <2>2 DEF Share, Array
  <1> QED
    BY <1>1, <1>3, <1>4, <1>5

\* The smaller of two numbers.
LEMMA MinOfTwo ==
  ASSUME NEW a \in Int, NEW b \in Int
  PROVE  Min({a, b}) = IF a <= b THEN a ELSE b
  BY DEF Min

\* What the coach takes for a number is one.
LEMMA AsCountNat ==
  ASSUME NumOfRecords \in Nat, NEW unit \in Unit
  PROVE  AsCount(unit) \in Nat
  BY DEF AsCount, Unit, Garbage

-------------------------------------------------------------------------------
(* Sequences, and the smaller of two numbers. *)

\* Reading takes the first k units of a pipe and leaves the others.
LEMMA Cut ==
  ASSUME NEW S, NEW s \in Seq(S), NEW k \in 0 .. Len(s)
  PROVE  /\ SubSeq(s, 1, k) \in Seq(S) /\ Len(SubSeq(s, 1, k)) = k
         /\ \A j \in 1 .. k : SubSeq(s, 1, k)[j] = s[j]
         /\ k = 0 => SubSeq(s, 1, k) = <<>>
         /\ SubSeq(s, k + 1, Len(s)) \in Seq(S)
         /\ Len(SubSeq(s, k + 1, Len(s))) = Len(s) - k
         /\ \A j \in 1 .. Len(s) - k : SubSeq(s, k + 1, Len(s))[j] = s[k + j]
         /\ k = Len(s) => SubSeq(s, k + 1, Len(s)) = <<>>
  OBVIOUS

\* Reading one unit when there may be none.
LEMMA CutOne ==
  ASSUME NEW S, NEW s \in Seq(S)
  PROVE  /\ SubSeq(s, 2, Len(s)) \in Seq(S)
         /\ s = <<>> => SubSeq(s, 2, Len(s)) = <<>>
         /\ Len(s) = 1 => SubSeq(s, 2, Len(s)) = <<>>
  <1>1. s = <<>> => SubSeq(s, 2, Len(s)) = <<>>
    OBVIOUS
  <1>2. s # <<>> => SubSeq(s, 2, Len(s)) \in Seq(S)
    OBVIOUS
  <1>3. Len(s) = 1 => SubSeq(s, 2, Len(s)) = <<>>
    OBVIOUS
  <1> QED
    BY <1>1, <1>2, <1>3, EmptySeq

\* Reading one unit that is there.
LEMMA CutHead ==
  ASSUME NEW S, NEW s \in Seq(S), s # <<>>
  PROVE  /\ Head(s) \in S /\ Head(s) = s[1] /\ Tail(s) \in Seq(S)
         /\ Len(s) >= 1 /\ Len(Tail(s)) = Len(s) - 1
         /\ \A j \in 1 .. Len(s) - 1 : Tail(s)[j] = s[1 + j]
         /\ Len(s) = 1 => Tail(s) = <<>>
  <1>1. Len(s) \in Nat /\ Len(s) >= 1 /\ Head(s) = s[1] /\ Head(s) \in S
    OBVIOUS
  <1>2. Tail(s) \in Seq(S) /\ Len(Tail(s)) = Len(s) - 1
    OBVIOUS
  <1>3. \A j \in 1 .. Len(s) - 1 : Tail(s)[j] = s[1 + j]
    BY <1>1
  <1>4. Len(s) = 1 => Tail(s) = <<>>
    <2> SUFFICES ASSUME Len(s) = 1, Tail(s) # <<>> PROVE FALSE
      OBVIOUS
    <2>1. Len(Tail(s)) \in Nat \ {0}
      BY <1>2, EmptySeq
    <2> QED
      BY <1>2, <2>1
  <1> QED
    BY <1>1, <1>2, <1>3, <1>4

\* Writing adds units at the end.
LEMMA Extend ==
  ASSUME NEW S, NEW s \in Seq(S), NEW t \in Seq(S)
  PROVE  /\ s \o t \in Seq(S) /\ Len(s \o t) = Len(s) + Len(t)
         /\ \A j \in 1 .. Len(s) : (s \o t)[j] = s[j]
         /\ \A j \in 1 .. Len(t) : (s \o t)[Len(s) + j] = t[j]
         /\ t = <<>> => s \o t = s
  OBVIOUS

\* What is written is a sequence of units.
LEMMA Units ==
  ASSUME NEW S, NEW k \in Nat, NEW s \in [1 .. k -> S]
  PROVE  s \in Seq(S) /\ Len(s) = k
  OBVIOUS

\* The for loop goes on with the next sorter there is.
LEMMA OnwardStep ==
  ASSUME idx \in Sorter, NumOfSorters \in {1, 2, 4, 8}, Onward
  PROVE  \/ cpc' = "poll" /\ idx' = 0
         \/ cpc' = "scan" /\ idx' = idx + 1 /\ idx + 1 \in Sorter
  BY DEF Onward, Goto, Sorter

\* A pipe and results[] hold units.
LEMMA ShapeStep == IInv /\ [Next]_vars => ShapeInv'
  <1> SUFFICES ASSUME IInv, [Next]_vars PROVE ShapeInv'
    OBVIOUS
  <1> USE DEF Goto, EnterForce, Onward, Handle, poller, sorters, signals, coach,
              InLoop, Sorts, Dead, ChildPc
  <1>0. /\ ShapeInv /\ (cpc = "spawn" => idx \in Sorter) /\ PartsInv
        /\ Sorter' = Sorter /\ NumOfSorters' = NumOfSorters
        /\ NumOfSorters \in {1, 2, 4, 8} /\ Sorter = 0 .. NumOfSorters - 1
        /\ NumOfRecords \in Nat
    BY PartsFacts, SameParts DEF IInv, PartsInv
  <1>1. CASE CheckUnset
    <2>1. cpc' \notin InLoop /\ pending' = {}
      BY <1>1 DEF CheckUnset
    <2>2. UNCHANGED <<revents, listening, toRead, remaining, have, results, child,
                      sflag, sent, toWrite, pipe>>
      BY <1>1 DEF CheckUnset
    <2> QED
      BY <1>0, <2>1, <2>2 DEF ShapeInv
  <1>2. CASE CheckFlag
    <2>1. cpc' \notin InLoop /\ pending' = {}
      BY <1>2 DEF CheckFlag
    <2>2. UNCHANGED <<revents, listening, toRead, have, results, child, sflag,
                      sent, toWrite, pipe>>
      BY <1>2 DEF CheckFlag
    <2>3. remaining' \in Int
      <3>1. remaining' = NumOfRecords \/ remaining' = remaining
        BY <1>2 DEF CheckFlag
      <3>2. NumOfRecords \in Int /\ remaining \in Int
        BY <1>0 DEF ShapeInv
      <3> QED
        BY <3>1, <3>2
    <2> QED
      BY <1>0, <2>1, <2>2, <2>3 DEF ShapeInv
  <1>3. CASE Spawn
    <2>1. child' \in [Sorter -> ChildPc] /\ listening' \subseteq Sorter
      BY <1>3, <1>0 DEF Spawn, ShapeInv
    <2> QED
      BY <1>3, <2>1, <1>0 DEF ShapeInv, Spawn
  <1>4. CASE SpawnFails
    BY <1>4, <1>0
       DEF ShapeInv, SpawnFails
  <1>5. CASE Poll
    <2>1. revents' \in [Sorter -> {"none", "in", "hup"}]
      BY <1>5, <1>0 DEF Poll, ShapeInv
    <2>2. cpc' \in InLoop => idx' \in Sorter
      BY <1>5, <1>0 DEF Poll
    <2> QED
      BY <1>5, <2>1, <2>2, <1>0 DEF ShapeInv, Poll
  <1>6. CASE PollInterrupted
    BY <1>6, <1>0
       DEF ShapeInv, PollInterrupted
  <1>7. CASE LeaveLoop
    BY <1>7, <1>0
       DEF ShapeInv, LeaveLoop
  <1>8. CASE Skip
    <2>1. idx \in Sorter /\ Onward
      BY <1>8, <1>0 DEF Skip, ShapeInv
    <2>2. cpc' \in InLoop => idx' \in Sorter
      BY <2>1, <1>0, OnwardStep
    <2> QED
      BY <1>8, <2>2, <1>0 DEF ShapeInv, Skip
  <1>9. CASE ReadCount
    <2>1. idx \in Sorter /\ pipe[idx] \in Seq(Unit)
      BY <1>9, <1>0 DEF ReadCount, ShapeInv
    <2>2. toRead' \in Nat /\ pipe' \in [Sorter -> Seq(Unit)]
      <3>1. pipe[idx] # <<>>
        BY <1>9, <1>0, <2>1 DEF ReadCount, IInv, PollInv, PollOf, Ahead, Sorter
      <3>2. Head(pipe[idx]) \in Unit /\ Tail(pipe[idx]) \in Seq(Unit)
        BY <2>1, <3>1, CutHead
      <3> QED
        BY <1>9, <1>0, <2>1, <3>2, AsCountNat DEF ReadCount, ShapeInv
    <2>3. revents' \in [Sorter -> {"none", "in", "hup"}]
      BY <1>9, <2>1, <1>0 DEF ReadCount, ShapeInv
    <2> QED
      BY <1>9, <2>1, <2>2, <2>3, <1>0 DEF ShapeInv, ReadCount
  <1>10. CASE ReadRecords
    <2> DEFINE k == Got(idx, toRead)
    <2>1. idx \in Sorter /\ pipe[idx] \in Seq(Unit) /\ toRead \in Nat
      BY <1>10, <1>0 DEF ReadRecords, ShapeInv
    <2>2. k \in 0 .. Len(pipe[idx])
      BY <2>1, MinOfTwo DEF Got
    <2>3. /\ results' \in [Sorter -> Seq(Unit)] /\ pipe' \in [Sorter -> Seq(Unit)]
      BY <1>10, <2>1, <2>2, <1>0, Cut, Extend DEF ReadRecords, ShapeInv
    <2>4. have' \in [Sorter -> Nat] /\ remaining' \in Int
      <3>1. /\ have' = [have EXCEPT ![idx] = have[idx] + toRead]
            /\ remaining' = remaining - toRead
        BY <1>10 DEF ReadRecords
      <3>2. have \in [Sorter -> Nat] /\ remaining \in Int /\ toRead \in Nat
        BY <1>0 DEF ShapeInv
      <3>3. have[idx] + toRead \in Nat
        BY <2>1, <3>2
      <3>4. \A f \in [Sorter -> Nat], n \in Nat :
              [f EXCEPT ![idx] = n] \in [Sorter -> Nat]
        OBVIOUS
      <3> QED
        BY <3>1, <3>2, <3>3, <3>4
    <2>5. cpc' \in InLoop => idx' \in Sorter
      BY <1>10, <2>1, <1>0 DEF ReadRecords
    <2> QED
      BY <1>10, <2>3, <2>4, <2>5, <1>0 DEF ShapeInv, ReadRecords
  <1>11. CASE ReadTime
    <2>1. idx \in Sorter /\ pipe[idx] \in Seq(Unit)
      BY <1>11, <1>0 DEF ReadTime, ShapeInv
    <2>2. pipe' \in [Sorter -> Seq(Unit)]
      BY <1>11, <2>1, <1>0, CutOne DEF ReadTime, ShapeInv
    <2> QED
      BY <1>11, <2>1, <2>2, <1>0 DEF ShapeInv, ReadTime
  <1>12. CASE HangUp
    BY <1>12, <1>0
       DEF ShapeInv, HangUp
  <1>13. CASE Reap
    <2>1. idx \in Sorter
      BY <1>13, <1>0 DEF Reap, ShapeInv
    <2>3. cpc' \in InLoop => idx' \in Sorter
      <3>1. CASE Onward
        BY <2>1, <1>0, <3>1, OnwardStep
      <3>2. CASE Goto("text", idx) \/ EnterForce
        BY <2>1, <1>0, <3>2
      <3> QED
        BY <1>13, <3>1, <3>2 DEF Reap
    <2>2. listening' \subseteq Sorter
      BY <1>13, <1>0 DEF Reap, ShapeInv
    <2> QED
      BY <1>13, <2>3, <2>2, <1>0 DEF ShapeInv, Reap
  <1>14. CASE ReadText
    <2>1. idx \in Sorter
      BY <1>14, <1>0 DEF ReadText, ShapeInv
    <2>2. pipe' \in [Sorter -> Seq(Unit)]
      BY <1>14, <2>1, <1>0 DEF ReadText, ShapeInv
    <2> QED
      BY <1>14, <2>2, <1>0 DEF ShapeInv, ReadText
  <1>15. CASE WriteResults
    BY <1>15, <1>0
       DEF ShapeInv, WriteResults
  <1>16. CASE WriteFails
    BY <1>16, <1>0
       DEF ShapeInv, WriteFails
  <1>17. CASE Report
    BY <1>17, <1>0
       DEF ShapeInv, Report
  <1>18. CASE TryWait
    BY <1>18, <1>0
       DEF ShapeInv, TryWait
  <1>19. CASE Kill
    <2>1. /\ child' \in [Sorter -> ChildPc] /\ sflag' \in [Sorter -> BOOLEAN]
          /\ cpc' = "wait" /\ idx' = idx
      BY <1>19, <1>0, SMTT(30) DEF ShapeInv, Kill
    <2> QED
      BY <1>19, <1>0, <2>1 DEF ShapeInv, Kill
  <1>20. CASE Wait
    BY <1>20, <1>0
       DEF ShapeInv, Wait
  <1>21. CASE ForceExit
    BY <1>21, <1>0
       DEF ShapeInv, ForceExit
  <1>22. CASE TakeSignals
    BY <1>22, <1>0
       DEF ShapeInv, TakeSignals
  <1>23. CASE Stop
    BY <1>23, <1>0
       DEF ShapeInv, Stop
  <1>24. ASSUME NEW i \in Sorter, Exec(i) PROVE ShapeInv'
    BY <1>24, <1>0
       DEF ShapeInv, Exec
  <1>25. ASSUME NEW i \in Sorter, FailStart(i) PROVE ShapeInv'
    <2>1. PICK n \in ErrLens :
            pipe' = [pipe EXCEPT ![i] = << <<"count", n>>, <<"text", 0>> >>]
      BY <1>25 DEF FailStart
    <2>2. <<"count", n>> \in Unit /\ <<"text", 0>> \in Unit
      BY ErrLensAssumption DEF Unit
    <2>3. pipe' \in [Sorter -> Seq(Unit)]
      BY <2>1, <2>2, <1>0 DEF ShapeInv
    <2> QED
      BY <1>25, <2>3, <1>0 DEF ShapeInv, FailStart
  <1>26. ASSUME NEW i \in Sorter, ExitFailure(i) PROVE ShapeInv'
    BY <1>26, <1>0
       DEF ShapeInv, ExitFailure
  <1>27. ASSUME NEW i \in Sorter, Crash(i) PROVE ShapeInv'
    BY <1>27, <1>0
       DEF ShapeInv, Crash
  <1>28. ASSUME NEW i \in Sorter, Sort(i) PROVE ShapeInv'
    BY <1>28, <1>0
       DEF ShapeInv, Sort
  <1>29. ASSUME NEW i \in Sorter, WriteCount(i) PROVE ShapeInv'
    <2>1. i < Len(ends) /\ Share(i) \in Nat /\ PipeSz - 1 \in Nat
      BY <1>29, PartsFacts, PipeAssumption DEF WriteCount, IInv, ForkInv
    <2>2. sent[i] \in Nat /\ pipe[i] \in Seq(Unit) /\ sent[i] < Share(i)
      BY <1>29, <1>0 DEF WriteCount, ShapeInv
    <2>3. Chunk(i) \in Nat
      BY <2>1, <2>2, MinOfTwo DEF Chunk
    <2>4. <<"count", Chunk(i)>> \in Unit
      BY <2>3 DEF Unit
    <2>5. toWrite' \in [Sorter -> Nat]
      BY <1>29, <2>3, <1>0 DEF WriteCount, ShapeInv
    <2>6. Append(pipe[i], <<"count", Chunk(i)>>) \in Seq(Unit)
      BY <2>2, <2>4
    <2>7. pipe' \in [Sorter -> Seq(Unit)]
      BY <1>29, <2>6, <1>0 DEF WriteCount, ShapeInv
    <2> QED
      BY <1>29, <2>5, <2>7, <1>0 DEF ShapeInv, WriteCount
  <1>30. ASSUME NEW i \in Sorter, WriteRecords(i) PROVE ShapeInv'
    <2> DEFINE k == Min({toWrite[i], Free(i)})
               some == [n \in 1 .. k |-> <<"record", Array(i)[sent[i] + n]>>]
    <2>8. /\ sent[i] \in Nat /\ toWrite[i] \in Nat /\ pipe[i] \in Seq(Unit)
          /\ Free(i) \in Int /\ Free(i) > 0
      BY <1>30, <1>0, PipeAssumption DEF WriteRecords, ShapeInv, Free
    <2>1. /\ sent[i] \in Nat /\ toWrite[i] \in Nat /\ pipe[i] \in Seq(Unit)
          /\ k \in 0 .. toWrite[i]
      BY <2>8, MinOfTwo
    <2>2. i < Len(ends) /\ Start(i) + 1 \in Nat /\ ends[i + 1] \in Nat
      BY <1>30, PartsFacts DEF WriteRecords, IInv, ForkInv
    <2>3. \A n \in 1 .. k : Array(i)[sent[i] + n] \in Nat
      <3>1. i < Len(ends) /\ sent[i] + toWrite[i] <= Share(i) /\ Share(i) \in Nat
        BY <1>30, <2>2, PartsFacts DEF WriteRecords, IInv, RoomInv
      <3>2. \A n \in 1 .. k : sent[i] + n \in 1 .. Share(i)
        BY <2>1, <3>1
      <3> QED
        BY <1>0, <3>1, <3>2, ArrayKeys
    <2>4. \A n \in 1 .. k : some[n] \in Unit
      BY <2>3 DEF Unit
    <2>5. some \in Seq(Unit)
      <3>1. k \in Nat
        BY <2>1
      <3>2. some \in [1 .. k -> Unit]
        BY <2>4
      <3> HIDE DEF k, some
      <3> QED
        BY <3>1, <3>2, Units
    <2>6. pipe' \in [Sorter -> Seq(Unit)]
      BY <1>30, <2>1, <2>5, <1>0, Extend DEF WriteRecords, ShapeInv
    <2>9. sent[i] + k \in Nat /\ toWrite[i] - k \in Nat
      BY <2>1
    <2>7. sent' \in [Sorter -> Nat] /\ toWrite' \in [Sorter -> Nat]
      BY <1>30, <2>9, <1>0 DEF WriteRecords, ShapeInv
    <2> QED
      BY <1>30, <2>6, <2>7, <1>0 DEF ShapeInv, WriteRecords
  <1>31. ASSUME NEW i \in Sorter, WriteTime(i) PROVE ShapeInv'
    <2>1. PICK ticks \in 0 .. 1 :
            pipe' = [pipe EXCEPT ![i] = Append(@, <<"time", ticks>>)]
      BY <1>31 DEF WriteTime
    <2>2. <<"time", ticks>> \in Unit /\ pipe[i] \in Seq(Unit)
      <3>1. <<"time", ticks>> \in Unit
        BY DEF Unit
      <3> QED
        BY <3>1, <1>0 DEF ShapeInv
    <2>3. pipe' \in [Sorter -> Seq(Unit)]
      BY <2>1, <2>2, <1>0 DEF ShapeInv
    <2> QED
      BY <1>31, <2>3, <1>0 DEF ShapeInv, WriteTime
  <1>32. ASSUME NEW i \in Sorter, BreakPipe(i) PROVE ShapeInv'
    BY <1>32, <1>0
       DEF ShapeInv, BreakPipe
  <1>33. ASSUME NEW i \in Sorter, Close(i) PROVE ShapeInv'
    BY <1>33, <1>0
       DEF ShapeInv, Close
  <1>34. ASSUME NEW i \in Sorter, Exit(i) PROVE ShapeInv'
    BY <1>34, <1>0
       DEF ShapeInv, Exit
  <1>35. CASE UNCHANGED vars
    BY <1>35, <1>0
       DEF ShapeInv, vars
  <1> QED
    BY <1>1, <1>2, <1>3, <1>4, <1>5, <1>6, <1>7, <1>8, <1>9, <1>10, <1>11,
       <1>12, <1>13, <1>14, <1>15, <1>16, <1>17, <1>18, <1>19, <1>20, <1>21,
       <1>22, <1>23, <1>24, <1>25, <1>26, <1>27, <1>28, <1>29, <1>30, <1>31,
       <1>32, <1>33, <1>34, <1>35
       DEF Next, CoachRuns, SorterRuns

\* A step that leaves the sorters and what the coach polls alone.
LEMMA ForkKept ==
  ASSUME ForkInv, Sorter' = Sorter, UNCHANGED <<ends, child, sflag, listening>>,
         disturbed => disturbed', cpc' \notin Leaving => cpc \notin Leaving
  PROVE  ForkInv'
  BY DEF ForkInv

\* The sorters that are forked, polled and in error, in every step.
LEMMA ForkStep == IInv /\ [Next]_vars => ForkInv'
  <1> SUFFICES ASSUME IInv, [Next]_vars PROVE ForkInv'
    OBVIOUS
  <1> USE DEF Goto, EnterForce, Onward, poller, sorters, histories, coach,
              Leaving, Sorts, Dead
  <1>0. /\ ForkInv /\ ShapeInv /\ ContractInv
        /\ Sorter' = Sorter
        /\ cpc = "spawn" => idx \in Sorter /\ Len(ends) = idx
        /\ NumOfSorters \in {1, 2, 4, 8} /\ Sorter = 0 .. NumOfSorters - 1
    BY PartsFacts, SameParts DEF IInv, PartsInv
  <1>1. CASE CheckUnset
    BY <1>1, <1>0, ForkKept DEF CheckUnset
  <1>2. CASE CheckFlag
    BY <1>2, <1>0, ForkKept DEF CheckFlag
  <1>3. CASE Spawn
    <2>1. /\ idx \in Sorter /\ child' = [child EXCEPT ![idx] = "forked"]
          /\ listening' = listening \cup {idx}
          /\ UNCHANGED <<sflag, disturbed>> /\ cpc = "spawn"
      BY <1>3, <1>0 DEF Spawn
    <2>2. Len(ends') = Len(ends) + 1
      BY <1>3 DEF Spawn, IInv, PartsInv
    <2>3. \A i \in Sorter : child'[i] = IF i = idx THEN "forked" ELSE child[i]
      BY <2>1, <1>0 DEF ShapeInv
    <2>4. ASSUME NEW i \in Sorter
          PROVE  child'[i] = "none" <=> i >= Len(ends')
      <3>1. child[i] = "none" <=> i >= Len(ends)
        BY <1>0 DEF ForkInv
      <3>2. i \in Int /\ Len(ends) = idx /\ Len(ends') = idx + 1
        BY <1>0, <2>1, <2>2
      <3> QED
        BY <3>1, <3>2, <2>3
    <2> QED
      BY <2>1, <2>3, <2>4, <1>0 DEF ForkInv
  <1>4. CASE SpawnFails
    BY <1>4, <1>0, ForkKept DEF SpawnFails
  <1>5. CASE Poll
    BY <1>5, <1>0, ForkKept DEF Poll
  <1>6. CASE PollInterrupted
    BY <1>6, <1>0, ForkKept DEF PollInterrupted
  <1>7. CASE LeaveLoop
    BY <1>7, <1>0, ForkKept DEF LeaveLoop
  <1>8. CASE Skip
    BY <1>8, <1>0, ForkKept DEF Skip
  <1>9. CASE ReadCount
    BY <1>9, <1>0, ForkKept DEF ReadCount
  <1>10. CASE ReadRecords
    BY <1>10, <1>0, ForkKept DEF ReadRecords
  <1>11. CASE ReadTime
    BY <1>11, <1>0, ForkKept DEF ReadTime
  <1>12. CASE HangUp
    BY <1>12, <1>0, ForkKept DEF HangUp
  <1>13. CASE Reap
    <2>1. /\ idx \in Sorter /\ child[idx] \in Dead /\ cpc \notin Leaving
          /\ listening' = listening \/ listening' = listening \ {idx}
          /\ UNCHANGED <<ends, child, sflag, disturbed>>
      BY <1>13, <1>0 DEF Reap, ShapeInv, InLoop
    <2> QED
      BY <2>1, <1>0 DEF ForkInv
  <1>14. CASE ReadText
    BY <1>14, <1>0, ForkKept DEF ReadText
  <1>15. CASE WriteResults
    BY <1>15, <1>0, ForkKept DEF WriteResults
  <1>16. CASE WriteFails
    BY <1>16, <1>0, ForkKept DEF WriteFails
  <1>17. CASE Report
    BY <1>17, <1>0, ForkKept DEF Report
  <1>18. CASE TryWait
    BY <1>18, <1>0, ForkKept DEF TryWait
  <1>19. CASE Kill
    <2>1. /\ cpc' = "wait" /\ UNCHANGED ends
          /\ \A i \in Sorter : child'[i] = "none" <=> child[i] = "none"
      BY <1>19, <1>0 DEF Kill, ShapeInv
    <2> QED
      BY <2>1, <1>0 DEF ForkInv
  <1>20. CASE Wait
    BY <1>20, <1>0, ForkKept DEF Wait
  <1>21. CASE ForceExit
    BY <1>21, <1>0, ForkKept DEF ForceExit
  <1>22. CASE TakeSignals
    BY <1>22, <1>0, ForkKept DEF TakeSignals
  <1>23. CASE Stop
    BY <1>23, <1>0, ForkKept DEF Stop
  <1>24. ASSUME NEW i \in Sorter, Exec(i) PROVE ForkInv'
    BY <1>24, <1>0 DEF Exec, ForkInv, ShapeInv, ContractInv
  <1>25. ASSUME NEW i \in Sorter, FailStart(i) PROVE ForkInv'
    BY <1>25, <1>0 DEF FailStart, ForkInv, ShapeInv, ContractInv
  <1>26. ASSUME NEW i \in Sorter, ExitFailure(i) PROVE ForkInv'
    BY <1>26, <1>0 DEF ExitFailure, ForkInv, ShapeInv, ContractInv
  <1>27. ASSUME NEW i \in Sorter, Crash(i) PROVE ForkInv'
    BY <1>27, <1>0 DEF Crash, ForkInv, ShapeInv, ContractInv
  <1>28. ASSUME NEW i \in Sorter, Sort(i) PROVE ForkInv'
    BY <1>28, <1>0 DEF Sort, ForkInv, ShapeInv, ContractInv
  <1>29. ASSUME NEW i \in Sorter, WriteCount(i) PROVE ForkInv'
    BY <1>29, <1>0, ForkKept DEF WriteCount
  <1>30. ASSUME NEW i \in Sorter, WriteRecords(i) PROVE ForkInv'
    BY <1>30, <1>0, ForkKept DEF WriteRecords
  <1>31. ASSUME NEW i \in Sorter, WriteTime(i) PROVE ForkInv'
    BY <1>31, <1>0 DEF WriteTime, ForkInv, ShapeInv, ContractInv
  <1>32. ASSUME NEW i \in Sorter, BreakPipe(i) PROVE ForkInv'
    BY <1>32, <1>0 DEF BreakPipe, ForkInv, ShapeInv, ContractInv
  <1>33. ASSUME NEW i \in Sorter, Close(i) PROVE ForkInv'
    BY <1>33, <1>0 DEF Close, ForkInv, ShapeInv, ContractInv
  <1>34. ASSUME NEW i \in Sorter, Exit(i) PROVE ForkInv'
    BY <1>34, <1>0 DEF Exit, ForkInv, ShapeInv, ContractInv
  <1>35. CASE UNCHANGED vars
    BY <1>35, <1>0, ForkKept DEF vars
  <1> QED
    BY <1>1, <1>2, <1>3, <1>4, <1>5, <1>6, <1>7, <1>8, <1>9, <1>10, <1>11,
       <1>12, <1>13, <1>14, <1>15, <1>16, <1>17, <1>18, <1>19, <1>20, <1>21,
       <1>22, <1>23, <1>24, <1>25, <1>26, <1>27, <1>28, <1>29, <1>30, <1>31,
       <1>32, <1>33, <1>34, <1>35
       DEF Next, CoachRuns, SorterRuns

-------------------------------------------------------------------------------
(* The pipes.  First what a step does to the pipe of the sorter it is about. *)

\* What StreamOf() says of a sorter is about its own pipe.
Apart(i) ==
  /\ UNCHANGED <<child[i], pipe[i], have[i], sent[i], toWrite[i], NumOfRecords>>
  /\ Share(i)' = Share(i) /\ Array(i)' = Array(i)
  /\ i \in timed => i \in timed'
  /\ Reading(i)' <=> Reading(i)
  /\ Reading(i) => toRead' = toRead
  /\ (cpc = "time" /\ idx = i) => (cpc' = "time" /\ idx' = i)

\* A step that leaves all of that alone leaves the pipe as it should be.
LEMMA StreamApart ==
  ASSUME NEW i \in Sorter, StreamOf(i), Apart(i)
  PROVE  StreamOf(i)'
  <1> USE DEF Apart
  <1>2. \A k, n : /\ RecordsFrom(i, k, n) => RecordsFrom(i, k, n)'
                  /\ IsChunk(i, k, n) => IsChunk(i, k, n)'
    BY DEF RecordsFrom, IsChunk
  <1>3. \A k, n : /\ Announced(i, k, n) => Announced(i, k, n)'
                  /\ Chunked(i, k, n) => Chunked(i, k, n)'
                  /\ LastChunk(i, k, n) => LastChunk(i, k, n)'
                  /\ NextAnnounced(i, n) => NextAnnounced(i, n)'
    BY <1>2 DEF Announced, Chunked, LastChunk, NextAnnounced, IsTime
  <1>4. CASE Sending(i)
    BY <1>2, <1>3, <1>4 DEF StreamOf, Sending
  <1>5. CASE Receiving(i)
    <2>1. /\ Reading(i)' /\ IsChunk(i, have[i], toRead)'
      BY <1>2, <1>5 DEF Receiving
    <2>2. toRead' = toRead
      BY <1>5 DEF Receiving
    <2> QED
      BY <1>2, <1>3, <1>5, <2>1, <2>2 DEF StreamOf, Receiving
  <1>6. CASE child[i] \in {"none", "forked", "loading", "killed"} /\ Fresh(i)
    BY <1>6 DEF StreamOf, Fresh
  <1>7. CASE Failed(i) \/ Idle(i) \/ OnlyTime(i) \/ TimeTaken(i)
    BY <1>7 DEF StreamOf, Failed, Idle, OnlyTime, TimeTaken, IsTime, Garbage
  <1> QED
    BY <1>4, <1>5, <1>6, <1>7 DEF StreamOf

\* The types of what a sorter has to do with.
Typed(i) ==
  /\ pipe[i] \in Seq(Unit) /\ have[i] \in Nat
  /\ sent[i] \in Nat /\ toWrite[i] \in Nat /\ Share(i) \in Nat

\* The part of a sorter once it is forked.
SamePart(i) == Share(i)' = Share(i) /\ Array(i)' = Array(i)

\* The coach takes the first unit of the pipe for a number: it is one, except that
\* a sorter without records has written nothing but its run time.
LEMMA StreamReadCount ==
  ASSUME NEW i \in Sorter, StreamOf(i), Typed(i), SamePart(i),
         NumOfRecords' = NumOfRecords,
         cpc = "scan", pipe[i] # <<>>, cpc' = "body", idx' = i,
         toRead' = AsCount(Head(pipe[i])), pipe'[i] = Tail(pipe[i]),
         UNCHANGED <<child[i], have[i], sent[i], toWrite[i]>>
  PROVE  StreamOf(i)'
  <1> USE DEF SamePart
  <1>1. /\ pipe[i][1] = Head(pipe[i]) /\ Len(pipe'[i]) = Len(pipe[i]) - 1
        /\ \A j \in 1 .. Len(pipe[i]) - 1 : pipe'[i][j] = pipe[i][1 + j]
        /\ Len(pipe[i]) = 1 => pipe'[i] = <<>>
        /\ Len(pipe[i]) \in Nat
    BY CutHead DEF Typed
  <1>2. ~Reading(i) /\ Reading(i)'
    BY DEF Reading
  <1>3. CASE Failed(i)
    BY <1>3 DEF StreamOf, Failed
  <1>4. CASE OnlyTime(i)
    <2>1. toRead' \in {0, Garbage'}
      BY <1>1, <1>4 DEF OnlyTime, IsTime, AsCount, Garbage
    <2>2. TimeTaken(i)'
      BY <1>1, <1>2, <1>4, <2>1 DEF OnlyTime, TimeTaken
    <2> QED
      BY <2>2 DEF StreamOf
  <1>5. CASE Sending(i)
    <2>1. PICK n \in 1 .. PipeSz - 1 :
             /\ IsChunk(i, have[i], n) /\ pipe[i][1] = <<"count", n>>
             /\ Announced(i, 1, n) \/ Chunked(i, 1, n) \/ LastChunk(i, 1, n)
      BY <1>5 DEF Sending
    <2>2. toRead' = n /\ n \in Nat
      BY <1>1, <2>1, PipeAssumption DEF AsCount
    <2>3. IsChunk(i, have[i], toRead)'
      BY <2>1, <2>2 DEF IsChunk
    <2>4. RecordsFrom(i, 1, n) /\ Len(pipe[i]) >= n + 1 => RecordsFrom(i, 0, toRead)'
      BY <1>1, <2>2 DEF RecordsFrom
    <2>5. CASE Announced(i, 1, n)
      BY <1>1, <1>2, <2>2, <2>3, <2>5 DEF StreamOf, Receiving, Announced
    <2>6. CASE Chunked(i, 1, n)
      BY <1>1, <1>2, <2>2, <2>3, <2>4, <2>6 DEF StreamOf, Receiving, Chunked
    <2>7. CASE LastChunk(i, 1, n)
      <3>1. Len(pipe[i]) = n + 2 /\ RecordsFrom(i, 1, n) /\ IsTime(pipe[i][n + 2])
        BY <2>2, <2>7 DEF LastChunk
      <3>2. Len(pipe'[i]) = n + 1 /\ IsTime(pipe'[i][n + 1])
        BY <1>1, <2>2, <3>1 DEF IsTime
      <3>3. LastChunk(i, 0, toRead)'
        <4>1. RecordsFrom(i, 0, toRead)'
          BY <2>2, <2>4, <3>1
        <4>2. 0 + toRead' + 1 = n + 1
          BY <2>2
        <4>3. sent'[i] = have'[i] + toRead' /\ sent'[i] = Share(i)'
          BY <2>2, <2>7 DEF LastChunk
        <4> QED
          BY <2>7, <3>2, <4>1, <4>2, <4>3 DEF LastChunk, IsTime
      <3> QED
        BY <1>2, <2>3, <3>3 DEF StreamOf, Receiving
    <2> QED
      BY <2>1, <2>5, <2>6, <2>7
  <1> QED
    BY <1>2, <1>3, <1>4, <1>5 DEF StreamOf, Fresh, Idle, TimeTaken, Receiving

\* The coach reads the records it has read the number of, all of them and nothing
\* else, unless the number was the run time of a sorter without records.
LEMMA StreamReadRecords ==
  ASSUME NEW i \in Sorter, StreamOf(i), Typed(i), SamePart(i),
         i \in timed => i \in timed',
         Reading(i), toRead \in Nat, toRead = 0 \/ CanRead(i), cpc' # "body",
         ~Failed(i), NumOfRecords \in Nat,
         pipe'[i] = SubSeq(pipe[i], Got(i, toRead) + 1, Len(pipe[i])),
         have'[i] = have[i] + toRead,
         have'[i] = Share(i) => cpc' = "time" /\ idx' = i,
         UNCHANGED <<child[i], sent[i], toWrite[i]>>
  PROVE  /\ have'[i] <= Share(i) =>
              /\ StreamOf(i)' /\ Got(i, toRead) = toRead
              /\ toRead <= Len(pipe[i]) /\ RecordsFrom(i, 0, toRead)
         /\ have'[i] > Share(i) => Share(i) = 0
  <1> USE DEF SamePart
  <1>1. /\ Got(i, toRead) \in 0 .. Len(pipe[i]) /\ Len(pipe[i]) \in Nat
        /\ toRead <= Len(pipe[i]) => Got(i, toRead) = toRead
    <2>1. Len(pipe[i]) \in Nat
      BY DEF Typed
    <2>2. Got(i, toRead) = IF toRead <= Len(pipe[i]) THEN toRead ELSE Len(pipe[i])
      BY <2>1, MinOfTwo DEF Got
    <2> QED
      BY <2>1, <2>2
  <1>6. have[i] \in Nat /\ have'[i] \in Nat /\ Share(i) \in Nat /\ sent[i] \in Nat
    BY DEF Typed
  <1>2. /\ Len(pipe'[i]) = Len(pipe[i]) - Got(i, toRead)
        /\ \A j \in 1 .. Len(pipe[i]) - Got(i, toRead) :
             pipe'[i][j] = pipe[i][Got(i, toRead) + j]
        /\ Len(pipe[i]) = Got(i, toRead) => pipe'[i] = <<>>
    <2>1. \A s \in Seq(Unit), k \in Nat : k <= Len(s) =>
            /\ Len(SubSeq(s, k + 1, Len(s))) = Len(s) - k
            /\ \A j \in 1 .. Len(s) - k : SubSeq(s, k + 1, Len(s))[j] = s[k + j]
            /\ k = Len(s) => SubSeq(s, k + 1, Len(s)) = <<>>
      BY Cut
    <2>2. pipe[i] \in Seq(Unit) /\ Got(i, toRead) \in Nat
      BY <1>1 DEF Typed
    <2>3. Got(i, toRead) <= Len(pipe[i])
      BY <1>1
    <2> QED
      BY <2>1, <2>2, <2>3
  <1>3. ~Reading(i)'
    BY DEF Reading
  <1>4. CASE TimeTaken(i)
    <2>1. Len(pipe[i]) = 0 /\ pipe'[i] = <<>>
      BY <1>1, <1>2, <1>4 DEF TimeTaken
    <2>2. CASE toRead = 0
      <3>1. Idle(i)'
        BY <1>3, <1>4, <2>1, <2>2 DEF TimeTaken, Idle, TimedPc
      <3>2. RecordsFrom(i, 0, toRead)
        BY <2>2 DEF RecordsFrom
      <3> QED
        BY <1>1, <1>4, <2>1, <2>2, <3>1, <3>2 DEF StreamOf, TimeTaken
    <2>3. CASE toRead = Garbage
      BY <1>4, <2>3 DEF TimeTaken, Garbage
    <2> QED
      BY <1>4, <2>2, <2>3 DEF TimeTaken
  <1>5. CASE Receiving(i)
    <2>1. /\ IsChunk(i, have[i], toRead) /\ have'[i] <= Share(i)
          /\ toRead >= 1
      BY <1>5 DEF Receiving, IsChunk, Typed
    <2>2. ~Announced(i, 0, toRead)
      BY <2>1, <1>1 DEF Announced, CanRead, WriterOpen, Dead, Typed
    <2>6. ASSUME StreamOf(i)', toRead <= Len(pipe[i]), RecordsFrom(i, 0, toRead)
          PROVE  /\ have'[i] <= Share(i) =>
                      /\ StreamOf(i)' /\ Got(i, toRead) = toRead
                      /\ toRead <= Len(pipe[i]) /\ RecordsFrom(i, 0, toRead)
                 /\ have'[i] > Share(i) => Share(i) = 0
      BY <1>1, <1>6, <2>1, <2>6
    <2>3. CASE Chunked(i, 0, toRead)
      <3>1. Len(pipe[i]) = toRead /\ RecordsFrom(i, 0, toRead)
        BY <2>3 DEF Chunked
      <3>2. Idle(i)'
        BY <1>1, <1>2, <1>3, <1>6, <2>1, <2>3, <3>1 DEF Chunked, Idle
      <3> QED
        BY <2>6, <3>1, <3>2 DEF StreamOf
    <2>4. CASE LastChunk(i, 0, toRead)
      <3>1. /\ Len(pipe[i]) = toRead + 1 /\ RecordsFrom(i, 0, toRead)
            /\ IsTime(pipe[i][toRead + 1])
        BY <2>4 DEF LastChunk
      <3>2. Got(i, toRead) = toRead
        BY <1>1, <3>1
      <3>3. Len(pipe'[i]) = 1 /\ IsTime(pipe'[i][1])
        BY <1>2, <3>1, <3>2 DEF IsTime
      <3>4. OnlyTime(i)'
        BY <1>3, <1>6, <2>1, <2>4, <3>3 DEF LastChunk, OnlyTime, IsTime
      <3> QED
        BY <2>6, <3>1, <3>4 DEF StreamOf
    <2>5. CASE NextAnnounced(i, toRead)
      <3>1. /\ Len(pipe[i]) = toRead + 1 /\ RecordsFrom(i, 0, toRead)
            /\ pipe[i][toRead + 1] = <<"count", toWrite[i]>>
            /\ IsChunk(i, have[i] + toRead, toWrite[i])
        BY <2>5 DEF NextAnnounced
      <3>2. Got(i, toRead) = toRead
        BY <1>1, <3>1
      <3>3. Len(pipe'[i]) = 1 /\ pipe'[i][1] = <<"count", toWrite[i]>>
        BY <1>2, <3>1, <3>2
      <3>4. toWrite[i] \in 1 .. PipeSz - 1 /\ IsChunk(i, have[i], toWrite[i])'
        BY <3>1 DEF IsChunk
      <3>5. Announced(i, 1, toWrite[i])'
        BY <2>5, <3>3 DEF NextAnnounced, Announced
      <3>6. Sending(i)'
        BY <1>3, <3>3, <3>4, <3>5 DEF Sending
      <3> QED
        BY <2>6, <3>1, <3>6 DEF StreamOf
    <2> QED
      BY <1>5, <2>2, <2>3, <2>4, <2>5 DEF Receiving
  <1> QED
    BY <1>4, <1>5 DEF StreamOf, Fresh, Idle, OnlyTime, Sending

\* After the last record comes the run time, or nothing because it has been read.
LEMMA StreamReadTime ==
  ASSUME NEW i \in Sorter, StreamOf(i), Typed(i), SamePart(i), CanRead(i),
         cpc = "time", have[i] = Share(i), cpc' # "body",
         timed' = IF pipe[i] # <<>> THEN timed \cup {i} ELSE timed,
         pipe'[i] = SubSeq(pipe[i], 2, Len(pipe[i])),
         UNCHANGED <<child[i], have[i], sent[i], toWrite[i]>>
  PROVE  /\ StreamOf(i)'
         /\ Share(i) > 0 /\ ~Failed(i) => i \in timed' /\ child[i] \in TimedPc
  <1> USE DEF SamePart
  <1>1. /\ pipe[i] = <<>> => pipe'[i] = <<>>
        /\ Len(pipe[i]) = 1 => pipe'[i] = <<>>
        /\ Len(pipe[i]) = 1 => pipe[i] # <<>>
    <2>1. pipe[i] \in Seq(Unit)
      BY DEF Typed
    <2>2. Len(pipe[i]) = 1 => pipe'[i] = <<>>
      BY <2>1, CutOne
    <2>3. pipe[i] = <<>> => pipe'[i] = <<>>
      BY <2>1, CutOne
    <2>4. Len(pipe[i]) = 1 => pipe[i] # <<>>
      <3>1. Len(<<>>) = 0
        OBVIOUS
      <3>2. pipe[i] = <<>> => Len(pipe[i]) = Len(<<>>)
        BY Zenon
      <3> QED
        BY <3>1, <3>2
    <2> QED
      BY <2>2, <2>3, <2>4
  <1>2. ~Reading(i) /\ ~Reading(i)' /\ Share(i) \in Nat
    BY DEF Reading, Typed
  <1>3. CASE child[i] \in {"none", "forked", "loading", "killed"} /\ Fresh(i)
    BY <1>1, <1>2, <1>3 DEF StreamOf, Fresh
  <1>4. CASE Failed(i)
    BY <1>4 DEF StreamOf, Failed
  <1>5. CASE Idle(i)
    <2>1. Idle(i)'
      BY <1>1, <1>2, <1>5 DEF Idle
    <2>2. Share(i) > 0 => i \in timed' /\ child[i] \in TimedPc
      BY <1>5 DEF Idle, CanRead, WriterOpen, Dead
    <2> QED
      BY <2>1, <2>2 DEF StreamOf
  <1>6. CASE OnlyTime(i)
    <2>1. pipe'[i] = <<>> /\ i \in timed' /\ child[i] \in TimedPc
      BY <1>1, <1>6 DEF OnlyTime
    <2>2. Idle(i)'
      BY <1>2, <1>6, <2>1 DEF OnlyTime, Idle
    <2> QED
      BY <2>1, <2>2 DEF StreamOf
  <1>7. CASE Sending(i)
    BY <1>2, <1>7 DEF Sending, IsChunk
  <1> QED
    BY <1>2, <1>3, <1>4, <1>5, <1>6, <1>7 DEF StreamOf, TimeTaken, Receiving

\* A sorter writes, and the coach does nothing.
Writes(i) ==
  /\ child[i] = "writing" /\ Free(i) > 0
  /\ UNCHANGED <<cpc, idx, toRead, timed, have[i], NumOfRecords>>
  /\ SamePart(i) /\ Typed(i) /\ Typed(i)'

\* The next number is written when the last chunk has left the pipe, except that
\* the coach may have read its number only.
LEMMA StreamWriteCount ==
  ASSUME NEW i \in Sorter, StreamOf(i), Writes(i),
         toWrite[i] = 0, sent[i] < Share(i), toWrite'[i] = Chunk(i),
         pipe'[i] = Append(pipe[i], <<"count", Chunk(i)>>),
         UNCHANGED <<child[i], sent[i]>>
  PROVE  StreamOf(i)'
  <1> USE DEF SamePart, Writes
  <1> PICK n : n = Chunk(i)
    OBVIOUS
  <1>1. /\ have[i] \in Nat /\ sent[i] \in Nat /\ Share(i) \in Nat
        /\ Len(pipe[i]) \in Nat /\ pipe[i] \in Seq(Unit)
        /\ Reading(i)' <=> Reading(i)
    BY DEF Typed, Reading
  <1>2. n \in 1 .. PipeSz - 1 /\ IsChunk(i, sent[i], n)
    <2>1. n = IF PipeSz - 1 <= Share(i) - sent[i]
              THEN PipeSz - 1 ELSE Share(i) - sent[i]
      BY <1>1, MinOfTwo, PipeAssumption DEF Chunk
    <2> QED
      BY <1>1, <2>1, PipeAssumption DEF IsChunk
  <1>3. /\ Len(pipe'[i]) = Len(pipe[i]) + 1
        /\ pipe'[i][Len(pipe[i]) + 1] = <<"count", n>>
        /\ \A j \in 1 .. Len(pipe[i]) : pipe'[i][j] = pipe[i][j]
    BY <1>1
  <1>4. toWrite'[i] = n
    OBVIOUS
  <1>5. CASE Idle(i)
    <2>1. sent[i] = have[i] /\ ~Reading(i)' /\ Len(pipe[i]) = 0
      BY <1>1, <1>5 DEF Idle
    <2>2. IsChunk(i, have[i], n)'
      BY <1>2, <2>1 DEF IsChunk
    <2>3. Announced(i, 1, n)' /\ pipe'[i][1] = <<"count", n>>
      BY <1>3, <1>4, <2>1 DEF Announced
    <2>4. Sending(i)'
      BY <1>2, <2>1, <2>2, <2>3 DEF Sending
    <2> QED
      BY <2>4 DEF StreamOf
  <1>6. CASE Sending(i)
    <2>1. PICK m \in 1 .. PipeSz - 1 :
             /\ IsChunk(i, have[i], m)
             /\ Announced(i, 1, m) \/ Chunked(i, 1, m) \/ LastChunk(i, 1, m)
      BY <1>6 DEF Sending
    <2>2. m \in Nat /\ m >= 1
      BY <2>1, PipeAssumption
    <2>3. Len(pipe[i]) = 1 + m /\ sent[i] = have[i] + m
      BY <2>1, <2>2 DEF Announced, Chunked, LastChunk, TimedPc
    <2> QED
      BY <1>1, <2>1, <2>2, <2>3, PipeAssumption DEF IsChunk, Free
  <1>7. CASE Receiving(i)
    <2>1. /\ Reading(i)' /\ IsChunk(i, have[i], toRead)' /\ toRead \in Nat
          /\ toRead >= 1
      BY <1>1, <1>7, PipeAssumption DEF Receiving, IsChunk
    <2>2. Chunked(i, 0, toRead)
      BY <1>7, <2>1, <1>1, PipeAssumption
         DEF Receiving, Announced, LastChunk, NextAnnounced, TimedPc, IsChunk
    <2>3. Len(pipe[i]) = toRead /\ sent[i] = have[i] + toRead
      BY <2>1, <2>2 DEF Chunked
    <2>4. RecordsFrom(i, 0, toRead)'
      BY <1>3, <2>1, <2>2, <2>3 DEF Chunked, RecordsFrom
    <2>5. IsChunk(i, have[i] + toRead, toWrite[i])'
      BY <1>2, <1>4, <2>3 DEF IsChunk
    <2>6. NextAnnounced(i, toRead)'
      BY <1>3, <1>4, <2>3, <2>4, <2>5 DEF NextAnnounced
    <2> QED
      BY <2>1, <2>6 DEF StreamOf, Receiving
  <1> QED
    BY <1>5, <1>6, <1>7
       DEF StreamOf, Failed, OnlyTime, TimeTaken, TimedPc

\* A chunk is written at once, for there is room for it.
LEMMA StreamWriteRecords ==
  ASSUME NEW i \in Sorter, StreamOf(i), Writes(i), toWrite[i] > 0,
         NEW k, k = IF toWrite[i] <= Free(i) THEN toWrite[i] ELSE Free(i),
         Len(pipe'[i]) = Len(pipe[i]) + k,
         \A j \in 1 .. Len(pipe[i]) : pipe'[i][j] = pipe[i][j],
         \A r \in 1 .. k :
           pipe'[i][Len(pipe[i]) + r] = <<"record", Array(i)[sent[i] + r]>>,
         sent'[i] = sent[i] + k, toWrite'[i] = toWrite[i] - k,
         UNCHANGED child[i]
  PROVE  StreamOf(i)'
  <1>1. /\ have[i] \in Nat /\ sent[i] \in Nat /\ Share(i) \in Nat
        /\ Len(pipe[i]) \in Nat /\ pipe[i] \in Seq(Unit) /\ toWrite[i] \in Nat
        /\ Free(i) = PipeSz - Len(pipe[i]) /\ Free(i) > 0 /\ PipeSz \in Nat
    BY PipeAssumption DEF Writes, Typed, Free
  <1>0. /\ child[i] = "writing" /\ (Reading(i)' <=> Reading(i))
        /\ UNCHANGED <<toRead, have[i]>>
        /\ Share(i)' = Share(i) /\ Array(i)' = Array(i)
    BY DEF Writes, SamePart, Reading
  <1>6. ASSUME NEW n \in 1 .. PipeSz - 1, NEW u \in 0 .. 1, Announced(i, u, n)
        PROVE  /\ Chunked(i, u, n)' /\ toWrite[i] = n
               /\ u = 1 => pipe'[i][1] = pipe[i][1]
    <2>1. Len(pipe[i]) = u /\ toWrite[i] = n /\ sent[i] = have[i] /\ n \in Nat
      BY <1>6, PipeAssumption DEF Announced
    <2>2. k = n
      BY <1>1, <2>1
    <2>3. RecordsFrom(i, u, n)'
      <3>1. \A r \in 1 .. n : pipe'[i][u + r] = <<"record", Array(i)[sent[i] + r]>>
        BY <2>1, <2>2
      <3> QED
        BY <1>0, <2>1, <3>1 DEF RecordsFrom
    <2> QED
      <3>1. /\ Len(pipe'[i]) = u + n /\ toWrite'[i] = 0
            /\ sent'[i] = have'[i] + n /\ child'[i] = "writing"
        BY <1>0, <1>1, <2>1, <2>2
      <3>2. u = 1 => pipe'[i][1] = pipe[i][1]
        BY <2>1
      <3> QED
        BY <2>1, <2>3, <3>1, <3>2 DEF Chunked
  <1>7. CASE Sending(i)
    <2>1. PICK n \in 1 .. PipeSz - 1 :
             /\ ~Reading(i) /\ IsChunk(i, have[i], n) /\ pipe[i][1] = <<"count", n>>
             /\ Announced(i, 1, n) \/ Chunked(i, 1, n) \/ LastChunk(i, 1, n)
      BY <1>7 DEF Sending
    <2>2. Announced(i, 1, n)
      BY <2>1 DEF Chunked, LastChunk
    <2>3. Chunked(i, 1, n)' /\ pipe'[i][1] = pipe[i][1]
      <3>1. 1 \in 0 .. 1
        OBVIOUS
      <3> QED
        BY <1>6, <2>2, <3>1
    <2>4. IsChunk(i, have[i], n)'
      BY <1>0, <2>1 DEF IsChunk
    <2>5. ~Reading(i)'
      BY <1>0, <2>1
    <2> QED
      BY <2>1, <2>3, <2>4, <2>5 DEF StreamOf, Sending
  <1>8. CASE Receiving(i)
    <2>1. Reading(i) /\ IsChunk(i, have[i], toRead) /\ toRead \in 1 .. PipeSz - 1
      BY <1>8 DEF Receiving, IsChunk
    <2>2. ~NextAnnounced(i, toRead)
      <3> SUFFICES ASSUME NextAnnounced(i, toRead) PROVE FALSE
        OBVIOUS
      <3>1. Len(pipe[i]) = toRead + 1 /\ toWrite[i] >= 1
            /\ have[i] + toRead + toWrite[i] <= Share(i)
        BY DEF NextAnnounced, IsChunk
      <3>2. toRead # PipeSz - 1
        BY <1>1, <3>1
      <3> QED
        BY <1>1, <2>1, <3>1, <3>2 DEF IsChunk
    <2>3. Announced(i, 0, toRead)
      BY <1>8, <2>2 DEF Receiving, Chunked, LastChunk
    <2>4. Chunked(i, 0, toRead)'
      <3>1. PICK n \in 1 .. PipeSz - 1 : n = toRead
        BY <2>1
      <3>2. Chunked(i, 0, n)'
        BY <1>6, <2>3, <3>1
      <3>3. toRead' = n
        BY <1>0, <3>1
      <3> QED
        BY <3>2, <3>3 DEF Chunked, RecordsFrom
    <2>5. IsChunk(i, have[i], toRead)' /\ Reading(i)'
      BY <1>0, <2>1 DEF IsChunk
    <2> QED
      BY <2>4, <2>5 DEF StreamOf, Receiving
  <1> QED
    BY <1>0, <1>7, <1>8
       DEF StreamOf, Failed, Fresh, Idle, OnlyTime, TimeTaken, TimedPc

\* The run time follows the last chunk, or is alone when the coach waits for it.
LEMMA StreamWriteTime ==
  ASSUME NEW i \in Sorter, StreamOf(i), Writes(i), toWrite[i] = 0,
         sent[i] = Share(i), NEW unit \in Unit, IsTime(unit),
         pipe'[i] = Append(pipe[i], unit), child'[i] = "timed",
         have[i] = Share(i) /\ Share(i) > 0 => cpc = "time" /\ idx = i,
         UNCHANGED <<sent[i], toWrite[i]>>
  PROVE  StreamOf(i)'
  <1> USE DEF SamePart, Writes
  <1>1. /\ have[i] \in Nat /\ sent[i] \in Nat /\ Share(i) \in Nat
        /\ Len(pipe[i]) \in Nat /\ pipe[i] \in Seq(Unit)
        /\ Reading(i)' <=> Reading(i)
    BY DEF Typed, Reading
  <1>2. /\ Len(pipe'[i]) = Len(pipe[i]) + 1
        /\ pipe'[i][Len(pipe[i]) + 1] = unit
        /\ \A j \in 1 .. Len(pipe[i]) : pipe'[i][j] = pipe[i][j]
    BY <1>1
  <1>3. child'[i] \in TimedPc /\ child[i] \notin TimedPc
    BY DEF TimedPc
  <1>4. CASE Idle(i)
    <2>1. Len(pipe'[i]) = 1 /\ IsTime(pipe'[i][1])
      BY <1>2, <1>4 DEF Idle
    <2>2. have[i] = Share(i) /\ sent[i] = have[i] /\ ~Reading(i)'
      BY <1>1, <1>4 DEF Idle
    <2>3. Share(i) = 0 \/ (cpc = "time" /\ idx = i)
      BY <1>1, <2>2
    <2>4. OnlyTime(i)'
      BY <1>3, <2>1, <2>2, <2>3 DEF OnlyTime, IsTime
    <2> QED
      BY <2>4 DEF StreamOf
  <1>5. ASSUME NEW n \in 1 .. PipeSz - 1, NEW u \in 0 .. 1, Chunked(i, u, n)
        PROVE  /\ LastChunk(i, u, n)'
               /\ u = 1 => pipe'[i][1] = pipe[i][1]
    <2>1. Len(pipe[i]) = u + n /\ RecordsFrom(i, u, n) /\ n \in Nat
          /\ sent[i] = have[i] + n
      BY <1>5, PipeAssumption DEF Chunked
    <2>2. RecordsFrom(i, u, n)'
      <3>1. \A r \in 1 .. n : u + r \in 1 .. Len(pipe[i])
        BY <2>1
      <3>2. \A r \in 1 .. n : pipe'[i][u + r] = pipe[i][u + r]
        BY <1>2, <3>1
      <3>3. Array(i)' = Array(i) /\ have'[i] = have[i]
        OBVIOUS
      <3> QED
        BY <2>1, <3>2, <3>3 DEF RecordsFrom
    <2>3. Len(pipe'[i]) = u + n + 1 /\ IsTime(pipe'[i][u + n + 1])
      BY <1>2, <2>1
    <2> QED
      BY <1>2, <1>3, <2>1, <2>2, <2>3 DEF LastChunk, IsTime
  <1>6. CASE Sending(i)
    <2>1. PICK n \in 1 .. PipeSz - 1 :
             /\ ~Reading(i) /\ IsChunk(i, have[i], n) /\ pipe[i][1] = <<"count", n>>
             /\ Announced(i, 1, n) \/ Chunked(i, 1, n) \/ LastChunk(i, 1, n)
      BY <1>6 DEF Sending
    <2>2. Chunked(i, 1, n)
      BY <1>3, <2>1, PipeAssumption DEF Announced, LastChunk
    <2>3. LastChunk(i, 1, n)' /\ pipe'[i][1] = <<"count", n>>
      BY <1>5, <2>1, <2>2
    <2>4. IsChunk(i, have[i], n)' /\ ~Reading(i)'
      BY <1>1, <2>1 DEF IsChunk
    <2> QED
      BY <2>3, <2>4 DEF StreamOf, Sending
  <1>7. CASE Receiving(i)
    <2>1. Reading(i) /\ IsChunk(i, have[i], toRead) /\ toRead \in 1 .. PipeSz - 1
      BY <1>7 DEF Receiving, IsChunk
    <2>2. Chunked(i, 0, toRead)
      BY <1>3, <1>7, <2>1, PipeAssumption
         DEF Receiving, Announced, LastChunk, NextAnnounced, IsChunk
    <2>3. LastChunk(i, 0, toRead)'
      BY <1>5, <2>1, <2>2
    <2>4. IsChunk(i, have[i], toRead)' /\ Reading(i)'
      BY <1>1, <2>1 DEF IsChunk
    <2> QED
      BY <2>3, <2>4 DEF StreamOf, Receiving
  <1> QED
    BY <1>3, <1>4, <1>6, <1>7 DEF StreamOf, Failed, OnlyTime, TimeTaken

\* What every step leaves of a sorter's part, and the types of what is its own.
LEMMA PartKept ==
  ASSUME IInv, [Next]_vars, NEW j \in Sorter, ends' = ends
  PROVE  SamePart(j) /\ NumOfRecords' = NumOfRecords
  <1>1. UNCHANGED <<file, ends>> /\ NumOfRecords' = NumOfRecords
    BY SameParts DEF IInv
  <1> QED
    BY <1>1 DEF SamePart, Share, Array, Start

\* A sorter that is forked has a part, and what it has to do with has types.
LEMMA TypedPart ==
  ASSUME IInv, NEW j \in Sorter, child[j] # "none" \/ cpc \in Collecting
  PROVE  Typed(j) /\ j < Len(ends)
  <1>1. j < Len(ends)
    <2>1. j \in Int /\ Len(ends) \in Int /\ j < NumOfSorters
      BY PartsFacts DEF IInv
    <2>2. child[j] # "none" => j < Len(ends)
      BY <2>1 DEF IInv, ForkInv
    <2>3. cpc \in Collecting => Len(ends) = NumOfSorters
      BY PartsFacts DEF IInv
    <2> QED
      BY <2>1, <2>2, <2>3
  <1>2. Share(j) \in Nat
    BY <1>1, PartsFacts DEF IInv
  <1> QED
    BY <1>1, <1>2 DEF Typed, IInv, ShapeInv

\* A step of the coach that is not about sorter j.
LEMMA StreamKept ==
  ASSUME IInv, [Next]_vars, NEW j \in Sorter, cpc \notin Leaving, ends' = ends,
         UNCHANGED <<child[j], pipe[j], have[j], sent[j], toWrite[j]>>,
         j \in timed => j \in timed',
         \/ cpc \notin {"body", "time"} /\ cpc' # "body"
         \/ idx # j /\ (cpc' # "body" \/ idx' = idx)
         \/ UNCHANGED <<cpc, idx, toRead>>
  PROVE  StreamOf(j)'
  <1>1. StreamOf(j)
    BY DEF IInv, StreamInv
  <1>2. Apart(j)
    BY PartKept DEF Apart, SamePart, Reading
  <1> QED
    BY <1>1, <1>2, StreamApart

\* Forking the next sorter makes it one that has not written anything.
LEMMA StreamSpawn ==
  ASSUME IInv, [Next]_vars, Spawn, NEW j \in Sorter
  PROVE  StreamOf(j)'
  <1>1. /\ cpc = "spawn" /\ cpc' # "body" /\ idx \in Sorter /\ Len(ends) = idx
        /\ child' = [child EXCEPT ![idx] = "forked"]
        /\ UNCHANGED <<pipe, have, sent, toWrite, timed>>
    BY PartsFacts DEF Spawn, Goto, sorters, IInv, PartsInv
  <1>2. StreamOf(j) /\ j \in Int /\ idx \in Int
    BY <1>1, PartsFacts DEF IInv, StreamInv, Leaving
  <1>3. child'[j] = IF j = idx THEN "forked" ELSE child[j]
    BY <1>1 DEF IInv, ShapeInv
  <1>4. CASE j < idx
    <2>1. Apart(j)
      BY <1>1, <1>2, <1>3, <1>4, SameParts DEF IInv, Apart, Reading
    <2> QED
      BY <1>2, <2>1, StreamApart
  <1>5. CASE ~(j < idx)
    <2>1. child[j] = "none" /\ child'[j] \in {"none", "forked"}
      BY <1>1, <1>2, <1>3, <1>5 DEF IInv, ForkInv
    <2>2. Fresh(j)
      BY <1>2, <2>1
         DEF StreamOf, Failed, Idle, OnlyTime, TimeTaken, Sending, Receiving,
             Announced, Chunked, LastChunk, NextAnnounced, TimedPc
    <2>3. Fresh(j)'
      BY <1>1, <2>2 DEF Fresh, Reading
    <2> QED
      BY <2>1, <2>3 DEF StreamOf
  <1> QED
    BY <1>4, <1>5

\* A sorter goes on without writing.
LEMMA StreamMoves ==
  ASSUME NEW i \in Sorter, StreamOf(i), SamePart(i), NumOfRecords' = NumOfRecords,
         Share(i) \in Nat,
         UNCHANGED <<cpc, idx, toRead, timed, have[i], sent[i], toWrite[i]>>,
         \/ child'[i] \in {"error", "fail"}
         \/ /\ UNCHANGED pipe[i]
            /\ \/ child[i] \in {"forked", "loading"}
                    /\ child'[i] \in {"loading", "killed", "writing"}
               \/ child[i] \in TimedPc /\ child'[i] \in TimedPc
  PROVE  StreamOf(i)'
  <1> USE DEF SamePart
  <1>1. Reading(i)' <=> Reading(i)
    BY DEF Reading
  <1>2. CASE child'[i] \in {"error", "fail"}
    BY <1>2 DEF StreamOf, Failed
  <1>3. CASE /\ UNCHANGED pipe[i] /\ child[i] \in {"forked", "loading"}
             /\ child'[i] \in {"loading", "killed", "writing"}
    <2>1. Fresh(i)
      BY <1>3
         DEF StreamOf, Failed, Idle, OnlyTime, TimeTaken, Sending, Receiving,
             Announced, Chunked, LastChunk, NextAnnounced, TimedPc
    <2>2. CASE child'[i] = "writing"
      BY <1>1, <1>3, <2>1, <2>2 DEF StreamOf, Fresh, Idle
    <2>3. CASE child'[i] # "writing"
      BY <1>1, <1>3, <2>1, <2>3 DEF StreamOf, Fresh
    <2> QED
      BY <2>2, <2>3
  <1>4. CASE /\ UNCHANGED pipe[i]
             /\ child[i] \in TimedPc /\ child'[i] \in TimedPc
    <2>1. child[i] \notin {"none", "forked", "loading", "killed", "writing"}
          /\ ~Failed(i)
      BY <1>4 DEF TimedPc, Failed
    <2>2. CASE Idle(i) \/ OnlyTime(i) \/ TimeTaken(i)
      BY <1>1, <1>4, <2>1, <2>2
         DEF StreamOf, Idle, OnlyTime, TimeTaken, IsTime, Garbage
    <2>3. \A k, n : LastChunk(i, k, n) => LastChunk(i, k, n)'
      BY <1>4 DEF LastChunk, RecordsFrom, IsTime
    <2>4. \A k, n : /\ ~Announced(i, k, n) /\ ~Chunked(i, k, n)
                    /\ ~NextAnnounced(i, n)
                    /\ IsChunk(i, k, n) => IsChunk(i, k, n)'
      BY <2>1 DEF Announced, Chunked, NextAnnounced, IsChunk
    <2>5. CASE Sending(i)
      BY <1>1, <1>4, <2>3, <2>4, <2>5 DEF StreamOf, Sending
    <2>6. CASE Receiving(i)
      <3>1. IsChunk(i, have[i], toRead)' /\ LastChunk(i, 0, toRead)'
        BY <2>3, <2>4, <2>6 DEF Receiving
      <3> QED
        BY <1>1, <2>6, <3>1 DEF StreamOf, Receiving
    <2> QED
      BY <2>1, <2>2, <2>5, <2>6 DEF StreamOf
  <1> QED
    BY <1>2, <1>3, <1>4

\* What a read of records does to the sorter it is about.
LEMMA RecordsRead ==
  ASSUME IInv, [Next]_vars, ReadRecords, NEW i, i = idx
  PROVE  /\ i \in Sorter /\ Typed(i) /\ SamePart(i) /\ toRead \in Nat
         /\ have'[i] = have[i] + toRead
         /\ ~Failed(i) /\ have'[i] <= Share(i) =>
              /\ StreamOf(i)' /\ Got(i, toRead) = toRead
              /\ toRead <= Len(pipe[i]) /\ RecordsFrom(i, 0, toRead)
         /\ ~Failed(i) /\ have'[i] > Share(i) => Share(i) = 0
  <1> USE DEF Goto, EnterForce, Onward
  <1>1. /\ cpc = "body" /\ cpc' # "body" /\ i \in Sorter
        /\ toRead = 0 \/ CanRead(i)
        /\ UNCHANGED <<ends, child, sent, toWrite, timed>>
    BY DEF ReadRecords, IInv, ShapeInv, InLoop
  <1>2. /\ pipe'[i] = SubSeq(pipe[i], Got(i, toRead) + 1, Len(pipe[i]))
        /\ have'[i] = have[i] + toRead /\ toRead \in Nat
    BY <1>1 DEF ReadRecords, IInv, ShapeInv
  <1>3. Typed(i) /\ SamePart(i) /\ NumOfRecords \in Nat
    BY <1>1, PartKept, TypedPart, PartsFacts DEF Collecting, IInv
  <1>4. have'[i] = Share(i) => cpc' = "time" /\ idx' = i
    <2>1. have[i] + toRead = Share(i) => Goto("time", i)
      BY <1>2, <1>3 DEF ReadRecords, Typed
    <2> QED
      BY <1>2, <2>1
  <1>5. StreamOf(i) /\ Reading(i)
    BY <1>1 DEF IInv, StreamInv, Leaving, Reading
  <1> QED
    BY <1>1, <1>2, <1>3, <1>4, <1>5, StreamReadRecords

\* What a sorter writes of its records.
LEMMA WrittenUnits ==
  ASSUME IInv, NEW i \in Sorter, child[i] # "none", NEW k \in 0 .. toWrite[i]
  PROVE  [n \in 1 .. k |-> <<"record", Array(i)[sent[i] + n]>>] \in Seq(Unit)
  <1> DEFINE some == [n \in 1 .. k |-> <<"record", Array(i)[sent[i] + n]>>]
  <1>1. /\ i < Len(ends) /\ sent[i] \in Nat /\ toWrite[i] \in Nat
        /\ Share(i) \in Nat /\ (toWrite[i] > 0 => sent[i] + toWrite[i] <= Share(i))
    BY TypedPart DEF IInv, Typed, RoomInv
  <1>2. \A n \in 1 .. k : Array(i)[sent[i] + n] \in Nat
    <2>1. \A n \in 1 .. k : sent[i] + n \in 1 .. Share(i)
      BY <1>1
    <2> QED
      BY <1>1, <2>1, ArrayKeys DEF IInv
  <1>3. \A n \in 1 .. k : some[n] \in Unit
    BY <1>2 DEF Unit
  <1>4. some \in [1 .. k -> Unit]
    BY <1>3
  <1> HIDE DEF some
  <1>5. some \in Seq(Unit)
    BY <1>4, Units
  <1> QED
    BY <1>5 DEF some

\* A sorter that has no more records for the coach, and has not written its run
\* time, is the one whose run time the coach waits for.
LEMMA WritingIsAwaited ==
  ASSUME IInv, NEW i \in Sorter, child[i] = "writing", cpc \notin Leaving,
         have[i] = Share(i), Share(i) > 0
  PROVE  cpc = "time" /\ idx = i
  <1>1. Typed(i) /\ i < Len(ends)
    BY TypedPart
  <1>2. cpc \in Working
    BY <1>1, PartsFacts
       DEF IInv, PartsInv, OwedInv, Working, InLoop, Collecting,
       Typed
  <1>3. ~Settled(i) /\ ~Failed(i) /\ child[i] \notin TimedPc
    BY DEF Settled, Failed, TimedPc
  <1>4. AtHand(i)
    BY <1>2, <1>3 DEF IInv, DoneInv, DoneOf
  <1>5. cpc # "text"
    BY <1>4 DEF IInv, DoneInv, DoneOf, AtHand
  <1>6. cpc # "reap"
    <2> SUFFICES ASSUME cpc = "reap" PROVE FALSE
      OBVIOUS
    <2>1. revents[i] = "hup"
      BY <1>3, <1>4 DEF IInv, DoneInv, DoneOf, AtHand
    <2>2. have[i] < Share(i) \/ Share(i) = 0
      BY <1>4, <2>1 DEF IInv, PollInv, PollOf, AtHand
    <2> QED
      BY <1>1, <2>2 DEF Typed
  <1> QED
    BY <1>4, <1>5, <1>6 DEF AtHand

\* What a chunk announces is what follows, in every step of the coach and the
\* sorters, until the coach leaves.
LEMMA StreamStep == IInv /\ [Next]_vars /\ ShapeInv' => StreamInv'
  <1> SUFFICES ASSUME IInv, [Next]_vars, ShapeInv', cpc' \notin Leaving,
                      NEW j \in Sorter
               PROVE  StreamOf(j)'
    BY SameParts DEF StreamInv, IInv
  <1> USE DEF Goto, EnterForce, Onward, poller, sorters, coach, Leaving
  <1>0. /\ cpc \notin Leaving => StreamOf(j)
        /\ PartsInv /\ ShapeInv /\ ContractInv
    BY DEF IInv, StreamInv
  <1>1. CASE CheckUnset
    BY <1>1, StreamKept DEF CheckUnset
  <1>2. CASE CheckFlag
    BY <1>2, StreamKept DEF CheckFlag
  <1>3. CASE Spawn
    BY <1>3, StreamSpawn
  <1>4. CASE SpawnFails
    BY <1>4 DEF SpawnFails
  <1>5. CASE Poll
    BY <1>5, StreamKept DEF Poll
  <1>6. CASE PollInterrupted
    BY <1>6 DEF PollInterrupted
  <1>7. CASE LeaveLoop
    BY <1>7, StreamKept DEF LeaveLoop
  <1>8. CASE Skip
    BY <1>8, StreamKept DEF Skip
  <1>9. CASE ReadCount
    <2>1. /\ cpc = "scan" /\ cpc' = "body" /\ idx' = idx /\ idx \in Sorter
          /\ revents[idx] = "in" /\ toRead' = AsCount(Head(pipe[idx]))
          /\ pipe' = [pipe EXCEPT ![idx] = Tail(@)]
          /\ UNCHANGED <<ends, child, have, sent, toWrite, timed>>
      BY <1>9, <1>0 DEF ReadCount, ShapeInv, InLoop
    <2>2. CASE j # idx
      <3>1. UNCHANGED pipe[j]
        BY <2>1, <2>2, <1>0 DEF ShapeInv
      <3> QED
        BY <2>1, <2>2, <3>1, StreamKept
    <2>3. CASE j = idx
      <3>1. pipe[j] # <<>> /\ pipe'[j] = Tail(pipe[j])
        BY <2>1, <2>3, <1>0, PartsFacts
           DEF ShapeInv, IInv, PollInv, PollOf, Ahead
      <3>2. Typed(j) /\ SamePart(j) /\ NumOfRecords' = NumOfRecords
        BY <2>1, PartKept, TypedPart DEF Collecting
      <3> QED
        BY <1>0, <2>1, <2>3, <3>1, <3>2, StreamReadCount
    <2> QED
      BY <2>2, <2>3
  <1>10. CASE ReadRecords
    <2>1. /\ cpc = "body" /\ cpc' # "body" /\ idx \in Sorter
          /\ pipe' = [pipe EXCEPT ![idx] =
                       SubSeq(@, Got(idx, toRead) + 1, Len(@))]
          /\ have' = [have EXCEPT ![idx] = have[idx] + toRead]
          /\ UNCHANGED <<ends, child, sent, toWrite, timed>>
      BY <1>10, <1>0 DEF ReadRecords, ShapeInv, InLoop
    <2>2. CASE j # idx
      <3>1. UNCHANGED <<pipe[j], have[j]>>
        BY <2>1, <2>2, <1>0 DEF ShapeInv
      <3> QED
        BY <2>1, <2>2, <3>1, StreamKept
    <2>3. CASE j = idx
      <3>1. Failed(j) => StreamOf(j)'
        BY <2>1 DEF StreamOf, Failed
      <3>2. SamePart(j) /\ have'[j] <= Share(j)
        <4>1. SamePart(j) /\ Typed(idx) /\ toRead \in Nat
          BY <1>0, <2>1, TypedPart, PartKept DEF Collecting, ShapeInv
        <4>2. have[idx] + toRead <= Share(idx)
          BY <1>10, <2>1, <4>1 DEF ReadRecords, Typed
        <4> QED
          BY <2>1, <2>3, <4>1, <4>2, <1>0 DEF ShapeInv
      <3> QED
        BY <1>0, <1>10, <2>1, <2>3, <3>1, <3>2, RecordsRead
    <2> QED
      BY <2>2, <2>3
  <1>11. CASE ReadTime
    <2>1. /\ cpc = "time" /\ cpc' = "reap" /\ idx \in Sorter /\ CanRead(idx)
          /\ have[idx] = Share(idx)
          /\ timed' = IF pipe[idx] # <<>> THEN timed \cup {idx} ELSE timed
          /\ pipe' = [pipe EXCEPT ![idx] = SubSeq(@, 2, Len(@))]
          /\ UNCHANGED <<ends, child, have, sent, toWrite>>
      BY <1>11, <1>0 DEF ReadTime, ShapeInv, InLoop, IInv, DoneInv, DoneOf
    <2>2. CASE j # idx
      <3>1. UNCHANGED pipe[j] /\ (j \in timed => j \in timed')
        BY <2>1, <2>2, <1>0 DEF ShapeInv
      <3> QED
        BY <2>1, <2>2, <3>1, StreamKept
    <2>3. CASE j = idx
      <3>1. pipe'[j] = SubSeq(pipe[j], 2, Len(pipe[j]))
        BY <2>1, <2>3, <1>0 DEF ShapeInv
      <3>2. Typed(j) /\ SamePart(j)
        BY <2>1, PartKept, TypedPart DEF Collecting
      <3> QED
        BY <1>0, <2>1, <2>3, <3>1, <3>2, StreamReadTime
    <2> QED
      BY <2>2, <2>3
  <1>12. CASE HangUp
    BY <1>12, StreamKept DEF HangUp
  <1>13. CASE Reap
    BY <1>13, StreamKept DEF Reap
  <1>14. CASE ReadText
    BY <1>14 DEF ReadText
  <1>15. CASE WriteResults
    BY <1>15, StreamKept DEF WriteResults
  <1>16. CASE WriteFails
    BY <1>16 DEF WriteFails
  <1>17. CASE Report
    BY <1>17, StreamKept DEF Report
  <1>18. CASE TryWait
    BY <1>18 DEF TryWait
  <1>19. CASE Kill
    BY <1>19 DEF Kill
  <1>20. CASE Wait
    BY <1>20 DEF Wait
  <1>21. CASE ForceExit
    BY <1>21 DEF ForceExit
  <1>22. CASE TakeSignals
    BY <1>22, <1>0, StreamKept DEF TakeSignals, ContractInv
  <1>23. CASE Stop
    BY <1>23, <1>0, StreamKept DEF Stop, ContractInv
  <1>24. ASSUME NEW i \in Sorter, Exec(i) PROVE StreamOf(j)'
    <2>1. /\ child[i] \in {"forked"} /\ child'[i] \in {"loading"}
          /\ \A l \in Sorter : l # i => child'[l] = child[l]
          /\ UNCHANGED <<cpc, idx, toRead, timed, ends, have, sent, toWrite>>
          /\ UNCHANGED pipe
          /\ cpc \notin Leaving
      BY <1>24, <1>0 DEF Exec, Sorts, ShapeInv
    <2>2. CASE j # i
      BY <2>1, <2>2, StreamKept
    <2>3. CASE j = i
      BY <1>0, <2>1, <2>3, PartKept, TypedPart, StreamMoves DEF Typed, TimedPc
    <2> QED
      BY <2>2, <2>3
  <1>25. ASSUME NEW i \in Sorter, FailStart(i) PROVE StreamOf(j)'
    <2>1. /\ child[i] \in {"forked", "loading"} /\ child'[i] \in {"error"}
          /\ \A l \in Sorter : l # i => child'[l] = child[l]
          /\ UNCHANGED <<cpc, idx, toRead, timed, ends, have, sent, toWrite>>
          /\ \A l \in Sorter : l # i => pipe'[l] = pipe[l]
          /\ cpc \notin Leaving
      BY <1>25, <1>0 DEF FailStart, Sorts, ShapeInv
    <2>2. CASE j # i
      BY <2>1, <2>2, StreamKept
    <2>3. CASE j = i
      BY <1>0, <2>1, <2>3, PartKept, TypedPart, StreamMoves DEF Typed, TimedPc
    <2> QED
      BY <2>2, <2>3
  <1>26. ASSUME NEW i \in Sorter, ExitFailure(i) PROVE StreamOf(j)'
    <2>1. /\ child[i] \in {"error", "loading"} /\ child'[i] \in {"fail"}
          /\ \A l \in Sorter : l # i => child'[l] = child[l]
          /\ UNCHANGED <<cpc, idx, toRead, timed, ends, have, sent, toWrite>>
          /\ UNCHANGED pipe
          /\ cpc \notin Leaving
      BY <1>26, <1>0 DEF ExitFailure, Sorts, ShapeInv
    <2>2. CASE j # i
      BY <2>1, <2>2, StreamKept
    <2>3. CASE j = i
      BY <1>0, <2>1, <2>3, PartKept, TypedPart, StreamMoves DEF Typed, TimedPc
    <2> QED
      BY <2>2, <2>3
  <1>27. ASSUME NEW i \in Sorter, Crash(i) PROVE StreamOf(j)'
    <2>1. /\ child[i] \in {"loading"} /\ child'[i] \in {"killed"}
          /\ \A l \in Sorter : l # i => child'[l] = child[l]
          /\ UNCHANGED <<cpc, idx, toRead, timed, ends, have, sent, toWrite>>
          /\ UNCHANGED pipe
          /\ cpc \notin Leaving
      BY <1>27, <1>0 DEF Crash, Sorts, ShapeInv
    <2>2. CASE j # i
      BY <2>1, <2>2, StreamKept
    <2>3. CASE j = i
      BY <1>0, <2>1, <2>3, PartKept, TypedPart, StreamMoves DEF Typed, TimedPc
    <2> QED
      BY <2>2, <2>3
  <1>28. ASSUME NEW i \in Sorter, Sort(i) PROVE StreamOf(j)'
    <2>1. /\ child[i] \in {"loading"} /\ child'[i] \in {"writing"}
          /\ \A l \in Sorter : l # i => child'[l] = child[l]
          /\ UNCHANGED <<cpc, idx, toRead, timed, ends, have, sent, toWrite>>
          /\ UNCHANGED pipe
          /\ cpc \notin Leaving
      BY <1>28, <1>0 DEF Sort, Sorts, ShapeInv
    <2>2. CASE j # i
      BY <2>1, <2>2, StreamKept
    <2>3. CASE j = i
      BY <1>0, <2>1, <2>3, PartKept, TypedPart, StreamMoves DEF Typed, TimedPc
    <2> QED
      BY <2>2, <2>3
  <1>29. ASSUME NEW i \in Sorter, WriteCount(i) PROVE StreamOf(j)'
    <2>1. /\ child[i] = "writing" /\ Free(i) > 0
          /\ UNCHANGED <<cpc, idx, toRead, timed, ends, have>>
          /\ \A l \in Sorter : l # i =>
               UNCHANGED <<child[l], pipe[l], sent[l], toWrite[l]>>
          /\ cpc \notin Leaving
      BY <1>29, <1>0 DEF WriteCount, Sorts, ShapeInv
    <2>2. CASE j # i
      BY <2>1, <2>2, StreamKept
    <2>3. CASE j = i
      <3>1. Typed(i) /\ SamePart(i) /\ NumOfRecords' = NumOfRecords
        BY <2>1, PartKept, TypedPart
      <3>2. Typed(i)'
        BY <3>1, SameParts DEF IInv, Typed, ShapeInv, SamePart
      <3>3. Writes(i) /\ StreamOf(i)
        BY <1>0, <2>1, <2>3, <3>1, <3>2 DEF Writes
      <3>4. /\ toWrite[i] = 0 /\ sent[i] < Share(i) /\ toWrite'[i] = Chunk(i)
            /\ pipe'[i] = Append(pipe[i], <<"count", Chunk(i)>>)
            /\ UNCHANGED <<child[i], sent[i]>>
        BY <1>29, <1>0 DEF WriteCount, ShapeInv
      <3> QED
        BY <2>3, <3>3, <3>4, StreamWriteCount
    <2> QED
      BY <2>2, <2>3
  <1>30. ASSUME NEW i \in Sorter, WriteRecords(i) PROVE StreamOf(j)'
    <2>1. /\ child[i] = "writing" /\ Free(i) > 0
          /\ UNCHANGED <<cpc, idx, toRead, timed, ends, have>>
          /\ \A l \in Sorter : l # i =>
               UNCHANGED <<child[l], pipe[l], sent[l], toWrite[l]>>
          /\ cpc \notin Leaving
      BY <1>30, <1>0 DEF WriteRecords, Sorts, ShapeInv
    <2>2. CASE j # i
      BY <2>1, <2>2, StreamKept
    <2>3. CASE j = i
      <3>1. Typed(i) /\ SamePart(i) /\ NumOfRecords' = NumOfRecords
        BY <2>1, PartKept, TypedPart
      <3>2. Typed(i)'
        BY <3>1, SameParts DEF IInv, Typed, ShapeInv, SamePart
      <3>3. Writes(i) /\ StreamOf(i)
        BY <1>0, <2>1, <2>3, <3>1, <3>2 DEF Writes
      <3> DEFINE k == Min({toWrite[i], Free(i)})
                 some == [n \in 1 .. k |-> <<"record", Array(i)[sent[i] + n]>>]
      <3>4. /\ toWrite[i] > 0 /\ sent'[i] = sent[i] + k
            /\ toWrite'[i] = toWrite[i] - k /\ pipe'[i] = pipe[i] \o some
            /\ UNCHANGED child[i]
        BY <1>30, <1>0 DEF WriteRecords, ShapeInv
      <3>5. k = IF toWrite[i] <= Free(i) THEN toWrite[i] ELSE Free(i)
        <4>1. toWrite[i] \in Int /\ Free(i) \in Int
          BY <3>1, PipeAssumption DEF Typed, Free
        <4> QED
          BY <4>1, MinOfTwo
      <3>6. k \in Nat /\ k \in 0 .. toWrite[i]
        BY <2>1, <3>1, <3>5, PipeAssumption DEF Typed, Free
      <3>7. /\ Len(pipe'[i]) = Len(pipe[i]) + k
            /\ \A n \in 1 .. Len(pipe[i]) : pipe'[i][n] = pipe[i][n]
            /\ \A n \in 1 .. k :
                 pipe'[i][Len(pipe[i]) + n] = <<"record", Array(i)[sent[i] + n]>>
        <4>1. some \in Seq(Unit) /\ pipe[i] \in Seq(Unit)
          BY <2>1, <3>1, <3>6, WrittenUnits DEF Typed
        <4>2. Len(some) = k
          BY <3>6
        <4>3. \A n \in 1 .. k : some[n] = <<"record", Array(i)[sent[i] + n]>>
          OBVIOUS
        <4>4. pipe'[i] = pipe[i] \o some
          BY <3>4
        <4> HIDE DEF k, some
        <4>5. \A p, t \in Seq(Unit) :
                /\ Len(p \o t) = Len(p) + Len(t)
                /\ \A n \in 1 .. Len(p) : (p \o t)[n] = p[n]
                /\ \A n \in 1 .. Len(t) : (p \o t)[Len(p) + n] = t[n]
          BY Extend
        <4>6. /\ Len(pipe[i] \o some) = Len(pipe[i]) + Len(some)
              /\ \A n \in 1 .. Len(pipe[i]) : (pipe[i] \o some)[n] = pipe[i][n]
              /\ \A n \in 1 .. Len(some) :
                   (pipe[i] \o some)[Len(pipe[i]) + n] = some[n]
          BY <4>1, <4>5
        <4> QED
          BY <4>2, <4>3, <4>4, <4>6, Zenon
      <3> HIDE DEF k, some
      <3> QED
        BY <2>3, <3>3, <3>4, <3>5, <3>7, StreamWriteRecords
    <2> QED
      BY <2>2, <2>3
  <1>31. ASSUME NEW i \in Sorter, WriteTime(i) PROVE StreamOf(j)'
    <2>1. /\ child[i] = "writing" /\ Free(i) > 0
          /\ UNCHANGED <<cpc, idx, toRead, timed, ends, have>>
          /\ \A l \in Sorter : l # i =>
               UNCHANGED <<child[l], pipe[l], sent[l], toWrite[l]>>
          /\ cpc \notin Leaving
      BY <1>31, <1>0 DEF WriteTime, Sorts, ShapeInv
    <2>2. CASE j # i
      BY <2>1, <2>2, StreamKept
    <2>3. CASE j = i
      <3>1. Typed(i) /\ SamePart(i) /\ NumOfRecords' = NumOfRecords
        BY <2>1, PartKept, TypedPart
      <3>2. Typed(i)'
        BY <3>1, SameParts DEF IInv, Typed, ShapeInv, SamePart
      <3>3. Writes(i) /\ StreamOf(i)
        BY <1>0, <2>1, <2>3, <3>1, <3>2 DEF Writes
      <3>4. /\ toWrite[i] = 0 /\ sent[i] = Share(i) /\ child'[i] = "timed"
            /\ UNCHANGED <<sent[i], toWrite[i]>>
        BY <1>31, <1>0 DEF WriteTime, Sorts, ShapeInv
      <3>5. PICK ticks \in 0 .. 1 : pipe'[i] = Append(pipe[i], <<"time", ticks>>)
        BY <1>31, <1>0 DEF WriteTime, ShapeInv
      <3>6. IsTime(<<"time", ticks>>) /\ <<"time", ticks>> \in Unit
        BY DEF IsTime, Unit
      <3>7. ASSUME have[i] = Share(i), Share(i) > 0
            PROVE  cpc = "time" /\ idx = i
        BY <2>1, <3>1, <3>7, WritingIsAwaited
      <3> QED
        BY <2>3, <3>3, <3>4, <3>5, <3>6, <3>7, StreamWriteTime
    <2> QED
      BY <2>2, <2>3
  <1>32. ASSUME NEW i \in Sorter, BreakPipe(i) PROVE StreamOf(j)'
    BY <1>32, <1>0 DEF BreakPipe, ContractInv
  <1>33. ASSUME NEW i \in Sorter, Close(i) PROVE StreamOf(j)'
    <2>1. /\ child[i] \in {"timed"} /\ child'[i] \in {"closed"}
          /\ \A l \in Sorter : l # i => child'[l] = child[l]
          /\ UNCHANGED <<cpc, idx, toRead, timed, ends, have, sent, toWrite>>
          /\ UNCHANGED pipe
          /\ cpc \notin Leaving
      BY <1>33, <1>0 DEF Close, Sorts, ShapeInv
    <2>2. CASE j # i
      BY <2>1, <2>2, StreamKept
    <2>3. CASE j = i
      BY <1>0, <2>1, <2>3, PartKept, TypedPart, StreamMoves DEF Typed, TimedPc
    <2> QED
      BY <2>2, <2>3
  <1>34. ASSUME NEW i \in Sorter, Exit(i) PROVE StreamOf(j)'
    <2>1. /\ child[i] \in {"closed"} /\ child'[i] \in {"ok"}
          /\ \A l \in Sorter : l # i => child'[l] = child[l]
          /\ UNCHANGED <<cpc, idx, toRead, timed, ends, have, sent, toWrite>>
          /\ UNCHANGED pipe
          /\ cpc \notin Leaving
      BY <1>34, <1>0 DEF Exit, Sorts, ShapeInv
    <2>2. CASE j # i
      BY <2>1, <2>2, StreamKept
    <2>3. CASE j = i
      BY <1>0, <2>1, <2>3, PartKept, TypedPart, StreamMoves DEF Typed, TimedPc
    <2> QED
      BY <2>2, <2>3
  <1>35. CASE UNCHANGED vars
    BY <1>35, <1>0, StreamKept DEF vars
  <1> QED
    BY <1>1, <1>2, <1>3, <1>4, <1>5, <1>6, <1>7, <1>8, <1>9, <1>10, <1>11,
       <1>12, <1>13, <1>14, <1>15, <1>16, <1>17, <1>18, <1>19, <1>20, <1>21,
       <1>22, <1>23, <1>24, <1>25, <1>26, <1>27, <1>28, <1>29, <1>30, <1>31,
       <1>32, <1>33, <1>34, <1>35
       DEF Next, CoachRuns, SorterRuns

-------------------------------------------------------------------------------
(* What poll() found. *)

\* A step that leaves what poll() found about sorter j, and the coach not before
\* sorter j again.
LEMMA PollKept ==
  ASSUME IInv, [Next]_vars, NEW j \in Sorter, ends' = ends,
         UNCHANGED <<revents[j], have[j]>>,
         pipe[j] # <<>> => pipe'[j] # <<>>,
         Ahead(j)' => Ahead(j),
         cpc' = "reap" /\ idx' = j => Ahead(j) \/ (cpc = "reap" /\ idx = j),
         cpc' \in InLoop => cpc \in InLoop,
         disturbed => disturbed'
  PROVE  PollOf(j)'
  <1>1. Share(j)' = Share(j)
    BY PartKept DEF SamePart
  <1>2. PollOf(j)
    BY DEF IInv, PollInv
  <1> QED
    BY <1>1, <1>2 DEF PollOf, InLoop

\* A sorter whose pipe has been closed, and is polled, has not delivered all.
LEMMA HungUp ==
  ASSUME IInv, NEW j \in Sorter, cpc = "poll", Ready(j), pipe[j] = <<>>
  PROVE  /\ have[j] < Share(j) \/ Share(j) = 0
         /\ disturbed \/ Share(j) = 0
  <1>1. Typed(j) /\ j < Len(ends)
    BY TypedPart DEF Collecting
  <1>2. child[j] \in {"ok", "fail", "killed", "closed"} /\ j \in listening
    BY <1>1, PartsFacts DEF IInv, ForkInv, Ready, WriterOpen, Dead, ShapeInv,
       ChildPc, Leaving
  <1>3. have[j] <= Share(j) /\ ~AtHand(j)
    BY DEF IInv, OwedInv, Working, AtHand
  <1>4. have[j] < Share(j) \/ Share(j) = 0
    <2>1. Share(j) > 0 /\ have[j] = Share(j) => Settled(j)
      BY <1>3 DEF IInv, DoneInv, DoneOf, Working
    <2> QED
      BY <1>1, <1>2, <1>3, <2>1 DEF Settled, Typed
  <1>5. CASE child[j] \in {"fail", "killed"}
    BY <1>4, <1>5 DEF IInv, ForkInv, Leaving
  <1>6. CASE child[j] \in {"ok", "closed"}
    <2>1. StreamOf(j)
      BY DEF IInv, StreamInv, Leaving
    <2>2. ~Reading(j) /\ Len(pipe[j]) = 0
      BY DEF Reading
    <2>3. ~Failed(j) /\ ~OnlyTime(j) /\ ~TimeTaken(j) /\ ~Receiving(j)
      BY <1>6, <2>2 DEF Failed, OnlyTime, TimeTaken, Receiving
    <2>4. ~Sending(j)
      BY <2>2, PipeAssumption DEF Sending, Announced, Chunked, LastChunk
    <2>5. Idle(j)
      BY <1>6, <2>1, <2>3, <2>4 DEF StreamOf
    <2> QED
      BY <1>1, <1>4, <1>6, <2>5 DEF Idle, Typed
  <1> QED
    BY <1>2, <1>4, <1>5, <1>6

\* What poll() found stays true until the loop has dealt with it.
LEMMA PollStep == IInv /\ [Next]_vars /\ ShapeInv' => PollInv'
  <1> SUFFICES ASSUME IInv, [Next]_vars, ShapeInv', NEW j \in Sorter
               PROVE  PollOf(j)'
    BY SameParts DEF PollInv, IInv
  <1> USE DEF Goto, EnterForce, poller, sorters, histories, coach
  <1>0. /\ ShapeInv /\ NumOfSorters \in {1, 2, 4, 8} /\ j \in Int
        /\ Sorter = 0 .. NumOfSorters - 1
        /\ cpc \in InLoop => idx \in Int
    <2>1. NumOfSorters \in {1, 2, 4, 8} /\ Sorter = 0 .. NumOfSorters - 1
      BY PartsFacts DEF IInv
    <2>2. ShapeInv /\ (cpc \in InLoop => idx \in Sorter)
      BY DEF IInv, ShapeInv
    <2> QED
      BY <2>1, <2>2
  <1>1. CASE CheckUnset
    BY <1>1 DEF CheckUnset, PollOf, Ahead, InLoop
  <1>2. CASE CheckFlag
    BY <1>2 DEF CheckFlag, PollOf, Ahead, InLoop
  <1>3. CASE Spawn
    BY <1>3 DEF Spawn, PollOf, Ahead, InLoop
  <1>4. CASE SpawnFails
    BY <1>4 DEF SpawnFails, PollOf, Ahead, InLoop
  <1>5. CASE Poll
    <2>1. /\ cpc = "poll" /\ UNCHANGED <<pipe, have, ends, disturbed>>
          /\ cpc' \in {"scan", "forced"}
          /\ revents'[j] = IF ~Ready(j) THEN "none"
                           ELSE IF pipe[j] # <<>> THEN "in" ELSE "hup"
      BY <1>5 DEF Poll
    <2>2. SamePart(j)
      BY <2>1, PartKept
    <2> QED
      BY <2>1, <2>2, HungUp DEF PollOf, SamePart
  <1>6. CASE PollInterrupted
    BY <1>6 DEF PollInterrupted, PollOf, Ahead, InLoop
  <1>7. CASE LeaveLoop
    BY <1>7 DEF LeaveLoop, PollOf, Ahead, InLoop
  <1>8. CASE Skip
    <2>1. /\ cpc = "scan" /\ UNCHANGED <<poller, pipe, disturbed>>
          /\ Onward /\ idx \in Sorter
      BY <1>8, <1>0 DEF Skip, ShapeInv, InLoop
    <2> QED
      BY <2>1, <1>0, OnwardStep, PollKept DEF Ahead, InLoop
  <1>9. CASE ReadCount
    <2>1. /\ cpc = "scan" /\ cpc' = "body" /\ idx' = idx /\ idx \in Sorter
          /\ UNCHANGED <<ends, have, disturbed>> /\ revents'[idx] = "none"
          /\ j # idx => UNCHANGED <<pipe[j], revents[j]>>
      BY <1>9, <1>0 DEF ReadCount, ShapeInv, InLoop
    <2>2. CASE j = idx
      BY <2>1, <2>2 DEF PollOf
    <2>3. CASE j # idx
      BY <2>1, <2>3, <1>0, PollKept DEF Ahead, InLoop
    <2> QED
      BY <2>2, <2>3
  <1>10. CASE ReadRecords
    <2>1. /\ cpc = "body" /\ idx \in Sorter
          /\ UNCHANGED <<ends, revents, disturbed>>
          /\ j # idx => UNCHANGED <<pipe[j], have[j]>>
      BY <1>10, <1>0 DEF ReadRecords, ShapeInv, InLoop
    <2>2. \/ cpc' = "time" /\ idx' = idx
          \/ cpc' = "forced"
          \/ cpc' = "poll"
          \/ cpc' = "scan" /\ idx' = idx + 1
      BY <1>10 DEF ReadRecords, Onward
    <2>3. CASE j = idx
      BY <2>1, <2>3 DEF PollOf, IInv, DoneInv, DoneOf
    <2>4. CASE j # idx
      BY <2>1, <2>2, <2>4, <1>0, PollKept DEF Ahead, InLoop
    <2> QED
      BY <2>3, <2>4
  <1>11. CASE ReadTime
    <2>1. /\ cpc = "time" /\ cpc' = "reap" /\ idx' = idx /\ idx \in Sorter
          /\ UNCHANGED <<ends, have, revents, disturbed>>
          /\ j # idx => UNCHANGED pipe[j]
      BY <1>11, <1>0 DEF ReadTime, ShapeInv, InLoop
    <2>2. CASE j = idx
      BY <2>1, <2>2 DEF PollOf, IInv, DoneInv, DoneOf
    <2>3. CASE j # idx
      BY <2>1, <2>3, <1>0, PollKept DEF Ahead, InLoop
    <2> QED
      BY <2>2, <2>3
  <1>12. CASE HangUp
    <2>1. /\ cpc = "scan" /\ cpc' = "reap" /\ idx' = idx /\ idx \in Sorter
          /\ UNCHANGED <<ends, have, pipe, revents, disturbed>>
      BY <1>12, <1>0 DEF HangUp, ShapeInv, InLoop
    <2> QED
      BY <2>1, <1>0, PollKept DEF Ahead, InLoop
  <1>13. CASE Reap
    <2>1. /\ cpc = "reap" /\ idx \in Sorter
          /\ UNCHANGED <<ends, have, pipe, revents, disturbed>>
      BY <1>13, <1>0 DEF Reap, ShapeInv, InLoop
    <2>2. \/ cpc' = "text" /\ idx' = idx
          \/ cpc' = "forced"
          \/ cpc' = "poll"
          \/ cpc' = "scan" /\ idx' = idx + 1
      BY <1>13 DEF Reap, Onward
    <2> QED
      BY <2>1, <2>2, <1>0, PollKept DEF Ahead, InLoop
  <1>14. CASE ReadText
    BY <1>14 DEF ReadText, PollOf, Ahead, InLoop
  <1>15. CASE WriteResults
    BY <1>15 DEF WriteResults, PollOf, Ahead, InLoop
  <1>16. CASE WriteFails
    BY <1>16 DEF WriteFails, PollOf, Ahead, InLoop
  <1>17. CASE Report
    BY <1>17 DEF Report, PollOf, Ahead, InLoop
  <1>18. CASE TryWait
    BY <1>18 DEF TryWait, PollOf, Ahead, InLoop
  <1>19. CASE Kill
    BY <1>19 DEF Kill, PollOf, Ahead, InLoop
  <1>20. CASE Wait
    BY <1>20 DEF Wait, PollOf, Ahead, InLoop
  <1>21. CASE ForceExit
    BY <1>21 DEF ForceExit, PollOf, Ahead, InLoop
  <1>22. CASE TakeSignals
    BY <1>22, PollKept DEF TakeSignals, Ahead
  <1>23. CASE Stop
    BY <1>23, PollKept DEF Stop, Ahead
  <1>24. ASSUME NEW i \in Sorter, Exec(i) PROVE PollOf(j)'
    BY <1>24, PollKept DEF Exec, Ahead
  <1>25. ASSUME NEW i \in Sorter, FailStart(i) PROVE PollOf(j)'
    <2>1. /\ UNCHANGED <<cpc, idx, ends, have, revents>>
          /\ disturbed => disturbed'
          /\ j # i => UNCHANGED pipe[j]
      BY <1>25, <1>0 DEF FailStart, ShapeInv
    <2>2. pipe[i] # <<>> => pipe'[i] # <<>>
      BY <1>25, <1>0 DEF FailStart, ShapeInv
    <2> QED
      BY <2>1, <2>2, PollKept DEF Ahead
  <1>26. ASSUME NEW i \in Sorter, ExitFailure(i) PROVE PollOf(j)'
    BY <1>26, PollKept DEF ExitFailure, Ahead
  <1>27. ASSUME NEW i \in Sorter, Crash(i) PROVE PollOf(j)'
    BY <1>27, PollKept DEF Crash, Ahead
  <1>28. ASSUME NEW i \in Sorter, Sort(i) PROVE PollOf(j)'
    BY <1>28, PollKept DEF Sort, Ahead
  <1>29. ASSUME NEW i \in Sorter, WriteCount(i) PROVE PollOf(j)'
    <2>1. /\ UNCHANGED <<cpc, idx, ends, have, revents>>
          /\ disturbed => disturbed'
          /\ j # i => UNCHANGED pipe[j]
      BY <1>29, <1>0 DEF WriteCount, ShapeInv
    <2>2. pipe[i] # <<>> => pipe'[i] # <<>>
      <3>1. PICK u : pipe'[i] = Append(pipe[i], u)
        BY <1>29, <1>0 DEF WriteCount, ShapeInv
      <3>2. pipe[i] \in Seq(Unit)
        BY <1>0 DEF ShapeInv
      <3> QED
        BY <3>1, <3>2
    <2> QED
      BY <2>1, <2>2, PollKept DEF Ahead
  <1>30. ASSUME NEW i \in Sorter, WriteRecords(i) PROVE PollOf(j)'
    <2>1. /\ UNCHANGED <<cpc, idx, ends, have, revents>>
          /\ disturbed => disturbed'
          /\ j # i => UNCHANGED pipe[j]
      BY <1>30, <1>0 DEF WriteRecords, ShapeInv
    <2>2. pipe[i] # <<>> => pipe'[i] # <<>>
      <3> DEFINE k == Min({toWrite[i], Free(i)})
                 some == [n \in 1 .. k |-> <<"record", Array(i)[sent[i] + n]>>]
      <3>1. /\ pipe'[i] = pipe[i] \o some /\ child[i] = "writing"
            /\ toWrite[i] > 0 /\ Free(i) > 0
        BY <1>30, <1>0 DEF WriteRecords, ShapeInv
      <3>2. pipe[i] \in Seq(Unit) /\ toWrite[i] \in Nat
        BY <1>0 DEF ShapeInv
      <3>3. k \in 0 .. toWrite[i]
        BY <3>1, <3>2, MinOfTwo, PipeAssumption DEF Free
      <3>4. some \in Seq(Unit)
        BY <3>1, <3>3, WrittenUnits
      <3>5. \A p, t \in Seq(Unit) : p # <<>> => p \o t # <<>>
        OBVIOUS
      <3> HIDE DEF k, some
      <3> QED
        BY <3>1, <3>2, <3>4, <3>5
    <2> QED
      BY <2>1, <2>2, PollKept DEF Ahead
  <1>31. ASSUME NEW i \in Sorter, WriteTime(i) PROVE PollOf(j)'
    <2>1. /\ UNCHANGED <<cpc, idx, ends, have, revents>>
          /\ disturbed => disturbed'
          /\ j # i => UNCHANGED pipe[j]
      BY <1>31, <1>0 DEF WriteTime, ShapeInv
    <2>2. pipe[i] # <<>> => pipe'[i] # <<>>
      <3>1. PICK u : pipe'[i] = Append(pipe[i], u)
        BY <1>31, <1>0 DEF WriteTime, ShapeInv
      <3>2. pipe[i] \in Seq(Unit)
        BY <1>0 DEF ShapeInv
      <3> QED
        BY <3>1, <3>2
    <2> QED
      BY <2>1, <2>2, PollKept DEF Ahead
  <1>32. ASSUME NEW i \in Sorter, BreakPipe(i) PROVE PollOf(j)'
    BY <1>32, PollKept DEF BreakPipe, Ahead
  <1>33. ASSUME NEW i \in Sorter, Close(i) PROVE PollOf(j)'
    BY <1>33, PollKept DEF Close, Ahead
  <1>34. ASSUME NEW i \in Sorter, Exit(i) PROVE PollOf(j)'
    BY <1>34, PollKept DEF Exit, Ahead
  <1>35. CASE UNCHANGED vars
    BY <1>35, PollKept DEF vars, Ahead
  <1> QED
    BY <1>1, <1>2, <1>3, <1>4, <1>5, <1>6, <1>7, <1>8, <1>9, <1>10, <1>11,
       <1>12, <1>13, <1>14, <1>15, <1>16, <1>17, <1>18, <1>19, <1>20, <1>21,
       <1>22, <1>23, <1>24, <1>25, <1>26, <1>27, <1>28, <1>29, <1>30, <1>31,
       <1>32, <1>33, <1>34, <1>35
       DEF Next, CoachRuns, SorterRuns

-------------------------------------------------------------------------------
(* What the coach has read. *)

\* A step that leaves results[] alone, and no sorter with an error without one.
LEMMA ResultsKept ==
  ASSUME IInv, [Next]_vars, NEW j \in Sorter, ends' = ends,
         UNCHANGED <<have[j], results[j]>>,
         child[j] = "none" => child'[j] = "none",
         Failed(j) => Failed(j)'
  PROVE  ResultsOf(j)'
  <1>1. SamePart(j)
    BY PartKept
  <1>2. ResultsOf(j)
    BY DEF IInv, ResultsInv
  <1> QED
    BY <1>1, <1>2 DEF ResultsOf, SamePart, Spawned

\* results[] holds what have_read[] says, in every step.
LEMMA ResultsStep == IInv /\ [Next]_vars /\ ShapeInv' => ResultsInv'
  <1> SUFFICES ASSUME IInv, [Next]_vars, ShapeInv', NEW j \in Sorter
               PROVE  ResultsOf(j)'
    BY SameParts DEF ResultsInv, IInv
  <1> USE DEF poller, sorters, coach, Failed
  <1>0. ShapeInv
    BY DEF IInv
  <1>1. CASE CheckUnset
    BY <1>1, ResultsKept DEF CheckUnset
  <1>2. CASE CheckFlag
    BY <1>2, ResultsKept DEF CheckFlag
  <1>3. CASE Spawn
    <2>1. /\ have' = have /\ results' = results /\ have[j] = 0
      BY <1>3 DEF Spawn, IInv, OwedInv
    <2>2. results[j] = <<>>
      BY <2>1 DEF IInv, ResultsInv, ResultsOf
    <2> QED
      BY <2>1, <2>2 DEF ResultsOf
  <1>4. CASE SpawnFails
    BY <1>4, ResultsKept DEF SpawnFails
  <1>5. CASE Poll
    BY <1>5, ResultsKept DEF Poll
  <1>6. CASE PollInterrupted
    BY <1>6, ResultsKept DEF PollInterrupted
  <1>7. CASE LeaveLoop
    BY <1>7, ResultsKept DEF LeaveLoop
  <1>8. CASE Skip
    BY <1>8, ResultsKept DEF Skip
  <1>9. CASE ReadCount
    BY <1>9, ResultsKept DEF ReadCount
  <1>10. CASE ReadRecords
    <2>1. /\ idx \in Sorter /\ UNCHANGED <<ends, child>>
          /\ \A i \in Sorter : i # idx => UNCHANGED <<have[i], results[i]>>
          /\ results'[idx] =
               results[idx] \o SubSeq(pipe[idx], 1, Got(idx, toRead))
      BY <1>10, <1>0 DEF ReadRecords, ShapeInv, InLoop
    <2>2. CASE j # idx
      BY <2>1, <2>2, ResultsKept
    <2>3. CASE j = idx
      <3> DEFINE k == Got(j, toRead)
                 units == SubSeq(pipe[j], 1, k)
      <3>1. /\ Typed(j) /\ SamePart(j) /\ toRead \in Nat
            /\ have'[j] = have[j] + toRead /\ results'[j] = results[j] \o units
        BY <1>10, <2>1, <2>3, RecordsRead
      <3>2. results[j] \in Seq(Unit) /\ pipe[j] \in Seq(Unit)
        BY <1>0 DEF ShapeInv
      <3>3. ASSUME k \in 0 .. Len(pipe[j])
            PROVE  /\ Len(results'[j]) = Len(results[j]) + k
                   /\ \A n \in 1 .. Len(results[j]) :
                        results'[j][n] = results[j][n]
                   /\ \A n \in 1 .. k :
                        results'[j][Len(results[j]) + n] = pipe[j][n]
                   /\ k = 0 => results'[j] = results[j]
        <4>1. /\ units \in Seq(Unit) /\ Len(units) = k
              /\ \A n \in 1 .. k : units[n] = pipe[j][n]
          BY <3>2, <3>3, Cut
        <4>2. \A p, t \in Seq(Unit) :
                /\ Len(p \o t) = Len(p) + Len(t)
                /\ \A n \in 1 .. Len(p) : (p \o t)[n] = p[n]
                /\ \A n \in 1 .. Len(t) : (p \o t)[Len(p) + n] = t[n]
                /\ Len(t) = 0 => p \o t = p
          OBVIOUS
        <4>3. results'[j] = results[j] \o units
          BY <3>1
        <4> HIDE DEF k, units
        <4>4. /\ Len(results[j] \o units) = Len(results[j]) + Len(units)
              /\ \A n \in 1 .. Len(results[j]) :
                   (results[j] \o units)[n] = results[j][n]
              /\ \A n \in 1 .. Len(units) :
                   (results[j] \o units)[Len(results[j]) + n] = units[n]
              /\ Len(units) = 0 => results[j] \o units = results[j]
          BY <3>2, <4>1, <4>2
        <4> QED
          BY <4>1, <4>3, <4>4, Zenon
      <3>4. ASSUME have'[j] = 0
            PROVE  results'[j] = <<>>
        <4>1. have[j] = 0 /\ toRead = 0
          BY <3>1, <3>4 DEF Typed
        <4>2. k = 0
          <5>1. Len(pipe[j]) \in Nat
            BY <3>2
          <5>2. Min({0, Len(pipe[j])}) = 0
            BY <5>1, MinOfTwo
          <5> QED
            BY <4>1, <5>2 DEF Got
        <4> QED
          BY <3>2, <3>3, <4>1, <4>2 DEF IInv, ResultsInv, ResultsOf
      <3>5. ASSUME Spawned(j)', ~Failed(j)', have'[j] <= Share(j)'
            PROVE  /\ Len(results'[j]) = have'[j]
                   /\ \A n \in 1 .. have'[j] :
                        results'[j][n] = <<"record", Array(j)'[n]>>
        <4>1. /\ Spawned(j) /\ ~Failed(j) /\ have'[j] <= Share(j)
              /\ Array(j)' = Array(j)
          BY <2>1, <3>1, <3>5 DEF Spawned, SamePart
        <4>2. /\ k = toRead /\ toRead <= Len(pipe[j]) /\ RecordsFrom(j, 0, toRead)
          BY <1>10, <2>3, <4>1, RecordsRead
        <4>3. /\ Len(results[j]) = have[j]
              /\ \A n \in 1 .. have[j] : results[j][n] = <<"record", Array(j)[n]>>
          BY <3>1, <4>1 DEF Typed, IInv, ResultsInv, ResultsOf
        <4>4. k \in 0 .. Len(pipe[j])
          BY <3>1, <3>2, <4>2
        <4>5. \A r \in 1 .. toRead :
                pipe[j][r] = <<"record", Array(j)[have[j] + r]>>
          BY <4>2 DEF RecordsFrom
        <4>6. Len(results'[j]) = have'[j]
          BY <3>1, <3>3, <4>2, <4>3, <4>4
        <4>7. ASSUME NEW n \in 1 .. have'[j]
              PROVE  results'[j][n] = <<"record", Array(j)[n]>>
          <5>0. n \in Int /\ have[j] \in Int
            BY <3>1, <4>7 DEF Typed
          <5>1. CASE n <= have[j]
            <6>1. n \in 1 .. have[j] /\ n \in 1 .. Len(results[j])
              BY <4>3, <4>7, <5>0, <5>1
            <6>2. results'[j][n] = results[j][n]
              BY <3>3, <4>4, <6>1
            <6> QED
              BY <4>3, <6>1, <6>2
          <5>2. CASE n > have[j]
            <6>1. /\ n - have[j] \in 1 .. toRead /\ have[j] + (n - have[j]) = n
              BY <3>1, <4>7, <5>2 DEF Typed
            <6>2. results'[j][have[j] + (n - have[j])] = pipe[j][n - have[j]]
              BY <3>3, <4>2, <4>3, <4>4, <6>1
            <6> QED
              BY <4>5, <6>1, <6>2
          <5> QED
            BY <5>0, <5>1, <5>2
        <4> QED
          BY <4>1, <4>6, <4>7
      <3> QED
        BY <3>4, <3>5 DEF ResultsOf
    <2> QED
      BY <2>2, <2>3
  <1>11. CASE ReadTime
    BY <1>11, ResultsKept DEF ReadTime
  <1>12. CASE HangUp
    BY <1>12, ResultsKept DEF HangUp
  <1>13. CASE Reap
    BY <1>13, ResultsKept DEF Reap
  <1>14. CASE ReadText
    BY <1>14, ResultsKept DEF ReadText
  <1>15. CASE WriteResults
    BY <1>15, ResultsKept DEF WriteResults
  <1>16. CASE WriteFails
    BY <1>16, ResultsKept DEF WriteFails
  <1>17. CASE Report
    BY <1>17, ResultsKept DEF Report
  <1>18. CASE TryWait
    BY <1>18, ResultsKept DEF TryWait
  <1>19. CASE Kill
    <2>1. /\ child[j] = "none" => child'[j] = "none"
          /\ Failed(j) => Failed(j)'
      BY <1>19, <1>0 DEF Kill, ShapeInv
    <2> QED
      BY <1>19, <2>1, ResultsKept DEF Kill
  <1>20. CASE Wait
    BY <1>20, ResultsKept DEF Wait
  <1>21. CASE ForceExit
    BY <1>21, ResultsKept DEF ForceExit
  <1>22. CASE TakeSignals
    BY <1>22, ResultsKept DEF TakeSignals
  <1>23. CASE Stop
    BY <1>23, ResultsKept DEF Stop
  <1>24. ASSUME NEW i \in Sorter, Exec(i) PROVE ResultsOf(j)'
    BY <1>24, <1>0, ResultsKept DEF Exec, Sorts, ShapeInv
  <1>25. ASSUME NEW i \in Sorter, FailStart(i) PROVE ResultsOf(j)'
    BY <1>25, <1>0, ResultsKept DEF FailStart, Sorts, ShapeInv
  <1>26. ASSUME NEW i \in Sorter, ExitFailure(i) PROVE ResultsOf(j)'
    BY <1>26, <1>0, ResultsKept DEF ExitFailure, Sorts, ShapeInv
  <1>27. ASSUME NEW i \in Sorter, Crash(i) PROVE ResultsOf(j)'
    BY <1>27, <1>0, ResultsKept DEF Crash, Sorts, ShapeInv
  <1>28. ASSUME NEW i \in Sorter, Sort(i) PROVE ResultsOf(j)'
    BY <1>28, <1>0, ResultsKept DEF Sort, Sorts, ShapeInv
  <1>29. ASSUME NEW i \in Sorter, WriteCount(i) PROVE ResultsOf(j)'
    BY <1>29, <1>0, ResultsKept DEF WriteCount, Sorts, ShapeInv
  <1>30. ASSUME NEW i \in Sorter, WriteRecords(i) PROVE ResultsOf(j)'
    BY <1>30, <1>0, ResultsKept DEF WriteRecords, Sorts, ShapeInv
  <1>31. ASSUME NEW i \in Sorter, WriteTime(i) PROVE ResultsOf(j)'
    BY <1>31, <1>0, ResultsKept DEF WriteTime, Sorts, ShapeInv
  <1>32. ASSUME NEW i \in Sorter, BreakPipe(i) PROVE ResultsOf(j)'
    BY <1>32, <1>0, ResultsKept DEF BreakPipe, Sorts, ShapeInv
  <1>33. ASSUME NEW i \in Sorter, Close(i) PROVE ResultsOf(j)'
    BY <1>33, <1>0, ResultsKept DEF Close, Sorts, ShapeInv
  <1>34. ASSUME NEW i \in Sorter, Exit(i) PROVE ResultsOf(j)'
    BY <1>34, <1>0, ResultsKept DEF Exit, Sorts, ShapeInv
  <1>35. CASE UNCHANGED vars
    BY <1>35, ResultsKept DEF vars
  <1> QED
    BY <1>1, <1>2, <1>3, <1>4, <1>5, <1>6, <1>7, <1>8, <1>9, <1>10, <1>11,
       <1>12, <1>13, <1>14, <1>15, <1>16, <1>17, <1>18, <1>19, <1>20, <1>21,
       <1>22, <1>23, <1>24, <1>25, <1>26, <1>27, <1>28, <1>29, <1>30, <1>31,
       <1>32, <1>33, <1>34, <1>35
       DEF Next, CoachRuns, SorterRuns

-------------------------------------------------------------------------------
(* What the coach still has to read. *)

\* No sorter owes a number that is not one.
LEMMA OwedInt ==
  ASSUME IInv, cpc \in Collecting, NEW i \in 0 .. 7
  PROVE  Owed(i) \in Int
  BY TypedPart DEF Owed, Typed

\* Before anything is read, the sorters together owe the whole file.
LEMMA AllOwedAtFirst ==
  ASSUME IInv, cpc \in Collecting, \A i \in Sorter : have[i] = 0
  PROVE  AllOwed = NumOfRecords
  <1>1. /\ NumOfSorters \in {1, 2, 4, 8} /\ Sorter = 0 .. NumOfSorters - 1
        /\ NumOfRecords \in Nat /\ coachnum \in 0 .. 3
        /\ Len(ends) = NumOfSorters
    BY PartsFacts DEF IInv, PartsInv
  <1>2. ends[NumOfSorters] = NumOfRecords
    <2>1. ends[NumOfSorters] = Bound(NumOfSorters)
      BY <1>1 DEF IInv, PartsInv
    <2> QED
      BY <1>1, <2>1, BoundMonotonic
  <1>3. \A k \in 1 .. NumOfSorters : ends[k] \in Int
    BY <1>1 DEF IInv, PartsInv
  <1>4. ASSUME NEW i \in 0 .. 7
        PROVE  Owed(i) = IF i < NumOfSorters
                         THEN ends[i + 1] - (IF i = 0 THEN 0 ELSE ends[i])
                         ELSE 0
    <2>1. i \in Sorter <=> i < NumOfSorters
      BY <1>1
    <2>2. i < NumOfSorters => ends[i + 1] \in Int /\ (i # 0 => ends[i] \in Int)
      BY <1>1, <1>3
    <2> QED
      BY <2>1, <2>2 DEF Owed, Share, Start
  <1>5. CASE NumOfSorters = 1
    BY <1>2, <1>3, <1>4, <1>5 DEF AllOwed
  <1>6. CASE NumOfSorters = 2
    BY <1>2, <1>3, <1>4, <1>6 DEF AllOwed
  <1>7. CASE NumOfSorters = 4
    BY <1>2, <1>3, <1>4, <1>7 DEF AllOwed
  <1>8. CASE NumOfSorters = 8
    BY <1>2, <1>3, <1>4, <1>8 DEF AllOwed
  <1> QED
    BY <1>1, <1>5, <1>6, <1>7, <1>8

\* What is read from one sorter comes off the sum.
LEMMA AllOwedRead ==
  ASSUME IInv, [Next]_vars, cpc \in Collecting, ends' = ends,
         NEW i \in Sorter, NEW n \in Nat, have'[i] = have[i] + n,
         \A j \in Sorter : j # i => have'[j] = have[j]
  PROVE  AllOwed' = AllOwed - n
  <1>1. Sorter' = Sorter /\ Sorter \subseteq 0 .. 7
    BY SameParts, PartsFacts DEF IInv
  <1>2. \A j \in 0 .. 7 : Owed(j) \in Int
    BY OwedInt
  <1>3. ASSUME NEW j \in 0 .. 7
        PROVE  Owed(j)' = IF j = i THEN Owed(j) - n ELSE Owed(j)
    <2>1. CASE j \in Sorter
      <3>1. Share(j)' = Share(j) /\ Share(j) \in Nat /\ have[j] \in Nat
        BY <2>1, PartKept, TypedPart DEF SamePart, Typed
      <3> QED
        BY <1>1, <2>1, <3>1 DEF Owed
    <2>2. CASE j \notin Sorter
      BY <1>1, <2>2 DEF Owed
    <2> QED
      BY <2>1, <2>2
  <1>4. i \in {0, 1, 2, 3, 4, 5, 6, 7}
    BY <1>1
  <1> QED
    BY <1>2, <1>3, <1>4 DEF AllOwed

\* A step that reads no records.
LEMMA OwedKept ==
  ASSUME IInv, [Next]_vars, ends' = ends, UNCHANGED <<have, remaining>>,
         cpc' \in Working => cpc \in Working,
         cpc' \in {"unset", "set", "spawn", "spawned"} =>
           cpc \in {"unset", "set", "spawn", "spawned"}
  PROVE  OwedInv'
  <1>1. Sorter' = Sorter
    BY SameParts DEF IInv
  <1>2. \A i \in Sorter : Share(i)' = Share(i)
    BY PartKept DEF SamePart
  <1>3. \A i : Owed(i)' = Owed(i)
    BY <1>1, <1>2 DEF Owed
  <1>4. AllOwed' = AllOwed
    BY <1>3 DEF AllOwed
  <1> QED
    BY <1>1, <1>2, <1>4 DEF IInv, OwedInv

\* remaining is what the sorters owe, in every step.
LEMMA OwedStep == IInv /\ [Next]_vars => OwedInv'
  <1> SUFFICES ASSUME IInv, [Next]_vars PROVE OwedInv'
    OBVIOUS
  <1> USE DEF Goto, EnterForce, Onward, poller, coach, Working, InLoop
  <1>1. CASE CheckUnset
    BY <1>1, OwedKept DEF CheckUnset
  <1>2. CASE CheckFlag
    <2>1. /\ UNCHANGED <<ends, have>> /\ cpc \in {"set", "spawned"}
          /\ cpc = "spawned" => remaining' = NumOfRecords
          /\ \/ cpc' = "forced"
             \/ cpc = "set" /\ cpc' = "spawn"
             \/ cpc = "spawned" /\ cpc' = "poll"
      BY <1>2 DEF CheckFlag
    <2>2. /\ Sorter' = Sorter /\ NumOfRecords' = NumOfRecords
          /\ \A i \in Sorter : have[i] = 0
      BY <2>1, SameParts DEF IInv, OwedInv
    <2>3. CASE cpc' = "poll"
      <3>1. cpc \in Collecting /\ cpc = "spawned"
        BY <2>1, <2>3 DEF Collecting
      <3>2. AllOwed = NumOfRecords
        BY <2>2, <3>1, AllOwedAtFirst
      <3>3. AllOwed' = AllOwed
        <4>1. \A i \in Sorter : Share(i)' = Share(i)
          BY <2>1, PartKept DEF SamePart
        <4>2. \A i : Owed(i)' = Owed(i)
          BY <2>1, <2>2, <4>1 DEF Owed
        <4> QED
          BY <4>2 DEF AllOwed
      <3>4. \A i \in Sorter : have'[i] <= Share(i)'
        <4>1. ASSUME NEW i \in Sorter PROVE have'[i] <= Share(i)'
          <5>1. Share(i) \in Nat /\ Share(i)' = Share(i)
            BY <2>1, <3>1, PartKept, TypedPart DEF SamePart, Typed
          <5> QED
            BY <2>1, <2>2, <5>1
        <4> QED
          BY <4>1
      <3> QED
        BY <2>1, <2>2, <2>3, <3>1, <3>2, <3>3, <3>4 DEF OwedInv
    <2> QED
      BY <2>1, <2>2, <2>3 DEF OwedInv
  <1>3. CASE Spawn
    <2>1. /\ cpc = "spawn" /\ cpc' \in {"spawn", "spawned"} /\ have' = have
      BY <1>3 DEF Spawn
    <2>2. Sorter' = Sorter /\ \A i \in Sorter : have[i] = 0
      BY <2>1, SameParts DEF IInv, OwedInv
    <2> QED
      BY <2>1, <2>2 DEF OwedInv
  <1>4. CASE SpawnFails
    BY <1>4, OwedKept DEF SpawnFails
  <1>5. CASE Poll
    BY <1>5, OwedKept DEF Poll
  <1>6. CASE PollInterrupted
    BY <1>6, OwedKept DEF PollInterrupted
  <1>7. CASE LeaveLoop
    BY <1>7, OwedKept DEF LeaveLoop
  <1>8. CASE Skip
    BY <1>8, OwedKept DEF Skip
  <1>9. CASE ReadCount
    BY <1>9, OwedKept DEF ReadCount
  <1>10. CASE ReadRecords
    <2>1. PICK i : i = idx
      OBVIOUS
    <2>2. /\ i \in Sorter /\ Typed(i) /\ SamePart(i) /\ toRead \in Nat
          /\ have'[i] = have[i] + toRead
      BY <1>10, <2>1, RecordsRead
    <2>3. /\ cpc = "body" /\ UNCHANGED ends /\ remaining' = remaining - toRead
          /\ \A j \in Sorter : j # i => have'[j] = have[j]
      BY <1>10, <2>1 DEF ReadRecords, IInv, ShapeInv
    <2>4. \/ cpc' = "forced"
          \/ /\ cpc' \in {"time", "poll", "scan"}
             /\ have[i] + toRead <= Share(i)
      BY <1>10, <2>1, <2>2 DEF ReadRecords, Typed
    <2>5. /\ \A j \in Sorter : have[j] <= Share(j)
          /\ remaining = AllOwed /\ Sorter' = Sorter
      BY <2>3, SameParts DEF IInv, OwedInv
    <2>6. AllOwed' = AllOwed - toRead
      BY <2>2, <2>3, AllOwedRead DEF Collecting
    <2>7. \A j \in Sorter : Share(j)' = Share(j)
      BY <2>3, PartKept DEF SamePart
    <2> QED
      BY <2>2, <2>3, <2>4, <2>5, <2>6, <2>7 DEF OwedInv
  <1>11. CASE ReadTime
    BY <1>11, OwedKept DEF ReadTime
  <1>12. CASE HangUp
    BY <1>12, OwedKept DEF HangUp
  <1>13. CASE Reap
    BY <1>13, OwedKept DEF Reap
  <1>14. CASE ReadText
    BY <1>14, OwedKept DEF ReadText
  <1>15. CASE WriteResults
    BY <1>15, OwedKept DEF WriteResults
  <1>16. CASE WriteFails
    BY <1>16, OwedKept DEF WriteFails
  <1>17. CASE Report
    BY <1>17, OwedKept DEF Report
  <1>18. CASE TryWait
    BY <1>18, OwedKept DEF TryWait
  <1>19. CASE Kill
    BY <1>19, OwedKept DEF Kill
  <1>20. CASE Wait
    BY <1>20, OwedKept DEF Wait
  <1>21. CASE ForceExit
    BY <1>21, OwedKept DEF ForceExit
  <1>22. CASE TakeSignals
    BY <1>22, OwedKept DEF TakeSignals
  <1>23. CASE Stop
    BY <1>23, OwedKept DEF Stop
  <1>24. ASSUME NEW i \in Sorter, Exec(i) PROVE OwedInv'
    BY <1>24, OwedKept DEF Exec
  <1>25. ASSUME NEW i \in Sorter, FailStart(i) PROVE OwedInv'
    BY <1>25, OwedKept DEF FailStart
  <1>26. ASSUME NEW i \in Sorter, ExitFailure(i) PROVE OwedInv'
    BY <1>26, OwedKept DEF ExitFailure
  <1>27. ASSUME NEW i \in Sorter, Crash(i) PROVE OwedInv'
    BY <1>27, OwedKept DEF Crash
  <1>28. ASSUME NEW i \in Sorter, Sort(i) PROVE OwedInv'
    BY <1>28, OwedKept DEF Sort
  <1>29. ASSUME NEW i \in Sorter, WriteCount(i) PROVE OwedInv'
    BY <1>29, OwedKept DEF WriteCount
  <1>30. ASSUME NEW i \in Sorter, WriteRecords(i) PROVE OwedInv'
    BY <1>30, OwedKept DEF WriteRecords
  <1>31. ASSUME NEW i \in Sorter, WriteTime(i) PROVE OwedInv'
    BY <1>31, OwedKept DEF WriteTime
  <1>32. ASSUME NEW i \in Sorter, BreakPipe(i) PROVE OwedInv'
    BY <1>32, OwedKept DEF BreakPipe
  <1>33. ASSUME NEW i \in Sorter, Close(i) PROVE OwedInv'
    BY <1>33, OwedKept DEF Close
  <1>34. ASSUME NEW i \in Sorter, Exit(i) PROVE OwedInv'
    BY <1>34, OwedKept DEF Exit
  <1>35. CASE UNCHANGED vars
    BY <1>35, OwedKept DEF vars
  <1> QED
    BY <1>1, <1>2, <1>3, <1>4, <1>5, <1>6, <1>7, <1>8, <1>9, <1>10, <1>11,
       <1>12, <1>13, <1>14, <1>15, <1>16, <1>17, <1>18, <1>19, <1>20, <1>21,
       <1>22, <1>23, <1>24, <1>25, <1>26, <1>27, <1>28, <1>29, <1>30, <1>31,
       <1>32, <1>33, <1>34, <1>35
       DEF Next, CoachRuns, SorterRuns

-------------------------------------------------------------------------------
(* The sorters that have delivered. *)

\* A step that does not bring the coach to sorter j or away from it, and takes
\* nothing back of what it has done about it.
LEMMA DoneKept ==
  ASSUME IInv, [Next]_vars, NEW j \in Sorter, ends' = ends, have'[j] = have[j],
         j \in timed => j \in timed', j \in reaped => j \in reaped',
         j \notin listening => j \notin listening',
         \/ child'[j] = child[j]
         \/ /\ child[j] \notin {"ok", "fail", "killed"}
            /\ child[j] \in TimedPc => child'[j] \in TimedPc
            /\ Failed(j) => Failed(j)',
         cpc' \in Working => cpc \in Working,
         AtHand(j) => AtHand(j)' \/ cpc' \notin Working,
         cpc' \in {"body", "time", "reap", "text"} /\ idx' = j =>
           cpc' = cpc /\ idx' = idx /\ revents'[j] = revents[j]
  PROVE  DoneOf(j)'
  <1>1. SamePart(j)
    BY PartKept
  <1>2. DoneOf(j)
    BY DEF IInv, DoneInv
  <1>3. /\ child[j] = "fail" => child'[j] = "fail"
        /\ child[j] \in TimedPc => child'[j] \in TimedPc
        /\ Failed(j) => Failed(j)'
        /\ Settled(j) => Settled(j)'
    BY DEF Failed, Settled
  <1>4. /\ cpc' \in {"body", "time"} /\ idx' = j => revents'[j] = "none"
        /\ cpc' = "time" /\ idx' = j => have'[j] = Share(j)'
        /\ cpc' = "text" /\ idx' = j => child'[j] = "fail"
    BY <1>1, <1>2, <1>3 DEF DoneOf, SamePart
  <1>5. cpc' = "reap" /\ idx' = j /\ revents'[j] # "hup" =>
          /\ have'[j] = Share(j)'
          /\ Share(j)' > 0 /\ ~Failed(j)' => j \in timed' /\ child'[j] \in TimedPc
    BY <1>1, <1>2, <1>3 DEF DoneOf, SamePart
  <1>6. /\ cpc' \in Working /\ Share(j)' > 0
        /\ have'[j] = Share(j)' /\ ~AtHand(j)'
        => Settled(j)'
    BY <1>1, <1>2, <1>3 DEF DoneOf, SamePart
  <1> QED
    BY <1>4, <1>5, <1>6 DEF DoneOf

\* What the coach has of a sorter after it has read its run time.
LEMMA TimeRead ==
  ASSUME IInv, [Next]_vars, ReadTime, NEW i, i = idx
  PROVE  /\ i \in Sorter /\ SamePart(i) /\ have[i] = Share(i)
         /\ cpc' = "reap" /\ idx' = i /\ UNCHANGED <<have, child, revents, ends>>
         /\ Share(i) > 0 /\ ~Failed(i) => i \in timed' /\ child[i] \in TimedPc
  <1>1. /\ cpc = "time" /\ cpc' = "reap" /\ idx' = i /\ i \in Sorter /\ CanRead(i)
        /\ have[i] = Share(i)
        /\ timed' = IF pipe[i] # <<>> THEN timed \cup {i} ELSE timed
        /\ pipe'[i] = SubSeq(pipe[i], 2, Len(pipe[i]))
        /\ UNCHANGED <<ends, revents, child, have, sent, toWrite>>
    BY DEF ReadTime, ShapeInv, InLoop, IInv, DoneInv, DoneOf, Goto
  <1>2. Typed(i) /\ SamePart(i) /\ StreamOf(i)
    BY <1>1, PartKept, TypedPart DEF Collecting, IInv, StreamInv, Leaving
  <1> QED
    BY <1>1, <1>2, StreamReadTime

\* A sorter that has delivered is timed, waited for and left out, in every step.
LEMMA DoneStep == IInv /\ [Next]_vars => DoneInv'
  <1> SUFFICES ASSUME IInv, [Next]_vars, NEW j \in Sorter
               PROVE  DoneOf(j)'
    BY SameParts DEF DoneInv, IInv
  <1> USE DEF Goto, EnterForce, poller, sorters, coach, Working, InLoop
  <1>0. /\ ShapeInv /\ NumOfSorters \in {1, 2, 4, 8}
        /\ cpc \in InLoop => idx \in Sorter
    BY PartsFacts DEF IInv, ShapeInv
  <1>1. CASE CheckUnset
    BY <1>1 DEF CheckUnset, DoneOf
  <1>2. CASE CheckFlag
    <2>1. /\ cpc' \in {"forced", "spawn", "poll"} /\ UNCHANGED <<ends, have>>
          /\ have[j] = 0
      BY <1>2 DEF CheckFlag, IInv, OwedInv
    <2> QED
      BY <2>1 DEF DoneOf
  <1>3. CASE Spawn
    BY <1>3 DEF Spawn, DoneOf
  <1>4. CASE SpawnFails
    BY <1>4 DEF SpawnFails, DoneOf
  <1>5. CASE Poll
    BY <1>5, DoneKept DEF Poll, AtHand
  <1>6. CASE PollInterrupted
    BY <1>6 DEF PollInterrupted, DoneOf
  <1>7. CASE LeaveLoop
    BY <1>7, DoneKept DEF LeaveLoop, AtHand
  <1>8. CASE Skip
    <2>1. /\ cpc = "scan" /\ UNCHANGED <<poller, child, reaped>>
          /\ cpc' \in {"poll", "scan"}
      BY <1>8 DEF Skip, Onward
    <2> QED
      BY <2>1, DoneKept DEF AtHand
  <1>9. CASE ReadCount
    <2>1. /\ cpc = "scan" /\ cpc' = "body" /\ idx' = idx /\ idx \in Sorter
          /\ UNCHANGED <<ends, have, child, timed, reaped, listening>>
          /\ revents'[idx] = "none"
      BY <1>9, <1>0 DEF ReadCount, ShapeInv
    <2>2. CASE j = idx
      <3>1. SamePart(j) /\ DoneOf(j)
        BY <2>1, PartKept DEF IInv, DoneInv
      <3> QED
        BY <2>1, <2>2, <3>1 DEF DoneOf, SamePart, Settled, AtHand
    <2>3. CASE j # idx
      BY <2>1, <2>3, DoneKept DEF AtHand
    <2> QED
      BY <2>2, <2>3
  <1>10. CASE ReadRecords
    <2>1. /\ cpc = "body" /\ idx \in Sorter
          /\ UNCHANGED <<ends, child, timed, reaped, listening, revents>>
          /\ j # idx => have'[j] = have[j]
      BY <1>10, <1>0 DEF ReadRecords, ShapeInv
    <2>2. CASE j = idx
      <3>1. /\ Typed(j) /\ SamePart(j) /\ toRead \in Nat
            /\ have'[j] = have[j] + toRead
        BY <1>10, <2>2, RecordsRead
      <3>2. \/ cpc' = "time" /\ idx' = j /\ have'[j] = Share(j)
            \/ cpc' = "forced"
            \/ cpc' \in {"poll", "scan"} /\ have'[j] # Share(j)
        BY <1>10, <2>2, <3>1 DEF ReadRecords, Typed, Onward
      <3>3. revents[j] = "none"
        BY <2>1, <2>2 DEF IInv, DoneInv, DoneOf
      <3> QED
        BY <2>1, <3>1, <3>2, <3>3 DEF DoneOf, SamePart, AtHand
    <2>3. CASE j # idx
      <3>1. (cpc' = "time" /\ idx' = idx) \/ cpc' \in {"forced", "poll", "scan"}
        BY <1>10 DEF ReadRecords, Onward
      <3> QED
        BY <2>1, <2>3, <3>1, DoneKept DEF AtHand
    <2> QED
      BY <2>2, <2>3
  <1>11. CASE ReadTime
    <2>1. CASE j = idx
      <3>1. /\ SamePart(j) /\ have[j] = Share(j) /\ cpc' = "reap" /\ idx' = j
            /\ UNCHANGED <<have, child, revents, ends>>
            /\ Share(j) > 0 /\ ~Failed(j) => j \in timed' /\ child[j] \in TimedPc
        BY <1>11, <2>1, TimeRead
      <3> QED
        BY <3>1 DEF DoneOf, SamePart, AtHand, Failed
    <2>2. CASE j # idx
      <3>1. /\ UNCHANGED <<ends, have, child, reaped, listening>>
            /\ timed' = timed \cup {idx} \/ timed' = timed
            /\ cpc = "time" /\ cpc' = "reap" /\ idx' = idx
        BY <1>11 DEF ReadTime
      <3> QED
        BY <2>2, <3>1, DoneKept DEF AtHand
    <2> QED
      BY <2>1, <2>2
  <1>12. CASE HangUp
    <2>1. /\ cpc = "scan" /\ cpc' = "reap" /\ idx' = idx /\ revents[idx] = "hup"
          /\ UNCHANGED <<poller, child, reaped>>
      BY <1>12 DEF HangUp
    <2>2. CASE j = idx
      BY <2>1, <2>2 DEF DoneOf, AtHand
    <2>3. CASE j # idx
      BY <2>1, <2>3, DoneKept DEF AtHand
    <2> QED
      BY <2>2, <2>3
  <1>13. CASE Reap
    <2>1. /\ cpc = "reap" /\ child[idx] \in Dead /\ reaped' = reaped \cup {idx}
          /\ UNCHANGED <<ends, have, child, timed, revents>>
          /\ \/ /\ child[idx] = "fail" /\ cpc' = "text" /\ idx' = idx
                /\ listening' = listening
             \/ cpc' = "forced" /\ listening' = listening
             \/ /\ child[idx] # "fail" /\ cpc' \in {"poll", "scan"}
                /\ revents[idx] # "hup" /\ listening' = listening \ {idx}
      BY <1>13 DEF Reap, Onward
    <2>2. SamePart(j) /\ DoneOf(j)
      BY <2>1, PartKept DEF IInv, DoneInv
    <2>3. CASE j = idx
      <3>1. CASE cpc' = "text" /\ idx' = idx
        BY <2>1, <2>2, <2>3, <3>1 DEF DoneOf, AtHand
      <3>2. CASE cpc' = "forced"
        BY <3>2 DEF DoneOf
      <3>3. CASE cpc' \in {"poll", "scan"}
        <4>1. /\ child[j] \in {"ok", "killed"} /\ revents[j] # "hup"
              /\ j \notin listening' /\ j \in reaped'
          BY <2>1, <2>3, <3>3 DEF Dead
        <4>2. Share(j) > 0 => j \in timed
          BY <2>1, <2>2, <2>3, <4>1 DEF DoneOf, Failed
        <4> QED
          BY <2>1, <2>2, <3>3, <4>1, <4>2 DEF DoneOf, SamePart, Settled
      <3> QED
        BY <2>1, <3>1, <3>2, <3>3
    <2>4. CASE j # idx
      BY <2>1, <2>4, DoneKept DEF AtHand
    <2> QED
      BY <2>3, <2>4
  <1>14. CASE ReadText
    BY <1>14 DEF ReadText, DoneOf
  <1>15. CASE WriteResults
    BY <1>15, DoneKept DEF WriteResults, AtHand
  <1>16. CASE WriteFails
    BY <1>16 DEF WriteFails, DoneOf
  <1>17. CASE Report
    BY <1>17 DEF Report, DoneOf
  <1>18. CASE TryWait
    BY <1>18 DEF TryWait, DoneOf
  <1>19. CASE Kill
    BY <1>19 DEF Kill, DoneOf
  <1>20. CASE Wait
    BY <1>20 DEF Wait, DoneOf
  <1>21. CASE ForceExit
    BY <1>21 DEF ForceExit, DoneOf
  <1>22. CASE TakeSignals
    BY <1>22, DoneKept DEF TakeSignals, AtHand
  <1>23. CASE Stop
    BY <1>23, DoneKept DEF Stop, AtHand
  <1>24. ASSUME NEW i \in Sorter, Exec(i) PROVE DoneOf(j)'
    BY <1>24, <1>0, DoneKept DEF Exec, Sorts, ShapeInv, AtHand, Failed, TimedPc
  <1>25. ASSUME NEW i \in Sorter, FailStart(i) PROVE DoneOf(j)'
    BY <1>25, <1>0, DoneKept
       DEF FailStart, Sorts, ShapeInv, AtHand, Failed, TimedPc
  <1>26. ASSUME NEW i \in Sorter, ExitFailure(i) PROVE DoneOf(j)'
    BY <1>26, <1>0, DoneKept
       DEF ExitFailure, Sorts, ShapeInv, AtHand, Failed, TimedPc
  <1>27. ASSUME NEW i \in Sorter, Crash(i) PROVE DoneOf(j)'
    BY <1>27, <1>0, DoneKept DEF Crash, Sorts, ShapeInv, AtHand, Failed, TimedPc
  <1>28. ASSUME NEW i \in Sorter, Sort(i) PROVE DoneOf(j)'
    BY <1>28, <1>0, DoneKept DEF Sort, Sorts, ShapeInv, AtHand, Failed, TimedPc
  <1>29. ASSUME NEW i \in Sorter, WriteCount(i) PROVE DoneOf(j)'
    BY <1>29, <1>0, DoneKept
       DEF WriteCount, Sorts, ShapeInv, AtHand, Failed, TimedPc
  <1>30. ASSUME NEW i \in Sorter, WriteRecords(i) PROVE DoneOf(j)'
    BY <1>30, <1>0, DoneKept
       DEF WriteRecords, Sorts, ShapeInv, AtHand, Failed, TimedPc
  <1>31. ASSUME NEW i \in Sorter, WriteTime(i) PROVE DoneOf(j)'
    BY <1>31, <1>0, DoneKept
       DEF WriteTime, Sorts, ShapeInv, AtHand, Failed, TimedPc
  <1>32. ASSUME NEW i \in Sorter, BreakPipe(i) PROVE DoneOf(j)'
    BY <1>32, <1>0, DoneKept
       DEF BreakPipe, Sorts, ShapeInv, AtHand, Failed, TimedPc
  <1>33. ASSUME NEW i \in Sorter, Close(i) PROVE DoneOf(j)'
    BY <1>33, <1>0, DoneKept DEF Close, Sorts, ShapeInv, AtHand, Failed, TimedPc
  <1>34. ASSUME NEW i \in Sorter, Exit(i) PROVE DoneOf(j)'
    BY <1>34, <1>0, DoneKept DEF Exit, Sorts, ShapeInv, AtHand, Failed, TimedPc
  <1>35. CASE UNCHANGED vars
    BY <1>35, DoneKept DEF vars, AtHand
  <1> QED
    BY <1>1, <1>2, <1>3, <1>4, <1>5, <1>6, <1>7, <1>8, <1>9, <1>10, <1>11,
       <1>12, <1>13, <1>14, <1>15, <1>16, <1>17, <1>18, <1>19, <1>20, <1>21,
       <1>22, <1>23, <1>24, <1>25, <1>26, <1>27, <1>28, <1>29, <1>30, <1>31,
       <1>32, <1>33, <1>34, <1>35
       DEF Next, CoachRuns, SorterRuns

-------------------------------------------------------------------------------
(* Why the coach gives up. *)

\* A cause does not go away.
LEMMA CauseKept ==
  ASSUME IInv, [Next]_vars, Cause, disturbed => disturbed'
  PROVE  Cause'
  <1>1. CASE disturbed
    BY <1>1 DEF Cause
  <1>2. ASSUME NEW i \in Sorter, i < Len(ends), Share(i) = 0
        PROVE  Cause'
    <2>1. Share(i)' = 0 /\ i \in Sorter'
      BY <1>2, SameParts DEF IInv
    <2>2. i < Len(ends')
      <3>1. i \in Int /\ Len(ends) \in Int /\ Len(ends) <= Len(ends')
        BY SameParts, PartsFacts DEF IInv
      <3>2. Len(ends') = Len(ends) \/ Len(ends') = Len(ends) + 1
        BY SameParts DEF IInv
      <3> QED
        BY <1>2, <3>1, <3>2
    <2> QED
      BY <2>1, <2>2 DEF Cause
  <1> QED
    BY <1>1, <1>2 DEF Cause

\* An error, a crash or a signal the coach comes to know of is a cause, and so is
\* a sorter that has nothing to send.
LEMMA Causes ==
  ASSUME IInv
  PROVE  /\ flag \/ "USR1" \in pending => disturbed
         /\ disturbed => Cause
         /\ \A i \in Sorter : Share(i) = 0 /\ cpc \in Collecting => Cause
         /\ \A i \in Sorter : Failed(i) /\ cpc \notin Leaving => disturbed
  <1>1. \A i \in Sorter : cpc \in Collecting => i < Len(ends)
    BY TypedPart
  <1> QED
    BY <1>1 DEF IInv, CauseInv, Cause, ForkInv, Failed

\* A step that handles the signals, and leaves only for a cause.
LEMMA CauseHandled ==
  ASSUME IInv, [Next]_vars, Handle, disturbed => disturbed',
         \/ cpc' \notin {"forced", "kill", "wait"}
         \/ cpc \in {"forced", "kill", "wait"} \/ Cause \/ disturbed',
         \/ outcome' = outcome
         \/ outcome' \notin {"failure", "killed"}
         \/ cpc \in {"forced", "kill", "wait"} \/ Cause \/ disturbed'
  PROVE  CauseInv'
  <1>1. Cause \/ disturbed' => Cause'
    BY CauseKept DEF Cause
  <1>2. flag' => disturbed'
    BY Causes DEF Handle
  <1>3. pending' = {}
    BY DEF Handle
  <1> QED
    BY <1>1, <1>2, <1>3 DEF IInv, CauseInv

\* The coach gives up for a cause only, in every step.
LEMMA CauseStep == IInv /\ [Next]_vars => CauseInv'
  <1> SUFFICES ASSUME IInv, [Next]_vars PROVE CauseInv'
    OBVIOUS
  <1> USE DEF Goto, EnterForce, poller, sorters, coach, ending, histories
  <1>0. /\ ShapeInv /\ CauseInv /\ ContractInv
        /\ cpc \in InLoop => idx \in Sorter
        /\ flag \/ "USR1" \in pending => Cause
    BY Causes DEF IInv, ShapeInv
  <1>1. CASE CheckUnset
    <2>1. flag' => Cause
      BY <1>1, <1>0 DEF CheckUnset, Handle
    <2> QED
      BY <1>1, <2>1, CauseHandled DEF CheckUnset
  <1>2. CASE CheckFlag
    <2>1. flag' => Cause
      BY <1>2, <1>0 DEF CheckFlag, Handle
    <2> QED
      BY <1>2, <2>1, CauseHandled DEF CheckFlag
  <1>3. CASE Spawn
    BY <1>3, CauseHandled DEF Spawn
  <1>4. CASE SpawnFails
    BY <1>4, CauseHandled DEF SpawnFails
  <1>5. CASE Poll
    <2>1. flag' => Cause
      BY <1>5, <1>0 DEF Poll, Handle
    <2> QED
      BY <1>5, <2>1, CauseHandled DEF Poll
  <1>6. CASE PollInterrupted
    <2>1. Cause
      <3>1. CASE "USR1" \in pending
        BY <1>0, <3>1
      <3>2. CASE "USR2" \in pending
        <4>1. PICK i \in listening : child[i] = "ok"
          BY <1>6, <1>0, <3>2 DEF PollInterrupted, CauseInv, Leaving
        <4>2. i \in Sorter /\ Ready(i)
          BY <1>0, <4>1 DEF ShapeInv, Ready, WriterOpen, Dead
        <4> QED
          BY <1>6, <4>2 DEF PollInterrupted
      <3> QED
        BY <1>6, <1>0, <3>1, <3>2 DEF PollInterrupted, ShapeInv
    <2> QED
      BY <1>6, <2>1, CauseHandled DEF PollInterrupted
  <1>7. CASE LeaveLoop
    BY <1>7, CauseHandled DEF LeaveLoop
  <1>8. CASE Skip
    BY <1>8, CauseHandled DEF Skip, Onward
  <1>9. CASE ReadCount
    BY <1>9, CauseHandled DEF ReadCount
  <1>10. CASE ReadRecords
    <2>1. /\ cpc = "body" /\ UNCHANGED <<outcome, disturbed>> /\ Handle
      BY <1>10 DEF ReadRecords
    <2>2. cpc' = "forced" => Cause
      <3>1. PICK i : i = idx
        OBVIOUS
      <3>2. /\ i \in Sorter /\ Typed(i) /\ toRead \in Nat
            /\ have'[i] = have[i] + toRead
            /\ ~Failed(i) /\ have'[i] > Share(i) => Share(i) = 0
        BY <1>10, <3>1, RecordsRead
      <3>3. cpc' = "forced" => have'[i] > Share(i)
        BY <1>10, <3>1, <3>2 DEF ReadRecords, Onward, Typed
      <3> QED
        BY <2>1, <3>2, <3>3, Causes DEF Collecting, Leaving
    <2>3. cpc' \in {"time", "forced", "poll", "scan"}
      BY <1>10 DEF ReadRecords, Onward
    <2> QED
      BY <2>1, <2>2, <2>3, CauseHandled
  <1>11. CASE ReadTime
    BY <1>11, CauseHandled DEF ReadTime
  <1>12. CASE HangUp
    BY <1>12, CauseHandled DEF HangUp
  <1>13. CASE Reap
    <2>1. /\ cpc = "reap" /\ UNCHANGED <<outcome, disturbed>> /\ Handle
          /\ cpc' \in {"text", "poll", "scan"} \/ revents[idx] = "hup"
      BY <1>13 DEF Reap, Onward
    <2>2. idx \in Sorter
      BY <2>1, <1>0 DEF InLoop
    <2>3. revents[idx] = "hup" => disturbed \/ Share(idx) = 0
      BY <2>1, <2>2 DEF IInv, PollInv, PollOf, InLoop
    <2>4. cpc' = "forced" => Cause
      BY <2>1, <2>2, <2>3, Causes DEF Collecting
    <2>5. cpc' \in {"text", "poll", "scan", "forced"}
      BY <1>13 DEF Reap, Onward
    <2> QED
      BY <2>1, <2>4, <2>5, CauseHandled
  <1>14. CASE ReadText
    <2>1. cpc = "text" /\ idx \in Sorter /\ child[idx] = "fail"
      BY <1>14, <1>0 DEF ReadText, InLoop, IInv, DoneInv, DoneOf
    <2>2. Cause
      BY <2>1, Causes DEF Failed, Leaving
    <2> QED
      BY <1>14, <2>2, CauseHandled DEF ReadText
  <1>15. CASE WriteResults
    BY <1>15, CauseHandled DEF WriteResults
  <1>16. CASE WriteFails
    BY <1>16, CauseHandled DEF WriteFails
  <1>17. CASE Report
    BY <1>17, CauseHandled DEF Report
  <1>18. CASE TryWait
    BY <1>18, CauseHandled DEF TryWait
  <1>19. CASE Kill
    BY <1>19, CauseHandled DEF Kill
  <1>20. CASE Wait
    BY <1>20, CauseHandled DEF Wait
  <1>21. CASE ForceExit
    BY <1>21, CauseHandled DEF ForceExit
  <1>22. CASE TakeSignals
    BY <1>22, CauseHandled DEF TakeSignals
  <1>23. CASE Stop
    <2>1. /\ UNCHANGED <<cpc, flag, outcome, listening>>
          /\ disturbed => disturbed'
      BY <1>23 DEF Stop
    <2>2. /\ pending' = pending \cup {"USR1"} /\ disturbed'
          /\ child' = child
      BY <1>23, <1>0 DEF Stop, ShapeInv
    <2>3. Cause => Cause'
      BY <2>1, CauseKept
    <2> QED
      BY <2>1, <2>2, <2>3, <1>0 DEF CauseInv
  <1>24. ASSUME NEW i \in Sorter, Exec(i) PROVE CauseInv'
    <2>1. /\ UNCHANGED <<cpc, flag, outcome, listening>>
          /\ disturbed => disturbed'
      BY <1>24 DEF Exec
    <2>2. /\ pending' = pending
          /\ \A l \in listening : child[l] = "ok" => child'[l] = "ok"
      BY <1>24, <1>0 DEF Exec, Sorts, ShapeInv
    <2>3. Cause => Cause'
      BY <2>1, CauseKept
    <2> QED
      BY <2>1, <2>2, <2>3, <1>0 DEF CauseInv
  <1>25. ASSUME NEW i \in Sorter, FailStart(i) PROVE CauseInv'
    <2>1. /\ UNCHANGED <<cpc, flag, outcome, listening>>
          /\ disturbed => disturbed'
      BY <1>25 DEF FailStart
    <2>2. /\ pending' = pending
          /\ \A l \in listening : child[l] = "ok" => child'[l] = "ok"
      BY <1>25, <1>0 DEF FailStart, Sorts, ShapeInv
    <2>3. Cause => Cause'
      BY <2>1, CauseKept
    <2> QED
      BY <2>1, <2>2, <2>3, <1>0 DEF CauseInv
  <1>26. ASSUME NEW i \in Sorter, ExitFailure(i) PROVE CauseInv'
    <2>1. /\ UNCHANGED <<cpc, flag, outcome, listening>>
          /\ disturbed => disturbed'
      BY <1>26 DEF ExitFailure
    <2>2. /\ pending' = pending
          /\ \A l \in listening : child[l] = "ok" => child'[l] = "ok"
      BY <1>26, <1>0 DEF ExitFailure, Sorts, ShapeInv
    <2>3. Cause => Cause'
      BY <2>1, CauseKept
    <2> QED
      BY <2>1, <2>2, <2>3, <1>0 DEF CauseInv
  <1>27. ASSUME NEW i \in Sorter, Crash(i) PROVE CauseInv'
    <2>1. /\ UNCHANGED <<cpc, flag, outcome, listening>>
          /\ disturbed => disturbed'
      BY <1>27 DEF Crash
    <2>2. /\ pending' = pending
          /\ \A l \in listening : child[l] = "ok" => child'[l] = "ok"
      BY <1>27, <1>0 DEF Crash, Sorts, ShapeInv
    <2>3. Cause => Cause'
      BY <2>1, CauseKept
    <2> QED
      BY <2>1, <2>2, <2>3, <1>0 DEF CauseInv
  <1>28. ASSUME NEW i \in Sorter, Sort(i) PROVE CauseInv'
    <2>1. /\ UNCHANGED <<cpc, flag, outcome, listening>>
          /\ disturbed => disturbed'
      BY <1>28 DEF Sort
    <2>2. /\ pending' = pending
          /\ \A l \in listening : child[l] = "ok" => child'[l] = "ok"
      BY <1>28, <1>0 DEF Sort, Sorts, ShapeInv
    <2>3. Cause => Cause'
      BY <2>1, CauseKept
    <2> QED
      BY <2>1, <2>2, <2>3, <1>0 DEF CauseInv
  <1>29. ASSUME NEW i \in Sorter, WriteCount(i) PROVE CauseInv'
    <2>1. /\ UNCHANGED <<cpc, flag, outcome, listening>>
          /\ disturbed => disturbed'
      BY <1>29 DEF WriteCount
    <2>2. /\ pending' = pending
          /\ \A l \in listening : child[l] = "ok" => child'[l] = "ok"
      BY <1>29, <1>0 DEF WriteCount, Sorts, ShapeInv
    <2>3. Cause => Cause'
      BY <2>1, CauseKept
    <2> QED
      BY <2>1, <2>2, <2>3, <1>0 DEF CauseInv
  <1>30. ASSUME NEW i \in Sorter, WriteRecords(i) PROVE CauseInv'
    <2>1. /\ UNCHANGED <<cpc, flag, outcome, listening>>
          /\ disturbed => disturbed'
      BY <1>30 DEF WriteRecords
    <2>2. /\ pending' = pending
          /\ \A l \in listening : child[l] = "ok" => child'[l] = "ok"
      BY <1>30, <1>0 DEF WriteRecords, Sorts, ShapeInv
    <2>3. Cause => Cause'
      BY <2>1, CauseKept
    <2> QED
      BY <2>1, <2>2, <2>3, <1>0 DEF CauseInv
  <1>31. ASSUME NEW i \in Sorter, WriteTime(i) PROVE CauseInv'
    <2>1. /\ UNCHANGED <<cpc, flag, outcome, listening>>
          /\ disturbed => disturbed'
      BY <1>31 DEF WriteTime
    <2>2. /\ pending' = pending
          /\ \A l \in listening : child[l] = "ok" => child'[l] = "ok"
      BY <1>31, <1>0 DEF WriteTime, Sorts, ShapeInv
    <2>3. Cause => Cause'
      BY <2>1, CauseKept
    <2> QED
      BY <2>1, <2>2, <2>3, <1>0 DEF CauseInv
  <1>32. ASSUME NEW i \in Sorter, BreakPipe(i) PROVE CauseInv'
    <2>1. /\ UNCHANGED <<cpc, flag, outcome, listening>>
          /\ disturbed => disturbed'
      BY <1>32 DEF BreakPipe
    <2>2. /\ pending' = pending
          /\ \A l \in listening : child[l] = "ok" => child'[l] = "ok"
      BY <1>32, <1>0 DEF BreakPipe, Sorts, ShapeInv
    <2>3. Cause => Cause'
      BY <2>1, CauseKept
    <2> QED
      BY <2>1, <2>2, <2>3, <1>0 DEF CauseInv
  <1>33. ASSUME NEW i \in Sorter, Close(i) PROVE CauseInv'
    <2>1. /\ UNCHANGED <<cpc, flag, outcome, listening>>
          /\ disturbed => disturbed'
      BY <1>33 DEF Close
    <2>2. /\ pending' = pending
          /\ \A l \in listening : child[l] = "ok" => child'[l] = "ok"
      BY <1>33, <1>0 DEF Close, Sorts, ShapeInv
    <2>3. Cause => Cause'
      BY <2>1, CauseKept
    <2> QED
      BY <2>1, <2>2, <2>3, <1>0 DEF CauseInv
  <1>34. ASSUME NEW i \in Sorter, Exit(i) PROVE CauseInv'
    <2>1. /\ UNCHANGED <<cpc, flag, outcome, listening, disturbed>>
          /\ child[i] = "closed" /\ child'[i] = "ok"
          /\ \A l \in listening : child[l] = "ok" => child'[l] = "ok"
          /\ pending' = pending \/ pending' = pending \cup {"USR2"}
      BY <1>34, <1>0 DEF Exit, Sorts, ShapeInv
    <2>2. cpc \notin Leaving => i \in listening
      BY <2>1 DEF IInv, ForkInv, Dead
    <2>3. Cause => Cause'
      BY <2>1, CauseKept
    <2> QED
      BY <2>1, <2>2, <2>3, <1>0 DEF CauseInv
  <1>35. CASE UNCHANGED vars
    <2>1. /\ UNCHANGED <<cpc, flag, outcome, listening>>
          /\ disturbed => disturbed'
      BY <1>35 DEF vars, signals
    <2>2. /\ pending' = pending
          /\ \A l \in listening : child[l] = "ok" => child'[l] = "ok"
      BY <1>35, <1>0 DEF vars, signals
    <2>3. Cause => Cause'
      BY <2>1, CauseKept
    <2> QED
      BY <2>1, <2>2, <2>3, <1>0 DEF CauseInv
  <1> QED
    BY <1>1, <1>2, <1>3, <1>4, <1>5, <1>6, <1>7, <1>8, <1>9, <1>10, <1>11,
       <1>12, <1>13, <1>14, <1>15, <1>16, <1>17, <1>18, <1>19, <1>20, <1>21,
       <1>22, <1>23, <1>24, <1>25, <1>26, <1>27, <1>28, <1>29, <1>30, <1>31,
       <1>32, <1>33, <1>34, <1>35
       DEF Next, CoachRuns, SorterRuns

-------------------------------------------------------------------------------
(* The end of the loop. *)

\* In the loop no sorter has sent too much, and remaining is 0 when all have sent
\* everything.
LEMMA AllDelivered ==
  ASSUME IInv, cpc \in Working
  PROVE  /\ remaining >= 0
         /\ remaining = 0 <=> \A i \in Sorter : have[i] = Share(i)
  <1>1. cpc \in Collecting
    BY DEF Working, InLoop, Collecting
  <1>2. ASSUME NEW i \in 0 .. 7
        PROVE  /\ Owed(i) \in Int /\ Owed(i) >= 0
               /\ i \in Sorter => (Owed(i) = 0 <=> have[i] = Share(i))
               /\ i \notin Sorter => Owed(i) = 0
    BY <1>1, TypedPart DEF Owed, Typed, IInv, OwedInv
  <1>3. remaining = AllOwed /\ Sorter \subseteq 0 .. 7
    BY PartsFacts DEF IInv, OwedInv
  <1>4. AllOwed >= 0 /\ (AllOwed = 0 <=> \A i \in 0 .. 7 : Owed(i) = 0)
    <2>1. /\ Owed(0) \in Int /\ Owed(0) >= 0 /\ Owed(1) \in Int /\ Owed(1) >= 0
          /\ Owed(2) \in Int /\ Owed(2) >= 0 /\ Owed(3) \in Int /\ Owed(3) >= 0
          /\ Owed(4) \in Int /\ Owed(4) >= 0 /\ Owed(5) \in Int /\ Owed(5) >= 0
          /\ Owed(6) \in Int /\ Owed(6) >= 0 /\ Owed(7) \in Int /\ Owed(7) >= 0
      BY <1>2
    <2>2. /\ AllOwed >= 0
          /\ AllOwed = 0 <=> /\ Owed(0) = 0 /\ Owed(1) = 0 /\ Owed(2) = 0
                             /\ Owed(3) = 0 /\ Owed(4) = 0 /\ Owed(5) = 0
                             /\ Owed(6) = 0 /\ Owed(7) = 0
      BY <2>1 DEF AllOwed
    <2>3. (\A i \in 0 .. 7 : Owed(i) = 0) <=>
            /\ Owed(0) = 0 /\ Owed(1) = 0 /\ Owed(2) = 0 /\ Owed(3) = 0
            /\ Owed(4) = 0 /\ Owed(5) = 0 /\ Owed(6) = 0 /\ Owed(7) = 0
      <3>1. ASSUME NEW i \in 0 .. 7 PROVE i \in {0, 1, 2, 3, 4, 5, 6, 7}
        OBVIOUS
      <3> QED
        BY <3>1
    <2> QED
      BY <2>2, <2>3
  <1> QED
    BY <1>2, <1>3, <1>4

\* What has been read of a sorter's records, all of them as they are in its array.
LEMMA ReadUnits ==
  ASSUME NEW i, NEW n \in Nat, NEW s \in Seq(Unit), Len(s) = n,
         \A k \in 1 .. n : s[k] = <<"record", Array(i)[k]>>
  PROVE  s = [k \in 1 .. n |-> <<"record", Array(i)[k]>>]
  <1> DEFINE t == [k \in 1 .. n |-> <<"record", Array(i)[k]>>]
  <1>1. \A k \in 1 .. n : t[k] = s[k] /\ s[k] \in Unit
    OBVIOUS
  <1>2. t \in [1 .. n -> Unit]
    BY <1>1
  <1> HIDE DEF t
  <1>3. t \in Seq(Unit) /\ Len(t) = n
    BY <1>2, Units
  <1>4. s = t
    BY <1>1, <1>3, SeqEqual
  <1> QED
    BY <1>4 DEF t

\* What the coach writes is what the sorters have.
LEMMA ResultsDelivered ==
  ASSUME IInv, cpc = "write", NEW i \in Sorter
  PROVE  /\ results[i] = Delivered(i)
         /\ Share(i) > 0 => i \in timed /\ i \in reaped
  <1>1. /\ Typed(i) /\ i < Len(ends) /\ have[i] = Share(i)
        /\ results[i] \in Seq(Unit)
    BY TypedPart DEF Collecting, IInv, CompleteInv, ShapeInv
  <1>2. CASE Share(i) > 0
    <2>1. Settled(i)
      BY <1>1, <1>2 DEF IInv, DoneInv, DoneOf, Working, AtHand
    <2>2. /\ Len(results[i]) = Share(i)
          /\ \A k \in 1 .. Share(i) : results[i][k] = <<"record", Array(i)[k]>>
      BY <1>1, <2>1
         DEF Settled, Failed, Spawned, IInv, ResultsInv, ResultsOf, Typed
    <2>3. results[i] = Delivered(i)
      BY <1>1, <2>2, ReadUnits DEF Delivered, Typed
    <2> QED
      BY <2>1, <2>3 DEF Settled
  <1>3. CASE Share(i) = 0
    <2>1. results[i] = <<>>
      BY <1>1, <1>3 DEF IInv, ResultsInv, ResultsOf
    <2> QED
      BY <1>3, <2>1 DEF Delivered
  <1> QED
    BY <1>1, <1>2, <1>3 DEF Typed

\* A step that leaves what has been delivered alone.
LEMMA CompleteKept ==
  ASSUME IInv, [Next]_vars, ends' = ends, UNCHANGED <<output, have>>,
         \A i \in Sorter : /\ i \in timed => i \in timed'
                           /\ i \in reaped => i \in reaped',
         cpc' = "write" => cpc = "write",
         cpc' = "report" => cpc = "report",
         outcome' = "success" => outcome = "success" \/ cpc = "report"
  PROVE  CompleteInv'
  <1>1. Sorter' = Sorter /\ NumOfSorters' = NumOfSorters
    BY SameParts DEF IInv
  <1>2. \A i \in Sorter : Share(i)' = Share(i) /\ Delivered(i)' = Delivered(i)
    BY PartKept DEF SamePart, Delivered
  <1>3. Complete => Complete'
    <2>1. \A k \in 1 .. NumOfSorters : k - 1 \in Sorter
      BY PartsFacts DEF IInv
    <2>2. [k \in 1 .. NumOfSorters |-> Delivered(k - 1)]'
            = [k \in 1 .. NumOfSorters |-> Delivered(k - 1)]
      BY <1>1, <1>2, <2>1
    <2> QED
      BY <1>1, <1>2, <2>2 DEF Complete
  <1> QED
    BY <1>1, <1>2, <1>3 DEF IInv, CompleteInv

\* What the coach reports as a success is complete, in every step.
LEMMA CompleteStep == IInv /\ [Next]_vars => CompleteInv'
  <1> SUFFICES ASSUME IInv, [Next]_vars PROVE CompleteInv'
    OBVIOUS
  <1> USE DEF Goto, EnterForce, poller, sorters, coach, ending
  <1>1. CASE CheckUnset
    BY <1>1, CompleteKept DEF CheckUnset
  <1>2. CASE CheckFlag
    BY <1>2, CompleteKept DEF CheckFlag
  <1>3. CASE Spawn
    <2>1. cpc = "spawn" /\ cpc' \in {"spawn", "spawned"} /\ outcome' = outcome
      BY <1>3 DEF Spawn
    <2> QED
      BY <2>1 DEF CompleteInv, IInv, ContractInv
  <1>4. CASE SpawnFails
    BY <1>4, CompleteKept DEF SpawnFails
  <1>5. CASE Poll
    BY <1>5, CompleteKept DEF Poll
  <1>6. CASE PollInterrupted
    BY <1>6, CompleteKept DEF PollInterrupted
  <1>7. CASE LeaveLoop
    <2>1. /\ cpc = "poll" /\ remaining = 0 /\ cpc' = "write"
          /\ UNCHANGED <<ends, have, outcome>>
      BY <1>7 DEF LeaveLoop
    <2>2. \A i \in Sorter : have[i] = Share(i)
      BY <2>1, AllDelivered DEF Working
    <2>3. Sorter' = Sorter /\ \A i \in Sorter : Share(i)' = Share(i)
      BY <2>1, SameParts, PartKept DEF IInv, SamePart
    <2>4. outcome' # "success"
      BY <2>1 DEF IInv, ContractInv
    <2> QED
      BY <2>1, <2>2, <2>3, <2>4 DEF CompleteInv
  <1>8. CASE Skip
    BY <1>8, CompleteKept DEF Skip, Onward
  <1>9. CASE ReadCount
    BY <1>9, CompleteKept DEF ReadCount
  <1>10. CASE ReadRecords
    <2>1. /\ cpc = "body" /\ cpc' \in {"time", "forced", "poll", "scan"}
          /\ outcome' = outcome
      BY <1>10 DEF ReadRecords, Onward
    <2> QED
      BY <2>1 DEF CompleteInv, IInv, ContractInv
  <1>11. CASE ReadTime
    BY <1>11, CompleteKept DEF ReadTime
  <1>12. CASE HangUp
    BY <1>12, CompleteKept DEF HangUp
  <1>13. CASE Reap
    <2>1. /\ cpc' \in {"text", "forced", "poll", "scan"}
          /\ reaped' = reaped \cup {idx}
          /\ UNCHANGED <<ends, output, have, timed, outcome>>
      BY <1>13 DEF Reap, Onward
    <2> QED
      BY <2>1, CompleteKept
  <1>14. CASE ReadText
    BY <1>14, CompleteKept DEF ReadText
  <1>15. CASE WriteResults
    <2>1. /\ cpc = "write" /\ cpc' = "report"
          /\ output' = FlattenSeq([k \in 1 .. NumOfSorters |-> results[k - 1]])
          /\ UNCHANGED <<ends, timed, reaped, outcome>>
      BY <1>15 DEF WriteResults
    <2>2. /\ Sorter' = Sorter /\ NumOfSorters' = NumOfSorters
          /\ \A i \in Sorter : /\ Share(i)' = Share(i)
                               /\ Delivered(i)' = Delivered(i)
      BY <2>1, SameParts, PartKept DEF IInv, SamePart, Delivered
    <2>3. \A k \in 1 .. NumOfSorters : k - 1 \in Sorter
      BY PartsFacts DEF IInv
    <2>4. [k \in 1 .. NumOfSorters |-> Delivered(k - 1)]'
            = [k \in 1 .. NumOfSorters |-> results[k - 1]]
      BY <2>1, <2>2, <2>3, ResultsDelivered
    <2>5. Len(ends) = NumOfSorters
      BY <2>1, PartsFacts DEF IInv, Collecting
    <2>6. Complete'
      BY <2>1, <2>2, <2>4, <2>5, ResultsDelivered DEF Complete
    <2> QED
      BY <2>1, <2>6 DEF CompleteInv
  <1>16. CASE WriteFails
    BY <1>16, CompleteKept DEF WriteFails
  <1>17. CASE Report
    BY <1>17, CompleteKept DEF Report
  <1>18. CASE TryWait
    BY <1>18, CompleteKept DEF TryWait
  <1>19. CASE Kill
    BY <1>19, CompleteKept DEF Kill
  <1>20. CASE Wait
    BY <1>20, CompleteKept DEF Wait
  <1>21. CASE ForceExit
    BY <1>21, CompleteKept DEF ForceExit
  <1>22. CASE TakeSignals
    BY <1>22, CompleteKept DEF TakeSignals
  <1>23. CASE Stop
    BY <1>23, CompleteKept DEF Stop
  <1>24. ASSUME NEW i \in Sorter, Exec(i) PROVE CompleteInv'
    BY <1>24, CompleteKept DEF Exec
  <1>25. ASSUME NEW i \in Sorter, FailStart(i) PROVE CompleteInv'
    BY <1>25, CompleteKept DEF FailStart
  <1>26. ASSUME NEW i \in Sorter, ExitFailure(i) PROVE CompleteInv'
    BY <1>26, CompleteKept DEF ExitFailure
  <1>27. ASSUME NEW i \in Sorter, Crash(i) PROVE CompleteInv'
    BY <1>27, CompleteKept DEF Crash
  <1>28. ASSUME NEW i \in Sorter, Sort(i) PROVE CompleteInv'
    BY <1>28, CompleteKept DEF Sort
  <1>29. ASSUME NEW i \in Sorter, WriteCount(i) PROVE CompleteInv'
    BY <1>29, CompleteKept DEF WriteCount
  <1>30. ASSUME NEW i \in Sorter, WriteRecords(i) PROVE CompleteInv'
    BY <1>30, CompleteKept DEF WriteRecords
  <1>31. ASSUME NEW i \in Sorter, WriteTime(i) PROVE CompleteInv'
    BY <1>31, CompleteKept DEF WriteTime
  <1>32. ASSUME NEW i \in Sorter, BreakPipe(i) PROVE CompleteInv'
    BY <1>32, CompleteKept DEF BreakPipe
  <1>33. ASSUME NEW i \in Sorter, Close(i) PROVE CompleteInv'
    BY <1>33, CompleteKept DEF Close
  <1>34. ASSUME NEW i \in Sorter, Exit(i) PROVE CompleteInv'
    BY <1>34, CompleteKept DEF Exit
  <1>35. CASE UNCHANGED vars
    BY <1>35, CompleteKept DEF vars
  <1> QED
    BY <1>1, <1>2, <1>3, <1>4, <1>5, <1>6, <1>7, <1>8, <1>9, <1>10, <1>11,
       <1>12, <1>13, <1>14, <1>15, <1>16, <1>17, <1>18, <1>19, <1>20, <1>21,
       <1>22, <1>23, <1>24, <1>25, <1>26, <1>27, <1>28, <1>29, <1>30, <1>31,
       <1>32, <1>33, <1>34, <1>35
       DEF Next, CoachRuns, SorterRuns

-------------------------------------------------------------------------------
(* What a sorter has yet to write. *)

\* A step that writes nothing to the pipe of sorter j.
LEMMA RoomKept ==
  ASSUME IInv, [Next]_vars, NEW j \in Sorter, UNCHANGED <<sent[j], toWrite[j]>>,
         toWrite'[j] > 0
  PROVE  j < Len(ends') /\ sent'[j] + toWrite'[j] <= Share(j)'
  <1>1. j < Len(ends) /\ sent[j] + toWrite[j] <= Share(j)
    BY DEF IInv, RoomInv
  <1>2. Share(j)' = Share(j) /\ Len(ends) <= Len(ends')
        /\ Len(ends) \in Nat /\ Len(ends') \in Nat /\ j \in Nat
    <2>1. PartsInv /\ PartsInv'
      BY PartsStep DEF IInv
    <2>2. Len(ends) \in Nat /\ Len(ends') \in Nat /\ j \in Nat
      <3>1. ends \in Seq(Int) /\ ends' \in Seq(Int)
        BY <2>1 DEF PartsInv
      <3>2. j \in Nat
        BY <2>1, PartsFacts
      <3> QED
        BY <3>1, <3>2
    <2> QED
      BY <1>1, <2>1, <2>2, SameParts
  <1> QED
    BY <1>1, <1>2

\* A sorter never has more to write than its part, in every step.
LEMMA RoomStep == IInv /\ [Next]_vars => RoomInv'
  <1> SUFFICES ASSUME IInv, [Next]_vars, NEW j \in Sorter', toWrite'[j] > 0
               PROVE  (j < Len(ends') /\ sent'[j] + toWrite'[j] <= Share(j)')
    BY DEF RoomInv
  <1>0. /\ j \in Sorter /\ ShapeInv
        /\ sent \in [Sorter -> Nat] /\ toWrite \in [Sorter -> Nat]
    BY SameParts DEF IInv, ShapeInv
  <1>1. CASE CoachRuns
    <2>1. UNCHANGED <<sent, toWrite>>
      BY <1>1 DEF sorters, CoachRuns, CheckUnset, CheckFlag, Spawn, SpawnFails,
         Poll, PollInterrupted, LeaveLoop, Skip, ReadCount, ReadRecords, ReadTime,
         HangUp, Reap, ReadText, WriteResults, WriteFails, Report, TryWait, Kill,
         Wait, ForceExit
    <2> QED
      BY <1>0, <2>1, RoomKept
  <1>2. CASE TakeSignals \/ Stop \/ UNCHANGED vars
    <2>1. UNCHANGED <<sent, toWrite>>
      BY <1>2 DEF TakeSignals, Stop, vars, sorters
    <2> QED
      BY <1>0, <2>1, RoomKept
  <1>3. ASSUME NEW i \in Sorter, SorterRuns(i)
        PROVE  j < Len(ends') /\ sent'[j] + toWrite'[j] <= Share(j)'
    <2>1. CASE i # j
      <3>1. UNCHANGED <<sent[j], toWrite[j]>>
        BY <1>0, <1>3, <2>1
           DEF SorterRuns, Exec, FailStart, ExitFailure, Crash, Sort, WriteCount,
               WriteRecords, WriteTime, BreakPipe, Close, Exit
      <3> QED
        BY <1>0, <3>1, RoomKept
    <2>2. CASE i = j /\ WriteCount(i)
      <3>1. /\ UNCHANGED <<ends, sent>> /\ child[j] = "writing"
            /\ toWrite'[j] = Chunk(j) /\ sent[j] \in Nat
        BY <1>0, <2>2 DEF WriteCount, coach, poller
      <3>2. Share(j)' = Share(j) /\ Share(j) \in Nat /\ j < Len(ends)
        BY <1>0, <3>1, PartKept, TypedPart DEF SamePart, Typed
      <3>3. Chunk(j) <= Share(j) - sent[j] /\ Chunk(j) \in Int
        <4>1. PipeSz - 1 \in Int /\ Share(j) - sent[j] \in Int
          BY <3>1, <3>2, PipeAssumption
        <4> QED
          BY <4>1, MinOfTwo DEF Chunk
      <3> QED
        BY <3>1, <3>2, <3>3
    <2>3. CASE i = j /\ WriteRecords(i)
      <3> DEFINE k == Min({toWrite[j], Free(j)})
      <3>1. /\ UNCHANGED ends /\ toWrite[j] > 0
            /\ toWrite'[j] = toWrite[j] - k /\ sent'[j] = sent[j] + k
        BY <1>0, <2>3 DEF WriteRecords, coach, poller
      <3>2. Share(j)' = Share(j) /\ j < Len(ends)
            /\ sent[j] + toWrite[j] <= Share(j)
        BY <1>0, <3>1, PartKept DEF SamePart, IInv, RoomInv
      <3>3. k \in Int /\ sent[j] \in Nat /\ toWrite[j] \in Nat
        <4>1. pipe[j] \in Seq(Unit) /\ toWrite[j] \in Nat /\ sent[j] \in Nat
          BY <1>0 DEF ShapeInv
        <4>2. Free(j) \in Int
          BY <4>1, PipeAssumption DEF Free
        <4> QED
          BY <4>1, <4>2, MinOfTwo
      <3> HIDE DEF k
      <3> QED
        BY <3>1, <3>2, <3>3
    <2>4. CASE ~WriteCount(i) /\ ~WriteRecords(i)
      <3>1. UNCHANGED <<sent, toWrite>>
        BY <1>3, <2>4
           DEF SorterRuns, Exec, FailStart, ExitFailure, Crash, Sort, WriteTime,
               BreakPipe, Close, Exit
      <3> QED
        BY <1>0, <3>1, RoomKept
    <2> QED
      BY <1>3, <2>1, <2>2, <2>3, <2>4
  <1> QED
    BY <1>1, <1>2, <1>3 DEF Next

\* The first state.
LEMMA IInvInit == Init => IInv
  <1> SUFFICES ASSUME Init PROVE IInv
    OBVIOUS
  <1>1. PartsInv
    BY PartsInit
  <1>2. /\ NumOfSorters \in {1, 2, 4, 8} /\ Sorter = 0 .. NumOfSorters - 1
        /\ cpc = "unset" /\ ends = <<>> /\ Len(ends) = 0
    BY <1>1, PartsFacts DEF Init
  <1>3. ContractInv
    BY <1>2 DEF Init, ContractInv
  <1>4. ShapeInv
    BY <1>2 DEF Init, ShapeInv, InLoop, ChildPc
  <1>5. ForkInv
    BY <1>2 DEF Init, ForkInv, Dead
  <1>6. StreamInv
    BY <1>2 DEF Init, StreamInv, StreamOf, Fresh, Reading
  <1>7. PollInv /\ OwedInv /\ DoneInv
    BY <1>2
       DEF Init, PollInv, PollOf, Ahead, InLoop, OwedInv, Working, DoneInv,
          DoneOf
  <1>8. ResultsInv
    BY <1>2 DEF Init, ResultsInv, ResultsOf, Spawned
  <1>9. CauseInv /\ CompleteInv /\ RoomInv
    BY <1>2 DEF Init, CauseInv, CompleteInv, RoomInv
  <1> QED
    BY <1>1, <1>3, <1>4, <1>5, <1>6, <1>7, <1>8, <1>9 DEF IInv

\* Every step keeps all of it.
LEMMA IInvStep ==
  ASSUME IInv, [Next]_vars
  PROVE  IInv'
  <1>1. PartsInv' /\ ContractInv'
    BY PartsStep, ContractStep DEF IInv
  <1>2. /\ ShapeInv' /\ ForkInv' /\ OwedInv' /\ DoneInv'
        /\ CauseInv' /\ CompleteInv' /\ RoomInv'
    BY ShapeStep, ForkStep, OwedStep, DoneStep, CauseStep, CompleteStep, RoomStep
  <1>3. StreamInv' /\ PollInv' /\ ResultsInv'
    BY <1>2, StreamStep, PollStep, ResultsStep
  <1> QED
    BY <1>1, <1>2, <1>3 DEF IInv

\* The invariant that all properties of the poll() loop follow from.
THEOREM IInvInductive == Spec => []IInv
  <1>1. IInv /\ [Next]_vars => IInv'
    BY IInvStep
  <1> QED
    BY <1>1, IInvInit, PTL DEF Spec

\* remaining never wraps, and is 0 exactly when every sorter has delivered (the
\* condition of the while loop around poll()).
THEOREM LoopEnds == Spec => []LoopEndsInTime
  <1>1. IInv => LoopEndsInTime
    BY AllDelivered DEF LoopEndsInTime, Working, IInv, OwedInv
  <1> QED
    BY <1>1, IInvInductive, PTL

\* No read of records is cut short or takes anything else for a record: results[]
\* is what the sorter wrote, in its order.
THEOREM ReadInOrder == Spec => []ResultsInOrder
  <1>1. IInv => ResultsInOrder
    <2> SUFFICES ASSUME IInv, NEW i \in Sorter, Spawned(i),
                        child[i] \notin {"error", "fail"}, have[i] <= Share(i)
                 PROVE  results[i] =
                          [k \in 1 .. have[i] |-> <<"record", Array(i)[k]>>]
      BY DEF ResultsInOrder
    <2>1. /\ results[i] \in Seq(Unit) /\ Len(results[i]) = have[i]
          /\ \A k \in 1 .. have[i] : results[i][k] = <<"record", Array(i)[k]>>
      BY DEF IInv, ShapeInv, ResultsInv, ResultsOf, Failed
    <2>2. have[i] \in Nat
      BY DEF IInv, ShapeInv
    <2> QED
      BY <2>1, <2>2, ReadUnits
  <1> QED
    BY <1>1, IInvInductive, PTL

\* What is in results[i], as far as it has been read.
ResultsAscend ==
  \A i \in Sorter :
    Spawned(i) /\ child[i] \notin {"error", "fail"} /\ have[i] <= Share(i) =>
      \A j, k \in 1 .. have[i] : j <= k => results[i][j][2] <= results[i][k][2]

\* What the coach has read from one sorter is in ascending order, however the
\* chunks were cut (the read() of coach.c into results[]).
THEOREM ReadAscending == Spec => []ResultsAscend
  <1>1. IInv /\ ResultsInOrder => ResultsAscend
    <2> SUFFICES ASSUME IInv, ResultsInOrder, NEW i \in Sorter, Spawned(i),
                        child[i] \notin {"error", "fail"}, have[i] <= Share(i),
                        NEW j \in 1 .. have[i], NEW k \in 1 .. have[i], j <= k
                 PROVE  results[i][j][2] <= results[i][k][2]
      BY DEF ResultsAscend
    <2>1. results[i] = [n \in 1 .. have[i] |-> <<"record", Array(i)[n]>>]
      BY DEF ResultsInOrder
    <2>2. results[i][j][2] = Array(i)[j] /\ results[i][k][2] = Array(i)[k]
      BY <2>1
    <2>3. i < Len(ends) /\ have[i] \in Nat /\ Share(i) \in Nat
      BY TypedPart DEF Spawned, Typed
    <2>4. j \in 1 .. Share(i) /\ k \in 1 .. Share(i)
      BY <2>3
    <2>5. Array(i)[j] <= Array(i)[k]
      BY <2>3, <2>4, ArrayKeys DEF IInv
    <2> QED
      BY <2>2, <2>5
  <1> QED
    BY <1>1, IInvInductive, ReadInOrder, PTL

\* A coach that reports success has written every record and has the run time of
\* every sorter that had records.
THEOREM WritesEverything == Spec => []SuccessIsComplete
  <1>1. IInv => SuccessIsComplete
    BY DEF IInv, CompleteInv, Complete, Delivered, SuccessIsComplete
  <1> QED
    BY <1>1, IInvInductive, PTL

\* The coach fails only after an error, a crash or SIGUSR1, or when a sorter has no
\* records.
THEOREM FailsForCause == Spec => []FailureHasCause
  <1>1. IInv => FailureHasCause
    BY DEF IInv, CauseInv, Cause, FailureHasCause
  <1> QED
    BY <1>1, IInvInductive, PTL

-------------------------------------------------------------------------------
(* The types. *)

\* Where the coach is, what it has noted, and what it has told the coordinator.
PlaceInv ==
  /\ idx <= NumOfSorters /\ (cpc \in {"kill", "wait"} => idx < NumOfSorters)
  /\ status \in {"exited", "signaled"}
  /\ timed \subseteq Sorter /\ reaped \subseteq Sorter /\ told \subseteq Sorter
  /\ flag \in BOOLEAN /\ disturbed \in BOOLEAN
  /\ report \in {"none", "times", "error"}
  /\ outcome \in {"running", "success", "failure", "killed"}

\* No SIGUSR2 is counted twice: with the one that is pending there are no more than
\* sorters that have finished.
Finished == {i \in Sorter : child[i] = "ok"}
CountInv ==
  /\ received \in Nat
  /\ received + (IF "USR2" \in pending THEN 1 ELSE 0) <= Cardinality(Finished)

\* The coach goes through the sorters there are, and waits for no other.
LEMMA PlaceStep == IInv /\ PlaceInv /\ [Next]_vars => PlaceInv'
  <1> SUFFICES ASSUME IInv, PlaceInv, [Next]_vars PROVE PlaceInv'
    OBVIOUS
  <1> USE DEF Goto, EnterForce, Onward, Handle, poller, sorters, signals, coach,
              ending, histories
  <1>0. /\ idx \in Nat /\ (cpc = "spawn" => idx < NumOfSorters)
        /\ cpc \in InLoop => idx \in Sorter
        /\ Sorter' = Sorter /\ NumOfSorters' = NumOfSorters
        /\ NumOfSorters \in Nat \ {0} /\ Sorter = 0 .. NumOfSorters - 1
    <2>1. NumOfSorters \in {1, 2, 4, 8} /\ Sorter = 0 .. NumOfSorters - 1
      BY PartsFacts DEF IInv
    <2> QED
      BY <2>1, SameParts DEF IInv, PartsInv, ShapeInv
  <1>01. /\ \A i : Waitable(i) \subseteq Sorter
         /\ \A i : StatusOf(i) \in {"exited", "signaled"}
    BY DEF Waitable, Zombies, StatusOf
  <1>1. CASE CheckUnset
    BY <1>1, <1>0 DEF PlaceInv, CheckUnset
  <1>2. CASE CheckFlag
    BY <1>2, <1>0 DEF PlaceInv, CheckFlag
  <1>3. CASE Spawn
    BY <1>3, <1>0 DEF PlaceInv, Spawn
  <1>4. CASE SpawnFails
    BY <1>4, <1>0 DEF PlaceInv, SpawnFails
  <1>5. CASE Poll
    BY <1>5, <1>0 DEF PlaceInv, Poll
  <1>6. CASE PollInterrupted
    BY <1>6, <1>0 DEF PlaceInv, PollInterrupted
  <1>7. CASE LeaveLoop
    BY <1>7, <1>0 DEF PlaceInv, LeaveLoop
  <1>8. CASE Skip
    BY <1>8, <1>0 DEF PlaceInv, Skip, InLoop
  <1>9. CASE ReadCount
    BY <1>9, <1>0 DEF PlaceInv, ReadCount, InLoop
  <1>10. CASE ReadRecords
    BY <1>10, <1>0 DEF PlaceInv, ReadRecords, InLoop
  <1>11. CASE ReadTime
    BY <1>11, <1>0 DEF PlaceInv, ReadTime, InLoop
  <1>12. CASE HangUp
    BY <1>12, <1>0 DEF PlaceInv, HangUp, InLoop
  <1>13. CASE Reap
    BY <1>13, <1>0 DEF PlaceInv, Reap, InLoop
  <1>14. CASE ReadText
    BY <1>14, <1>0 DEF PlaceInv, ReadText, InLoop
  <1>15. CASE WriteResults
    BY <1>15, <1>0 DEF PlaceInv, WriteResults
  <1>16. CASE WriteFails
    BY <1>16, <1>0 DEF PlaceInv, WriteFails
  <1>17. CASE Report
    BY <1>17, <1>0 DEF PlaceInv, Report
  <1>18. CASE TryWait
    <2>1. status' \in {"exited", "signaled"} /\ reaped' \subseteq Sorter
      BY <1>18, <1>01 DEF PlaceInv, TryWait
    <2>2. /\ idx < NumOfSorters
          /\ \/ cpc' = "forced" /\ idx' = idx + 1
             \/ cpc' = "kill" /\ idx' = idx
          /\ UNCHANGED <<timed, told, disturbed, report, outcome>>
          /\ flag' = (flag \/ "USR1" \in pending)
      BY <1>18 DEF TryWait
    <2> QED
      BY <1>0, <2>1, <2>2 DEF PlaceInv
  <1>19. CASE Kill
    BY <1>19, <1>0 DEF PlaceInv, Kill
  <1>20. CASE Wait
    <2>1. status' \in {"exited", "signaled"} /\ reaped' \subseteq Sorter
      BY <1>20, <1>01 DEF PlaceInv, Wait
    <2>2. /\ cpc = "wait" /\ cpc' = "forced" /\ idx' = idx + 1
          /\ UNCHANGED <<timed, told, disturbed, report, outcome>>
          /\ flag' = (flag \/ "USR1" \in pending)
      BY <1>20 DEF Wait
    <2> QED
      BY <1>0, <2>1, <2>2 DEF PlaceInv
  <1>21. CASE ForceExit
    BY <1>21, <1>0 DEF PlaceInv, ForceExit
  <1>22. CASE TakeSignals \/ Stop
    BY <1>22, <1>0 DEF PlaceInv, TakeSignals, Stop
  <1>23. ASSUME NEW i \in Sorter, SorterRuns(i) PROVE PlaceInv'
    <2>1. /\ UNCHANGED <<cpc, idx, status, timed, reaped, told, flag, report,
                         outcome>>
          /\ disturbed' \in {disturbed, TRUE}
      BY <1>23
       DEF SorterRuns, Exec, FailStart, ExitFailure, Crash, Sort,
           WriteCount, WriteRecords, WriteTime, BreakPipe, Close, Exit
    <2> QED
      BY <1>0, <2>1 DEF PlaceInv
  <1>24. CASE UNCHANGED vars
    BY <1>24, <1>0 DEF PlaceInv, vars, args
  <1> QED
    BY <1>1, <1>2, <1>3, <1>4, <1>5, <1>6, <1>7, <1>8, <1>9, <1>10, <1>11,
       <1>12, <1>13, <1>14, <1>15, <1>16, <1>17, <1>18, <1>19, <1>20, <1>21,
       <1>22, <1>23, <1>24
       DEF Next, CoachRuns

\* The finished sorters are some of the sorters.
LEMMA FinishedFinite ==
  ASSUME PartsInv
  PROVE  /\ IsFiniteSet(Finished) /\ Cardinality(Finished) \in Nat
         /\ Cardinality(Finished) <= NumOfSorters
  <1>1. NumOfSorters \in Nat /\ Sorter = 0 .. NumOfSorters - 1
    BY PartsFacts
  <1>2. IsFiniteSet(Sorter) /\ Cardinality(Sorter) = NumOfSorters
    <2>1. 0 \in Int /\ NumOfSorters - 1 \in Int
      BY <1>1
    <2>2. /\ IsFiniteSet(0 .. NumOfSorters - 1)
          /\ Cardinality(0 .. NumOfSorters - 1) =
               IF 0 > NumOfSorters - 1 THEN 0 ELSE NumOfSorters - 1 - 0 + 1
      BY <2>1, FS_Interval
    <2> QED
      BY <1>1, <2>2
  <1>3. Finished \subseteq Sorter
    BY DEF Finished
  <1>4. /\ IsFiniteSet(Finished)
        /\ Cardinality(Finished) <= Cardinality(Sorter)
    BY <1>2, <1>3, FS_Subset
  <1>5. Cardinality(Finished) \in Nat
    BY <1>4, FS_CardinalityType
  <1> QED
    BY <1>2, <1>4, <1>5

\* A step in which the coach handles its signals and no sorter finishes.
LEMMA CountHandled ==
  ASSUME CountInv, Handle, Finished' = Finished
  PROVE  CountInv'
  BY DEF CountInv, Handle

\* A step with no signal to count.
LEMMA CountKept ==
  ASSUME CountInv, Finished' = Finished, received' = received,
         "USR2" \in pending' <=> "USR2" \in pending
  PROVE  CountInv'
  BY DEF CountInv

\* Of the sorters that finish, each sends one signal.
LEMMA CountStep == IInv /\ CountInv /\ [Next]_vars => CountInv'
  <1> SUFFICES ASSUME IInv, CountInv, [Next]_vars PROVE CountInv'
    OBVIOUS
  <1> USE DEF sorters, coach
  <1>0. Sorter' = Sorter /\ child \in [Sorter -> ChildPc] /\ PartsInv
    BY SameParts DEF IInv, ShapeInv
  <1>1. ASSUME UNCHANGED child PROVE Finished' = Finished
    BY <1>0, <1>1 DEF Finished
  <1>2. CASE CoachRuns
    <2>1. Handle
      BY <1>2 DEF CoachRuns, CheckUnset, CheckFlag, Spawn, SpawnFails, Poll,
         PollInterrupted, LeaveLoop, Skip, ReadCount, ReadRecords, ReadTime,
         HangUp, Reap, ReadText, WriteResults, WriteFails, Report, TryWait, Kill,
         Wait, ForceExit
    <2>2. CASE Spawn
      <3>1. /\ cpc = "spawn" /\ idx \in Sorter /\ idx >= Len(ends)
            /\ child' = [child EXCEPT ![idx] = "forked"]
        BY <2>2, PartsFacts DEF Spawn, IInv, PartsInv
      <3>2. child[idx] = "none"
        BY <3>1 DEF IInv, ForkInv
      <3>3. Finished' = Finished
        BY <1>0, <3>1, <3>2 DEF Finished
      <3> QED
        BY <2>1, <3>3, CountHandled
    <2>3. CASE Kill
      <3>1. \A i \in Sorter : child'[i] = "ok" <=> child[i] = "ok"
        BY <2>3 DEF Kill
      <3>2. Finished' = Finished
        BY <1>0, <3>1 DEF Finished
      <3> QED
        BY <2>1, <3>2, CountHandled
    <2>4. CASE ~Spawn /\ ~Kill
      <3>1. UNCHANGED child
        BY <1>2, <2>4 DEF CoachRuns, CheckUnset, CheckFlag, SpawnFails, Poll,
         PollInterrupted, LeaveLoop, Skip, ReadCount, ReadRecords, ReadTime,
         HangUp, Reap, ReadText, WriteResults, WriteFails, Report, TryWait, Wait,
         ForceExit
      <3> QED
        BY <1>1, <2>1, <3>1, CountHandled
    <2> QED
      BY <2>2, <2>3, <2>4
  <1>3. CASE TakeSignals
    BY <1>1, <1>3, CountHandled DEF TakeSignals
  <1>4. CASE Stop
    BY <1>1, <1>4, CountKept DEF Stop
  <1>5. ASSUME NEW i \in Sorter, SorterRuns(i) PROVE CountInv'
    <2>1. CASE Exit(i)
      <3>1. /\ child[i] = "closed" /\ child' = [child EXCEPT ![i] = "ok"]
            /\ received' = received
        BY <2>1 DEF Exit, Sorts
      <3>2. i \notin Finished /\ Finished' = Finished \cup {i}
        BY <1>0, <3>1 DEF Finished
      <3>3. IsFiniteSet(Finished) /\ Cardinality(Finished) \in Nat
        BY <1>0, FinishedFinite
      <3>4. Cardinality(Finished') = Cardinality(Finished) + 1
        BY <3>2, <3>3, FS_AddElement
      <3> QED
        BY <3>1, <3>3, <3>4 DEF CountInv
    <2>2. CASE ~Exit(i)
      <3>1. UNCHANGED <<received, pending>>
        BY <1>5, <2>2 DEF SorterRuns, Exec, FailStart, ExitFailure, Crash, Sort,
           WriteCount, WriteRecords, WriteTime, BreakPipe, Close
      <3>2. \/ UNCHANGED child
            \/ \E to : child[i] # "ok" /\ to # "ok"
                        /\ child' = [child EXCEPT ![i] = to]
        BY <1>5, <2>2 DEF SorterRuns, Exec, FailStart, ExitFailure, Crash, Sort,
           WriteCount, WriteRecords, WriteTime, BreakPipe, Close, Sorts
      <3>3. \A j \in Sorter : child'[j] = "ok" <=> child[j] = "ok"
        BY <1>0, <3>2
      <3>4. Finished' = Finished
        BY <1>0, <3>3 DEF Finished
      <3> QED
        BY <3>1, <3>4, CountKept
    <2> QED
      BY <2>1, <2>2
  <1>6. CASE UNCHANGED vars
    <2>1. UNCHANGED <<child, received, pending>>
      BY <1>6 DEF vars, signals
    <2> QED
      BY <1>1, <2>1, CountKept
  <1> QED
    BY <1>2, <1>3, <1>4, <1>5, <1>6 DEF Next

\* Sequences of units one after the other are a sequence of units.
LEMMA Flattened ==
  ASSUME NEW S, NEW n \in Nat, NEW ss \in [1 .. n -> Seq(S)]
  PROVE  FlattenSeq(ss) \in Seq(S)
  <1> DEFINE Step(f, i) == IF i = 1 THEN ss[i] ELSE f[i - 1] \o ss[i]
             Flat(k, f) == f = [i \in 1 .. k |-> Step(f, i)]
             T == {k \in Nat : k <= n /\ \A f : ~Flat(k, f)}
  <1>1. ASSUME NEW k \in 0 .. n, NEW f, Flat(k, f)
        PROVE  \A i \in 1 .. k : f[i] \in Seq(S)
    <2> DEFINE U == {i \in 1 .. k : f[i] \notin Seq(S)}
    <2> SUFFICES ASSUME U # {} PROVE FALSE
      OBVIOUS
    <2>1. PICK i \in U : \A j \in U : i <= j
      <3>1. U \in SUBSET Nat
        OBVIOUS
      <3> HIDE DEF U
      <3> QED
        BY <3>1, LeastNumber
    <2>2. i \in 1 .. k /\ f[i] \notin Seq(S)
      BY <2>1
    <2>3. f[i] = Step(f, i) /\ ss[i] \in Seq(S)
      <3>1. i \in 1 .. n
        BY <1>1, <2>2
      <3>2. f = [j \in 1 .. k |-> Step(f, j)]
        BY <1>1
      <3> HIDE DEF Step
      <3>3. f[i] = Step(f, i)
        BY <2>2, <3>2, Zenon
      <3> QED
        BY <3>1, <3>3
    <2>4. i # 1
      BY <2>2, <2>3
    <2>5. i - 1 \in 1 .. k /\ i - 1 \notin U
      <3>1. i - 1 \in 1 .. k /\ ~(i <= i - 1)
        BY <2>2, <2>4
      <3> HIDE DEF U
      <3> QED
        BY <2>1, <3>1
    <2>6. f[i - 1] \in Seq(S)
      BY <2>5
    <2> HIDE DEF U
    <2>7. f[i] = f[i - 1] \o ss[i]
      BY <2>3, <2>4
    <2>8. f[i - 1] \o ss[i] \in Seq(S)
      BY <2>3, <2>6
    <2> QED
      BY <2>2, <2>7, <2>8
  <1>2. \E f : Flat(n, f)
    <2> SUFFICES ASSUME T # {} PROVE FALSE
      <3>1. T = {} => \E f : Flat(n, f)
        <4>1. n \in T \/ \E f : Flat(n, f)
          <5> HIDE DEF Flat
          <5> QED
            OBVIOUS
        <4> HIDE DEF T, Flat
        <4> QED
          BY <4>1
      <3> HIDE DEF T, Flat
      <3> QED
        BY <3>1
    <2>1. PICK k \in T : \A j \in T : k <= j
      <3>1. T \in SUBSET Nat
        OBVIOUS
      <3> HIDE DEF T
      <3> QED
        BY <3>1, LeastNumber
    <2>2. k \in 0 .. n /\ \A f : ~Flat(k, f)
      <3> HIDE DEF Flat
      <3> QED
        BY <2>1
    <2>3. k # 0
      <3>1. Flat(0, [i \in 1 .. 0 |-> 0])
        OBVIOUS
      <3> HIDE DEF Flat
      <3> QED
        BY <2>2, <3>1
    <2>4. k - 1 \in 0 .. n /\ ~(k <= k - 1) /\ k \in 1 .. n
      <3> HIDE DEF Flat
      <3> QED
        BY <2>2, <2>3
    <2>5. PICK f : Flat(k - 1, f)
      <3>1. k - 1 \notin T
        <4> HIDE DEF T
        <4> QED
          BY <2>1, <2>4
      <3> HIDE DEF Flat
      <3> QED
        BY <2>4, <3>1
    <2> HIDE DEF T
    <2> DEFINE g == [i \in 1 .. k |-> Step(f, i)]
    <2>6. \A i \in 1 .. k - 1 : g[i] = f[i]
      <3> SUFFICES ASSUME NEW i \in 1 .. k - 1 PROVE g[i] = f[i]
        OBVIOUS
      <3>1. i \in 1 .. k
        BY <2>4
      <3>2. f = [j \in 1 .. k - 1 |-> Step(f, j)]
        BY <2>5
      <3> HIDE DEF Step
      <3>3. f[i] = Step(f, i)
        BY <3>2, Zenon
      <3> QED
        BY <3>1, <3>3
    <2>7. \A i \in 1 .. k : Step(g, i) = Step(f, i)
      <3> SUFFICES ASSUME NEW i \in 1 .. k PROVE Step(g, i) = Step(f, i)
        OBVIOUS
      <3>1. i # 1 => i - 1 \in 1 .. k - 1
        BY <2>4
      <3>2. i # 1 => g[i - 1] = f[i - 1]
        BY <2>6, <3>1
      <3> HIDE DEF g
      <3> QED
        BY <3>2
    <2>8. g = [i \in 1 .. k |-> Step(g, i)]
      <3> HIDE DEF Step
      <3> QED
        BY <2>7
    <2>9. Flat(k, g)
      BY <2>8
    <2> HIDE DEF Flat, g
    <2> QED
      BY <2>2, <2>9
  <1>3. n \in 0 .. n /\ Len(ss) = n
    OBVIOUS
  <1>4. CASE n = 0
    BY <1>3, <1>4 DEF FlattenSeq
  <1>5. CASE n # 0
    <2> DEFINE f == CHOOSE h : h = [i \in 1 .. n |-> Step(h, i)]
    <2>1. Flat(n, f)
      BY <1>2
    <2>2. FlattenSeq(ss) = f[n]
      BY <1>3, <1>5 DEF FlattenSeq
    <2>3. n \in 1 .. n
      BY <1>5
    <2> HIDE DEF f, Flat
    <2> QED
      BY <1>1, <1>3, <2>1, <2>2, <2>3
  <1> QED
    BY <1>4, <1>5

\* What the coach writes to the file is units.
LEMMA OutputStep ==
  ASSUME IInv, output \in Seq(Unit), [Next]_vars
  PROVE  output' \in Seq(Unit)
  <1>1. CASE WriteResults
    <2> DEFINE n == NumOfSorters
               ss == [k \in 1 .. n |-> results[k - 1]]
    <2>1. n \in Nat /\ Sorter = 0 .. n - 1 /\ results \in [Sorter -> Seq(Unit)]
      BY PartsFacts DEF IInv, ShapeInv
    <2>2. ss \in [1 .. n -> Seq(Unit)]
      <3>1. \A k \in 1 .. n : k - 1 \in Sorter
        BY <2>1
      <3> QED
        BY <2>1, <3>1
    <2>3. output' = FlattenSeq(ss)
      BY <1>1 DEF WriteResults
    <2> HIDE DEF n, ss
    <2> QED
      BY <2>1, <2>2, <2>3, Flattened
  <1>2. CASE ~WriteResults
    <2> USE DEF ending, coach
    <2>1. CASE CoachRuns
      BY <1>2, <2>1 DEF CoachRuns, CheckUnset, CheckFlag, Spawn, SpawnFails, Poll,
         PollInterrupted, LeaveLoop, Skip, ReadCount, ReadRecords, ReadTime,
         HangUp, Reap, ReadText, WriteFails, Report, TryWait, Kill, Wait,
         ForceExit
    <2>2. CASE TakeSignals \/ Stop
      BY <2>2 DEF TakeSignals, Stop
    <2>3. ASSUME NEW i \in Sorter, SorterRuns(i)
          PROVE  output' = output
      BY <2>3 DEF SorterRuns, Exec, FailStart, ExitFailure, Crash, Sort,
         WriteCount, WriteRecords, WriteTime, BreakPipe, Close, Exit
    <2>4. CASE UNCHANGED vars
      BY <2>4 DEF vars
    <2> QED
      BY <2>1, <2>2, <2>3, <2>4 DEF Next
  <1> QED
    BY <1>1, <1>2

\* What the invariants say of the types.
LEMMA Types ==
  ASSUME IInv, PlaceInv, CountInv, output \in Seq(Unit),
         file \in Files, coachnum \in CoachNums
  PROVE  TypeOK
  <1>1. /\ NumOfSorters \in Nat /\ Sorter = 0 .. NumOfSorters - 1
        /\ NumOfRecords \in Nat /\ PartsInv /\ coachnum \in 0 .. 3
    BY PartsFacts DEF IInv, PartsInv
  <1>2. cpc \in {"unset", "set", "spawn", "spawned", "poll", "scan", "body", "time",
                 "reap", "text", "write", "report", "forced", "kill", "wait",
                 "ended"}
    BY <1>1 DEF PartsInv, Collecting, Leaving
  <1>3. idx \in 0 .. NumOfSorters
    BY <1>1 DEF PartsInv, PlaceInv
  <1>4. ends \in Seq(0 .. NumOfRecords) /\ Len(ends) <= NumOfSorters
    <2>1. /\ ends \in Seq(Int) /\ Len(ends) \in Nat /\ Len(ends) <= NumOfSorters
          /\ ends \in [1 .. Len(ends) -> Int]
      BY <1>1 DEF PartsInv
    <2>2. ASSUME NEW k \in 1 .. Len(ends) PROVE ends[k] \in 0 .. NumOfRecords
      <3>1. k \in 1 .. NumOfSorters
        BY <1>1, <2>1
      <3>2. ends[k] = Bound(k)
        BY <1>1 DEF PartsInv
      <3>3. Bound(k) \in Nat /\ Bound(k) <= NumOfRecords
        BY <1>1, <3>1, BoundMonotonic
      <3> QED
        BY <1>1, <3>2, <3>3
    <2>3. ends \in [1 .. Len(ends) -> 0 .. NumOfRecords]
      BY <2>1, <2>2
    <2> QED
      BY <2>1, <2>3, Units
  <1>5. received \in 0 .. NumOfSorters
    <2>1. Cardinality(Finished) \in Nat /\ Cardinality(Finished) <= NumOfSorters
      BY <1>1, FinishedFinite
    <2> QED
      BY <1>1, <2>1 DEF CountInv
  <1>6. /\ revents \in [Sorter -> {"none", "in", "hup"}]
        /\ listening \subseteq Sorter
        /\ toRead \in Nat /\ remaining \in Int /\ have \in [Sorter -> Nat]
        /\ results \in [Sorter -> Seq(Unit)]
        /\ pending \subseteq {"USR1", "USR2"}
        /\ sflag \in [Sorter -> BOOLEAN]
        /\ sent \in [Sorter -> Nat] /\ toWrite \in [Sorter -> Nat]
        /\ pipe \in [Sorter -> Seq(Unit)]
    BY DEF IInv, ShapeInv
  <1>7. child \in [Sorter -> {"none", "forked", "loading", "writing", "timed",
                              "closed", "error"} \cup Dead]
    <2>1. child \in [Sorter -> ChildPc]
      BY DEF IInv, ShapeInv
    <2>2. ChildPc = {"none", "forked", "loading", "writing", "timed", "closed",
                     "error"} \cup Dead
      BY DEF ChildPc, Dead
    <2> QED
      BY <2>1, <2>2
  <1>8. /\ status \in {"exited", "signaled"} /\ timed \subseteq Sorter
        /\ flag \in BOOLEAN
        /\ report \in {"none", "times", "error"}
        /\ outcome \in {"running", "success", "failure", "killed"}
        /\ reaped \subseteq Sorter /\ told \subseteq Sorter
        /\ disturbed \in BOOLEAN
    BY DEF PlaceInv
  <1> QED
    BY <1>2, <1>3, <1>4, <1>5, <1>6, <1>7, <1>8 DEF TypeOK

\* The types, among them that every record read from a pipe is a number and that
\* sigusr2_received (coach.c) never exceeds the number of sorters.
THEOREM TypeCorrect == Spec => []TypeOK
  <1> DEFINE TInv == /\ IInv /\ PlaceInv /\ CountInv /\ output \in Seq(Unit)
                     /\ file \in Files /\ coachnum \in CoachNums
  <1>1. Init => TInv
    <2> SUFFICES ASSUME Init PROVE TInv
      OBVIOUS
    <2>1. IInv
      BY IInvInit
    <2>2. PlaceInv
      <3>1. NumOfSorters \in Nat \ {0}
        BY <2>1, PartsFacts DEF IInv
      <3>2. /\ idx = 0 /\ cpc = "unset" /\ status = "exited" /\ timed = {}
            /\ reaped = {} /\ told = {} /\ flag = FALSE /\ disturbed = FALSE
            /\ report = "none" /\ outcome = "running"
        BY DEF Init
      <3>3. idx <= NumOfSorters
        BY <3>1, <3>2
      <3>4. cpc \notin {"kill", "wait"}
        BY <3>2
      <3>5. flag \in BOOLEAN /\ disturbed \in BOOLEAN
        BY <3>2
      <3>6. timed \subseteq Sorter /\ reaped \subseteq Sorter /\ told \subseteq Sorter
        BY <3>2
      <3> QED
        BY <3>2, <3>3, <3>4, <3>5, <3>6 DEF PlaceInv
    <2>3. CountInv
      <3>1. Cardinality(Finished) \in Nat
        BY <2>1, FinishedFinite DEF IInv
      <3> QED
        BY <3>1 DEF Init, CountInv
    <2> QED
      BY <2>1, <2>2, <2>3 DEF Init
  <1>2. TInv /\ [Next]_vars => TInv'
    <2> SUFFICES ASSUME TInv, [Next]_vars PROVE TInv'
      OBVIOUS
    <2>1. IInv'
      BY IInvStep
    <2>2. PlaceInv' /\ CountInv' /\ output' \in Seq(Unit)
      BY PlaceStep, CountStep, OutputStep
    <2>3. UNCHANGED <<file, coachnum>>
      BY SameParts DEF IInv
    <2> QED
      BY <2>1, <2>2, <2>3
  <1>3. TInv => TypeOK
    BY Types
  <1> HIDE DEF TInv
  <1> QED
    BY <1>1, <1>2, <1>3, PTL DEF Spec
================================================================================
