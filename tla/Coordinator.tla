------------------------------ MODULE Coordinator ------------------------------
(***************************************************************************)
(* The coordinator of ForkSort (mysort.c): it forks the coaches, waits for *)
(* them in the order in which they end, reads what each has left in its    *)
(* pipe, and prints the times or the error of one of them.                 *)
(*                                                                         *)
(* A coach is what CoachContract says: it ends with exit code 0 and its    *)
(* times in the pipe, with exit code 1 and a message, or by a signal.  It  *)
(* may never start because execv() fails, and never end (CoachEnds).       *)
(***************************************************************************)
EXTENDS Integers, FiniteSets

CONSTANT NumCoaches   \* args->numofcoaches

ASSUME NumCoachesAssumption == NumCoaches \in 1 .. 4

Coach == 0 .. NumCoaches - 1

VARIABLES
  mpc,        \* where mysort is
  idx,        \* coachindex while it counts up
  left,       \* coachindex of the loop around wait()
  current,    \* the coach wait() has returned
  status,     \* the variable of force_exit(): "exited" or "signaled"
  runtimes,   \* runtimes[] and sigusr2_received[]: "unset" or what was read
  printed,    \* nothing, the table of times, or the error of a coach
  stray,      \* what an unwritten element of coachespids[] names
  outcome,    \* the coaches: "none", "running", "hung" and how they ended
  report,     \* what a coach has left in its pipe
  reaped,     \* the coaches waited for
  told,       \* the running coaches SIGUSR1 was sent to
  forkFailed  \* history: pipe() or fork() has failed

mysort == <<mpc, idx, left, current, status, runtimes, printed>>
vars == <<mysort, stray, outcome, report, reaped, told, forkFailed>>

\* "other" is an exit code larger than 1.
Ended == {"success", "failure", "killed", "other"}
Zombies == {c \in Coach : outcome[c] \in Ended} \ reaped

\* The exit code where WIFEXITED() is meant.
StatusRaw(c) == outcome[c]

StatusOf(c) == IF outcome[c] = "killed" THEN "signaled" ELSE "exited"

\* WEXITSTATUS(); it is 0 for a killed coach.
ExitCode(c) ==
  CASE outcome[c] \in {"success", "killed"} -> 0
    [] outcome[c] = "failure" -> 1
    [] OTHER -> 2

Init ==
  /\ mpc = "fork" /\ idx = 0 /\ left = NumCoaches /\ current = 0
  /\ status = "exited"
  /\ runtimes = [c \in Coach |-> "unset"]
  /\ printed = "nothing"
  /\ stray \in {"nobody", "everybody"}
  /\ outcome = [c \in Coach |-> "none"]
  /\ report = [c \in Coach |-> "none"]
  /\ reaped = {} /\ told = {} /\ forkFailed = FALSE

-------------------------------------------------------------------------------
(* mysort. *)

\* Entering force_exit(), whose status is 0.
EnterForce == mpc' = "forced" /\ idx' = 0 /\ status' = "exited"

\* pipe(), fork() and execv() for the next coach.
Fork ==
  /\ mpc = "fork" /\ idx < NumCoaches
  /\ outcome' = [outcome EXCEPT ![idx] = "running"]
  /\ idx' = idx + 1
  /\ UNCHANGED <<mpc, left, current, status, runtimes, printed, stray, report,
                 reaped, told, forkFailed>>

ForkFails ==
  /\ mpc = "fork" /\ idx < NumCoaches /\ EnterForce
  /\ forkFailed' = TRUE
  /\ UNCHANGED <<left, current, runtimes, printed, stray, outcome, report,
                 reaped, told>>

AllForked ==
  /\ mpc = "fork" /\ idx = NumCoaches
  /\ mpc' = "wait"
  /\ UNCHANGED <<idx, left, current, status, runtimes, printed, stray, outcome,
                 report, reaped, told, forkFailed>>

\* coachindex is not counted down.
WaitAnyUncounted ==
  /\ mpc = "wait" /\ left > 0
  /\ \E c \in Zombies : current' = c /\ reaped' = reaped \cup {c}
  /\ mpc' = "finished"
  /\ UNCHANGED <<idx, left, status, runtimes, printed, stray, outcome, report,
                 told, forkFailed>>

\* wait() returns one of the coaches that have ended, not the first of them.
WaitAny ==
  /\ mpc = "wait" /\ left > 0
  /\ \E c \in Zombies : current' = c /\ reaped' = reaped \cup {c}
  /\ left' = left - 1
  /\ mpc' = "finished"
  /\ UNCHANGED <<idx, status, runtimes, printed, stray, outcome, report, told,
                 forkFailed>>

\* coach_finished() with exit code 0: five reads, whatever there is to read.
CoachSucceeded ==
  /\ mpc = "finished" /\ ExitCode(current) = 0
  /\ runtimes' = [runtimes EXCEPT ![current] = report[current]]
  /\ mpc' = "wait"
  /\ UNCHANGED <<idx, left, current, status, printed, stray, outcome, report,
                 reaped, told, forkFailed>>

\* The message is printed, and mysort goes on with the next coach.
CoachFailedGoesOn ==
  /\ mpc = "finished" /\ ExitCode(current) = 1
  /\ mpc' = "wait"
  /\ UNCHANGED <<idx, left, current, status, runtimes, printed, stray, outcome,
                 report, reaped, told, forkFailed>>

\* With exit code 1: the message is read and force_exit() called.  A coach that
\* has left none makes mysort work with an uninitialised buff_size.
CoachFailed ==
  /\ mpc = "finished" /\ ExitCode(current) = 1
  /\ \/ EnterForce /\ UNCHANGED printed
     \/ /\ report[current] = "none"
        /\ mpc' = "ended" /\ printed' = "crash" /\ UNCHANGED <<idx, status>>
  /\ UNCHANGED <<left, current, runtimes, stray, outcome, report, reaped, told,
                 forkFailed>>

\* With any other exit code nothing is done.
CoachIgnored ==
  /\ mpc = "finished" /\ ExitCode(current) > 1
  /\ mpc' = "wait"
  /\ UNCHANGED <<idx, left, current, status, runtimes, printed, stray, outcome,
                 report, reaped, told, forkFailed>>

\* print_results() and exit().
PrintResults ==
  /\ mpc = "wait" /\ left = 0
  /\ mpc' = "ended" /\ printed' = "times"
  /\ UNCHANGED <<idx, left, current, status, runtimes, stray, outcome, report,
                 reaped, told, forkFailed>>

-------------------------------------------------------------------------------
(* force_exit(). *)

Forked(c) == outcome[c] # "none"

\* The children waitpid(coachespids[c]) may return.
Waitable(c) ==
  IF Forked(c) THEN Zombies \cap {c}
  ELSE IF stray = "everybody" THEN Zombies ELSE {}

\* Without WNOHANG.
TryWaitBlocking ==
  /\ mpc = "forced" /\ idx < NumCoaches
  /\ outcome[idx] \notin {"running", "hung"}
  /\ \/ Waitable(idx) = {} /\ UNCHANGED <<status, reaped>>
     \/ \E c \in Waitable(idx) :
          status' = StatusOf(c) /\ reaped' = reaped \cup {c}
  /\ IF status' = "exited" THEN mpc' = "forced" /\ idx' = idx + 1
                           ELSE mpc' = "kill" /\ UNCHANGED idx
  /\ UNCHANGED <<left, current, runtimes, printed, stray, outcome, report, told,
                 forkFailed>>

\* waitpid(WNOHANG) leaves status alone for a running coach, and WIFEXITED(0)
\* holds.
TryWait ==
  /\ mpc = "forced" /\ idx < NumCoaches
  /\ \/ Waitable(idx) = {} /\ UNCHANGED <<status, reaped>>
     \/ \E c \in Waitable(idx) :
          status' = StatusOf(c) /\ reaped' = reaped \cup {c}
  /\ IF status' = "exited" THEN mpc' = "forced" /\ idx' = idx + 1
                           ELSE mpc' = "kill" /\ UNCHANGED idx
  /\ UNCHANGED <<left, current, runtimes, printed, stray, outcome, report, told,
                 forkFailed>>

\* kill(SIGUSR1); with pid 0 it ends mysort itself.
Kill ==
  /\ mpc = "kill"
  /\ told' = told \cup {c \in Coach :
               /\ outcome[c] = "running"
               /\ c = idx \/ (~Forked(idx) /\ stray = "everybody")}
  /\ \/ mpc' = "forcewait" /\ UNCHANGED printed
     \/ /\ ~Forked(idx) /\ stray = "everybody"
        /\ mpc' = "ended" /\ printed' = "crash"
  /\ UNCHANGED <<idx, left, current, status, runtimes, stray, outcome, report,
                 reaped, forkFailed>>

\* waitpid() that blocks.
Wait ==
  /\ mpc = "forcewait"
  /\ \/ \E c \in Waitable(idx) :
          status' = StatusOf(c) /\ reaped' = reaped \cup {c}
     \/ /\ IF Forked(idx) THEN idx \in reaped
           ELSE stray = "nobody" \/ \A c \in Coach : Forked(c) => c \in reaped
        /\ UNCHANGED <<status, reaped>>
  /\ mpc' = "forced" /\ idx' = idx + 1
  /\ UNCHANGED <<left, current, runtimes, printed, stray, outcome, report, told,
                 forkFailed>>

\* The message, and exit().
ForceExit ==
  /\ mpc = "forced" /\ idx = NumCoaches
  /\ mpc' = "ended" /\ printed' = "error"
  /\ UNCHANGED <<idx, left, current, status, runtimes, stray, outcome, report,
                 reaped, told, forkFailed>>

-------------------------------------------------------------------------------
(* A coach. *)

Ends(c, how) ==
  /\ outcome[c] = "running"
  /\ outcome' = [outcome EXCEPT ![c] = how]
  /\ UNCHANGED <<mysort, stray, reaped, told, forkFailed>>

Succeed(c) ==
  /\ report[c] = "none"
  /\ report' = [report EXCEPT ![c] = "times"] /\ Ends(c, "success")

Fail(c) == report' = [report EXCEPT ![c] = "error"] /\ Ends(c, "failure")

Complain(c) ==
  /\ outcome[c] = "running" /\ report' = [report EXCEPT ![c] = "error"]
  /\ UNCHANGED <<mysort, stray, outcome, reaped, told, forkFailed>>

Die(c) == Ends(c, "killed") /\ UNCHANGED report

\* exec_coach() ends with exit(errno) when execv() returns, and errno may be 1.
NoExec(c) ==
  /\ report[c] = "none" /\ UNCHANGED report
  /\ Ends(c, "failure") \/ Ends(c, "other")

\* The coach waits for ever for a sorter that waits for room in its pipe: CoachEnds
\* in Coach, which has coach c with 2^c sorters.  Two sorters take SIGUSR1.
Hang(c) ==
  /\ c > 1 \/ (c = 1 /\ c \in told)
  /\ report[c] = "none" /\ UNCHANGED report
  /\ Ends(c, "hung")

-------------------------------------------------------------------------------
MysortRuns ==
  \/ Fork \/ ForkFails \/ AllForked \/ WaitAny
  \/ CoachSucceeded \/ CoachFailed \/ CoachIgnored \/ PrintResults
  \/ TryWait \/ Kill \/ Wait \/ ForceExit

CoachRuns(c) ==
  Succeed(c) \/ Fail(c) \/ Complain(c) \/ Die(c) \/ NoExec(c) \/ Hang(c)

Next == MysortRuns \/ \E c \in Coach : CoachRuns(c)

Spec == Init /\ [][Next]_vars

\* Every process runs on, and every coach ends or hangs (Coach, AllEnd).
Fairness ==
  /\ WF_vars(MysortRuns)
  /\ \A c \in Coach : WF_vars(Succeed(c) \/ Fail(c) \/ Hang(c))

FairSpec == Spec /\ Fairness

-------------------------------------------------------------------------------
(* Properties. *)

Report == {"none", "times", "error"}

\* The values every variable takes (mysort.c).
TypeOK ==
  /\ mpc \in {"fork", "wait", "finished", "forced", "kill", "forcewait", "ended"}
  /\ idx \in 0 .. NumCoaches /\ left \in 0 .. NumCoaches /\ current \in Coach
  /\ status \in {"exited", "signaled"}
  /\ runtimes \in [Coach -> Report \cup {"unset"}]
  /\ printed \in {"nothing", "times", "error", "crash"}
  /\ stray \in {"nobody", "everybody"}
  /\ outcome \in [Coach -> Ended \cup {"none", "running", "hung"}]
  /\ report \in [Coach -> Report]
  /\ reaped \subseteq Coach /\ told \subseteq Coach /\ forkFailed \in BOOLEAN

\* The table is printed only when every coach has been waited for and none of
\* them has ended with EXIT_FAILURE, and it has the times of all that succeeded,
\* in whatever order wait() returned them.  The rows of the others, killed or
\* with an exit code of execv(), are printed with whatever malloc() returned.
TableRight ==
  printed = "times" =>
    \A c \in Coach :
      /\ c \in reaped /\ outcome[c] # "failure"
      /\ outcome[c] = "success" => runtimes[c] = "times"

\* mysort waits exactly as often as it has coaches left: wait() never fails for
\* want of a child, and no child is left behind when the loop ends.
WaitsMatch ==
  mpc \in {"wait", "finished"} => left = Cardinality(Coach \ reaped)

\* The coaches that the blocking wait() or waitpid() of mysort could return.
WaitedFor ==
  CASE mpc = "wait" -> Coach \ reaped
    [] mpc = "forcewait" /\ Forked(idx) -> {idx} \ reaped
    [] mpc = "forcewait" /\ ~Forked(idx) /\ stray = "everybody" ->
         {c \in Coach : Forked(c)} \ reaped
    [] OTHER -> {}

\* mysort ends, however the coaches end and whenever fork() fails, except when
\* it waits and every coach that is left hangs.  A coach that hangs never keeps
\* force_exit() when none was killed.
CoordinatorEnds ==
  <>(\/ mpc = "ended"
     \/ /\ WaitedFor # {} /\ \A c \in WaitedFor : outcome[c] = "hung"
        /\ mpc = "forcewait" => \E c \in Coach : outcome[c] = "killed")
===============================================================================
