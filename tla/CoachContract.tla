---------------------------- MODULE CoachContract ----------------------------
(***************************************************************************)
(* What a coach of ForkSort promises to the coordinator: abstract          *)
(* specification of one coach.  mysort looks at a coach only through the   *)
(* status that wait() returns and the pipe it reads afterwards             *)
(* (coach_finished() in mysort.c), so these are the variables.             *)
(***************************************************************************)
VARIABLES
  report,  \* what is in the pipe: "none", "times" or "error"
  outcome  \* "running", "success" (exit code 0), "failure" (1) or "killed"

vars == <<report, outcome>>

Init == report = "none" /\ outcome = "running"

\* The four times and the number of signals, and exit code 0.
Succeed ==
  /\ outcome = "running" /\ report = "none"
  /\ report' = "times" /\ outcome' = "success"

\* An error message while the coach still has to stop.
Complain ==
  /\ outcome = "running"
  /\ report' = "error" /\ UNCHANGED outcome

Fail ==
  /\ outcome = "running"
  /\ report' = "error" /\ outcome' = "failure"

\* Ended by a signal: nothing more is written.
Die ==
  /\ outcome = "running"
  /\ outcome' = "killed" /\ UNCHANGED report

Next == Succeed \/ Complain \/ Fail \/ Die

Spec == Init /\ [][Next]_vars
===============================================================================
