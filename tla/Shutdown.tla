------------------------------- MODULE Shutdown -------------------------------
(***************************************************************************)
(* The processes of the bus station: how mystation (startStation) creates  *)
(* them, how they report an error to it with SIGUSR1, and how it stops     *)
(* them with SIGUSR1 and waitpid() after an error or a character from the  *)
(* terminal.                                                               *)
(*                                                                         *)
(* A child is reduced to what a signal can meet: the image before and      *)
(* after execv(), a point where it tests its flag, one past that test, and *)
(* a blocking call.  Who posts the semaphore it waits for is the subject   *)
(* of BusStation.  A signal is delivered when it is sent.                  *)
(***************************************************************************)
EXTENDS Mystation

CONSTANTS
  Manager, Comptroller  \* the pids of the children that are no buses

ASSUME ChildAssumption ==
  Manager # Comptroller /\ {Manager, Comptroller} \cap (0 .. Buses) = {}

Bus == 1 .. Buses
Child == {Manager, Comptroller} \cup Bus
Stray == 0  \* the pid in busPids[i], which nobody has written

VARIABLES
  pc,        \* startStation(): the next child to create, or what it waits for
  flag,      \* mystation has received SIGUSR1
  created,   \* i, the number of buses created
  plan,      \* the calls of kill() and waitpid() still to make
  why,       \* why mystation stops the station
  strayPid,  \* what the unwritten busPids[i] names: no process, or the group
  child,     \* the state of every child
  cflag,     \* the flag of every child
  lost,      \* the mutexes that a child has returned with and will not give back
  told,      \* history: the children SIGUSR1 was sent to
  failed     \* history: a child has had an error

parent == <<pc, flag, created, plan, why, strayPid>>
vars == <<parent, child, cflag, lost, told, failed>>

Alive(c) == child[c] \notin {"none", "gone", "reaped"}

Init ==
  /\ pc = "manager" /\ flag = FALSE /\ created = 0
  /\ plan = <<>> /\ why = "running"
  /\ strayPid \in {"nobody", "group"}
  /\ child = [c \in Child |-> "none"]
  /\ cflag = [c \in Child |-> FALSE]
  /\ lost = {} /\ told = {} /\ failed = FALSE

-------------------------------------------------------------------------------
(* SIGUSR1 at a child. *)

\* statusMutex is held where its holder may have to wait for another mutex: by
\* printStatus() and by updateStatsLeave().
StatusFree ==
  /\ "status" \notin lost /\ child[Comptroller] # "printing"
  /\ \A b \in Bus : child[b] # "tallying"

\* baysMutex likewise, by busParks() and busLeaves().
BaysFree == "bays" \notin lost /\ child[Manager] \notin {"parking", "counting"}

\* The children that may sleep on a mutex with another one held, and give up.
\* Nobody has to keep the mutex: somebody may have it just now.
MayGiveUp(c) == child[c] \in {"parking", "counting", "tallying"}

\* The child's next state.  Before execv() the handler sets the flag of an image
\* that is about to go; after it the default action ends the process, until the
\* handler is installed.  A semaphore the child sleeps on is left with EINTR,
\* except in the comptroller, whose handler restarts it.  A manager that gives up
\* may come to busParks() again before it tests its flag, a bus ends.
AfterSignal(c, quits) ==
  CASE child[c] = "execed" -> "gone"
    [] child[c] = "waiting" -> "running"
    [] quits -> IF c = Manager THEN "checked" ELSE "gone"
    [] OTHER -> child[c]

\* The mutex that stays taken when the child gives up.
Keeps(c) == IF c = Manager THEN "bays" ELSE "status"

\* The handler is installed before the flag is tested for the first time.
Handles(c) == Alive(c) /\ child[c] \notin {"forked", "execed"}

Signal(S) ==
  /\ \E Q \in SUBSET {c \in S : MayGiveUp(c)} :
       /\ child' = [c \in Child |-> IF c \in S THEN AfterSignal(c, c \in Q)
                                              ELSE child[c]]
       /\ lost' = lost \cup {Keeps(c) : c \in Q}
  /\ cflag' = [c \in Child |-> cflag[c] \/ (c \in S /\ Handles(c))]
  /\ told' = told \cup {c \in S : Alive(c)}

-------------------------------------------------------------------------------
(* mystation. *)

Stop(c) == << <<"kill", c>>, <<"wait", c>> >>

\* Numbered from 1 where the array starts at 0.
StopBusesShifted(n) == [k \in 1 .. 2 * n |->
                         <<IF k % 2 = 1 THEN "kill" ELSE "wait", (k + 3) \div 2>>]

StopBuses(n) == [k \in 1 .. 2 * n |->
                  <<IF k % 2 = 1 THEN "kill" ELSE "wait", (k + 1) \div 2>>]

\* for (j...) with busPids[i]
StopStrays(n) == [k \in 1 .. 2 * n |->
                   <<IF k % 2 = 1 THEN "kill" ELSE "wait", Stray>>]

\* The second waitpid() is forgotten.
StopOthersUnwaited == Stop(Manager) \o << <<"kill", Comptroller>> >>

StopOthers == Stop(Manager) \o Stop(Comptroller)

Plan(reason, calls) ==
  /\ pc' = "stopping" /\ why' = reason /\ plan' = calls
  /\ UNCHANGED <<flag, created, strayPid, child, cflag, lost, told, failed>>

Fork(c, next) ==
  /\ pc' = next
  /\ child' = [child EXCEPT ![c] = "forked"]
  /\ UNCHANGED <<flag, plan, why, strayPid, cflag, lost, told, failed>>

ForkManager == pc = "manager" /\ Fork(Manager, "flag1") /\ UNCHANGED created

ForkManagerFails == pc = "manager" /\ Plan("fork", <<>>)

TestFlag1 ==
  /\ pc = "flag1"
  /\ \/ flag /\ Plan("flag", Stop(Manager))
     \/ /\ ~flag /\ pc' = "comptroller"
        /\ UNCHANGED <<flag, created, plan, why, strayPid, child, cflag,
                       lost, told, failed>>

ForkComptroller ==
  pc = "comptroller" /\ Fork(Comptroller, "flag2") /\ UNCHANGED created

ForkComptrollerFails == pc = "comptroller" /\ Plan("fork", Stop(Manager))

TestFlag2 ==
  /\ pc = "flag2"
  /\ \/ /\ flag
        /\ Plan("flag", << <<"kill", Manager>>, <<"kill", Comptroller>>,
                           <<"wait", Manager>>, <<"wait", Comptroller>> >>)
     \/ /\ ~flag /\ pc' = "buses"
        /\ UNCHANGED <<flag, created, plan, why, strayPid, child, cflag,
                       lost, told, failed>>

\* One round of the loop; sleep() is left early only by SIGUSR1, which sets flag.
ForkBus ==
  /\ created < Buses /\ ~flag
  /\ pc = "buses" /\ Fork(created + 1, "buses")
  /\ created' = created + 1

ForkBusFails ==
  /\ pc = "buses" /\ created < Buses /\ ~flag
  /\ Plan("fork", Stop(Comptroller) \o Stop(Manager) \o StopBuses(created))

EndLoop ==
  /\ pc = "buses" /\ created = Buses /\ ~flag
  /\ pc' = "getchar"
  /\ UNCHANGED <<flag, created, plan, why, strayPid, child, cflag, lost,
                 told, failed>>

ForceExit ==
  /\ pc = "buses" /\ flag
  /\ Plan("flag", StopStrays(created) \o StopOthers)

\* getchar() returns; SIGUSR1 only restarts it.
Character ==
  /\ pc = "getchar"
  /\ Plan("character", StopBuses(Buses) \o StopOthers)

\* kill(pid, SIGUSR1).  The pid 0 is every process of the group.
Targets(c) == IF c # Stray THEN {c}
              ELSE IF strayPid = "group" THEN Child ELSE {}

Kill ==
  /\ plan # <<>> /\ Head(plan)[1] = "kill"
  /\ Signal(Targets(Head(plan)[2]))
  /\ plan' = Tail(plan)
  /\ flag' = (flag \/ (Head(plan)[2] = Stray /\ strayPid = "group"))
  /\ UNCHANGED <<pc, created, why, strayPid, failed>>

Reap(c) == child' = [child EXCEPT ![c] = "reaped"]
NoChild(S) == \A c \in S : child[c] \in {"none", "reaped"}

\* waitpid(pid, NULL, 0) reaps a child that has ended, or fails for want of one.
Wait ==
  /\ plan # <<>> /\ Head(plan)[1] = "wait"
  /\ LET S == Targets(Head(plan)[2]) IN
       \/ \E c \in S : child[c] = "gone" /\ Reap(c)
       \/ NoChild(S) /\ UNCHANGED child
  /\ plan' = Tail(plan)
  /\ UNCHANGED <<pc, flag, created, why, strayPid, cflag, lost, told,
                 failed>>

\* closeStation(), and the segment is removed.
Close ==
  /\ pc = "stopping" /\ plan = <<>>
  /\ pc' = "done"
  /\ UNCHANGED <<flag, created, plan, why, strayPid, child, cflag, lost,
                 told, failed>>

MystationRuns ==
  \/ ForkManager \/ ForkManagerFails \/ TestFlag1
  \/ ForkComptroller \/ ForkComptrollerFails \/ TestFlag2
  \/ ForkBus \/ ForkBusFails \/ EndLoop \/ ForceExit
  \/ Kill \/ Wait \/ Close

-------------------------------------------------------------------------------
(* The children. *)

Goes(c, from, to) == child[c] = from /\ child' = [child EXCEPT ![c] = to]

\* The child has nothing to tell mystation.
Quietly == UNCHANGED <<parent, cflag, lost, told, failed>>

\* kill(getppid(), SIGUSR1)
TellParent ==
  /\ flag' = (flag \/ pc # "done")
  /\ UNCHANGED <<pc, created, plan, why, strayPid, cflag, lost, told>>

Exec(c) == Goes(c, "forked", "execed") /\ Quietly

InstallHandler(c) == Goes(c, "execed", "starting") /\ Quietly

\* execv(), or fopen() or shmat() of the new image fails.
Fail(c) ==
  /\ child[c] \in {"forked", "starting"}
  /\ child' = [child EXCEPT ![c] = "gone"]
  /\ failed' = TRUE
  /\ TellParent

\* The log file is open and the segment attached.
Started(c) == Goes(c, "starting", "running") /\ Quietly

\* Without the test.
IgnoreFlag(c) == Goes(c, "running", "checked") /\ Quietly

TestFlag(c) == ~cflag[c] /\ Goes(c, "running", "checked") /\ Quietly

\* Manager and comptroller leave their loop, a bus its main().
CheckFlag(c) ==
  /\ cflag[c] /\ Goes(c, "running", "gone")
  /\ IF c \in Bus THEN TellParent /\ UNCHANGED failed ELSE Quietly

\* Every exit of a bus goes the same way.
FinishTells(c) ==
  /\ c \in Bus /\ Goes(c, "tallying", "gone")
  /\ TellParent /\ UNCHANGED failed

\* updateStatsLeave() has statusMutex and waits for statsMutex, ...
TakeStatusLeave(c) ==
  c \in Bus /\ StatusFree /\ Goes(c, "checked", "tallying") /\ Quietly
\* ... gives statusMutex back, and the bus has left the station.
Finish(c) == c \in Bus /\ Goes(c, "tallying", "gone") /\ Quietly

\* The work up to the next test of the flag, when nothing blocks it.
Work(c) == Goes(c, "checked", "running") /\ Quietly

\* sem_wait() with EINTR.
FallAsleep(c) == c # Comptroller /\ Goes(c, "checked", "waiting") /\ Quietly

\* Another process posts the semaphore.
Wake(c) == Goes(c, "waiting", "running") /\ Quietly

\* busParks() or busLeaves() has baysMutex and waits for statsMutex, ...
TakeBays == BaysFree /\ Goes(Manager, "checked", "parking") /\ Quietly
\* ... gives that back and waits for statusMutex, ...
CountInStats == Goes(Manager, "parking", "counting") /\ Quietly
\* ... and gives both back.
LeaveBays == StatusFree /\ Goes(Manager, "counting", "running") /\ Quietly

\* printStatus() waits for statusMutex, ...
WantStatus == Goes(Comptroller, "checked", "queueing") /\ Quietly
\* ... has it and waits for baysMutex, ...
TakeStatus == StatusFree /\ Goes(Comptroller, "queueing", "printing") /\ Quietly
\* ... and gives both back.
LeaveStatus == BaysFree /\ Goes(Comptroller, "printing", "running") /\ Quietly

ChildRuns(c) ==
  \/ Exec(c) \/ InstallHandler(c) \/ Started(c) \/ TestFlag(c) \/ CheckFlag(c)
  \/ TakeStatusLeave(c) \/ Finish(c) \/ Work(c) \/ FallAsleep(c)
  \/ c = Manager /\ (TakeBays \/ CountInStats \/ LeaveBays)
  \/ c = Comptroller /\ (WantStatus \/ TakeStatus \/ LeaveStatus)

-------------------------------------------------------------------------------

Next ==
  \/ MystationRuns \/ Character
  \/ \E c \in Child : ChildRuns(c) \/ Fail(c) \/ Wake(c)

Spec == Init /\ [][Next]_vars

\* The scheduler runs every process that can run.  Nobody has to type a
\* character, to fail or to post a semaphore.
Fairness == WF_vars(MystationRuns) /\ \A c \in Child : WF_vars(ChildRuns(c))

FairSpec == Spec /\ Fairness

-------------------------------------------------------------------------------
(* Properties. *)

ChildState == {"none", "forked", "execed", "starting", "running", "checked",
               "waiting", "parking", "counting", "queueing", "printing",
               "tallying", "gone", "reaped"}
Calls == {"kill", "wait"} \X (Child \cup {Stray})

TypeOK ==
  /\ pc \in {"manager", "flag1", "comptroller", "flag2", "buses", "getchar",
             "stopping", "done"}
  /\ flag \in BOOLEAN /\ created \in 0 .. Buses
  /\ plan \in Seq(Calls)
  /\ why \in {"running", "fork", "flag", "character"}
  /\ strayPid \in {"nobody", "group"}
  /\ child \in [Child -> ChildState]
  /\ cflag \in [Child -> BOOLEAN]
  /\ lost \subseteq {"bays", "status"} /\ told \subseteq Child /\ failed \in BOOLEAN

\* After a character, or a fork() that failed, the segment is removed only when
\* every child that was created has ended and been waited for.
StopIsComplete ==
  pc = "done" /\ why \in {"character", "fork"} =>
    \A c \in Child : child[c] \in {"none", "reaped"}

\* There too, mystation sends no signal to a pid it has already waited for,
\* which the system may have given to another process.
SignalsOwnChildren ==
  plan # <<>> /\ Head(plan)[1] = "kill" /\ why \in {"character", "fork"} =>
    child[Head(plan)[2]] \notin {"none", "reaped"}

\* Both together, of the order in which killAndWait() and its callers work.
CleanStop == StopIsComplete /\ SignalsOwnChildren

\* A bus that signals mystation because it was told to stop does not start a
\* forced exit: that has an error as its cause.
ForcedByError == why = "flag" => failed

\* What can keep a child from ending after SIGUSR1 was sent to it: the signal
\* met it before execv(), or between the test of its flag and the call that
\* sleeps.
LostAtExec(c) == c \in told /\ ~cflag[c] /\ Alive(c)
LostBeforeWait(c) == cflag[c] /\ child[c] = "waiting"

\* printStatus() waits for statusMutex, which a bus has ended with, or with
\* statusMutex for baysMutex, which the manager has ended with or holds while it
\* waits for statusMutex.
CannotPrint ==
  \/ child[Comptroller] = "queueing" /\ "status" \in lost
  \/ /\ child[Comptroller] = "printing"
     /\ "bays" \in lost \/ child[Manager] = "counting"

\* The manager was told just before it waits for statusMutex, which a bus has
\* ended with.
CannotCount ==
  cflag[Manager] /\ child[Manager] = "counting" /\ "status" \in lost

\* Once it has begun to stop the station, mystation ends, except in these ways:
\* a signal is lost at execv() or before a wait; or a child waits for a mutex
\* that nobody will give back, because a signal made a sem_wait() in busParks(),
\* busLeaves() or updateStatsLeave() fail or manager and printStatus() block one
\* another.
StopEnds ==
  pc = "stopping" ~>
    \/ pc = "done" \/ CannotPrint \/ CannotCount
    \/ \E c \in Child : LostAtExec(c) \/ LostBeforeWait(c)

===============================================================================
