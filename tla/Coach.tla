-------------------------------- MODULE Coach --------------------------------
(***************************************************************************)
(* A coach of ForkSort and its sorters (coach.c, sorter.c): how it divides *)
(* the records, collects them through one pipe per sorter, counts SIGUSR2, *)
(* and stops after an error or SIGUSR1.                                    *)
(*                                                                         *)
(* A pipe is the sequence of what was written and not yet read; a record   *)
(* and a number take a place each, and an error text counts for one.  A    *)
(* write that fits is made at once, the others put in what fits.  A        *)
(* pending signal is handled before the system call the process is in      *)
(* returns, or earlier.                                                    *)
(***************************************************************************)
EXTENDS Integers, Sequences, SequencesExt

CONSTANTS
  Files,     \* the record files: sequences of keys of the column to sort by
  CoachNums, \* the values of argv[5]
  PipeSz,    \* capacity of a pipe
  ErrLens    \* the lengths of the error texts of a sorter

ASSUME FilesAssumption == Files \subseteq Seq(Nat)
ASSUME CoachNumsAssumption == CoachNums \subseteq 0 .. 3
ASSUME PipeAssumption == PipeSz \in Nat /\ PipeSz >= 2
ASSUME ErrLensAssumption == ErrLens \subseteq Nat \ {0}

VARIABLES
  file, coachnum,  \* the coach's arguments
  cpc,             \* where the coach is
  idx,             \* sorterindex
  ends,            \* records_end of the sorters forked so far
  revents,         \* what poll() returned and is not yet dealt with
  listening,       \* the sorters whose fds[].fd is not -1
  toRead, remaining, have,   \* to_read, remaining and have_read[]
  results,         \* results[]: what was read into it
  timed,           \* the sorters with a run time in runtimes[]
  status,          \* the variable of force_exit(): "exited" or "signaled"
  received, flag,  \* sigusr2_received and flag
  pending,         \* the signals the coach has not yet handled
  report, outcome, \* as in CoachContract
  output,          \* the file of results
  child,           \* the sorters' states
  sflag,           \* the sorters' flags
  sent, toWrite,   \* the records a sorter has written, those of its open chunk
  pipe,            \* the contents of the pipes
  reaped,          \* the sorters waited for
  told,            \* history: the running sorters SIGUSR1 was sent to
  disturbed        \* history: something outside the program went wrong

args == <<file, coachnum>>
poller == <<ends, revents, listening, toRead, remaining, have, results, timed>>
signals == <<received, flag, pending>>
ending == <<report, outcome, output>>
sorters == <<child, sflag, sent, toWrite, pipe>>
histories == <<told, disturbed>>
vars == <<args, cpc, idx, status, poller, signals, ending, sorters, reaped,
          histories>>

\* x << k for the shifts that occur
Shl(x, k) == x * (CASE k = 0 -> 1 [] k = 1 -> 2 [] k = 2 -> 4 [] OTHER -> 8)

NumOfSorters == Shl(1, coachnum)
Sorter == 0 .. NumOfSorters - 1
NumOfRecords == Len(file)

Start(i) == IF i = 0 THEN 0 ELSE ends[i]   \* ends[1] is records_end of sorter 0
Share(i) == ends[i + 1] - Start(i)         \* resultsmaxindexes[i]

\* A sorter returns its part in order; heapsort() and quicksort() are not
\* modelled here.  The k-th record has fewer than k below it, and at least k up
\* to it.
InOrder(records) ==
  [k \in 1 .. Len(records) |->
     CHOOSE key \in Range(records) :
       /\ Cardinality({i \in DOMAIN records : records[i] < key}) < k
       /\ Cardinality({i \in DOMAIN records : records[i] <= key}) >= k]
Array(i) == InOrder(SubSeq(file, Start(i) + 1, ends[i + 1]))

Dead == {"ok", "fail", "killed"}   \* the ways a sorter ends
Running(i) == child[i] \notin Dead \cup {"none"}
WriterOpen(i) == child[i] \notin Dead \cup {"none", "closed"}
Free(i) == PipeSz - Len(pipe[i])

Init ==
  /\ file \in Files /\ coachnum \in CoachNums
  /\ cpc = "unset" /\ idx = 0 /\ status = "exited"
  /\ ends = <<>> /\ remaining = 0 /\ toRead = 0
  /\ revents = [i \in Sorter |-> "none"]
  /\ listening = {} /\ timed = {}
  /\ have = [i \in Sorter |-> 0]
  /\ results = [i \in Sorter |-> <<>>]
  /\ received = 0 /\ flag = FALSE /\ pending = {}
  /\ report = "none" /\ outcome = "running" /\ output = <<>>
  /\ child = [i \in Sorter |-> "none"]
  /\ sflag = [i \in Sorter |-> FALSE]
  /\ sent = [i \in Sorter |-> 0]
  /\ toWrite = [i \in Sorter |-> 0]
  /\ pipe = [i \in Sorter |-> <<>>]
  /\ reaped = {} /\ told = {} /\ disturbed = FALSE

-------------------------------------------------------------------------------
(* Signals to the coach. *)

\* sig_h() for every pending signal.  A SIGUSR2 that comes while one is pending,
\* or inside the increment (SA_NODEFER), is not counted.
Handle ==
  /\ received' = IF "USR2" \in pending THEN received + 1 ELSE received
  /\ flag' = (flag \/ "USR1" \in pending)
  /\ pending' = {}

\* Between two system calls, or in one that is restarted (SA_RESTART).
TakeSignals ==
  /\ pending # {} /\ outcome = "running" /\ Handle
  /\ UNCHANGED <<args, cpc, idx, status, poller, ending, sorters, reaped,
                 histories>>

\* The coordinator's SIGUSR1.
Stop ==
  /\ outcome = "running" /\ ~flag /\ "USR1" \notin pending
  /\ pending' = pending \cup {"USR1"} /\ disturbed' = TRUE
  /\ UNCHANGED <<args, cpc, idx, status, poller, received, flag, ending,
                 sorters, reaped, told>>

-------------------------------------------------------------------------------
(* The coach: start and division of the records. *)

\* Entering force_exit(), whose status is 0.
EnterForce == cpc' = "forced" /\ idx' = 0 /\ status' = "exited"

Goto(place, i) == cpc' = place /\ idx' = i /\ UNCHANGED status

\* CHECK_FLAG before the arrays are filled: force_exit() and before_exit() work
\* on whatever malloc() returned.
CheckUnset ==
  /\ cpc = "unset" /\ Handle
  /\ \/ ~flag' /\ Goto("set", 0) /\ UNCHANGED <<report, outcome>>
     \/ flag' /\ Goto("ended", 0) /\ outcome' = "killed" /\ UNCHANGED report
     \/ /\ flag' /\ Goto("ended", 0)
        /\ outcome' = "failure" /\ report' = "error"
  /\ UNCHANGED <<args, poller, output, sorters, reaped, histories>>

\* CHECK_FLAG before and after the sorters are forked.
CheckFlag ==
  /\ cpc \in {"set", "spawned"} /\ Handle
  /\ \/ flag' /\ EnterForce
     \/ ~flag' /\ cpc = "set" /\ Goto("spawn", 0)
     \/ ~flag' /\ cpc = "spawned" /\ Goto("poll", 0)
  /\ remaining' = IF cpc = "spawned" THEN NumOfRecords ELSE remaining
  /\ UNCHANGED <<args, ends, revents, listening, toRead, have, results, timed,
                 ending, sorters, reaped, histories>>

\* The same number for everybody, rounded up.
CompRecordsUp(i, start) == start + NumOfRecords \div NumOfSorters + 1

\* The same number for everybody, and no exception for the last.
CompRecordsDown(i, start) == start + NumOfRecords \div NumOfSorters

\* *records_end as comp_records() computes it from *records_start.
CompRecords(i, start) ==
  LET n == NumOfRecords IN
  IF i = NumOfSorters - 1 THEN n
  ELSE CASE coachnum = 1 -> n \div 2
         [] coachnum = 2 /\ i = 0 -> n \div 8
         [] coachnum = 2 /\ i > 0 -> start + Shl(n \div 8, i - 1)
         [] coachnum = 3 /\ i <= 3 -> start + n \div 16
         [] coachnum = 3 /\ i \in 4 .. 5 -> start + (n \div 16) * 2
         [] OTHER -> start + (n \div 16) * 4

\* pipe(), comp_records() and fork() for the next sorter.
Spawn ==
  /\ cpc = "spawn" /\ Handle
  /\ LET start == IF idx = 0 THEN 0 ELSE ends[idx]
     IN ends' = Append(ends, CompRecords(idx, start))
  /\ child' = [child EXCEPT ![idx] = "forked"]
  /\ listening' = listening \cup {idx}
  /\ IF idx + 1 = NumOfSorters THEN Goto("spawned", 0)
                                ELSE Goto("spawn", idx + 1)
  /\ UNCHANGED <<args, revents, toRead, remaining, have, results, timed, ending,
                 sflag, sent, toWrite, pipe, reaped, histories>>

\* pipe() or fork() fails.
SpawnFails ==
  /\ cpc = "spawn" /\ Handle /\ EnterForce
  /\ disturbed' = TRUE
  /\ UNCHANGED <<args, poller, ending, sorters, reaped, told>>

-------------------------------------------------------------------------------
(* The coach: the poll() loop. *)

Ready(i) == i \in listening /\ (pipe[i] # <<>> \/ ~WriterOpen(i))

\* poll() returns at least one ready pipe.
Poll ==
  /\ cpc = "poll" /\ remaining > 0 /\ Handle
  /\ \E i \in Sorter : Ready(i)
  /\ revents' = [i \in Sorter |-> IF ~Ready(i) THEN "none"
                                  ELSE IF pipe[i] # <<>> THEN "in" ELSE "hup"]
  /\ IF flag' THEN EnterForce ELSE Goto("scan", 0)
  /\ UNCHANGED <<args, ends, listening, toRead, remaining, have, results, timed,
                 ending, sorters, reaped, histories>>

\* A signal interrupts poll(), which is never restarted: the flag or EINTR.
PollInterrupted ==
  /\ cpc = "poll" /\ remaining > 0 /\ pending # {}
  /\ ~\E i \in Sorter : Ready(i)
  /\ Handle /\ EnterForce
  /\ UNCHANGED <<args, poller, ending, sorters, reaped, histories>>

LeaveLoop ==
  /\ cpc = "poll" /\ remaining = 0 /\ Handle
  /\ Goto("write", 0)
  /\ UNCHANGED <<args, poller, ending, sorters, reaped, histories>>

\* The next round of the for loop, or the next call of poll().
Onward ==
  IF idx + 1 = NumOfSorters THEN Goto("poll", 0) ELSE Goto("scan", idx + 1)

Skip ==
  /\ cpc = "scan" /\ revents[idx] = "none" /\ Handle
  /\ Onward
  /\ UNCHANGED <<args, poller, ending, sorters, reaped, histories>>

Garbage == NumOfRecords + 1   \* any number larger than every share

\* What the coach takes for the number of records: eight bytes of whatever is
\* first in the pipe.  A run time of 0.0 has no bit set.
AsCount(unit) ==
  CASE unit[1] = "count" -> unit[2]
    [] unit = <<"time", 0>> -> 0
    [] OTHER -> Garbage

ReadCount ==
  /\ cpc = "scan" /\ revents[idx] = "in" /\ Handle
  /\ toRead' = AsCount(Head(pipe[idx]))
  /\ pipe' = [pipe EXCEPT ![idx] = Tail(@)]
  /\ revents' = [revents EXCEPT ![idx] = "none"]
  /\ Goto("body", idx)
  /\ UNCHANGED <<args, ends, listening, remaining, have, results, timed, ending,
                 child, sflag, sent, toWrite, reaped, histories>>

\* read() blocks while the pipe is empty and somebody can write to it, and
\* returns no more than there is.
CanRead(i) == pipe[i] # <<>> \/ ~WriterOpen(i)
Got(i, n) == Min({n, Len(pipe[i])})

\* Without the test for more records than the sorter has.
ReadRecordsUnchecked ==
  /\ cpc = "body" /\ Handle
  /\ toRead = 0 \/ CanRead(idx)
  /\ LET k == Got(idx, toRead)
         now == have[idx] + toRead IN
       /\ results' = [results EXCEPT ![idx] = @ \o SubSeq(pipe[idx], 1, k)]
       /\ pipe' = [pipe EXCEPT ![idx] = SubSeq(@, k + 1, Len(@))]
       /\ have' = [have EXCEPT ![idx] = now]
       /\ remaining' = remaining - toRead
       /\ IF now = Share(idx) THEN Goto("time", idx) ELSE Onward
  /\ UNCHANGED <<args, ends, revents, listening, toRead, timed, ending, child,
                 sflag, sent, toWrite, reaped, histories>>

ReadRecords ==
  /\ cpc = "body" /\ Handle
  /\ toRead = 0 \/ CanRead(idx)
  /\ LET k == Got(idx, toRead)
         now == have[idx] + toRead IN
       /\ results' = [results EXCEPT ![idx] = @ \o SubSeq(pipe[idx], 1, k)]
       /\ pipe' = [pipe EXCEPT ![idx] = SubSeq(@, k + 1, Len(@))]
       /\ have' = [have EXCEPT ![idx] = now]
       /\ remaining' = remaining - toRead
       /\ CASE now = Share(idx) -> Goto("time", idx)
            [] now > Share(idx) -> EnterForce
            [] OTHER -> Onward
  /\ UNCHANGED <<args, ends, revents, listening, toRead, timed, ending, child,
                 sflag, sent, toWrite, reaped, histories>>

\* At the end of the pipe runtimes[] stays as malloc() left it.
ReadTime ==
  /\ cpc = "time" /\ Handle
  /\ CanRead(idx)
  /\ timed' = IF pipe[idx] # <<>> THEN timed \cup {idx} ELSE timed
  /\ pipe' = [pipe EXCEPT ![idx] = SubSeq(@, 2, Len(@))]
  /\ Goto("reap", idx)
  /\ UNCHANGED <<args, ends, revents, listening, toRead, remaining, have,
                 results, ending, child, sflag, sent, toWrite, reaped, histories>>

HangUp ==
  /\ cpc = "scan" /\ revents[idx] = "hup" /\ Handle
  /\ Goto("reap", idx)
  /\ UNCHANGED <<args, poller, ending, sorters, reaped, histories>>

\* With WNOHANG, and the exit code of a sorter that is still running taken for 0.
ReapEarly ==
  /\ cpc = "reap" /\ Handle
  /\ reaped' = reaped \cup {idx}
  /\ \/ child[idx] = "fail" /\ Goto("text", idx) /\ UNCHANGED listening
     \/ /\ child[idx] # "fail"
        /\ IF revents[idx] = "hup"
           THEN EnterForce /\ UNCHANGED listening
           ELSE Onward /\ listening' = listening \ {idx}
  /\ UNCHANGED <<args, ends, revents, toRead, remaining, have, results, timed,
                 ending, sorters, histories>>

\* sorter_finished() with the exit code not looked at.
ReapBlind ==
  /\ cpc = "reap" /\ child[idx] \in Dead /\ Handle
  /\ reaped' = reaped \cup {idx}
  /\ IF revents[idx] = "hup"
     THEN EnterForce /\ UNCHANGED listening
     ELSE Onward /\ listening' = listening \ {idx}
  /\ UNCHANGED <<args, ends, revents, toRead, remaining, have, results, timed,
                 ending, sorters, histories>>

\* waitpid() and sorter_finished().  WEXITSTATUS() is 0 for a killed sorter too.
Reap ==
  /\ cpc = "reap" /\ child[idx] \in Dead /\ Handle
  /\ reaped' = reaped \cup {idx}
  /\ \/ child[idx] = "fail" /\ Goto("text", idx) /\ UNCHANGED listening
     \/ /\ child[idx] # "fail"
        /\ IF revents[idx] = "hup"
           THEN EnterForce /\ UNCHANGED listening
           ELSE Onward /\ listening' = listening \ {idx}
  /\ UNCHANGED <<args, ends, revents, toRead, remaining, have, results, timed,
                 ending, sorters, histories>>

\* The error text of a sorter.  At the end of the pipe buff_size is not
\* initialised: aux may be NULL, or the text is what aux has in it.
ReadText ==
  /\ cpc = "text" /\ Handle
  /\ \/ EnterForce /\ report' = "error" /\ UNCHANGED outcome
     \/ /\ pipe[idx] = <<>>
        /\ Goto("ended", 0) /\ outcome' = "killed" /\ UNCHANGED report
  /\ pipe' = [pipe EXCEPT ![idx] = <<>>]
  /\ UNCHANGED <<args, poller, output, child, sflag, sent, toWrite, reaped,
                 histories>>

-------------------------------------------------------------------------------
(* The coach: results, and force_exit(). *)

\* The results one after the other in the file.
WriteResults ==
  /\ cpc = "write" /\ Handle
  /\ output' = FlattenSeq([k \in 1 .. NumOfSorters |-> results[k - 1]])
  /\ Goto("report", 0)
  /\ UNCHANGED <<args, poller, report, outcome, sorters, reaped, histories>>

\* open() or write() fails.
WriteFails ==
  /\ cpc = "write" /\ Handle /\ EnterForce
  /\ disturbed' = TRUE
  /\ UNCHANGED <<args, poller, ending, sorters, reaped, told>>

\* The times and sigusr2_received for the coordinator, and exit().
Report ==
  /\ cpc = "report" /\ Handle
  /\ report' = "times" /\ outcome' = "success"
  /\ Goto("ended", 0)
  /\ UNCHANGED <<args, poller, output, sorters, reaped, histories>>

Spawned(i) == child[i] # "none"
Zombies == {i \in Sorter : child[i] \in Dead} \ reaped
StatusOf(i) == IF child[i] = "killed" THEN "signaled" ELSE "exited"

\* The children waitpid() may return: the pid of a sorter not forked is -1.
Waitable(i) == IF Spawned(i) THEN Zombies \cap {i} ELSE Zombies

\* Without WNOHANG.
TryWaitBlocking ==
  /\ cpc = "forced" /\ idx < NumOfSorters /\ Handle
  /\ ~Running(idx)
  /\ \/ /\ Waitable(idx) = {}
        /\ UNCHANGED <<status, reaped>>
     \/ \E i \in Waitable(idx) :
          status' = StatusOf(i) /\ reaped' = reaped \cup {i}
  /\ IF status' = "exited"
     THEN cpc' = "forced" /\ idx' = idx + 1
     ELSE cpc' = "kill" /\ UNCHANGED idx
  /\ UNCHANGED <<args, poller, ending, sorters, histories>>

\* waitpid(WNOHANG) for the next sorter.  For a running one it leaves status
\* alone, and WIFEXITED(0) holds.
TryWait ==
  /\ cpc = "forced" /\ idx < NumOfSorters /\ Handle
  /\ \/ /\ Waitable(idx) = {}
        /\ UNCHANGED <<status, reaped>>
     \/ \E i \in Waitable(idx) :
          status' = StatusOf(i) /\ reaped' = reaped \cup {i}
  /\ IF status' = "exited"
     THEN cpc' = "forced" /\ idx' = idx + 1
     ELSE cpc' = "kill" /\ UNCHANGED idx
  /\ UNCHANGED <<args, poller, ending, sorters, histories>>

\* SIGUSR1 to the sorter, or to every process when the pid is -1.  Before the
\* handler is installed it ends the process, before execv() it is lost.
Kill ==
  /\ cpc = "kill" /\ Handle
  /\ LET targets == {i \in Sorter : Running(i) /\ (i = idx \/ ~Spawned(idx))} IN
     \E killed \in SUBSET {i \in targets : child[i] = "forked"} :
       /\ child' = [i \in Sorter |-> IF i \in killed THEN "killed" ELSE child[i]]
       /\ sflag' = [i \in Sorter |->
                     sflag[i] \/ (i \in targets /\ child[i] # "forked")]
       /\ told' = told \cup targets
  /\ cpc' = "wait" /\ UNCHANGED <<idx, status>>
  /\ UNCHANGED <<args, poller, ending, sent, toWrite, pipe, reaped, disturbed>>

\* waitpid() that blocks while the child runs.
Wait ==
  /\ cpc = "wait" /\ Handle
  /\ \/ \E i \in Waitable(idx) :
          status' = StatusOf(i) /\ reaped' = reaped \cup {i}
     \/ /\ IF Spawned(idx) THEN idx \in reaped
           ELSE \A i \in Sorter : Spawned(i) => i \in reaped
        /\ UNCHANGED <<status, reaped>>
  /\ cpc' = "forced" /\ idx' = idx + 1
  /\ UNCHANGED <<args, poller, ending, sorters, histories>>

\* exit() without the message.
ForceExitSilent ==
  /\ cpc = "forced" /\ idx = NumOfSorters /\ Handle
  /\ outcome' = "failure" /\ UNCHANGED report
  /\ Goto("ended", 0)
  /\ UNCHANGED <<args, poller, output, sorters, reaped, histories>>

\* The message for the coordinator, before_exit() and exit().
ForceExit ==
  /\ cpc = "forced" /\ idx = NumOfSorters /\ Handle
  /\ report' = "error" /\ outcome' = "failure"
  /\ Goto("ended", 0)
  /\ UNCHANGED <<args, poller, output, sorters, reaped, histories>>

-------------------------------------------------------------------------------
(* A sorter.  Its coach's pipe has no reader once the coach has ended. *)

Sorts(i, from, to) == child[i] = from /\ child' = [child EXCEPT ![i] = to]

coach == <<args, cpc, idx, status, poller, received, flag, ending>>

\* execv() and sigaction().
Exec(i) ==
  /\ Sorts(i, "forked", "loading")
  /\ UNCHANGED <<coach, pending, sflag, sent, toWrite, pipe, reaped, histories>>

\* execv(), open() or read() fails: the length of the text and the text.
FailStart(i) ==
  /\ \E from \in {"forked", "loading"} : Sorts(i, from, "error")
  /\ outcome = "running"
  /\ \E n \in ErrLens :
       pipe' = [pipe EXCEPT ![i] = << <<"count", n>>, <<"text", 0>> >>]
  /\ disturbed' = TRUE
  /\ UNCHANGED <<coach, pending, sflag, sent, toWrite, reaped, told>>

\* exit() after the text, or at CHECK_FLAG without one.
ExitFailure(i) ==
  /\ \/ Sorts(i, "error", "fail")
     \/ sflag[i] /\ Sorts(i, "loading", "fail")
  /\ UNCHANGED <<coach, pending, sflag, sent, toWrite, pipe, reaped, histories>>

\* Ended by a signal while it sorts: quicksort() may use up the stack.
Crash(i) ==
  /\ Sorts(i, "loading", "killed")
  /\ disturbed' = TRUE
  /\ UNCHANGED <<coach, pending, sflag, sent, toWrite, pipe, reaped, told>>

\* The records are read and sorted, and the flag was not set in time.
Sort(i) ==
  /\ ~sflag[i] /\ Sorts(i, "loading", "writing")
  /\ UNCHANGED <<coach, pending, sflag, sent, toWrite, pipe, reaped, histories>>

\* The room for the number that goes before the records is forgotten.
ChunkFull(i) == Min({PipeSz, Share(i) - sent[i]})

\* to_write
Chunk(i) == Min({PipeSz - 1, Share(i) - sent[i]})

WriteCount(i) ==
  /\ child[i] = "writing" /\ outcome = "running"
  /\ toWrite[i] = 0 /\ sent[i] < Share(i) /\ Free(i) > 0
  /\ toWrite' = [toWrite EXCEPT ![i] = Chunk(i)]
  /\ pipe' = [pipe EXCEPT ![i] = Append(@, <<"count", Chunk(i)>>)]
  /\ UNCHANGED <<coach, pending, child, sflag, sent, reaped, histories>>

WriteRecords(i) ==
  /\ child[i] = "writing" /\ outcome = "running"
  /\ toWrite[i] > 0 /\ Free(i) > 0
  /\ LET k == Min({toWrite[i], Free(i)}) IN
       /\ pipe' = [pipe EXCEPT ![i] =
                    @ \o [n \in 1 .. k |-> <<"record", Array(i)[sent[i] + n]>>]]
       /\ sent' = [sent EXCEPT ![i] = @ + k]
       /\ toWrite' = [toWrite EXCEPT ![i] = @ - k]
  /\ UNCHANGED <<coach, pending, child, sflag, reaped, histories>>

\* The run time, 0.0 when less than a tick has passed.
WriteTime(i) ==
  /\ Sorts(i, "writing", "timed") /\ outcome = "running"
  /\ toWrite[i] = 0 /\ sent[i] = Share(i) /\ Free(i) > 0
  /\ \E ticks \in 0 .. 1 :
       pipe' = [pipe EXCEPT ![i] = Append(@, <<"time", ticks>>)]
  /\ UNCHANGED <<coach, pending, sflag, sent, toWrite, reaped, histories>>

\* SIGPIPE
BreakPipe(i) ==
  /\ outcome # "running"
  /\ \E from \in {"forked", "loading", "writing"} :
       /\ Sorts(i, from, "killed")
       /\ from = "loading" => ~sflag[i]
  /\ UNCHANGED <<coach, pending, sflag, sent, toWrite, pipe, reaped, histories>>

Close(i) ==
  /\ Sorts(i, "timed", "closed")
  /\ UNCHANGED <<coach, pending, sflag, sent, toWrite, pipe, reaped, histories>>

\* kill(getppid(), SIGUSR2) and exit(); init has no use for the signal.
Exit(i) ==
  /\ Sorts(i, "closed", "ok")
  /\ pending' = IF outcome = "running" THEN pending \cup {"USR2"} ELSE pending
  /\ UNCHANGED <<coach, sflag, sent, toWrite, pipe, reaped, histories>>

-------------------------------------------------------------------------------
CoachRuns ==
  \/ CheckUnset \/ CheckFlag \/ Spawn \/ SpawnFails
  \/ Poll \/ PollInterrupted \/ LeaveLoop \/ Skip \/ ReadCount \/ ReadRecords
  \/ ReadTime \/ HangUp \/ Reap \/ ReadText
  \/ WriteResults \/ WriteFails \/ Report
  \/ TryWait \/ Kill \/ Wait \/ ForceExit

SorterRuns(i) ==
  \/ Exec(i) \/ FailStart(i) \/ ExitFailure(i) \/ Crash(i) \/ Sort(i)
  \/ WriteCount(i) \/ WriteRecords(i) \/ WriteTime(i) \/ BreakPipe(i)
  \/ Close(i) \/ Exit(i)

Next ==
  \/ CoachRuns \/ TakeSignals \/ Stop
  \/ \E i \in Sorter : SorterRuns(i)

Spec == Init /\ [][Next]_vars

\* The system runs every process that can run and delivers every signal.
Fairness ==
  /\ WF_vars(CoachRuns) /\ WF_vars(TakeSignals)
  /\ \A i \in 0 .. 7 : WF_vars(i \in Sorter /\ SorterRuns(i))

FairSpec == Spec /\ Fairness

-------------------------------------------------------------------------------
(* Properties. *)

Unit == {"count", "time"} \X Nat \cup {"record", "text"} \X Nat

\* The values every variable takes (coach.c, sorter.c).
TypeOK ==
  /\ file \in Files /\ coachnum \in CoachNums
  /\ cpc \in {"unset", "set", "spawn", "spawned", "poll", "scan", "body", "time",
              "reap", "text", "write", "report", "forced", "kill", "wait", "ended"}
  /\ idx \in 0 .. NumOfSorters
  /\ status \in {"exited", "signaled"}
  /\ ends \in Seq(0 .. NumOfRecords) /\ Len(ends) <= NumOfSorters
  /\ revents \in [Sorter -> {"none", "in", "hup"}]
  /\ listening \subseteq Sorter /\ timed \subseteq Sorter
  /\ toRead \in Nat /\ remaining \in Int /\ have \in [Sorter -> Nat]
  /\ results \in [Sorter -> Seq(Unit)]
  /\ received \in 0 .. NumOfSorters /\ flag \in BOOLEAN
  /\ pending \subseteq {"USR1", "USR2"}
  /\ report \in {"none", "times", "error"}
  /\ outcome \in {"running", "success", "failure", "killed"}
  /\ output \in Seq(Unit)
  /\ child \in [Sorter -> {"none", "forked", "loading", "writing", "timed",
                           "closed", "error"} \cup Dead]
  /\ sflag \in [Sorter -> BOOLEAN]
  /\ sent \in [Sorter -> Nat] /\ toWrite \in [Sorter -> Nat]
  /\ pipe \in [Sorter -> Seq(Unit)]
  /\ reaped \subseteq Sorter /\ told \subseteq Sorter /\ disturbed \in BOOLEAN

\* comp_records(): the parts of the sorters forked so far follow one another
\* from record 0, and once all are forked nothing of the file is left over.
PartsCover ==
  /\ \A k \in 1 .. Len(ends) : (IF k = 1 THEN 0 ELSE ends[k - 1]) <= ends[k]
  /\ cpc = "poll" => /\ Len(ends) = NumOfSorters
                     /\ ends[NumOfSorters] = NumOfRecords

\* What read() puts into results[] is what the coach believes to be there
\* (have_read[]), in the order of the sorter's array: no read is cut short and no
\* number is taken for a record, unless the sorter has reported an error.
ResultsInOrder ==
  \A i \in Sorter :
    Spawned(i) /\ child[i] \notin {"error", "fail"} /\ have[i] <= Share(i) =>
      results[i] = [k \in 1 .. have[i] |-> <<"record", Array(i)[k]>>]

\* The loop ends exactly when every sorter has delivered: the size_t remaining
\* neither reaches 0 while a sorter owes records nor wraps below it, although the
\* length of an error text may have been taken off it.
LoopEndsInTime ==
  cpc = "poll" =>
    /\ \A i \in Sorter : have[i] <= Share(i)
    /\ remaining >= 0
    /\ remaining = 0 <=> \A i \in Sorter : have[i] = Share(i)

\* A coach that succeeds has the whole of every sorter's array in the file, and
\* the run time of every sorter that had records, whatever failed before.
SuccessIsComplete ==
  outcome = "success" =>
    /\ output = FlattenSeq([k \in 1 .. NumOfSorters |->
                  [n \in 1 .. Share(k - 1) |-> <<"record", Array(k - 1)[n]>>]])
    /\ \A i \in Sorter : Share(i) > 0 => i \in timed /\ i \in reaped

\* The coach fails only after an error, a crash or SIGUSR1, or when a sorter has
\* no records: SIGUSR2 never reaches it inside poll() with nothing to read, where
\* it would end in EINTR.
FailureHasCause ==
  outcome \in {"failure", "killed"} =>
    disturbed \/ \E i \in Sorter : Share(i) = 0

\* What the coordinator relies on (coach_finished() in mysort.c).
Contract == INSTANCE CoachContract
ContractSpec == Contract!Spec

\* force_exit() waits for a sorter that waits for room in a pipe which nobody
\* reads any more.
WaitsForWriter ==
  /\ cpc = "wait"
  /\ \E i \in Sorter : /\ i = idx \/ ~Spawned(idx)
                       /\ child[i] = "writing" /\ Free(i) = 0

\* The coach ends, whatever fails, except in one way (coach.c:526-530): a sorter
\* was killed, its status is still in force_exit()'s variable when it comes to a
\* running one, and that one is in a write(), restarted after SIGUSR1, to a full
\* pipe.  SIGUSR1 to the coach leads there, and with four sorters the error of
\* one, the death of a second and the writing of a third.
CoachEnds ==
  <>(outcome # "running"
     \/ (WaitsForWriter /\ \E i \in Sorter : child[i] = "killed"))

\* No sorter outlives the coach for ever: it finishes or its pipe breaks.
SortersEnd == [](outcome # "running" => <>(\A i \in Sorter : ~Running(i)))

\* Nobody is left behind: neither the coach, although it waits for sorters it never
\* told to stop, nor a sorter, although nobody may read its pipe any more.
AllEnd == CoachEnds /\ SortersEnd
===============================================================================
