# Verification of the operating systems projects

The repository holds three C programs of an operating systems course
(`src/OperatingSystemsProjects/`). This directory holds TLA+ modules that model
their core, the TLC configurations that check them on small instances, and
theorems with TLAPS proofs that hold for every value of the constants.

* **BusStationSimulation**: `mystation` creates a station manager, a comptroller
  and a number of buses, which share one memory segment with semaphores, the
  parking bays and a ledger.
* **ForkSort**: `mysort` forks coaches, each coach forks 1, 2, 4 or 8 sorters;
  records, run times and errors come back through pipes, ends and errors as signals.
* **ElectionsSimulation**: one process with a registry of voters in a red-black
  tree, a Bloom filter, a tree of postal codes with lists, and counters.

Paths below are relative to the program's directory.

## Inventory

### Bus station

| Component | State | Operations | Correct when |
|---|---|---|---|
| Station manager, `src/stationManager/` | `consumed[]`, the request in hand, its place in the loop | `main` loop, `busParks`, `busLeaves`, `occupyFirstAvailable`, `letParkingSpot`, the pending and permit tests | every approval goes to the bus whose request it answers; own bay first, then PEL; one maneuver in and one out at a time; requests are not lost |
| Bus, `src/bus/` | its copy of `Bus`, its place in `arrive` / `leave` | `arrive`, `stayParked`, `leave`, `updateStatsArrival`, `updateStatsLeave` | leaves exactly the spot it was given; fills a form only while nobody else uses it |
| Ledger, `include/busStation.h` | `struct Stats`, `struct Status`, bays, three mutexes | the updates of manager and buses, `printStatistics`, `printStatus` of `src/comptroller/` | struct Status is exact and a print of it shows one moment; no update of struct Stats is lost; nobody blocks for ever |
| mystation, `src/mystation/` | pids, `flag`, the list of plates | `startStation`: create, wait for a character, stop; `busExec` | an error or a character stops every process; plates are unique |
| Parsers (`configParser.c`, `busArguments.c`, `comptrollerArguments.c`) | none | text to numbers | not modelled: straight-line text parsing |

Everything but the pids and `flag` is in shared memory. The forms `arrivalReq[3]`
and `leaveReq` carry a request: `waitingApproval` admits one bus to the form,
`pending` tells the manager that this form is filled, `pendingRequests` counts
filled forms, `approval` answers. `busCanPark` and `busCanLeave` are permits for
one maneuver each; `cannotParkEvent` and `cannotLeaveEvent` wake a manager that
found its permit taken.

Hard: the interleavings of manager and buses between the semaphore calls (the
manager takes tokens, tests, puts them back, drains an event and then waits for
it); the order of three mutexes in four functions; signals that meet a process
before `execv()`, between a test and a sleep, or in a call that restarts.

### ForkSort

| Component | State | Operations | Correct when |
|---|---|---|---|
| mysort (coordinator), `mysort.c` | pids and pipes of the coaches, run times, counts of SIGUSR2 | fork the coaches, `wait` for each, `coach_finished`, `print_results`, `force_exit` | the table of times has the times of every coach; an error is reported and ends mysort, whatever the coaches do |
| coach, `coach.c` | pids and pipes of the sorters, `have_read[]`, `remaining`, `sigusr2_received`, `flag` | `comp_records`, fork sorters, `poll` loop, `sorter_finished`, write the results, `force_exit` | every record is given to one sorter; success means the whole file was written; it ends whatever fails |
| sorter, `sorter.c` | its records, `flag` | read, sort, write chunks of records, run time, SIGUSR2 | it returns a sorted permutation of its part |
| heapsort, quicksort | the array | `heapsort`, `quicksort` | sorted permutation |

Hard: SIGUSR2 is counted although pending signals are not queued; one pipe carries
counts, records, run times and error texts, and the coach decides by position what
it reads; a short read would shift everything behind it; sorters with no records;
an error while others still write; a coach that waits for a sorter that waits for
room in its pipe; `wait()` returns the coaches in any order and in any state.

### Elections

| Component | State | Operations | Correct when |
|---|---|---|---|
| Red-black tree, `rbt.c` | nodes, guard | insert, restore, delete, transplant, search, traverse | search tree order, no red-red edge, equal black heights |
| List, `connlist.c` | nodes, `start_of_list` | insert (ordered or not), delete, purge | holds what was inserted and not deleted, in order |
| Bloom filter, `bloom.c`, `votersbloom.c` | bit array, `updates_done` | add, check, remake | no false negative |
| Registry, `runelection.c`, `commands.c`, `postalcodes.c`, `voterslist.c`, `votersrbt.c` | trees, filter, counters | `lbf`, `lrb`, `ins`, `find`, `delete`, `vote`, `load`, `voted`, `votedperpc` | the structures agree with one another and with the counters |
| `run.c`, `voter.c`, `mystrsep.c` | none | text parsing | not modelled |

Sequential; hard are long sequences of insertions, deletions and votes, first
and last elements, the agreement of several structures after each command, a
filter that answers before the tree is asked, and what a deletion leaves behind.

## Modules

| Module | Models | Runs |
|---|---|---|
| `BusStation` | manager and buses, every semaphore call | `MCBusStation.cfg` |
| `ParkingLot` | what the station promises: abstract specification | property of `MCBusStation.cfg` |
| `BusStationProofs` | theorems about the two | - |
| `Ledger` | bays, status, statistics and comptroller under three mutexes | `MCLedger*.cfg` |
| `LedgerProofs` | theorems about it | - |
| `Mystation` | the number of buses, which the next two share | - |
| `Shutdown` | creation and stopping of the processes, signals | `MCShutdown.cfg` |
| `PlateList` | the list of plates and the loop of `busExec()` | `MCPlateList.cfg` |
| `MystationProofs` | theorems about the two | - |
| `Coach` | a coach with its sorters, their pipes and signals | `MCCoach.cfg` |
| `CoachContract` | what a coach promises to mysort: abstract specification | property of `MCCoach.cfg` |
| `CoachProofs` | theorems about the two | - |
| `Coordinator` | mysort with the coaches as `CoachContract` has them | `MCCoordinator.cfg` |
| `CoordinatorProofs` | theorems about it | - |
| `Sorts` | heapsort() and quicksort() | `MCSorts.cfg` |
| `SortsProofs` | theorems about it | - |
| `RedBlackTree` | rbt.c: insertion, search, deletion, with every round of their loops | `MCRedBlackTree*.cfg` |
| `SearchTree` | what the tree is to its callers, a set of keys: abstract specification | property of `MCRedBlackTree.cfg` |
| `RedBlackTreeProofs` | theorems about the two | - |
| `Registry` | the commands of runelection over trees, lists, Bloom filter and counters | `MCRegistry.cfg` |
| `Poll` | what README of the program promises to its user: abstract specification | property of `MCRegistry.cfg` |
| `RegistryProofs` | theorems about the two | - |
| `MC...` | instances, restricted behaviours, symmetry for TLC | all runs |

### BusStation

A step of a process is the code from one semaphore operation on shared state to
the next; what it does to memory of its own joins the step. Semaphores are
natural numbers; `form` holds the bus in each request form, `spot` the chars of the
bays, `available` the counters. A bus goes through `BusStep(b)`: it fills the form
(`FillArrival`), notifies (`NotifyArrival`, `NudgeArrival`), enters when approved,
copies its spot and frees the form (`EnterStation`), ends its maneuver
(`EndParking`), and likewise to leave. The manager takes a token (`TakeRequest`),
looks at the departure form and then at the bays in the order VOR, ASK, PEL,
and grants, refuses or waits. `TakeRequest` to `WaitParkEvent` follow the
branches of the loop of `stationManager.c` in their order; the three bay stages are
the same code and one family of actions with the bay as state. What the
busy-waiting branches do when another request is pending is kept, so the state
space has their cycles.

The ledger mutexes are left out here (they guard memory nobody else in this module
reads between the steps) and are the subject of `Ledger`. A bus comes once:
`mystation` creates a fixed number of buses. `ZeroSpot` is the spot number a bus
starts with (`memset` in `busParse`).

Overlapping buses can stop the protocol. `ServedUnlessLost` says in which ways, and that
there is no other: a bus found without a spot keeps the permit (`SpotMissing`), a
departure drops a token together with the permit (`TokenDropped`), a drained event is
missed (`EventMissed`). Under weak fairness every bus is served unless one of the three
comes to pass. `MCBusStation.cfg` has five mixtures of types (`MixedSpec`): two buses for one
bay with a third for the other or for PEL, one of each type, and two or three that only
PEL takes. The other mixtures are left out for the time they take: the theorems
cover safety and the refinement for all of them, liveness is not checked there.

### ParkingLot

Four kinds of steps: `Admit` gives a bus a free spot of its own bay, or of PEL when
its own is full; `Park` ends a maneuver in; `Release` frees the spot and starts a
maneuver out; `Exit` ends it. At most one bus maneuvers in and one out. The
refinement maps the bus program counters to the phases and the request forms
to the spots; semaphores, tokens and the manager disappear.

### Ledger

Which request the manager takes up is `BusStation`'s subject; here it approves any
bus the permits and spots allow, and the module follows the mutexes `baysMutex`,
`statsMutex`, `statusMutex` through `busParks`, `busLeaves`, both updates of a bus, and
the two prints. The `+=` of a bus is a load and a store (two steps), which is what
makes a wrong mutex visible. Every bus brings and takes one passenger, so that
sums are counts. `updateStatsLeave()` posts `statsMutex` where it should post
`statusMutex`, and the reverse at its end; the module has it so.

### Shutdown

mystation's loop, its `flag`, the calls of `kill` and `waitpid` it still has to make
(`plan`), and for each child where a signal can meet it: the image before `execv()`
(`forked`: the flag set is lost), after it (`execed`: the default action kills),
with its handler, past a test of its flag (`checked`), asleep in a semaphore
(`waiting`: EINTR). The mutexes are kept where a child waits for one with another
held: the manager in `busParks()` and `busLeaves()` with `baysMutex`, before `statsMutex`
(`parking`) and before `statusMutex` (`counting`); a bus in `updateStatsLeave()` with
`statusMutex` (`tallying`); the comptroller in `printStatus()` before `statusMutex`
(`queueing`) and with it before `baysMutex` (`printing`). The comptroller's waits restart after a
signal. Those of manager and bus fail, and then the function returns with the mutex it
has: `Signal` lets any of them that is told there give up and leave it taken for ever
(`lost`). A manager that gave up may come to `baysMutex` again before it tests its flag.
`busPids[i]` is read uninitialised or out of
bounds in the forced exit: `strayPid` is a nondeterministic choice between a value that
names no process and 0, the whole process group. A value that by chance is a live
foreign pid is left out.

### PlateList

`insertOrdered()` with the comparison of `licensePlateCmp()`, which orders from the
greatest plate on, and the loop that draws plates. The place is described by where
the loop stops (`Stops`), not by its pointers; the list is a sequence of numbers in
the order of `strcmp`. The branch of the code behind its loop that links a node
before the last one is not in `Inserted`: the theorem `LastBranchIsDead` says that it is
never taken.

### Coach

One step is one system call of the coach (with the code up to the next one) or of a
sorter; every step of the coach first handles what is pending (`Handle`), because a
signal is delivered at the latest when a system call returns. `cpc` names the place:
`unset` and `set` are the first two `CHECK_FLAG`, then `spawn`, `poll`, `scan` (the loop over
`fds[]`), `body` / `time` / `reap` / `text` (the reads and `waitpid()` for one sorter), `write`,
`report`, and `forced` / `kill` / `wait` for `force_exit()`. `ends` is `records_end` after each
call of `comp_records()`.

* A pipe is a sequence of units: a count, a record, a run time, or an error text. A
  count takes a whole place like a record. The sorter leaves 8 bytes for the count, so a
  count and its records fill the pipe; Linux merges a write into the last page only
  when it fits there, so the few bytes left do not take another count while the
  records are there. A write that fits is made at once (the pipe's lock is held),
  others put in what fits. What the coach takes for a count when another unit comes
  is `AsCount`: the run time 0.0 is 0, another one or a text is a number larger than any
  share (`Garbage`).
* Pending SIGUSR2 are one. A handler interrupted by the next SIGUSR2 inside its
  increment (`SA_NODEFER`) loses one too; that is the same outcome.
* The keys are numbers and `Array(i)` is the sorted part, the same whichever algorithm
  the sorter was given: that is what `Sorts` shows of heapsort and quicksort. `InOrder` says
  of each key which rank it has, not how a sorter finds it.
* `disturbed` is a history variable: a call failed, a process was killed from outside, or
  SIGUSR1 came. `told` has the sorters that were running when `force_exit()` signalled
  them.

### CoachContract and Coordinator

mysort sees a coach through the status of `wait()` and the pipe it reads afterwards. The
contract: exit code 0 only with the times in an otherwise empty pipe (`Succeed`), exit
code 1 only with a message (`Fail`, after any number of `Complain`: `sorter_finished()`
writes its message once more in `force_exit()`), or killed by a signal (`Die`). `Coach`
implements it (`ContractSpec`). `Coordinator` uses the same four steps for each coach,
`NoExec` for one whose `execv()` failed and which ends with `exit(errno)`, and `Hang` for one that
waits for ever in its own `force_exit()`. Who can hang is what `Coach` shows (`CoachEnds`):
coach c has 2^c sorters, with one it always ends, with two it takes SIGUSR1, which only
mysort sends, and with four or eight it does not take that.
`WEXITSTATUS()` of a killed coach is 0, so `coach_finished()` treats it as a success
(`ExitCode`). `stray` is what an unwritten `coachespids[]` names: nobody, or (0, -1)
everybody; that by chance it is another live pid is left out.

### Sorts

A step is one round of a loop or one call of a recursive function of `heapsort.c` and
`quicksort.c`. The array holds the numbers the records have in the file, and `column`
the value of each, so that a lost or doubled record shows even among equal values. Places
count from 1, as in the code. `restore_heap()` is a loop over `i` because it calls itself
last; `quicksort_()` has a stack of the calls still to be made (`pending`), of which the
one on top runs. A swap of a place with itself calls `memcpy()` with the same buffer
twice; it is a swap that changes nothing. `malloc()` of the buffer does not fail.
Columns of text and of numbers differ only in their order: `Values` are integers.

### SearchTree and RedBlackTree

One step is one round of a loop of `rbt.c`, or the code between two loops: the descent
(`Descend`), the end of `bst_insert()` (`Link`), the search for the least node (`GoLeft`), the transplants of `rbt_delete()`
(`Take`, `TakeLeast`), and `rbt_free_node()` (`Free`). A round of the two repairs is one
step per case: `Recolor`, `TurnOutwards` and `RaiseParent` in `rbt_restoration()`;
`FindSibling`, `Slip`, `TurnNephew` or `FarIsRed`, and `RaiseSibling` in
`rbt_restore_deletion()`. Both mirror images of the code are one definition with the
side as parameter. A node is named by its key. The guard is a node with
fields, because the code reads its colour and writes its parent, and the repair of a
deletion relies on the latter. `BalancedUnlessSlipped` speaks of the nodes `Below` the root, those that
can be reached from it.

Two things the code does in a deletion are kept. When both children of the sibling are black,
the repair moves up and then runs the last case with the old sibling; `slipped`
is a history variable that says it has happened. `Free` frees whatever the
deleted node still points to; when that is a part of the tree, the place is
`broken` and nothing is said of what follows.

`SearchTree` is the contract: `rbt_insert()`, `rbt_find()` and `rbt_delete()` decide
whether the key was there and change a set. After a slip or a free of live nodes it
promises nothing (`broken`), and that can happen only in a deletion which leaves keys.
The constraint of `MCRedBlackTree.cfg` explores nothing behind the first slip, where every
property holds by its premise.

### Poll and Registry

A step of `Registry` is one command, one line of the registry file or one line of a file
given to `load`. It composes the structures: `post` and `hasvoted` are the tree of
voters by its contract, `area` the tree of postal codes with its records and lists,
`filter` the bits of the Bloom filter, and `count` and `havevoted` the counters beside
them.

* The hash of an id is a constant; `bloom_init()` takes the least size its test for primes
  lets through (4 has no divisor below its half, and counts as one; three times a number of
  voters is never 4, so it does not come up). `murmur3_32()` reads eight
  bytes for every four characters and so, from four characters on, past the end of
  the string: for these ids (`Long`) its result is any. That the sum of hashes wraps at 2^64
  is left out: it is one more function of the id.
* `updates_done` is never reset. It is counted up to `num_of_updates`, for the code only
  asks whether it has got there.
* `voterslist_delete()` never finds its voter, because its comparison takes a `Voter` for a
  string, and its caller takes the 0 it returns for success. The counters of the
  postal code are right, and its list keeps the voters who were freed (`Freed`).
  An insertion that compares with such a one (`Passed`, the list is in order) and a second
  deletion in the same code, which compares with all, use freed memory.
* `undefined` is the state after a use of freed memory or of NULL; `DeleteUndefined` takes
  `SearchTree`'s `Break` as a possibility of every deletion that leaves keys
  (`MayBreak`).
* Malformed commands print a message and change nothing; they are left out.

`Poll` is a register of voters and of their votes without any of these structures. It
also says what the program cannot promise: a newcomer can be turned away for
a false positive (`TurnAway`), a voter with a long id can be overlooked (`Overlook`),
and anything may happen after the end of the input or, once somebody was deleted, when
freed memory is used (`EndOfInput`, `Corrupt`; `fate`). An empty registry at the exit
is also only reached by deletions.

## Runs

Passing runs:

| Run | Bounds | Shows |
|---|---|---|
| `station` | 3 buses of five mixtures of types, one spot per bay | forms, permits, spots, counters and tokens are consistent in every interleaving, and `BusStation` implements `ParkingLot`; every bus is served and leaves, unless a permit, a token or an event is lost in one of three named ways |
| `ledger` | 3 buses, 2 spots | struct Status and the picked-up passengers lose no update; a status print shows one moment; only a status print can stop an approval |
| `shutdown` | 2 buses, errors, failing forks, a character | stopping is complete and signals own children, forced exits have a cause, and stopping ends except in the ways `StopEnds` names |
| `plates` | 5 plates, 8 buses | order, at most two equal plates |
| `coach` | 1 or 2 sorters; files of 1, 2, 4 and 5 records; a pipe of 3 places; error texts of length 1 to 3; 4 sorters one at a time with 2 records and texts of length 1 | no read is cut short, the loop ends when all is read, success is complete, failure has a cause, the contract is kept, coach and sorters end except in the one way `CoachEnds` names |
| `coordinator` | 4 coaches, the most `arguments.c` accepts | a table only when all are waited for and none failed, with the times of all that succeeded; as many `wait()` as coaches; mysort ends unless all it waits for hang |
| `sorts` | every array of at most 7 records with 3 values, both algorithms | no place outside the array, sorted, no record lost, a heap between the rounds, both end |
| `tree` | every sequence of operations over 7 keys, up to the first slip | red-black and ordered after every operation, and a set of keys to the callers |
| `registry` | 3 voters, one with a long id, 2 postal codes; files of at most 2 lines for `load`; the filter is made again after 5 updates | the counters agree with the trees, and every answer is that of a register of voters |

Three buses are enough for the station: a form is contended by two buses of one
type, and each bay falls back to PEL only; a third bus gives the manager a request
while one waits and one maneuvers. Three buses over two spots in `Ledger` let one
arrive, one leave and one wait under one print, and fill the station. Two buses
in `Shutdown` are the first and the last of the loops. Eight buses over five plates
fill the list beyond all distinct plates. In `coach` one record leaves the first of two
sorters without any, four make one full chunk for each, five a full chunk and a rest;
a text may be shorter than, equal to and longer than a share, which are the three
branches of the loop. Of four sorters only the first that can run does
(`TurnsSpec`), with SIGUSR1, the coach and failures in between: this is the
fewest with which `force_exit()` comes to wait for a full pipe without SIGUSR1 (an error, a
death and a sorter that writes). What is proved holds for every coach number,
file and capacity; that everybody ends (`AllEnd`) is checked for one and two sorters,
for four in that restricted form, and for eight not at all. Seven records are a heap of three full
levels, and with six and four one whose last parent has a left child only; three values
give records that are less, equal and greater than the driver. Seven keys are the
fewest for a tree with three black nodes on every path. In `registry` two short ids share
bits in some sizes of the filter and not in others, so that there are false positives that come and go with a remake, and the third
is long; with five updates the filter is used after insertions and deletions
both before and after its first remake; two codes let one be emptied while the other is
not. Only `registry` uses symmetry, and it checks no liveness.

`CHECK_DEADLOCK FALSE` is set throughout because the programs really stop: buses end, the
manager sleeps when nobody comes, mystation exits. Wrong stops are found by
liveness properties instead.

Violated runs, each a statement of the repository that the code does not keep:

| Run | Statement | What happens |
|---|---|---|
| `ledger_order` | the comptroller prints the status (README:52) | opposite lock order of manager and comptroller |
| `ledger_stats` | updates of struct Stats are protected by its semaphore (README:54-56) | a leaving bus posts `statsMutex` before it takes it, and one of two updates is lost |
| `tree_loss` | the registry is printed in order at the end (README:42-43 of the elections) | a slipped repair cuts off voters who were not deleted |

Other differences between text and code that the models have and no run is spent on.
In the bus station:

* The manager waits "while there are no requests pending" (`busStation.h:102-103`). After a
  departure it drops a token and the permit (`stationManager.c:131`), and the request
  behind the token is never seen (`TokenDropped` in `ServedUnlessLost`).
* An error stops the other processes (README:38-39). The forced exit signals
  `busPids[i]`, with the `i` of the loop that creates the buses, where it should signal
  `busPids[j]` (`simUtilities.c:197`); the buses are not told. `CleanStop` is therefore
  about the other two ways to stop.
* `busCanPark()` takes the permit before the spots are counted, and the branch without a
  spot does not give it back (`stationManager.c:183`, `:215`, `:246`): no bus parks again.
  `busStation.h:90-91` calls it the number of simultaneous maneuvers, initially 1.
* `cannotLeaveEvent` is drained (`stationManager.c:159`) after the permit was tested: a
  departure in between is missed, and the manager sleeps although the bus can leave,
  against the comment at line 161. Line 192 does the same for `cannotParkEvent`.
* `updateStatsLeave()` posts `statsMutex` where it should post `statusMutex`, and the reverse
  (`busUtilities.c:138`, `:145`). What struct Stats loses by it is `ledger_stats`; struct Status
  and the passengers picked up are still exact (`UpdatesKept`).
* `insertOrdered()` compares the first node only for "less" (`linkedList.c:135`): a plate
  equal to it is given to a second bus, against README:40-41 (`AtMostTwice`).
* `busStation.h:48-51` says the waiting statistics count buses that have left;
  `updateStatsArrival()` counts a bus when it has parked. `busStation.h:66` says that
  `busesInStation` includes moving buses; a bus maneuvering out is not counted
  (`CountedIn` in `Ledger` is what is counted).
* The ways `StopEnds` names in which a stop hangs, against README:29-30. SIGUSR1 before
  `execv()`, or between the manager's test of `flag` and its `sem_wait` (`stationManager.c:119-122`),
  is lost. A manager told while it waits for `statsMutex` or `statusMutex` returns with
  `baysMutex` taken (`stationManagerUtilities.c:89`, `:93`, `:139`, `:144`), a bus told at
  `busUtilities.c:139` with `statusMutex`. The comptroller then waits for it for ever, because its
  waits restart although `comptroller.c:87` says they must not (`SA_RESTART` is in the wrong
  structure, lines 33-37); and a manager that was told just before it waits for a
  `statusMutex` taken in this way sleeps too. Without any signal, manager and `printStatus()`
  block one another as in `ledger_order`.
* An error while mystation waits for a character is not acted upon (`simUtilities.c:203`,
  `getchar()` restarts), against README:38-39.
* A bus that is stopped signals mystation back (`bus.c:19`), so a station ended by a
  character while buses are there reports a failure (`mystation.c:83`).

In ForkSort:

* "Write merged sorters' results" (`coach.c:345`): the sorters' parts, each sorted, are
  written one behind the other (`coach.c:366`). What `SuccessIsComplete` says is that this
  concatenation is complete.
* After an error the others get SIGUSR1 (README:9-10). `waitpid(WNOHANG)` leaves the status of a
  running child at 0, `WIFEXITED(0)` is true, and the child is passed over
  (`coach.c:526`, `mysort.c:275`). `AllEnd` says that everybody ends nevertheless, with
  the exception in the point below.
* `coach.c:95` says `SA_NODEFER` is needed to catch all SIGUSR2; signals pending together
  are delivered once, so the printed number is between 1 and the number of sorters.
* The error text of a sorter goes through the pipe of the records (README:11-12), but
  while records are owed the coach reads its length as a count (`coach.c:262`) and
  reports an error of its own; the text itself gets through only if its length equals
  what is owed, and then it has been consumed before `sorter_finished()` looks for it
  and reads an uninitialised length (`ReadText`).
* A sorter without records sends only its run time, which is read as a count: 0.0 is
  harmless, any other value fails the whole coach (`FailureHasCause`).
* `SA_RESTART` does not restart `poll()`, against `coach.c:95-96`; that SIGUSR2 nevertheless
  never ends a coach whose sorters all have records is part of `FailureHasCause`.
* The `CHECK_FLAG` at `coach.c:154` calls `force_exit()` before the arrays are filled
  (`CheckUnset`), and both `force_exit()` signal unwritten pids: the -1 of a sorter not forked
  is every process of the user (`Kill`).
* `force_exit()` keeps the status of a killed sorter until it comes to a running one, sends
  that SIGUSR1 and waits for it, while it may wait for room in its pipe in a
  `write()` that restarts (`coach.c:526-530`): both for ever. After SIGUSR1 this happens with two
  sorters, and without it with four or eight, when one reports an error and another was
  killed (the exception in `CoachEnds`, a part of `AllEnd`). mysort then waits for ever as well
  (the exception in `CoordinatorEnds`): with coach number 1 when its own `force_exit()`, after a
  coach was killed, has sent that SIGUSR1; with 2 and 3 also in its loop around `wait()`.
* README:13: the first error is the one reported. It is that of the first coach `wait()`
  returns. README:18-20: exit code `EXIT_FAILURE` marks an error. A killed coach counts as a
  success without times, and one whose `execv()` failed ends with `errno` and is skipped;
  the table then has rows of uninitialised memory. `TableRight` says no more than that
  those who succeeded have their times in it and that nobody ended with `EXIT_FAILURE`.
* "The column's id flag after a -h or -q must be an integer between" (`arguments.c:22`): only
  an argument that begins with a digit from 2 to 8 is taken for one (line 90); `-h 9` and
  `-h 1x` sort column 1 and say nothing.

In the elections:

* `murmur3_32()` reads past ids of four characters and more (`votersbloom.c:104`): a
  registered voter with such an id may be reported missing, although `lrb` finds it. The
  modules call it `Long` and `Overlook`.
* A deleted voter is "purged from every structure" (README:48-49): the list of the postal code
  keeps a pointer to the freed record, because `voterslist_delete()` does not find it
  (`voterslist.c:19`). `start_of_list` not being moved by a deletion (`connlist.c:64`) never
  matters, for nobody is ever found.
* `rbt_delete()` frees the children of the deleted node that are still in the tree
  (`rbt.c:125`).
* `updates_done` is not reset when the filter is made again (`votersbloom.c:34`); after
  `num_of_updates` updates every insertion and deletion makes a new one.
* Deleting the last voter when the filter is to be made again dereferences the NULL of
  `bloom_init()` (`votersbloom.c:148`); an empty registry at the exit, and `votedperpc`
  without postal codes, the NULL that `rbt_get_all_nodes()` has for the guard.
* At the end of the input the loop goes on to the test of `command[0]`, with `command` NULL or
  freed (`runelection.c:145`).
* `run.c` accepts `-i x -i y` and then has no output file.

### Fairness

`BusStation`: weak fairness of the manager and of every bus. The processes run
under a preemptive scheduler and no step is taken away from them for ever except
by a semaphore; a bus comes once, so nobody competes for a semaphore again and
again. `Ledger`: strong fairness per process,
because the comptroller comes back to its mutexes for ever; it sleeps for at
least a second between two rounds, in which a waiter gets the mutex. `Shutdown`: weak
fairness of mystation and of each child's own steps; no fairness for a
character, for failures, or for the post a sleeping process waits for. `Coach`: weak
fairness of the coach, of the delivery of signals and of each sorter (as a process:
whichever of its steps is possible), none for failures that come from outside; all waits are
for a child's end or for a pipe with one reader and one writer, so nobody competes.
`Coordinator`: weak fairness of mysort, and every coach ends or hangs, which is what `CoachEnds`
shows of it. `Sorts` and `RedBlackTree`: weak fairness
of the one sequential program, for an operation that was called.

## Proofs

`BusStationProofs` (for every finite number of buses and every size of bays):
`TypeCorrect`, `FormsKept`, `ManeuversAreExclusive`, `RefillIsDead`, `SpotsAreExact`,
`TokensAreCovered`. The assumptions are those of `BusStation`'s
constants. The properties are not inductive by themselves. The invariant `IInv` is
the conjunction of `TypeOK`; `FormIntegrity`, which ties each semaphore of a form
to where its bus and the manager are, so that a form has one user; `PermitInv`,
which accounts for the permit as a unit that is in the semaphore, with the
manager, with the bus it approved, or lost; and `LotInv`, which ties spot chars,
forms and counters to the buses. One lemma per group of actions shows that they keep
each conjunct; `TokensCovered` is then inductive relative to `IInv`, by counting the
unanswered requests as a finite set.

`ImplementsLot` is the refinement that `station` checks as `LotSpec`: from the same
invariant every action of `BusStation` maps to a step of the lot or a stutter.

`LedgerProofs`, for every finite set of buses and every number of spots: `TypeCorrect`,
`UpdatesAreKept` (`UpdatesKept`: struct Status and the passengers picked up), `SnapshotIsExact` (`StatusSnapshot`). None of the three is
inductive. That a bus's store of what it loaded loses nothing takes that nobody has
written in between (`CopyInv`), which takes that it alone is inside; and the extra
`sem_post()` of `updateStatsLeave()` makes that false of struct Stats in general. `IInv`
therefore says who has `baysMutex` and `statusMutex` at each place, accounts for the value of
`statsMutex` (`StatsMutexInv`: its value and those inside add up to one, and one more for
a bus between its two updates, of which `statusMutex` admits one), and for the two permits
(`PermitInv`), by which at most one bus is on its way in and one on its way out. The counts
are cardinalities of sets of buses; one lemma says how such a count changes when one bus
goes on. That the counters stay natural numbers takes that the spot the manager found
is still free (`ApprovalInv`, `SpotsInv`).

`MystationProofs`, of `Shutdown`, for every number of buses: `TypeCorrect`, `StopsCleanly` (`CleanStop`),
`ForcedHasError` (`ForcedByError`). `CleanStop` speaks of the next call and of the end.
`CallsInv` says it of the whole list of calls mystation still has to make: every child
it names is there to be waited for, every such child is waited for in it, and nobody is
named after its `waitpid()`. Lemmas show this of the lists of `killAndWait()` for one child,
for n buses (an index argument) and for two lists one behind the other; which list is built when
follows from the order of creation (`CreationInv`).

`MystationProofs`, of `PlateList`: types, order, at most two nodes per plate, the dead
branch, for every set of plates and number of buses. The argument is about one insertion: the place
`insertOrdered()` finds `Fits` (nodes before it are greater, at most the first is
equal and then it is the only one before; nodes behind it are smaller), and
placing a node that fits keeps the list `Sorted` and equal nodes neighbours (`Twice`).

`CoachProofs`: `PartsCovered`, for every set of files and every coach number: with 1, 2, 4 or
8 sorters the parts `comp_records()` makes follow one another and end at the last
record. The invariant fixes which sorters are forked at each place of the coach
(`Len(ends)`), bounds each end by sums of eighths and sixteenths of the file, and
needs that the last end is the number of records. `ContractKept`: `Coach` implements
`CoachContract`; the invariant (`ContractInv`) is that the pipe to mysort is empty until the
coach is on its way out, from where it does not come back to its report.

The rest is about the records on their way: `LoopEnds` (`LoopEndsInTime`), `ReadInOrder`
(`ResultsInOrder`), `WritesEverything` (`SuccessIsComplete`) and `FailsForCause`
(`FailureHasCause`), and `TypeCorrect`. They share one invariant, because each of them needs the coach to be
right about what the next unit in a pipe is:

* `ShapeInv`, `ForkInv`: the types, and which sorters, pipes and entries of `fds[]` there are at
  each place of the coach.
* `StreamInv`: a pipe holds nothing, or what is left of a chunk the coach has taken the
  count of, or the count of the next chunk, its records and then the run time, in step
  with `have_read[]` and with what the sorter has written. So no record is read as a count
  and no count as a record, as long as no text was written.
* `PollInv`: what `poll()` reported is still true when the loop gets to it, though signals,
  ends and writes come in between: a pipe with units keeps them, and a pipe reported
  as hung up is one of a sorter that has not delivered all it owes, or owes nothing.
* `ResultsInv`, `OwedInv`, `DoneInv`: what was read is the first part of the sorted part;
  `remaining` is the sum of what is owed; a sorter that delivered everything has its run
  time read, is waited for and out of `fds[]`.
* `CauseInv`: an error needs a cause. Its difficult case is `poll()`, which SIGUSR2 would interrupt
  with an error: as long as one is pending, a sorter that ended is still listened to, and
  its pipe is ready, so `poll()` returns that instead.
* `CompleteInv`: behind the loop, everything has been read.
* `RoomInv`: what a sorter has yet to write of its open chunk lies inside its part. With
  `ArrayKeys` (a sorter has a key for every record of its part) it makes every record in a
  pipe a number.

`TypeOK` bounds `sigusr2_received` by the number of sorters. That takes `CountInv`: what was
counted, together with a SIGUSR2 that is pending, is at most the number of sorters that have
finished (a cardinality). `idx` stays inside `sorters_info[]` by `PlaceInv`: `force_exit()`
kills and waits only at places where there is a sorter left. `InOrder` takes the k-th smallest
key, the one with fewer than k below it and at least k up to it; that there is one is
`InOrderKeys`, from a bound on the keys and a least number with enough keys up to it. Keys of
a higher rank are not smaller (`InOrderAscends`), which gives `ReadAscending`: what was read
from one sorter is in ascending order. That
what is written to the file of results is again a sequence of units (`Flattened`) is shown with
the least place that would break it.

The assumptions are those of the constants (at most coach number 3, a pipe with room
for a count and a record).

`CoordinatorProofs`: `TypeCorrect`, `TableIsRight` and `WaitsAreCounted`, for every number of coaches. The
invariant says what mysort has read of each coach it has passed (`PassedWell`, where the one
it is looking at is not yet passed), that the pipe of a coach has times exactly when the
coach succeeded, and that the rounds left are the number of coaches not yet waited for;
that number is 0 only when the set is empty, so that nobody is missing when the table
is printed.

`SortsProofs`, for every size of the array and every set of integers as values:
`TypeCorrect` (no place outside the array), `BothSort`, `HeapIsKept`. For heapsort the
invariant is a heap with one place that may be out of order: from the round's place on
no child is above its parent, except that nothing is said of the parent `restore_heap()`
is at (`HeapFrom`) but that what is below it is not above what is over it (`Bridged`); what
was extracted is `Settled`. For quicksort any two places are in order or lie together
in a call that is still to be made (`OrderedOrAwaited`), and these calls do not overlap;
inside `partitioning()` the places up to `last` are not greater than the driver and those
from there to `now` are. That no record is
lost is an invariant of `Swap` alone.

`RegistryProofs`, for every set of voters, every hash, every `num_of_updates`: `TypeCorrect`,
`CountersAreRight`, `ImplementsPoll`. The invariant `RegistryInv` has `VotersInv`
(types, `CountersAgree`, and that a list has nobody but the voters of its code as long as nobody was
deleted), the types of the rest, `FilterCovers` (the bits of every registered
voter with a short id are set, in the size the filter has now) and `NeverEmpty` (once
read, the registry is not empty before a deletion). The last three are what the refinement needs:
`FilterCovers` for "nobody with a short id is overlooked", the others for "freed memory
and NULL are used only after a deletion". What `murmur3_32()` reads behind a long id needs no
deletion; it is `Overlook`.

`RedBlackTreeProofs`, for every finite set of keys: `TypeCorrect`, `RedBlackUnlessSlipped`
(`BalancedUnlessSlipped`) and `ImplementsSearchTree` (`ContractSpec`), so for trees of every
depth, where TLC has trees of seven nodes at most. The properties are recursive in the tree
and the steps change a few links of it. The invariant
`IInv` asks for two functions that satisfy the recursion locally: `D`, the keys in the
subtree of each node, with `Shape` (a node's subtree is the node and the subtrees of its
children, these are smaller and greater, and the links to children and parents agree), and
`H`, the black nodes below each node, with `Level` (the same on both sides, except on a
given edge) and `Calm` (no red node has a red child, except a given one). It then says what
is out of order at each place of the code:

* `restore`, `outer`: `x` is red and may have a red parent; nothing else is wrong.
* `mend`: the subtree of `x` has one black node too few (`ShortEdge`), or `x` is the
  root, or `x` is red and the deleted node still has live nodes below it, which `Free`
  is about to free (`Doomed`).
* `nephews`, `last`: the sibling is black; in `last` its far child is red. That is
  where a slip would enter with the far child black, and why the invariant is claimed
  only up to `Broken`.
* `descend`, `least`: the key, or the least one on the right, is in the subtree of `x`.

`PlaceInv` has one conjunct per place, and one lemma per action (`...Good`) shows where the
action leads and which keys the tree has then. The lemmas before them treat each change of the
links once, for both mirror images: a rotation, a transplant, a new leaf, a node in the
place of another; first the fields (`...Fields`), then the shape (`...Shape`), then heights
and colours (`...Colors`). Only at the end is it shown what the recursive functions give:
`BelowIsSubtree`, `OneBlackHeight` and `ListIsOrdered`, each by induction over the size of a
subtree. `TypeCorrect` is separate, because it holds after a slip and a free of live nodes,
where nothing is known of the shape.

The induction theorems of the library take a predicate, which the provers cannot
instantiate. These proofs use what is stated about sets instead: a set of numbers that has 0
and each successor has all numbers (`NatsOf`), and every non-empty set of subsets of a finite
set has a minimal one (`MinimalSet`). A recursive function is used through a series of
functions that satisfies its equation, so its step is an operator with a name (`Further`,
`Joined`, `Raised`).

Only model-checked: liveness (`ServedUnlessLost`, `StopEnds`, `AllEnd` and the like), which is
outside the prover's reach, and what the runs that expect a violation show. Every invariant and
every action property of a passing run, and every refinement, has a theorem.

## Not modelled, and why

* Parsers of arguments, configuration, commands and records (`configParser.c`,
  `busArguments.c`, `comptrollerArguments.c`, `arguments.c`, `run.c`, `voter.c`,
  `mystrsep.c`), log files, the text of the reference ledger, and `num_to_string.c` of
  ForkSort: one pass over a text, without interaction or state that outlives it. What they let
  through is what the constants and `Init` of the modules range over. mysort's checks of
  arguments and file come before the first `fork()`.
* `closeStation()` destroys semaphores in a segment that was detached (`mystation.c:66`,
  `:90`), a plain memory error on every run. `rbt_free()` and the frees at the exit of
  runelection.
* `write()` of the coach to a full file system is one failing step for the whole file, and of
  its report to mysort none (it fits in the pipe). `malloc()` succeeds in `Sorts` and `Registry`.
* The times themselves: sleeps are steps that may be postponed. The
  waiting times of struct Stats per type of bus, which are updated together with
  their sum and lost in the same way.
* Hash arithmetic of the Bloom filter: a hash is any function of the id.
* The functions of `connlist.c` and `linkedList.c` that nobody calls. Home works are documents.

## Plan

What is left, in this order:

1. ForkSort: `Coordinator` over real `Coach`es is too large for TLC; the contract stands
   between them. A short abstract specification of the whole program (every column file is
   complete or mysort reports an error or a coach was killed) on top of `Coordinator`.
2. The argument parser of mysort, which gives `Coordinator` distinct columns.
