-------------------------------- MODULE Ledger --------------------------------
(***************************************************************************)
(* The bays and the two structs of the reference ledger in shared memory,  *)
(* under the three mutexes baysMutex, statsMutex and statusMutex: what the *)
(* manager does with them in busParks() and busLeaves(), a bus in          *)
(* updateStatsArrival() and updateStatsLeave(), and the comptroller in     *)
(* printStatistics() and printStatus().                                    *)
(*                                                                         *)
(* Which request the manager takes up is the subject of BusStation; here   *)
(* it may approve any bus the permits and the spots allow.  A += of a bus  *)
(* is a load and a store; the manager's fields have no other writer.  Each *)
(* bus brings one passenger, takes one and waits one unit of time, so that *)
(* a sum over buses is a number of buses.  wStats[] is updated together    *)
(* with summaryWaiting and is left out.                                    *)
(***************************************************************************)
EXTENDS Integers, FiniteSets

CONSTANTS
  Bus,      \* the bus processes
  NoBus,    \* the manager works for no bus
  Capacity  \* the number of parking spots in all bays

ASSUME LedgerBusAssumption == IsFiniteSet(Bus) /\ NoBus \notin Bus
ASSUME CapacityAssumption == Capacity \in Nat \ {0}

VARIABLES
  baysMutex, statsMutex, statusMutex,
  available,          \* the free spots
  canPark, canLeave,  \* the permits of the manager
  status,             \* struct Status
  stats,              \* struct Stats
  mpc, mbus,          \* the manager and the bus it approves
  bpc, copy,          \* the buses and the values they have loaded
  cpc                 \* the comptroller

mutexes == <<baysMutex, statsMutex, statusMutex>>
permits == <<available, canPark, canLeave>>
vars == <<mutexes, permits, status, stats, mpc, mbus, bpc, copy, cpc>>

NoStats == [waiting |-> 0, counted |-> 0, deparked |-> 0, pickedUp |-> 0,
            left |-> 0, arrived |-> 0]
NoStatus == [inStation |-> 0, onBoard |-> 0]
Nothing == [status |-> NoStatus, stats |-> NoStats]

Init ==
  /\ baysMutex = 1 /\ statsMutex = 1 /\ statusMutex = 1
  /\ available = Capacity
  /\ canPark = 1 /\ canLeave = 1
  /\ status = NoStatus
  /\ stats = NoStats
  /\ mpc = "idle" /\ mbus = NoBus
  /\ bpc = [b \in Bus |-> "outside"]
  /\ copy = [b \in Bus |-> Nothing]
  /\ cpc \in {"statistics", "status"}

-------------------------------------------------------------------------------
(* The manager. *)

ManagerGoes(from, to) == mpc = from /\ mpc' = to
others == <<bpc, copy, cpc>>

\* busCanPark() and spotsAvailable() are YES for a waiting bus.
ApproveArrival(b) ==
  /\ ManagerGoes("idle", "bays")
  /\ bpc[b] = "outside" /\ canPark = 1 /\ available > 0
  /\ mbus' = b
  /\ canPark' = 0
  /\ UNCHANGED <<mutexes, available, canLeave, status, stats, others>>

\* busCanLeave() is YES for a waiting bus.
ApproveLeave(b) ==
  /\ ManagerGoes("idle", "bays")
  /\ bpc[b] = "parked" /\ canLeave = 1
  /\ mbus' = b
  /\ canLeave' = 0
  /\ UNCHANGED <<mutexes, available, canPark, status, stats, others>>

Arriving == bpc[mbus] = "outside"

\* sem_wait(baysMutex), and a spot is occupied or let.
LockBays ==
  /\ ManagerGoes("bays", "stats")
  /\ baysMutex > 0
  /\ baysMutex' = baysMutex - 1
  /\ available' = IF Arriving THEN available - 1 ELSE available + 1
  /\ UNCHANGED <<statsMutex, statusMutex, canPark, canLeave, status, stats,
                 mbus, others>>

\* busesArrived++ or busesLeft++ under statsMutex.
CountInStats ==
  /\ ManagerGoes("stats", "inStats")
  /\ statsMutex > 0
  /\ statsMutex' = statsMutex - 1
  /\ stats' = IF Arriving THEN [stats EXCEPT !.arrived = @ + 1]
              ELSE [stats EXCEPT !.left = @ + 1]
  /\ UNCHANGED <<baysMutex, statusMutex, permits, status, mbus, others>>

\* The post is forgotten.
KeepStats ==
  ManagerGoes("inStats", "status")
  /\ UNCHANGED <<mutexes, permits, status, stats, mbus, others>>

UnlockStats ==
  /\ ManagerGoes("inStats", "status")
  /\ statsMutex' = statsMutex + 1
  /\ UNCHANGED <<baysMutex, statusMutex, permits, status, stats, mbus, others>>

\* busesInStation++ or busesInStation-- under statusMutex.
CountInStatus ==
  /\ ManagerGoes("status", "inStatus")
  /\ statusMutex > 0
  /\ statusMutex' = statusMutex - 1
  /\ status' = IF Arriving THEN [status EXCEPT !.inStation = @ + 1]
               ELSE [status EXCEPT !.inStation = @ - 1]
  /\ UNCHANGED <<baysMutex, statsMutex, permits, stats, mbus, others>>

UnlockStatus ==
  /\ ManagerGoes("inStatus", "approve")
  /\ statusMutex' = statusMutex + 1
  /\ UNCHANGED <<baysMutex, statsMutex, permits, status, stats, mbus, others>>

\* sem_post(baysMutex), then the approval.
Approve ==
  /\ ManagerGoes("approve", "idle")
  /\ baysMutex' = baysMutex + 1
  /\ bpc' = [bpc EXCEPT ![mbus] = IF Arriving THEN "parking" ELSE "leaving"]
  /\ mbus' = NoBus
  /\ UNCHANGED <<statsMutex, statusMutex, permits, status, stats, copy, cpc>>

ManagerStep ==
  \/ \E b \in Bus : ApproveArrival(b) \/ ApproveLeave(b)
  \/ LockBays \/ CountInStats \/ UnlockStats \/ CountInStatus \/ UnlockStatus
  \/ Approve

-------------------------------------------------------------------------------
(* The buses. *)

BusGoes(b, from, to) == bpc[b] = from /\ bpc' = [bpc EXCEPT ![b] = to]
elsewhere == <<baysMutex, available, mpc, mbus, cpc>>

EndParking(b) ==
  /\ BusGoes(b, "parking", "status")
  /\ canPark' = canPark + 1
  /\ UNCHANGED <<elsewhere, statsMutex, statusMutex, canLeave, status, stats,
                 copy>>

Load(b) == copy' = [copy EXCEPT ![b] = [status |-> status, stats |-> stats]]
Forget(b) == copy' = [copy EXCEPT ![b] = Nothing]

LockStatus(b, from, to) ==
  /\ BusGoes(b, from, to)
  /\ statusMutex > 0
  /\ statusMutex' = statusMutex - 1
  /\ Load(b)
  /\ UNCHANGED <<elsewhere, statsMutex, canPark, canLeave, status, stats>>

LockStats(b, from, to) ==
  /\ BusGoes(b, from, to)
  /\ statsMutex > 0
  /\ statsMutex' = statsMutex - 1
  /\ Load(b)
  /\ UNCHANGED <<elsewhere, statusMutex, canPark, canLeave, status, stats>>

\* Without taking the mutex.
PeekStatus(b) ==
  /\ BusGoes(b, "status", "inStatus")
  /\ Load(b)
  /\ UNCHANGED <<elsewhere, statsMutex, statusMutex, canPark, canLeave, status,
                 stats>>

LockStatusArrival(b) == LockStatus(b, "status", "inStatus")

\* status.passengersDeparked += ..., sem_post(statusMutex)
StoreStatusArrival(b) ==
  /\ BusGoes(b, "inStatus", "stats")
  /\ status' = [status EXCEPT !.onBoard = copy[b].status.onBoard + 1]
  /\ statusMutex' = statusMutex + 1
  /\ Forget(b)
  /\ UNCHANGED <<elsewhere, statsMutex, canPark, canLeave, stats>>

LockStatsArrival(b) == LockStats(b, "stats", "inStats")

StoreStatsArrival(b) ==
  /\ BusGoes(b, "inStats", "parked")
  /\ stats' = [stats EXCEPT !.deparked = copy[b].stats.deparked + 1,
                            !.waiting = copy[b].stats.waiting + 1,
                            !.counted = copy[b].stats.counted + 1]
  /\ statsMutex' = statsMutex + 1
  /\ Forget(b)
  /\ UNCHANGED <<elsewhere, statusMutex, canPark, canLeave, status>>

EndLeaving(b) ==
  /\ BusGoes(b, "leaving", "leaveStatus")
  /\ canLeave' = canLeave + 1
  /\ UNCHANGED <<elsewhere, statsMutex, statusMutex, canPark, status, stats,
                 copy>>

LockStatusLeave(b) == LockStatus(b, "leaveStatus", "inLeaveStatus")

\* statusMutex is posted here already.
StoreStatusLeaveUnlocks(b) ==
  /\ BusGoes(b, "inLeaveStatus", "leaveStats")
  /\ status' = [status EXCEPT !.onBoard = copy[b].status.onBoard - 1]
  /\ statsMutex' = statsMutex + 1
  /\ statusMutex' = statusMutex + 1
  /\ Forget(b)
  /\ UNCHANGED <<elsewhere, canPark, canLeave, stats>>

\* status.passengersDeparked -= ..., sem_post(statsMutex): the other mutex.
StoreStatusLeave(b) ==
  /\ BusGoes(b, "inLeaveStatus", "leaveStats")
  /\ status' = [status EXCEPT !.onBoard = copy[b].status.onBoard - 1]
  /\ statsMutex' = statsMutex + 1
  /\ Forget(b)
  /\ UNCHANGED <<elsewhere, statusMutex, canPark, canLeave, stats>>

LockStatsLeave(b) == LockStats(b, "leaveStats", "inLeaveStats")

\* stats.passengersPickedUp += ..., sem_post(statusMutex).
StoreStatsLeave(b) ==
  /\ BusGoes(b, "inLeaveStats", "gone")
  /\ stats' = [stats EXCEPT !.pickedUp = copy[b].stats.pickedUp + 1,
                            !.waiting = copy[b].stats.waiting + 1]
  /\ statusMutex' = statusMutex + 1
  /\ Forget(b)
  /\ UNCHANGED <<elsewhere, statsMutex, canPark, canLeave, status>>

BusStep(b) ==
  \/ EndParking(b) \/ LockStatusArrival(b) \/ StoreStatusArrival(b)
  \/ LockStatsArrival(b) \/ StoreStatsArrival(b)
  \/ EndLeaving(b) \/ LockStatusLeave(b) \/ StoreStatusLeave(b)
  \/ LockStatsLeave(b) \/ StoreStatsLeave(b)

-------------------------------------------------------------------------------
(* The comptroller prints the statistics and the status in turn. *)

ComptrollerGoes(from, to) == cpc = from /\ cpc' = to
unread == <<permits, status, stats, mpc, mbus, bpc, copy>>

StartStatistics ==
  /\ ComptrollerGoes("statistics", "inStatistics")
  /\ statsMutex > 0
  /\ statsMutex' = statsMutex - 1
  /\ UNCHANGED <<baysMutex, statusMutex, unread>>

PrintStatistics ==
  /\ ComptrollerGoes("inStatistics", "status")
  /\ statsMutex' = statsMutex + 1
  /\ UNCHANGED <<baysMutex, statusMutex, unread>>

StartStatus ==
  /\ ComptrollerGoes("status", "statusBays")
  /\ statusMutex > 0
  /\ statusMutex' = statusMutex - 1
  /\ UNCHANGED <<baysMutex, statsMutex, unread>>

\* Without the second mutex.
PeekBays ==
  ComptrollerGoes("statusBays", "inStatus") /\ UNCHANGED <<mutexes, unread>>

StatusBays ==
  /\ ComptrollerGoes("statusBays", "inStatus")
  /\ baysMutex > 0
  /\ baysMutex' = baysMutex - 1
  /\ UNCHANGED <<statsMutex, statusMutex, unread>>

PrintStatus ==
  /\ ComptrollerGoes("inStatus", "statusDone")
  /\ baysMutex' = baysMutex + 1
  /\ UNCHANGED <<statsMutex, statusMutex, unread>>

EndStatus ==
  /\ ComptrollerGoes("statusDone", "statistics")
  /\ statusMutex' = statusMutex + 1
  /\ UNCHANGED <<baysMutex, statsMutex, unread>>

ComptrollerStep ==
  \/ StartStatistics \/ PrintStatistics
  \/ StartStatus \/ StatusBays \/ PrintStatus \/ EndStatus

-------------------------------------------------------------------------------

Next == ManagerStep \/ (\E b \in Bus : BusStep(b)) \/ ComptrollerStep

Spec == Init /\ [][Next]_vars

\* Every process runs on while no semaphore blocks it.  The fairness is strong
\* because the only process that takes a mutex again and again, the comptroller,
\* sleeps for seconds between two prints: a waiter gets the mutex meanwhile.
Fairness ==
  /\ SF_vars(ManagerStep) /\ SF_vars(ComptrollerStep)
  /\ \A b \in Bus : SF_vars(BusStep(b))

FairSpec == Spec /\ Fairness

-------------------------------------------------------------------------------
(* Properties. *)

ManagerPc == {"idle", "bays", "stats", "inStats", "status", "inStatus",
              "approve"}
BusPc == {"outside", "parking", "status", "inStatus", "stats", "inStats",
          "parked", "leaving", "leaveStatus", "inLeaveStatus", "leaveStats",
          "inLeaveStats", "gone"}
ComptrollerPc == {"statistics", "inStatistics", "status", "statusBays",
                  "inStatus", "statusDone"}

StatsType == [{"waiting", "counted", "deparked", "pickedUp", "left",
               "arrived"} -> Nat]
StatusType == [inStation : Nat, onBoard : Nat]

TypeOK ==
  /\ baysMutex \in {0, 1} /\ statusMutex \in {0, 1} /\ statsMutex \in 0 .. 2
  /\ available \in 0 .. Capacity
  /\ canPark \in {0, 1} /\ canLeave \in {0, 1}
  /\ status \in StatusType
  /\ stats \in StatsType
  /\ mpc \in ManagerPc
  /\ mbus \in Bus \cup {NoBus}
  /\ bpc \in [Bus -> BusPc]
  /\ copy \in [Bus -> [status : StatusType, stats : StatsType]]
  /\ cpc \in ComptrollerPc

BusesAt(pcs) == {b \in Bus : bpc[b] \in pcs}
One(condition) == IF condition THEN 1 ELSE 0

\* The manager has counted the bus in and not yet out.
CountedIn(b) ==
  IF b = mbus /\ mpc \in {"inStatus", "approve"}
  THEN bpc[b] = "outside"
  ELSE bpc[b] \in {"parking", "status", "inStatus", "stats", "inStats",
                   "parked"}

\* No update of struct Status is lost: the passengers are those of the buses
\* between their two updates, the buses those the manager has counted.
StatusExact ==
  /\ status.onBoard = Cardinality(BusesAt({"stats", "inStats", "parked",
                                  "leaving", "leaveStatus", "inLeaveStatus"}))
  /\ status.inStation = Cardinality({b \in Bus : CountedIn(b)})

\* printStatus() shows one moment: the buses in the station and the free spots
\* it prints add up to the station's capacity.
StatusSnapshot ==
  cpc = "inStatus" => status.inStation + available = Capacity

\* No update of passengersPickedUp is lost, for the buses that leave still
\* exclude one another through statusMutex.
PickedUpExact == stats.pickedUp = Cardinality(BusesAt({"gone"}))

\* So no update of struct Status is lost, nor of the passengers picked up,
\* although they are read, changed and written back by several programs, and one
\* of them posts a mutex it does not hold and gives back late the one it does.
\* The other sums of struct Stats have no such luck: StatsExact.
UpdatesKept == StatusExact /\ PickedUpExact

\* printStatus() has statusMutex and wants baysMutex, the manager the reverse.
Blocked == mpc = "status" /\ cpc = "statusBays"

\* An approval the manager began is given in the end, unless a status print and
\* the manager block one another: the rest of the nesting of the three mutexes,
\* in four functions of three programs, lets everybody through.
ApprovalIsGiven == mpc # "idle" ~> mpc = "idle" \/ Blocked

-------------------------------------------------------------------------------
(* What README says, and the code does not do. *)

\* README: the comptroller "reads the information it needs to print to the
\* terminal from the shared memory".  Manager and comptroller can block one
\* another for ever, each with the mutex the other waits for.
StatusIsPrinted == cpc = "status" ~> cpc = "inStatus"

\* README: "this read/write work is protected by 2 semaphores, one for each
\* struct".  Of the passengers deparked, the buses counted and the waiting times
\* no update would be lost then.  But a leaving bus posts statsMutex before it
\* takes it, and two processes can be inside struct Stats.
StatsExact ==
  LET arrived == Cardinality(BusesAt({"parked", "leaving", "leaveStatus",
                       "inLeaveStatus", "leaveStats", "inLeaveStats", "gone"}))
  IN /\ stats.deparked = arrived /\ stats.counted = arrived
     /\ stats.waiting = arrived + Cardinality(BusesAt({"gone"}))
===============================================================================
