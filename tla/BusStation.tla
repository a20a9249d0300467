------------------------------ MODULE BusStation ------------------------------
(***************************************************************************)
(* The protocol between the station manager (stationManager.c) and the     *)
(* bus processes (bus.c) of the bus station simulation, at the granularity *)
(* of the POSIX semaphores they share in struct Station (busStation.h).    *)
(*                                                                         *)
(* A bus fills a request "form" (one per area it may come from, and one to *)
(* leave), tells the manager with two semaphores of the form's protocol,   *)
(* nudges the event the manager may be sleeping on, and waits for the      *)
(* approval.  The manager takes one pending request at a time.             *)
(*                                                                         *)
(* Atomicity.  A step is one semaphore operation together with the code    *)
(* around it that no other process can observe: what a bus writes to a     *)
(* form it holds, and what only the manager reads or writes (bays, spots,  *)
(* consumed[], the taking end of pending and pendingRequests).  Taking a   *)
(* token from a semaphore only the manager takes from and putting it back  *)
(* is one step.  The mutexes around the bays and the ledger are the        *)
(* subject of module Ledger; SIGUSR1 does not arrive here (flag = OK).     *)
(***************************************************************************)
EXTENDS Integers, FiniteSets

CONSTANTS
  Bus,          \* the bus processes that mystation starts
  NoBus,        \* the content of a form nobody has filled
  SpotsNumber   \* bay -> its number of parking spots (configuration file)

Bays == {"VOR", "ASK", "PEL"}

\* The configuration parser refuses a bay without spots (configParser.c).
ASSUME SpotsAssumption == SpotsNumber \in [Bays -> Nat \ {0}]

\* A bus has a finite number of competitors, and NoBus is not one of them.
ASSUME BusAssumption == IsFiniteSet(Bus) /\ NoBus \notin Bus

\* One form per area to arrive from (arrivalReq) and one to leave (leaveReq).
Leave == "LEAVE"
Forms == Bays \cup {Leave}

\* A parking spot is a bay and an index into the bay's array of chars.
SpotsOf(bay) == {bay} \X (0 .. SpotsNumber[bay] - 1)
Spots == UNION {SpotsOf(bay) : bay \in Bays}

\* A zeroed struct Bus names the first VOR spot.
ZeroSpot == <<"VOR", 0>>

VARIABLES
  \* semaphores of the station
  pendingRequests, cannotParkEvent, cannotLeaveEvent, busCanPark, busCanLeave,
  \* semaphores and contents of the forms
  pending, waitingApproval, approval, formBus, formPlace,
  \* the bays
  taken,        \* the spots whose char is 1
  available,    \* the counter of struct ParkBay
  \* the manager's locals
  consumed,     \* the bays with consumed[bay] = 1
  leaveFrom, mpc, bay,
  \* each bus process: its type, its own parkedAt and spotNumber, its pc
  type, place, bpc

semaphores == <<pendingRequests, cannotParkEvent, cannotLeaveEvent,
                busCanPark, busCanLeave>>
forms   == <<pending, waitingApproval, approval, formBus, formPlace>>
lot     == <<taken, available>>
manager == <<consumed, leaveFrom, mpc, bay>>
buses   == <<type, place, bpc>>
vars    == <<semaphores, forms, lot, manager, buses>>

ManagerPc == {"loop", "leave", "another", "refill", "onlyLeave", "drainLeave",
              "waitLeave", "arrivals", "onlyArrival", "drainPark", "waitPark"}

BusPc == {"arriving", "notify", "nudge", "await", "parking", "parkEvent",
          "parked", "lnotify", "lnudge", "lawait", "leaving", "leaveEvent",
          "gone"}

\* stationConfig() in a zeroed segment, and every bus about to call arrive().
\* The type is rand() % 3 in busExec().
Init ==
  /\ pendingRequests = 0
  /\ cannotParkEvent = 0 /\ cannotLeaveEvent = 0
  /\ busCanPark = 1 /\ busCanLeave = 1
  /\ pending = [f \in Forms |-> 0]
  /\ waitingApproval = [f \in Forms |-> 1]
  /\ approval = [f \in Forms |-> 0]
  /\ formBus = [f \in Forms |-> NoBus]
  /\ formPlace = [f \in Forms |-> ZeroSpot]
  /\ taken = {}
  /\ available = SpotsNumber
  /\ consumed = {}
  /\ leaveFrom = "VOR"
  /\ mpc = "loop"
  /\ bay = "VOR"
  /\ type \in [Bus -> Bays]
  /\ place = [b \in Bus |-> ZeroSpot]
  /\ bpc = [b \in Bus |-> "arriving"]

-------------------------------------------------------------------------------
(* The bus process: arrive(). *)

BusGoes(b, from, to) == bpc[b] = from /\ bpc' = [bpc EXCEPT ![b] = to]

\* A bus that writes to the form without its mutex.
FillUnlocked(b, f) ==
  /\ formBus' = [formBus EXCEPT ![f] = b]
  /\ formPlace' = [formPlace EXCEPT ![f] = place[b]]
  /\ pending' = [pending EXCEPT ![f] = @ + 1]
  /\ UNCHANGED <<semaphores, waitingApproval, approval, lot, manager, type,
                 place>>

\* Take the form's mutex, copy the bus into the form, mark the form filled.
Fill(b, f) ==
  /\ waitingApproval[f] > 0
  /\ waitingApproval' = [waitingApproval EXCEPT ![f] = @ - 1]
  /\ formBus' = [formBus EXCEPT ![f] = b]
  /\ formPlace' = [formPlace EXCEPT ![f] = place[b]]
  /\ pending' = [pending EXCEPT ![f] = @ + 1]
  /\ UNCHANGED <<semaphores, approval, lot, manager, type, place>>

FillArrival(b) == BusGoes(b, "arriving", "notify") /\ Fill(b, type[b])

\* sem_post(pendingRequests)
Notify(b) ==
  /\ pendingRequests' = pendingRequests + 1
  /\ UNCHANGED <<cannotParkEvent, cannotLeaveEvent, busCanPark, busCanLeave,
                 forms, lot, manager, type, place>>

NotifyArrival(b) == BusGoes(b, "notify", "nudge") /\ Notify(b)

PostCannotLeaveEvent ==
  /\ cannotLeaveEvent' = cannotLeaveEvent + 1
  /\ UNCHANGED <<pendingRequests, cannotParkEvent, busCanPark, busCanLeave,
                 forms, lot, manager, type, place>>

\* A post that goes to the permit.
PostWrongSemaphore ==
  /\ busCanPark' = busCanPark + 1
  /\ UNCHANGED <<pendingRequests, cannotParkEvent, cannotLeaveEvent,
                 busCanLeave, forms, lot, manager, type, place>>

PostCannotParkEvent ==
  /\ cannotParkEvent' = cannotParkEvent + 1
  /\ UNCHANGED <<pendingRequests, cannotLeaveEvent, busCanPark, busCanLeave,
                 forms, lot, manager, type, place>>

NudgeArrival(b) == BusGoes(b, "nudge", "await") /\ PostCannotLeaveEvent

\* The approval of the arrival: copy the spot, release the form.
EnterStation(b) ==
  LET f == type[b] IN
  /\ BusGoes(b, "await", "parking")
  /\ approval[f] > 0
  /\ approval' = [approval EXCEPT ![f] = @ - 1]
  /\ place' = [place EXCEPT ![b] = formPlace[f]]
  /\ waitingApproval' = [waitingApproval EXCEPT ![f] = @ + 1]
  /\ UNCHANGED <<semaphores, pending, formBus, formPlace, lot, manager, type>>

\* The maneuver is over: sem_post(busCanPark), then the event.
EndParking(b) ==
  /\ BusGoes(b, "parking", "parkEvent")
  /\ busCanPark' = busCanPark + 1
  /\ UNCHANGED <<pendingRequests, cannotParkEvent, cannotLeaveEvent,
                 busCanLeave, forms, lot, manager, type, place>>

NudgeParked(b) == BusGoes(b, "parkEvent", "parked") /\ PostCannotParkEvent

(* The bus process: leave(). *)

FillLeave(b) == BusGoes(b, "parked", "lnotify") /\ Fill(b, Leave)

NotifyLeave(b) == BusGoes(b, "lnotify", "lnudge") /\ Notify(b)

NudgeLeave(b) == BusGoes(b, "lnudge", "lawait") /\ PostCannotParkEvent

BeginLeaving(b) ==
  /\ BusGoes(b, "lawait", "leaving")
  /\ approval[Leave] > 0
  /\ approval' = [approval EXCEPT ![Leave] = @ - 1]
  /\ waitingApproval' = [waitingApproval EXCEPT ![Leave] = @ + 1]
  /\ UNCHANGED <<semaphores, pending, formBus, formPlace, lot, manager, type,
                 place>>

\* The permit to leave is not given back.
EndLeavingKeepsPermit(b) ==
  BusGoes(b, "leaving", "leaveEvent")
  /\ UNCHANGED <<semaphores, forms, lot, manager, type, place>>

EndLeaving(b) ==
  /\ BusGoes(b, "leaving", "leaveEvent")
  /\ busCanLeave' = busCanLeave + 1
  /\ UNCHANGED <<pendingRequests, cannotParkEvent, cannotLeaveEvent,
                 busCanPark, forms, lot, manager, type, place>>

NudgeLeft(b) == BusGoes(b, "leaveEvent", "gone") /\ PostCannotLeaveEvent

BusStep(b) ==
  \/ FillArrival(b) \/ NotifyArrival(b) \/ NudgeArrival(b) \/ EnterStation(b)
  \/ EndParking(b)  \/ NudgeParked(b)
  \/ FillLeave(b)   \/ NotifyLeave(b)   \/ NudgeLeave(b)   \/ BeginLeaving(b)
  \/ EndLeaving(b)  \/ NudgeLeft(b)

-------------------------------------------------------------------------------
(* The station manager's working loop. *)

\* busCanPark() and busCanLeave() returning YES: sem_trywait() succeeded.
ParkPermitPeek == busCanPark > 0 /\ UNCHANGED busCanPark
ParkPermit == busCanPark > 0 /\ busCanPark' = busCanPark - 1

LeavePermit == busCanLeave > 0 /\ busCanLeave' = busCanLeave - 1

ManagerGoes(from, to) == mpc = from /\ mpc' = to

\* sem_wait(pendingRequests) at the head of the loop.
TakeRequest ==
  /\ ManagerGoes("loop", "leave")
  /\ pendingRequests > 0
  /\ pendingRequests' = pendingRequests - 1
  /\ UNCHANGED <<cannotParkEvent, cannotLeaveEvent, busCanPark, busCanLeave,
                 forms, lot, consumed, leaveFrom, bay, buses>>

\* leavePending() is NO: on to the arrivals, VOR first.
NoLeavePending ==
  /\ ManagerGoes("leave", "arrivals")
  /\ pending[Leave] = 0
  /\ bay' = "VOR"
  /\ UNCHANGED <<semaphores, forms, lot, consumed, leaveFrom, buses>>

\* The counter is not incremented.
LetSpotUncounted(spot) == taken' = taken \ {spot} /\ UNCHANGED available

\* letParkingSpot() for the spot written in the form.
LetParkingSpot(spot) ==
  /\ taken' = taken \ {spot}
  /\ available' = [available EXCEPT ![spot[1]] = @ + 1]

\* leavePending(), busCanLeave() and busLeaves().
GrantLeave ==
  /\ ManagerGoes("leave", "another")
  /\ pending[Leave] > 0
  /\ LeavePermit
  /\ pending' = [pending EXCEPT ![Leave] = @ - 1]
  /\ leaveFrom' = formPlace[Leave][1]
  /\ LetParkingSpot(formPlace[Leave])
  /\ approval' = [approval EXCEPT ![Leave] = @ + 1]
  /\ UNCHANGED <<pendingRequests, cannotParkEvent, cannotLeaveEvent,
                 busCanPark, waitingApproval, formBus, formPlace, consumed,
                 bay, buses>>

\* After a departure one more request is taken, if there is one.
AnotherRequest ==
  /\ mpc = "another"
  /\ \/ /\ pendingRequests > 0
        /\ pendingRequests' = pendingRequests - 1
        /\ mpc' = "refill"
     \/ /\ pendingRequests = 0
        /\ mpc' = "loop"
        /\ UNCHANGED pendingRequests
  /\ UNCHANGED <<cannotParkEvent, cannotLeaveEvent, busCanPark, busCanLeave,
                 forms, lot, consumed, leaveFrom, bay, buses>>

\* occupyFirstAvailable(): the first spot whose char is 0, else index 0.
FreeSpots(where) == SpotsOf(where) \ taken

FirstFree(where) ==
  IF FreeSpots(where) = {}
  THEN <<where, 0>>
  ELSE CHOOSE s \in FreeSpots(where) : \A r \in FreeSpots(where) : s[2] <= r[2]

OccupyFirstAvailable(f, where) ==
  /\ formPlace' = [formPlace EXCEPT ![f] = FirstFree(where)]
  /\ taken' = taken \cup {FirstFree(where)}
  /\ available' = IF FreeSpots(where) = {}
                  THEN available
                  ELSE [available EXCEPT ![where] = @ - 1]

\* PEL before the bus's own bay.
BusParksInPEL(f) ==
  /\ OccupyFirstAvailable(f, IF available["PEL"] > 0 THEN "PEL" ELSE f)
  /\ approval' = [approval EXCEPT ![f] = @ + 1]
  /\ UNCHANGED <<waitingApproval, formBus>>

\* busParks(): a spot of the bus's own bay first, then one of PEL.
BusParks(f) ==
  /\ IF available[f] > 0 THEN OccupyFirstAvailable(f, f)
     ELSE IF f # "PEL" THEN OccupyFirstAvailable(f, "PEL")
     ELSE UNCHANGED <<formPlace, lot>>
  /\ approval' = [approval EXCEPT ![f] = @ + 1]
  /\ UNCHANGED <<waitingApproval, formBus>>

\* The bay whose bus, found without a spot before, may use the freed one.
Refillable(b) == b \in consumed /\ leaveFrom \in {"PEL", b}

Refill ==
  /\ ManagerGoes("refill", "loop")
  /\ \/ /\ ParkPermit
        /\ UNCHANGED pendingRequests
        /\ LET next == IF Refillable("VOR") THEN "VOR"
                       ELSE IF Refillable("ASK") THEN "ASK" ELSE "PEL"
           IN IF Refillable(next)
              THEN BusParks(next) /\ consumed' = consumed \ {next}
              ELSE UNCHANGED <<approval, waitingApproval, formBus, formPlace,
                               lot, consumed>>
     \/ /\ busCanPark = 0
        /\ pendingRequests' = pendingRequests + 1
        /\ UNCHANGED <<busCanPark, approval, waitingApproval, formBus,
                       formPlace, lot, consumed>>
  /\ UNCHANGED <<cannotParkEvent, cannotLeaveEvent, busCanLeave, pending,
                 leaveFrom, bay, buses>>

\* busCanLeave() is NO: the request is put back.
RefuseLeave ==
  /\ ManagerGoes("leave", "onlyLeave")
  /\ pending[Leave] > 0
  /\ busCanLeave = 0
  /\ UNCHANGED <<semaphores, forms, lot, consumed, leaveFrom, bay, buses>>

\* Is the refused departure the only request?  If not, the arrivals follow.
OnlyLeave ==
  /\ mpc = "onlyLeave"
  /\ \/ /\ pendingRequests = 0
        /\ pendingRequests' = pendingRequests + 1
        /\ mpc' = "drainLeave"
        /\ UNCHANGED bay
     \/ /\ pendingRequests > 0
        /\ mpc' = "arrivals"
        /\ bay' = "VOR"
        /\ UNCHANGED pendingRequests
  /\ UNCHANGED <<cannotParkEvent, cannotLeaveEvent, busCanPark, busCanLeave,
                 forms, lot, consumed, leaveFrom, buses>>

\* while (sem_trywait(&station->cannotLeaveEvent) != -1) {}
DrainLeaveEvent ==
  /\ ManagerGoes("drainLeave", "waitLeave")
  /\ cannotLeaveEvent' = 0
  /\ UNCHANGED <<pendingRequests, cannotParkEvent, busCanPark, busCanLeave,
                 forms, lot, consumed, leaveFrom, bay, buses>>

WaitLeaveEvent ==
  /\ ManagerGoes("waitLeave", "loop")
  /\ cannotLeaveEvent > 0
  /\ cannotLeaveEvent' = cannotLeaveEvent - 1
  /\ UNCHANGED <<pendingRequests, cannotParkEvent, busCanPark, busCanLeave,
                 forms, lot, consumed, leaveFrom, bay, buses>>

\* The three arrival stages of an iteration: VOR, ASK, PEL, then the loop.
NextStage ==
  \/ /\ bay = "VOR" /\ bay' = "ASK" /\ UNCHANGED mpc
  \/ /\ bay = "ASK" /\ bay' = "PEL" /\ UNCHANGED mpc
  \/ /\ bay = "PEL" /\ mpc' = "loop" /\ UNCHANGED bay

ArrivalCandidate == mpc = "arrivals" /\ bay \notin consumed /\ pending[bay] > 0

SkipArrival ==
  /\ mpc = "arrivals"
  /\ bay \in consumed \/ pending[bay] = 0
  /\ NextStage
  /\ UNCHANGED <<semaphores, forms, lot, consumed, leaveFrom, buses>>

SpotsAvailable == available[bay] > 0 \/ available["PEL"] > 0

GrantArrival ==
  /\ ArrivalCandidate
  /\ ParkPermit
  /\ SpotsAvailable
  /\ pending' = [pending EXCEPT ![bay] = @ - 1]
  /\ BusParks(bay)
  /\ mpc' = "loop"
  /\ UNCHANGED <<pendingRequests, cannotParkEvent, cannotLeaveEvent,
                 busCanLeave, consumed, leaveFrom, bay, buses>>

\* No spot: the request is remembered in consumed[] (the permit stays taken).
NoSpot ==
  /\ ArrivalCandidate
  /\ ParkPermit
  /\ ~SpotsAvailable
  /\ pending' = [pending EXCEPT ![bay] = @ - 1]
  /\ consumed' = consumed \cup {bay}
  /\ NextStage
  /\ UNCHANGED <<pendingRequests, cannotParkEvent, cannotLeaveEvent,
                 busCanLeave, waitingApproval, approval, formBus, formPlace,
                 lot, leaveFrom, buses>>

\* busCanPark() is NO: the request is put back.
RefuseArrival ==
  /\ ArrivalCandidate
  /\ busCanPark = 0
  /\ mpc' = "onlyArrival"
  /\ UNCHANGED <<semaphores, forms, lot, consumed, leaveFrom, bay, buses>>

\* Both posts even when the second token was not there.
OnlyArrivalPostsTwice ==
  /\ mpc = "onlyArrival"
  /\ mpc' = IF pendingRequests = 0 THEN "drainPark" ELSE "loop"
  /\ pendingRequests' = pendingRequests + 2
  /\ UNCHANGED <<cannotParkEvent, cannotLeaveEvent, busCanPark, busCanLeave,
                 forms, lot, consumed, leaveFrom, bay, buses>>

\* Its token goes back; with another request pending the loop starts again.
OnlyArrival ==
  /\ mpc = "onlyArrival"
  /\ mpc' = IF pendingRequests = 0 THEN "drainPark" ELSE "loop"
  /\ pendingRequests' = pendingRequests + 1
  /\ UNCHANGED <<cannotParkEvent, cannotLeaveEvent, busCanPark, busCanLeave,
                 forms, lot, consumed, leaveFrom, bay, buses>>

DrainParkEvent ==
  /\ ManagerGoes("drainPark", "waitPark")
  /\ cannotParkEvent' = 0
  /\ UNCHANGED <<pendingRequests, cannotLeaveEvent, busCanPark, busCanLeave,
                 forms, lot, consumed, leaveFrom, bay, buses>>

WaitParkEvent ==
  /\ ManagerGoes("waitPark", "loop")
  /\ cannotParkEvent > 0
  /\ cannotParkEvent' = cannotParkEvent - 1
  /\ UNCHANGED <<pendingRequests, cannotLeaveEvent, busCanPark, busCanLeave,
                 forms, lot, consumed, leaveFrom, bay, buses>>

ManagerStep ==
  \/ TakeRequest \/ NoLeavePending \/ GrantLeave \/ AnotherRequest \/ Refill
  \/ RefuseLeave \/ OnlyLeave \/ DrainLeaveEvent \/ WaitLeaveEvent
  \/ SkipArrival \/ GrantArrival \/ NoSpot \/ RefuseArrival \/ OnlyArrival
  \/ DrainParkEvent \/ WaitParkEvent

-------------------------------------------------------------------------------

Next == ManagerStep \/ \E b \in Bus : BusStep(b)

Spec == Init /\ [][Next]_vars

\* Every process keeps running while it is not blocked; a sem_wait that stays
\* possible is not refused for ever.
Fairness == WF_vars(ManagerStep) /\ \A b \in Bus : WF_vars(BusStep(b))

-------------------------------------------------------------------------------
(* Properties. *)

TypeOK ==
  /\ pendingRequests \in Nat /\ cannotParkEvent \in Nat
  /\ cannotLeaveEvent \in Nat
  /\ busCanPark \in {0, 1} /\ busCanLeave \in {0, 1}
  /\ pending \in [Forms -> {0, 1}]
  /\ waitingApproval \in [Forms -> {0, 1}]
  /\ approval \in [Forms -> {0, 1}]
  /\ formBus \in [Forms -> Bus \cup {NoBus}]
  /\ formPlace \in [Forms -> Spots]
  /\ taken \in SUBSET Spots
  /\ available \in [Bays -> Nat]
  /\ consumed \in SUBSET Bays
  /\ leaveFrom \in Bays
  /\ mpc \in ManagerPc
  /\ bay \in Bays
  /\ type \in [Bus -> Bays]
  /\ place \in [Bus -> Spots]
  /\ bpc \in [Bus -> BusPc]

\* The bus has filled form f and has not yet answered its approval.
Holds(b, f) ==
  \/ f = type[b] /\ bpc[b] \in {"notify", "nudge", "await"}
  \/ f = Leave /\ bpc[b] \in {"lnotify", "lnudge", "lawait"}

Approved(b, f) == Holds(b, f) /\ approval[f] = 1

\* From the approval to the end of the maneuver, in and out.
Maneuvers(b) == bpc[b] = "parking" \/ Approved(b, type[b])
MovesOut(b)  == bpc[b] = "leaving" \/ Approved(b, Leave)

\* The spot is the bus's: from the approval to park to the approval to leave.
Present(b) ==
  \/ Maneuvers(b)
  \/ bpc[b] \in {"parkEvent", "parked"}
  \/ Holds(b, Leave) /\ approval[Leave] = 0

\* Before it has read the approval, the bus's spot is only in the form.
SpotOf(b) == IF Approved(b, type[b]) THEN formPlace[type[b]] ELSE place[b]

\* What the four semaphores of a form say together: the mutex is held by
\* exactly one bus, the one whose data is in the form; its request is either
\* pending, or approved, or consumed, and never two of these, so no request is
\* overwritten, answered twice, or answered for another bus.
FormIntegrity ==
  \A f \in Forms :
    /\ waitingApproval[f] = 1 =>
         /\ \A b \in Bus : ~Holds(b, f)
         /\ pending[f] = 0 /\ approval[f] = 0 /\ f \notin consumed
    /\ waitingApproval[f] = 0 =>
         /\ formBus[f] \in Bus
         /\ \A b \in Bus : Holds(b, f) <=> b = formBus[f]
         /\ pending[f] + approval[f] = IF f \in consumed THEN 0 ELSE 1

\* busCanPark: at most one bus at a time between the approval of its arrival
\* and the end of its maneuver, and none while the permit is free.
ParkingExclusion ==
  /\ \A b, c \in Bus : Maneuvers(b) /\ Maneuvers(c) => b = c
  /\ busCanPark = 1 => \A b \in Bus : ~Maneuvers(b)

\* busCanLeave: the same for departures.
LeavingExclusion ==
  /\ \A b, c \in Bus : MovesOut(b) /\ MovesOut(c) => b = c
  /\ busCanLeave = 1 => \A b \in Bus : ~MovesOut(b)

\* Both permits keep the maneuvers apart, of any two buses in one direction.
ManeuversExclude == ParkingExclusion /\ LeavingExclusion

\* The spot chars are exactly the spots of the buses in the station, no two of
\* which share a spot, and available counts the others, so that
\* occupyFirstAvailable() never gets past its loop.
SpotsExact ==
  /\ taken = {SpotOf(b) : b \in {c \in Bus : Present(c)}}
  /\ \A b, c \in Bus :
       Present(b) /\ Present(c) /\ SpotOf(b) = SpotOf(c) => b = c
  /\ \A where \in Bays : available[where] = Cardinality(FreeSpots(where))

\* The tokens in pendingRequests, the one the manager works on and the ones
\* filled requests still have to post never outnumber the unanswered requests:
\* the manager never works on a token nobody's request stands behind.
Working == IF mpc \in {"leave", "refill", "onlyLeave", "arrivals", "onlyArrival"}
           THEN 1 ELSE 0
Unanswered == {f \in Forms : waitingApproval[f] = 0 /\ approval[f] = 0}
ToNotify == {b \in Bus : bpc[b] \in {"notify", "lnotify"}}
TokensCovered ==
  pendingRequests + Working + Cardinality(ToNotify) <= Cardinality(Unanswered)

\* Once a bus was found without a spot, the permit it was found with is gone
\* for good: the code after a departure that would give the freed spot to that
\* bus is never reached with a permit.
RefillNeverServes == consumed # {} => busCanPark = 0

-------------------------------------------------------------------------------
(* The station's promise. *)

LotStage(b) ==
  IF Maneuvers(b) THEN "parking"
  ELSE IF Present(b) THEN "parked"
  ELSE IF MovesOut(b) THEN "leaving"
  ELSE IF bpc[b] \in {"leaveEvent", "gone"} THEN "gone"
  ELSE "outside"

Lot == INSTANCE ParkingLot WITH
  stage  <- [b \in Bus |-> LotStage(b)],
  spotOf <- [b \in Bus |-> IF Present(b) THEN SpotOf(b) ELSE <<"UNSET", 0>>]

\* The semaphore protocol implements the parking lot: every step of a bus or
\* of the manager is an admission, the end of a maneuver, a release, or none.
LotSpec == Lot!Spec

-------------------------------------------------------------------------------
(* Being served. *)

\* The three ways in which the manager loses track of what it still has to do:
\* a bus found without a spot keeps the parking permit, which its request has used
\* up; after a departure a request's token and the permit are dropped together;
\* an event that came after the permit was tested is drained away.
SpotMissing == consumed # {}
TokenDropped == mpc = "refill" /\ busCanPark > 0
EventMissed ==
  \/ mpc = "drainLeave" /\ busCanLeave = 1 /\ cannotLeaveEvent > 0
  \/ mpc = "drainPark" /\ busCanPark = 1 /\ cannotParkEvent > 0

Lost == SpotMissing \/ TokenDropped \/ EventMissed

\* Every bus that comes is let in, parks and leaves, however the buses overlap,
\* unless one of the three happens: there is no fourth way to wait for ever, and
\* a manager that spins on a refused request lets the maneuver end.
ServedUnlessLost == []~Lost => \A b \in Bus : <>(bpc[b] = "gone")
===============================================================================
