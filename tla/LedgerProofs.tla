----------------------------- MODULE LedgerProofs -----------------------------
(***************************************************************************)
(* Proofs about module Ledger, for any finite set of buses and any number  *)
(* of spots: the inductive invariant IInv, and from it the type invariant, *)
(* that no update of struct Status and none of passengersPickedUp is lost, *)
(* and that printStatus() shows one moment.                                *)
(*                                                                         *)
(* None of the three is inductive alone.  An update is kept because the    *)
(* bus that writes is the only one that has read: that takes the           *)
(* accounting of the three mutexes, with the post that updateStatsLeave()  *)
(* gives to the wrong one, and the numbers a bus carries from the read to  *)
(* the write.  That the counts stay natural numbers takes their values.    *)
(***************************************************************************)
EXTENDS Ledger, FiniteSetTheorems, TLAPS

-------------------------------------------------------------------------------
(* The inductive invariant. *)

\* baysMutex is the manager's from busParks() or busLeaves() on to the
\* approval, and the comptroller's while it prints the status.
BaysMutexInv ==
  /\ mpc \in {"stats", "inStats", "status", "inStatus", "approve"} =>
       baysMutex = 0 /\ cpc # "inStatus"
  /\ cpc = "inStatus" => baysMutex = 0

\* A bus that leaves keeps statusMutex until the end of its second update.
HoldsStatus(b) ==
  bpc[b] \in {"inStatus", "inLeaveStatus", "leaveStats", "inLeaveStats"}
Printing == cpc \in {"statusBays", "inStatus", "statusDone"}

StatusMutexInv ==
  /\ \A b, c \in Bus : HoldsStatus(b) /\ HoldsStatus(c) => b = c
  /\ \A b \in Bus :
       HoldsStatus(b) => statusMutex = 0 /\ mpc # "inStatus" /\ ~Printing
  /\ mpc = "inStatus" => statusMutex = 0 /\ ~Printing
  /\ Printing => statusMutex = 0

\* Between its two updates a bus that leaves has posted statsMutex once too
\* often: two may then be inside.  It takes the extra post back by its own wait.
StatsMutexInv ==
  statsMutex + One(mpc = "inStats") + One(cpc = "inStatistics")
    + Cardinality(BusesAt({"inStats"}))
  = 1 + Cardinality(BusesAt({"leaveStats"}))

\* A permit is with the manager, with the approval at work, or with the one bus
\* that maneuvers.
ArrivalAtWork == mpc # "idle" /\ Arriving
LeaveAtWork == mpc # "idle" /\ ~Arriving

PermitInv ==
  /\ \A b, c \in Bus : bpc[b] = "parking" /\ bpc[c] = "parking" => b = c
  /\ \A b \in Bus : bpc[b] = "parking" => canPark = 0 /\ ~ArrivalAtWork
  /\ ArrivalAtWork => canPark = 0
  /\ \A b, c \in Bus : bpc[b] = "leaving" /\ bpc[c] = "leaving" => b = c
  /\ \A b \in Bus : bpc[b] = "leaving" => canLeave = 0 /\ ~LeaveAtWork
  /\ LeaveAtWork => canLeave = 0

\* The manager works for a bus that waits for it, and a spot it found is there.
ApprovalInv ==
  /\ mpc # "idle" => mbus \in Bus /\ bpc[mbus] \in {"outside", "parked"}
  /\ mpc = "bays" /\ Arriving => available > 0

\* The spot is occupied or let some steps before the bus is counted.
Uncounted ==
  IF mpc \notin {"stats", "inStats", "status"} THEN 0
  ELSE IF Arriving THEN -1 ELSE 1

SpotsInv == status.inStation + available = Capacity + Uncounted

\* What a bus has read is still true when it writes.
CopyInv ==
  \A b \in Bus :
    /\ bpc[b] \in {"inStatus", "inLeaveStatus"} =>
         copy[b].status.onBoard = status.onBoard
    /\ bpc[b] = "inLeaveStats" => copy[b].stats.pickedUp = stats.pickedUp

IInv ==
  /\ TypeOK
  /\ BaysMutexInv
  /\ StatusMutexInv
  /\ StatsMutexInv
  /\ PermitInv
  /\ ApprovalInv
  /\ SpotsInv
  /\ CopyInv
  /\ StatusExact
  /\ PickedUpExact

\* The two halves of StatusExact, with the places between the two updates of the
\* passengers on board named.
Aboard == {"stats", "inStats", "parked", "leaving", "leaveStatus",
           "inLeaveStatus"}
OnBoardExact == status.onBoard = Cardinality(BusesAt(Aboard))

InStation == {"parking", "status", "inStatus", "stats", "inStats", "parked"}
InStationExact ==
  status.inStation = Cardinality({b \in Bus : CountedIn(b)})

-------------------------------------------------------------------------------
(* Counting buses. *)

\* The buses at some places are finitely many.
LEMMA PlacesFinite ==
  ASSUME NEW pcs
  PROVE  IsFiniteSet(BusesAt(pcs)) /\ Cardinality(BusesAt(pcs)) \in Nat
<1>1. IsFiniteSet(BusesAt(pcs))
  BY LedgerBusAssumption, FS_Subset DEF BusesAt
<1> QED BY <1>1, FS_CardinalityType

\* When one bus goes on, a count of buses changes by that bus only.
LEMMA OneBusMoves ==
  ASSUME bpc \in [Bus -> BusPc], NEW b \in Bus, NEW to,
         bpc' = [bpc EXCEPT ![b] = to], NEW pcs
  PROVE  Cardinality(BusesAt(pcs))'
         = Cardinality(BusesAt(pcs)) + One(to \in pcs) - One(bpc[b] \in pcs)
<1> DEFINE S == BusesAt(pcs)
<1>0. IsFiniteSet(S) /\ Cardinality(S) \in Nat
  BY PlacesFinite
<1>1. CASE bpc[b] \in pcs /\ to \in pcs
  <2>1. BusesAt(pcs)' = S
    BY <1>1 DEF BusesAt
  <2> QED BY <1>0, <1>1, <2>1 DEF One
<1>2. CASE bpc[b] \notin pcs /\ to \notin pcs
  <2>1. BusesAt(pcs)' = S
    BY <1>2 DEF BusesAt
  <2> QED BY <1>0, <1>2, <2>1 DEF One
<1>3. CASE bpc[b] \notin pcs /\ to \in pcs
  <2>1. BusesAt(pcs)' = S \cup {b} /\ b \notin S
    BY <1>3 DEF BusesAt
  <2>2. Cardinality(S \cup {b}) = Cardinality(S) + 1
    BY <1>0, <2>1, FS_AddElement
  <2> QED BY <1>0, <1>3, <2>1, <2>2 DEF One
<1>4. CASE bpc[b] \in pcs /\ to \notin pcs
  <2>1. BusesAt(pcs)' = S \ {b} /\ b \in S
    BY <1>4 DEF BusesAt
  <2>2. Cardinality(S \ {b}) = Cardinality(S) - 1
    BY <1>0, <2>1, FS_RemoveElement
  <2> QED BY <1>0, <1>4, <2>1, <2>2 DEF One
<1> QED BY <1>1, <1>2, <1>3, <1>4

\* A bus at one of the places makes their count at least one.
LEMMA BusIsCounted ==
  ASSUME NEW pcs, NEW b \in Bus, bpc[b] \in pcs
  PROVE  Cardinality(BusesAt(pcs)) > 0
<1>1. b \in BusesAt(pcs)
  BY DEF BusesAt
<1> QED BY <1>1, PlacesFinite, FS_EmptySet

\* The counts of buses the invariant speaks of, when one bus goes on.
LEMMA CountsMove ==
  ASSUME bpc \in [Bus -> BusPc], NEW b \in Bus, NEW from, NEW to,
         BusGoes(b, from, to)
  PROVE  /\ Cardinality(BusesAt({"inStats"}))'
            = Cardinality(BusesAt({"inStats"}))
              + One(to = "inStats") - One(from = "inStats")
         /\ Cardinality(BusesAt({"leaveStats"}))'
            = Cardinality(BusesAt({"leaveStats"}))
              + One(to = "leaveStats") - One(from = "leaveStats")
         /\ Cardinality(BusesAt({"gone"}))'
            = Cardinality(BusesAt({"gone"}))
              + One(to = "gone") - One(from = "gone")
         /\ Cardinality(BusesAt(Aboard))'
            = Cardinality(BusesAt(Aboard))
              + One(to \in Aboard) - One(from \in Aboard)
<1>1. bpc' = [bpc EXCEPT ![b] = to] /\ bpc[b] = from
  BY DEF BusGoes
<1>2. \A pcs : Cardinality(BusesAt(pcs))'
              = Cardinality(BusesAt(pcs)) + One(to \in pcs) - One(from \in pcs)
  BY <1>1, OneBusMoves
<1>3. \A x, y : x \in {y} <=> x = y
  OBVIOUS
<1> QED BY <1>2, <1>3 DEF One

\* They stay when no bus moves.
LEMMA CountsStay ==
  ASSUME UNCHANGED bpc, NEW pcs
  PROVE  Cardinality(BusesAt(pcs))' = Cardinality(BusesAt(pcs))
BY DEF BusesAt

\* At most one bus that leaves is between its two updates, and none while
\* another is at the first.
LEMMA OneBetweenUpdates ==
  ASSUME IInv
  PROVE  /\ Cardinality(BusesAt({"leaveStats"})) \in {0, 1}
         /\ \A b \in Bus : bpc[b] = "inLeaveStatus" =>
              Cardinality(BusesAt({"leaveStats"})) = 0
<1> USE DEF IInv, StatusMutexInv, HoldsStatus, BusesAt
<1>1. CASE BusesAt({"leaveStats"}) = {}
  BY <1>1, FS_EmptySet
<1>2. CASE BusesAt({"leaveStats"}) # {}
  <2>1. PICK b \in Bus : bpc[b] = "leaveStats"
    BY <1>2
  <2>2. BusesAt({"leaveStats"}) = {b}
    BY <2>1
  <2>3. \A c \in Bus : bpc[c] # "inLeaveStatus"
    BY <2>1
  <2> HIDE DEF BusesAt
  <2>4. Cardinality(BusesAt({"leaveStats"})) = 1
    BY <2>2, FS_Singleton
  <2> QED BY <2>3, <2>4
<1> QED BY <1>1, <1>2

\* The buses counted in are finitely many, and one of them makes them some.
LEMMA CountedInFinite ==
  /\ IsFiniteSet({b \in Bus : CountedIn(b)})
  /\ Cardinality({b \in Bus : CountedIn(b)}) \in Nat
  /\ (\E b \in Bus : CountedIn(b)) =>
       Cardinality({b \in Bus : CountedIn(b)}) > 0
<1> DEFINE S == {b \in Bus : CountedIn(b)}
<1>1. S \in SUBSET Bus /\ ((\E b \in Bus : CountedIn(b)) => S # {})
  OBVIOUS
<1> HIDE DEF S
<1>2. IsFiniteSet(S)
  BY <1>1, LedgerBusAssumption, FS_Subset
<1>3. Cardinality(S) \in Nat /\ (Cardinality(S) = 0 <=> S = {})
  BY <1>2, FS_CardinalityType, FS_EmptySet
<1> QED BY <1>1, <1>2, <1>3 DEF S

\* A bus the manager works for to let it leave is still counted in, until the
\* manager counts it out.
LEMMA LeaverIsCounted ==
  ASSUME IInv, mpc \in {"bays", "stats", "inStats", "status"}, ~Arriving
  PROVE  status.inStation > 0
<1>1. mbus \in Bus /\ bpc[mbus] = "parked"
  BY DEF IInv, ApprovalInv, Arriving
<1>2. CountedIn(mbus)
  BY <1>1 DEF CountedIn
<1> QED BY <1>1, <1>2, CountedInFinite DEF IInv, StatusExact

-------------------------------------------------------------------------------
(* Every step keeps every part of the invariant. *)

\* Types hold after every step.  A post finds its semaphore low enough, and no
\* counter is taken below zero.
LEMMA TypeOKStep ==
  ASSUME IInv, [Next]_vars
  PROVE  TypeOK'
<1> USE LedgerBusAssumption, CapacityAssumption DEF IInv, TypeOK, StatusType,
      StatsType, ManagerPc, BusPc, ComptrollerPc, Nothing, NoStatus, NoStats
<1>1. ASSUME NEW b \in Bus, ApproveArrival(b) PROVE TypeOK'
  BY <1>1 DEF ApproveArrival, ManagerGoes, mutexes, permits, others,
     BaysMutexInv, StatusMutexInv, Arriving, SpotsInv, Uncounted, ApprovalInv
<1>2. ASSUME NEW b \in Bus, ApproveLeave(b) PROVE TypeOK'
  BY <1>2 DEF ApproveLeave, ManagerGoes, mutexes, permits, others,
     BaysMutexInv, StatusMutexInv, Arriving, SpotsInv, Uncounted, ApprovalInv
<1>3. ASSUME LockBays PROVE TypeOK'
  BY <1>3, LeaverIsCounted DEF LockBays, ManagerGoes, mutexes, permits, others,
     BaysMutexInv, StatusMutexInv, Arriving, SpotsInv, Uncounted, ApprovalInv,
     Arriving
<1>4. ASSUME CountInStats PROVE TypeOK'
  BY <1>4 DEF CountInStats, ManagerGoes, mutexes, permits, others,
     BaysMutexInv, StatusMutexInv, Arriving, SpotsInv, Uncounted, ApprovalInv
<1>5. ASSUME UnlockStats PROVE TypeOK'
  BY <1>5, OneBetweenUpdates, PlacesFinite DEF UnlockStats, ManagerGoes,
     mutexes, permits, others, BaysMutexInv, StatusMutexInv, Arriving,
     SpotsInv, Uncounted, ApprovalInv, StatsMutexInv, One
<1>6. ASSUME CountInStatus PROVE TypeOK'
  BY <1>6, LeaverIsCounted DEF CountInStatus, ManagerGoes, mutexes, permits,
     others, BaysMutexInv, StatusMutexInv, Arriving, SpotsInv, Uncounted,
     ApprovalInv
<1>7. ASSUME UnlockStatus PROVE TypeOK'
  BY <1>7 DEF UnlockStatus, ManagerGoes, mutexes, permits, others,
     BaysMutexInv, StatusMutexInv, Arriving, SpotsInv, Uncounted, ApprovalInv
<1>8. ASSUME Approve PROVE TypeOK'
  BY <1>8 DEF Approve, ManagerGoes, mutexes, permits, others, BaysMutexInv,
     StatusMutexInv, Arriving, SpotsInv, Uncounted, ApprovalInv
<1>9. ASSUME NEW b \in Bus, EndParking(b) PROVE TypeOK'
  BY <1>9 DEF EndParking, BusGoes, elsewhere, StatusMutexInv, HoldsStatus,
     PermitInv
<1>10. ASSUME NEW b \in Bus, LockStatusArrival(b) PROVE TypeOK'
  BY <1>10 DEF LockStatusArrival, LockStatus, Load, BusGoes, elsewhere,
     StatusMutexInv, HoldsStatus, PermitInv
<1>11. ASSUME NEW b \in Bus, StoreStatusArrival(b) PROVE TypeOK'
  BY <1>11 DEF StoreStatusArrival, Forget, BusGoes, elsewhere, StatusMutexInv,
     HoldsStatus, PermitInv
<1>12. ASSUME NEW b \in Bus, LockStatsArrival(b) PROVE TypeOK'
  BY <1>12 DEF LockStatsArrival, LockStats, Load, BusGoes, elsewhere,
     StatusMutexInv, HoldsStatus, PermitInv
<1>13. ASSUME NEW b \in Bus, StoreStatsArrival(b) PROVE TypeOK'
  <2>1. stats' \in StatsType
    <3>1. \A x, y, z \in Nat :
            [stats EXCEPT !.deparked = x, !.waiting = y, !.counted = z]
              \in StatsType
      OBVIOUS
    <3>2. copy[b].stats \in StatsType
      OBVIOUS
    <3>3. /\ copy[b].stats.deparked + 1 \in Nat
          /\ copy[b].stats.waiting + 1 \in Nat
          /\ copy[b].stats.counted + 1 \in Nat
      BY <3>2
    <3> QED BY <1>13, <3>1, <3>3 DEF StoreStatsArrival
  <2>2. copy' \in [Bus -> [status : StatusType, stats : StatsType]]
    BY <1>13 DEF StoreStatsArrival, Forget
  <2>3. statsMutex' \in 0 .. 2
    <3>1. Cardinality(BusesAt({"inStats"})) > 0
      BY <1>13, BusIsCounted DEF StoreStatsArrival, BusGoes
    <3> QED BY <1>13, <3>1, OneBetweenUpdates, PlacesFinite
            DEF StoreStatsArrival, StatsMutexInv, One
  <2>4. bpc' \in [Bus -> BusPc]
    BY <1>13 DEF StoreStatsArrival, BusGoes
  <2> QED BY <1>13, <2>1, <2>2, <2>3, <2>4 DEF StoreStatsArrival, elsewhere
<1>14. ASSUME NEW b \in Bus, EndLeaving(b) PROVE TypeOK'
  BY <1>14 DEF EndLeaving, BusGoes, elsewhere, StatusMutexInv, HoldsStatus,
     PermitInv
<1>15. ASSUME NEW b \in Bus, LockStatusLeave(b) PROVE TypeOK'
  BY <1>15 DEF LockStatusLeave, LockStatus, Load, BusGoes, elsewhere,
     StatusMutexInv, HoldsStatus, PermitInv
<1>16. ASSUME NEW b \in Bus, StoreStatusLeave(b) PROVE TypeOK'
  <2>1. status' \in StatusType
    <3>1. Cardinality(BusesAt(Aboard)) > 0
      BY <1>16, BusIsCounted DEF StoreStatusLeave, BusGoes, Aboard
    <3>2. copy[b].status.onBoard \in Nat /\ copy[b].status.onBoard > 0
      BY <1>16, <3>1 DEF StoreStatusLeave, BusGoes, CopyInv, StatusExact,
         Aboard
    <3> QED BY <1>16, <3>2 DEF StoreStatusLeave
  <2>2. copy' \in [Bus -> [status : StatusType, stats : StatsType]]
    BY <1>16 DEF StoreStatusLeave, Forget
  <2>3. statsMutex' \in 0 .. 2
    <3>1. Cardinality(BusesAt({"leaveStats"})) = 0
      BY <1>16, OneBetweenUpdates DEF StoreStatusLeave, BusGoes
    <3> QED BY <1>16, <3>1, PlacesFinite
            DEF StoreStatusLeave, StatsMutexInv, One
  <2>4. bpc' \in [Bus -> BusPc]
    BY <1>16 DEF StoreStatusLeave, BusGoes
  <2> QED BY <1>16, <2>1, <2>2, <2>3, <2>4 DEF StoreStatusLeave, elsewhere
<1>17. ASSUME NEW b \in Bus, LockStatsLeave(b) PROVE TypeOK'
  BY <1>17 DEF LockStatsLeave, LockStats, Load, BusGoes, elsewhere,
     StatusMutexInv, HoldsStatus, PermitInv
<1>18. ASSUME NEW b \in Bus, StoreStatsLeave(b) PROVE TypeOK'
  <2>1. stats' \in StatsType
    <3>1. \A x, y \in Nat :
            [stats EXCEPT !.pickedUp = x, !.waiting = y] \in StatsType
      OBVIOUS
    <3>2. copy[b].stats \in StatsType
      OBVIOUS
    <3>3. /\ copy[b].stats.pickedUp + 1 \in Nat
          /\ copy[b].stats.waiting + 1 \in Nat
      BY <3>2
    <3> QED BY <1>18, <3>1, <3>3 DEF StoreStatsLeave
  <2>2. copy' \in [Bus -> [status : StatusType, stats : StatsType]]
    BY <1>18 DEF StoreStatsLeave, Forget
  <2>3. statusMutex' \in {0, 1}
    BY <1>18 DEF StoreStatsLeave, BusGoes, StatusMutexInv, HoldsStatus
  <2>4. bpc' \in [Bus -> BusPc]
    BY <1>18 DEF StoreStatsLeave, BusGoes
  <2> QED BY <1>18, <2>1, <2>2, <2>3, <2>4 DEF StoreStatsLeave, elsewhere
<1>19. ASSUME StartStatistics PROVE TypeOK'
  BY <1>19 DEF StartStatistics, ComptrollerGoes, unread, permits, BaysMutexInv,
     StatusMutexInv, Printing
<1>20. ASSUME PrintStatistics PROVE TypeOK'
  BY <1>20, OneBetweenUpdates, PlacesFinite DEF PrintStatistics,
     ComptrollerGoes, unread, permits, BaysMutexInv, StatusMutexInv, Printing,
     StatsMutexInv, One
<1>21. ASSUME StartStatus PROVE TypeOK'
  BY <1>21 DEF StartStatus, ComptrollerGoes, unread, permits, BaysMutexInv,
     StatusMutexInv, Printing
<1>22. ASSUME StatusBays PROVE TypeOK'
  BY <1>22 DEF StatusBays, ComptrollerGoes, unread, permits, BaysMutexInv,
     StatusMutexInv, Printing
<1>23. ASSUME PrintStatus PROVE TypeOK'
  BY <1>23 DEF PrintStatus, ComptrollerGoes, unread, permits, BaysMutexInv,
     StatusMutexInv, Printing
<1>24. ASSUME EndStatus PROVE TypeOK'
  BY <1>24 DEF EndStatus, ComptrollerGoes, unread, permits, BaysMutexInv,
     StatusMutexInv, Printing
<1>25. CASE UNCHANGED vars
  BY <1>25 DEF vars, mutexes, permits
<1> QED BY <1>1, <1>2, <1>3, <1>4, <1>5, <1>6, <1>7, <1>8, <1>9, <1>10, <1>11,
      <1>12, <1>13, <1>14, <1>15, <1>16, <1>17, <1>18, <1>19, <1>20, <1>21,
      <1>22, <1>23, <1>24, <1>25 DEF Next, ManagerStep, BusStep,
      ComptrollerStep

\* baysMutex excludes manager and comptroller.
LEMMA BaysMutexInvStep ==
  ASSUME IInv, [Next]_vars
  PROVE  BaysMutexInv'
<1> USE LedgerBusAssumption, CapacityAssumption DEF IInv, BaysMutexInv, TypeOK
<1>1. ASSUME NEW b \in Bus, ApproveArrival(b) PROVE BaysMutexInv'
  BY <1>1 DEF ApproveArrival, ManagerGoes, mutexes, permits, others
<1>2. ASSUME NEW b \in Bus, ApproveLeave(b) PROVE BaysMutexInv'
  BY <1>2 DEF ApproveLeave, ManagerGoes, mutexes, permits, others
<1>3. ASSUME LockBays PROVE BaysMutexInv'
  BY <1>3 DEF LockBays, ManagerGoes, mutexes, permits, others
<1>4. ASSUME CountInStats PROVE BaysMutexInv'
  BY <1>4 DEF CountInStats, ManagerGoes, mutexes, permits, others
<1>5. ASSUME UnlockStats PROVE BaysMutexInv'
  BY <1>5 DEF UnlockStats, ManagerGoes, mutexes, permits, others
<1>6. ASSUME CountInStatus PROVE BaysMutexInv'
  BY <1>6 DEF CountInStatus, ManagerGoes, mutexes, permits, others
<1>7. ASSUME UnlockStatus PROVE BaysMutexInv'
  BY <1>7 DEF UnlockStatus, ManagerGoes, mutexes, permits, others
<1>8. ASSUME Approve PROVE BaysMutexInv'
  BY <1>8 DEF Approve, ManagerGoes, mutexes, permits, others
<1>9. ASSUME NEW b \in Bus, BusStep(b) PROVE BaysMutexInv'
  BY <1>9 DEF BusStep, EndParking, LockStatusArrival, StoreStatusArrival,
     LockStatsArrival, StoreStatsArrival, EndLeaving, LockStatusLeave,
     StoreStatusLeave, LockStatsLeave, StoreStatsLeave, LockStatus, LockStats,
     BusGoes, elsewhere
<1>10. ASSUME StartStatistics PROVE BaysMutexInv'
  BY <1>10 DEF StartStatistics, ComptrollerGoes, unread, permits
<1>11. ASSUME PrintStatistics PROVE BaysMutexInv'
  BY <1>11 DEF PrintStatistics, ComptrollerGoes, unread, permits
<1>12. ASSUME StartStatus PROVE BaysMutexInv'
  BY <1>12 DEF StartStatus, ComptrollerGoes, unread, permits
<1>13. ASSUME StatusBays PROVE BaysMutexInv'
  BY <1>13 DEF StatusBays, ComptrollerGoes, unread, permits
<1>14. ASSUME PrintStatus PROVE BaysMutexInv'
  BY <1>14 DEF PrintStatus, ComptrollerGoes, unread, permits
<1>15. ASSUME EndStatus PROVE BaysMutexInv'
  BY <1>15 DEF EndStatus, ComptrollerGoes, unread, permits
<1>16. CASE UNCHANGED vars
  BY <1>16 DEF vars, mutexes, permits
<1> QED BY <1>1, <1>2, <1>3, <1>4, <1>5, <1>6, <1>7, <1>8, <1>9, <1>10, <1>11,
      <1>12, <1>13, <1>14, <1>15, <1>16 DEF Next, ManagerStep, ComptrollerStep

\* statusMutex has one holder: the bus that posts it late is the bus that took
\* it.
LEMMA StatusMutexInvStep ==
  ASSUME IInv, [Next]_vars
  PROVE  StatusMutexInv'
<1> USE LedgerBusAssumption, CapacityAssumption DEF IInv, StatusMutexInv,
      HoldsStatus, Printing, TypeOK
<1>1. ASSUME NEW b \in Bus, ApproveArrival(b) PROVE StatusMutexInv'
  BY <1>1 DEF ApproveArrival, ManagerGoes, mutexes, permits, others
<1>2. ASSUME NEW b \in Bus, ApproveLeave(b) PROVE StatusMutexInv'
  BY <1>2 DEF ApproveLeave, ManagerGoes, mutexes, permits, others
<1>3. ASSUME LockBays PROVE StatusMutexInv'
  BY <1>3 DEF LockBays, ManagerGoes, mutexes, permits, others
<1>4. ASSUME CountInStats PROVE StatusMutexInv'
  BY <1>4 DEF CountInStats, ManagerGoes, mutexes, permits, others
<1>5. ASSUME UnlockStats PROVE StatusMutexInv'
  BY <1>5 DEF UnlockStats, ManagerGoes, mutexes, permits, others
<1>6. ASSUME CountInStatus PROVE StatusMutexInv'
  BY <1>6 DEF CountInStatus, ManagerGoes, mutexes, permits, others
<1>7. ASSUME UnlockStatus PROVE StatusMutexInv'
  BY <1>7 DEF UnlockStatus, ManagerGoes, mutexes, permits, others
<1>8. ASSUME Approve PROVE StatusMutexInv'
  BY <1>8 DEF Approve, ManagerGoes, mutexes, permits, others
<1>9. ASSUME NEW b \in Bus, EndParking(b) PROVE StatusMutexInv'
  BY <1>9 DEF EndParking, BusGoes, elsewhere
<1>10. ASSUME NEW b \in Bus, LockStatusArrival(b) PROVE StatusMutexInv'
  BY <1>10 DEF LockStatusArrival, LockStatus, Load, BusGoes, elsewhere
<1>11. ASSUME NEW b \in Bus, StoreStatusArrival(b) PROVE StatusMutexInv'
  BY <1>11 DEF StoreStatusArrival, Forget, BusGoes, elsewhere
<1>12. ASSUME NEW b \in Bus, LockStatsArrival(b) PROVE StatusMutexInv'
  BY <1>12 DEF LockStatsArrival, LockStats, Load, BusGoes, elsewhere
<1>13. ASSUME NEW b \in Bus, StoreStatsArrival(b) PROVE StatusMutexInv'
  BY <1>13 DEF StoreStatsArrival, Forget, BusGoes, elsewhere
<1>14. ASSUME NEW b \in Bus, EndLeaving(b) PROVE StatusMutexInv'
  BY <1>14 DEF EndLeaving, BusGoes, elsewhere
<1>15. ASSUME NEW b \in Bus, LockStatusLeave(b) PROVE StatusMutexInv'
  BY <1>15 DEF LockStatusLeave, LockStatus, Load, BusGoes, elsewhere
<1>16. ASSUME NEW b \in Bus, StoreStatusLeave(b) PROVE StatusMutexInv'
  BY <1>16 DEF StoreStatusLeave, Forget, BusGoes, elsewhere
<1>17. ASSUME NEW b \in Bus, LockStatsLeave(b) PROVE StatusMutexInv'
  BY <1>17 DEF LockStatsLeave, LockStats, Load, BusGoes, elsewhere
<1>18. ASSUME NEW b \in Bus, StoreStatsLeave(b) PROVE StatusMutexInv'
  BY <1>18 DEF StoreStatsLeave, Forget, BusGoes, elsewhere
<1>19. ASSUME StartStatistics PROVE StatusMutexInv'
  BY <1>19 DEF StartStatistics, ComptrollerGoes, unread, permits
<1>20. ASSUME PrintStatistics PROVE StatusMutexInv'
  BY <1>20 DEF PrintStatistics, ComptrollerGoes, unread, permits
<1>21. ASSUME StartStatus PROVE StatusMutexInv'
  BY <1>21 DEF StartStatus, ComptrollerGoes, unread, permits
<1>22. ASSUME StatusBays PROVE StatusMutexInv'
  BY <1>22 DEF StatusBays, ComptrollerGoes, unread, permits
<1>23. ASSUME PrintStatus PROVE StatusMutexInv'
  BY <1>23 DEF PrintStatus, ComptrollerGoes, unread, permits
<1>24. ASSUME EndStatus PROVE StatusMutexInv'
  BY <1>24 DEF EndStatus, ComptrollerGoes, unread, permits
<1>25. CASE UNCHANGED vars
  BY <1>25 DEF vars, mutexes, permits
<1> QED BY <1>1, <1>2, <1>3, <1>4, <1>5, <1>6, <1>7, <1>8, <1>9, <1>10, <1>11,
      <1>12, <1>13, <1>14, <1>15, <1>16, <1>17, <1>18, <1>19, <1>20, <1>21,
      <1>22, <1>23, <1>24, <1>25 DEF Next, ManagerStep, BusStep,
      ComptrollerStep

\* Every wait and post on statsMutex keeps its account.
LEMMA StatsMutexInvStep ==
  ASSUME IInv, [Next]_vars
  PROVE  StatsMutexInv'
<1> USE LedgerBusAssumption, CapacityAssumption DEF IInv, TypeOK,
      StatsMutexInv, One
<1>1. ASSUME NEW b \in Bus, ApproveArrival(b) PROVE StatsMutexInv'
  BY <1>1, CountsStay, PlacesFinite DEF ApproveArrival, ManagerGoes, mutexes,
     permits, others
<1>2. ASSUME NEW b \in Bus, ApproveLeave(b) PROVE StatsMutexInv'
  BY <1>2, CountsStay, PlacesFinite DEF ApproveLeave, ManagerGoes, mutexes,
     permits, others
<1>3. ASSUME LockBays PROVE StatsMutexInv'
  BY <1>3, CountsStay, PlacesFinite DEF LockBays, ManagerGoes, mutexes,
     permits, others
<1>4. ASSUME CountInStats PROVE StatsMutexInv'
  BY <1>4, CountsStay, PlacesFinite DEF CountInStats, ManagerGoes, mutexes,
     permits, others
<1>5. ASSUME UnlockStats PROVE StatsMutexInv'
  BY <1>5, CountsStay, PlacesFinite DEF UnlockStats, ManagerGoes, mutexes,
     permits, others
<1>6. ASSUME CountInStatus PROVE StatsMutexInv'
  BY <1>6, CountsStay, PlacesFinite DEF CountInStatus, ManagerGoes, mutexes,
     permits, others
<1>7. ASSUME UnlockStatus PROVE StatsMutexInv'
  BY <1>7, CountsStay, PlacesFinite DEF UnlockStatus, ManagerGoes, mutexes,
     permits, others
<1>8. ASSUME Approve PROVE StatsMutexInv'
  <2>1. PICK from \in {"outside", "parked"}, to \in {"parking", "leaving"} :
          /\ mbus \in Bus /\ BusGoes(mbus, from, to)
          /\ from = "outside" <=> to = "parking"
    BY <1>8 DEF Approve, BusGoes, ManagerGoes, ApprovalInv, Arriving
  <2> QED BY <1>8, <2>1, CountsMove, PlacesFinite, SMT
          DEF Approve, ManagerGoes, permits
<1>9. ASSUME NEW b \in Bus, EndParking(b) PROVE StatsMutexInv'
  BY <1>9, CountsMove, PlacesFinite DEF EndParking, elsewhere
<1>10. ASSUME NEW b \in Bus, LockStatusArrival(b) PROVE StatsMutexInv'
  BY <1>10, CountsMove, PlacesFinite DEF LockStatusArrival, LockStatus,
     elsewhere
<1>11. ASSUME NEW b \in Bus, StoreStatusArrival(b) PROVE StatsMutexInv'
  BY <1>11, CountsMove, PlacesFinite DEF StoreStatusArrival, elsewhere
<1>12. ASSUME NEW b \in Bus, LockStatsArrival(b) PROVE StatsMutexInv'
  BY <1>12, CountsMove, PlacesFinite DEF LockStatsArrival, LockStats, elsewhere
<1>13. ASSUME NEW b \in Bus, StoreStatsArrival(b) PROVE StatsMutexInv'
  BY <1>13, CountsMove, PlacesFinite DEF StoreStatsArrival, elsewhere
<1>14. ASSUME NEW b \in Bus, EndLeaving(b) PROVE StatsMutexInv'
  BY <1>14, CountsMove, PlacesFinite DEF EndLeaving, elsewhere
<1>15. ASSUME NEW b \in Bus, LockStatusLeave(b) PROVE StatsMutexInv'
  BY <1>15, CountsMove, PlacesFinite DEF LockStatusLeave, LockStatus, elsewhere
<1>16. ASSUME NEW b \in Bus, StoreStatusLeave(b) PROVE StatsMutexInv'
  BY <1>16, CountsMove, PlacesFinite DEF StoreStatusLeave, elsewhere
<1>17. ASSUME NEW b \in Bus, LockStatsLeave(b) PROVE StatsMutexInv'
  BY <1>17, CountsMove, PlacesFinite DEF LockStatsLeave, LockStats, elsewhere
<1>18. ASSUME NEW b \in Bus, StoreStatsLeave(b) PROVE StatsMutexInv'
  BY <1>18, CountsMove, PlacesFinite DEF StoreStatsLeave, elsewhere
<1>19. ASSUME StartStatistics PROVE StatsMutexInv'
  BY <1>19, CountsStay, PlacesFinite DEF StartStatistics, ComptrollerGoes,
     unread, permits
<1>20. ASSUME PrintStatistics PROVE StatsMutexInv'
  BY <1>20, CountsStay, PlacesFinite DEF PrintStatistics, ComptrollerGoes,
     unread, permits
<1>21. ASSUME StartStatus PROVE StatsMutexInv'
  BY <1>21, CountsStay, PlacesFinite DEF StartStatus, ComptrollerGoes, unread,
     permits
<1>22. ASSUME StatusBays PROVE StatsMutexInv'
  BY <1>22, CountsStay, PlacesFinite DEF StatusBays, ComptrollerGoes, unread,
     permits
<1>23. ASSUME PrintStatus PROVE StatsMutexInv'
  BY <1>23, CountsStay, PlacesFinite DEF PrintStatus, ComptrollerGoes, unread,
     permits
<1>24. ASSUME EndStatus PROVE StatsMutexInv'
  BY <1>24, CountsStay, PlacesFinite DEF EndStatus, ComptrollerGoes, unread,
     permits
<1>25. CASE UNCHANGED vars
  BY <1>25, CountsStay DEF vars, mutexes, permits
<1> QED BY <1>1, <1>2, <1>3, <1>4, <1>5, <1>6, <1>7, <1>8, <1>9, <1>10, <1>11,
      <1>12, <1>13, <1>14, <1>15, <1>16, <1>17, <1>18, <1>19, <1>20, <1>21,
      <1>22, <1>23, <1>24, <1>25 DEF Next, ManagerStep, BusStep,
      ComptrollerStep

\* A permit is given back by the one bus that has it.
LEMMA PermitInvStep ==
  ASSUME IInv, [Next]_vars
  PROVE  PermitInv'
<1> USE LedgerBusAssumption, CapacityAssumption DEF IInv, PermitInv,
      ApprovalInv, ArrivalAtWork, LeaveAtWork, TypeOK, Arriving
<1>1. ASSUME NEW b \in Bus, ApproveArrival(b) PROVE PermitInv'
  BY <1>1 DEF ApproveArrival, ManagerGoes, mutexes, permits, others
<1>2. ASSUME NEW b \in Bus, ApproveLeave(b) PROVE PermitInv'
  BY <1>2 DEF ApproveLeave, ManagerGoes, mutexes, permits, others
<1>3. ASSUME LockBays PROVE PermitInv'
  BY <1>3 DEF LockBays, ManagerGoes, mutexes, permits, others
<1>4. ASSUME CountInStats PROVE PermitInv'
  BY <1>4 DEF CountInStats, ManagerGoes, mutexes, permits, others
<1>5. ASSUME UnlockStats PROVE PermitInv'
  BY <1>5 DEF UnlockStats, ManagerGoes, mutexes, permits, others
<1>6. ASSUME CountInStatus PROVE PermitInv'
  BY <1>6 DEF CountInStatus, ManagerGoes, mutexes, permits, others
<1>7. ASSUME UnlockStatus PROVE PermitInv'
  BY <1>7 DEF UnlockStatus, ManagerGoes, mutexes, permits, others
<1>8. ASSUME Approve PROVE PermitInv'
  BY <1>8 DEF Approve, ManagerGoes, mutexes, permits, others
<1>9. ASSUME NEW b \in Bus, EndParking(b) PROVE PermitInv'
  BY <1>9 DEF EndParking, BusGoes, elsewhere
<1>10. ASSUME NEW b \in Bus, LockStatusArrival(b) PROVE PermitInv'
  BY <1>10 DEF LockStatusArrival, LockStatus, Load, BusGoes, elsewhere
<1>11. ASSUME NEW b \in Bus, StoreStatusArrival(b) PROVE PermitInv'
  BY <1>11 DEF StoreStatusArrival, Forget, BusGoes, elsewhere
<1>12. ASSUME NEW b \in Bus, LockStatsArrival(b) PROVE PermitInv'
  BY <1>12 DEF LockStatsArrival, LockStats, Load, BusGoes, elsewhere
<1>13. ASSUME NEW b \in Bus, StoreStatsArrival(b) PROVE PermitInv'
  BY <1>13 DEF StoreStatsArrival, Forget, BusGoes, elsewhere
<1>14. ASSUME NEW b \in Bus, EndLeaving(b) PROVE PermitInv'
  BY <1>14 DEF EndLeaving, BusGoes, elsewhere
<1>15. ASSUME NEW b \in Bus, LockStatusLeave(b) PROVE PermitInv'
  BY <1>15 DEF LockStatusLeave, LockStatus, Load, BusGoes, elsewhere
<1>16. ASSUME NEW b \in Bus, StoreStatusLeave(b) PROVE PermitInv'
  BY <1>16 DEF StoreStatusLeave, Forget, BusGoes, elsewhere
<1>17. ASSUME NEW b \in Bus, LockStatsLeave(b) PROVE PermitInv'
  BY <1>17 DEF LockStatsLeave, LockStats, Load, BusGoes, elsewhere
<1>18. ASSUME NEW b \in Bus, StoreStatsLeave(b) PROVE PermitInv'
  BY <1>18 DEF StoreStatsLeave, Forget, BusGoes, elsewhere
<1>19. ASSUME ComptrollerStep PROVE PermitInv'
  BY <1>19 DEF ComptrollerStep, StartStatistics, PrintStatistics, StartStatus,
     StatusBays, PrintStatus, EndStatus, ComptrollerGoes, unread, permits
<1>20. CASE UNCHANGED vars
  BY <1>20 DEF vars, mutexes, permits
<1> QED BY <1>1, <1>2, <1>3, <1>4, <1>5, <1>6, <1>7, <1>8, <1>9, <1>10, <1>11,
      <1>12, <1>13, <1>14, <1>15, <1>16, <1>17, <1>18, <1>19, <1>20 DEF Next,
      ManagerStep, BusStep

\* The bus the manager works for stays where it waits.
LEMMA ApprovalInvStep ==
  ASSUME IInv, [Next]_vars
  PROVE  ApprovalInv'
<1> USE LedgerBusAssumption, CapacityAssumption DEF IInv, ApprovalInv,
      PermitInv, TypeOK, ArrivalAtWork, LeaveAtWork, Arriving
<1>1. ASSUME NEW b \in Bus, ApproveArrival(b) PROVE ApprovalInv'
  BY <1>1 DEF ApproveArrival, ManagerGoes, mutexes, permits, others
<1>2. ASSUME NEW b \in Bus, ApproveLeave(b) PROVE ApprovalInv'
  BY <1>2 DEF ApproveLeave, ManagerGoes, mutexes, permits, others
<1>3. ASSUME LockBays PROVE ApprovalInv'
  BY <1>3 DEF LockBays, ManagerGoes, mutexes, permits, others
<1>4. ASSUME CountInStats PROVE ApprovalInv'
  BY <1>4 DEF CountInStats, ManagerGoes, mutexes, permits, others
<1>5. ASSUME UnlockStats PROVE ApprovalInv'
  BY <1>5 DEF UnlockStats, ManagerGoes, mutexes, permits, others
<1>6. ASSUME CountInStatus PROVE ApprovalInv'
  BY <1>6 DEF CountInStatus, ManagerGoes, mutexes, permits, others
<1>7. ASSUME UnlockStatus PROVE ApprovalInv'
  BY <1>7 DEF UnlockStatus, ManagerGoes, mutexes, permits, others
<1>8. ASSUME Approve PROVE ApprovalInv'
  BY <1>8 DEF Approve, ManagerGoes, mutexes, permits, others
<1>9. ASSUME NEW b \in Bus, EndParking(b) PROVE ApprovalInv'
  BY <1>9 DEF EndParking, BusGoes, elsewhere
<1>10. ASSUME NEW b \in Bus, LockStatusArrival(b) PROVE ApprovalInv'
  BY <1>10 DEF LockStatusArrival, LockStatus, Load, BusGoes, elsewhere
<1>11. ASSUME NEW b \in Bus, StoreStatusArrival(b) PROVE ApprovalInv'
  BY <1>11 DEF StoreStatusArrival, Forget, BusGoes, elsewhere
<1>12. ASSUME NEW b \in Bus, LockStatsArrival(b) PROVE ApprovalInv'
  BY <1>12 DEF LockStatsArrival, LockStats, Load, BusGoes, elsewhere
<1>13. ASSUME NEW b \in Bus, StoreStatsArrival(b) PROVE ApprovalInv'
  BY <1>13 DEF StoreStatsArrival, Forget, BusGoes, elsewhere
<1>14. ASSUME NEW b \in Bus, EndLeaving(b) PROVE ApprovalInv'
  BY <1>14 DEF EndLeaving, BusGoes, elsewhere
<1>15. ASSUME NEW b \in Bus, LockStatusLeave(b) PROVE ApprovalInv'
  BY <1>15 DEF LockStatusLeave, LockStatus, Load, BusGoes, elsewhere
<1>16. ASSUME NEW b \in Bus, StoreStatusLeave(b) PROVE ApprovalInv'
  BY <1>16 DEF StoreStatusLeave, Forget, BusGoes, elsewhere
<1>17. ASSUME NEW b \in Bus, LockStatsLeave(b) PROVE ApprovalInv'
  BY <1>17 DEF LockStatsLeave, LockStats, Load, BusGoes, elsewhere
<1>18. ASSUME NEW b \in Bus, StoreStatsLeave(b) PROVE ApprovalInv'
  BY <1>18 DEF StoreStatsLeave, Forget, BusGoes, elsewhere
<1>19. ASSUME ComptrollerStep PROVE ApprovalInv'
  BY <1>19 DEF ComptrollerStep, StartStatistics, PrintStatistics, StartStatus,
     StatusBays, PrintStatus, EndStatus, ComptrollerGoes, unread, permits
<1>20. CASE UNCHANGED vars
  BY <1>20 DEF vars, mutexes, permits
<1> QED BY <1>1, <1>2, <1>3, <1>4, <1>5, <1>6, <1>7, <1>8, <1>9, <1>10, <1>11,
      <1>12, <1>13, <1>14, <1>15, <1>16, <1>17, <1>18, <1>19, <1>20 DEF Next,
      ManagerStep, BusStep

\* Spots and buses in the station move together.
LEMMA SpotsInvStep ==
  ASSUME IInv, [Next]_vars
  PROVE  SpotsInv'
<1> USE LedgerBusAssumption, CapacityAssumption DEF IInv, SpotsInv, Uncounted,
      ApprovalInv, TypeOK, Arriving, StatusType, PermitInv, ArrivalAtWork,
      LeaveAtWork
<1>1. ASSUME NEW b \in Bus, ApproveArrival(b) PROVE SpotsInv'
  BY <1>1 DEF ApproveArrival, ManagerGoes, mutexes, permits, others
<1>2. ASSUME NEW b \in Bus, ApproveLeave(b) PROVE SpotsInv'
  BY <1>2 DEF ApproveLeave, ManagerGoes, mutexes, permits, others
<1>3. ASSUME LockBays PROVE SpotsInv'
  BY <1>3 DEF LockBays, ManagerGoes, mutexes, permits, others
<1>4. ASSUME CountInStats PROVE SpotsInv'
  BY <1>4 DEF CountInStats, ManagerGoes, mutexes, permits, others
<1>5. ASSUME UnlockStats PROVE SpotsInv'
  BY <1>5 DEF UnlockStats, ManagerGoes, mutexes, permits, others
<1>6. ASSUME CountInStatus PROVE SpotsInv'
  BY <1>6 DEF CountInStatus, ManagerGoes, mutexes, permits, others
<1>7. ASSUME UnlockStatus PROVE SpotsInv'
  BY <1>7 DEF UnlockStatus, ManagerGoes, mutexes, permits, others
<1>8. ASSUME Approve PROVE SpotsInv'
  BY <1>8 DEF Approve, ManagerGoes, mutexes, permits, others
<1>9. ASSUME NEW b \in Bus, EndParking(b) PROVE SpotsInv'
  BY <1>9 DEF EndParking, BusGoes, elsewhere
<1>10. ASSUME NEW b \in Bus, LockStatusArrival(b) PROVE SpotsInv'
  BY <1>10 DEF LockStatusArrival, LockStatus, Load, BusGoes, elsewhere
<1>11. ASSUME NEW b \in Bus, StoreStatusArrival(b) PROVE SpotsInv'
  BY <1>11 DEF StoreStatusArrival, Forget, BusGoes, elsewhere
<1>12. ASSUME NEW b \in Bus, LockStatsArrival(b) PROVE SpotsInv'
  BY <1>12 DEF LockStatsArrival, LockStats, Load, BusGoes, elsewhere
<1>13. ASSUME NEW b \in Bus, StoreStatsArrival(b) PROVE SpotsInv'
  BY <1>13 DEF StoreStatsArrival, Forget, BusGoes, elsewhere
<1>14. ASSUME NEW b \in Bus, EndLeaving(b) PROVE SpotsInv'
  BY <1>14 DEF EndLeaving, BusGoes, elsewhere
<1>15. ASSUME NEW b \in Bus, LockStatusLeave(b) PROVE SpotsInv'
  BY <1>15 DEF LockStatusLeave, LockStatus, Load, BusGoes, elsewhere
<1>16. ASSUME NEW b \in Bus, StoreStatusLeave(b) PROVE SpotsInv'
  BY <1>16 DEF StoreStatusLeave, Forget, BusGoes, elsewhere
<1>17. ASSUME NEW b \in Bus, LockStatsLeave(b) PROVE SpotsInv'
  BY <1>17 DEF LockStatsLeave, LockStats, Load, BusGoes, elsewhere
<1>18. ASSUME NEW b \in Bus, StoreStatsLeave(b) PROVE SpotsInv'
  BY <1>18 DEF StoreStatsLeave, Forget, BusGoes, elsewhere
<1>19. ASSUME ComptrollerStep PROVE SpotsInv'
  BY <1>19 DEF ComptrollerStep, StartStatistics, PrintStatistics, StartStatus,
     StatusBays, PrintStatus, EndStatus, ComptrollerGoes, unread, permits
<1>20. CASE UNCHANGED vars
  BY <1>20 DEF vars, mutexes, permits
<1> QED BY <1>1, <1>2, <1>3, <1>4, <1>5, <1>6, <1>7, <1>8, <1>9, <1>10, <1>11,
      <1>12, <1>13, <1>14, <1>15, <1>16, <1>17, <1>18, <1>19, <1>20 DEF Next,
      ManagerStep, BusStep

\* Nobody writes a number that another bus has read and not yet written.
LEMMA CopyInvStep ==
  ASSUME IInv, [Next]_vars
  PROVE  CopyInv'
<1> USE LedgerBusAssumption, CapacityAssumption DEF IInv, CopyInv, TypeOK,
      StatusType, StatsType, StatusMutexInv, HoldsStatus
<1>1. ASSUME NEW b \in Bus, ApproveArrival(b) PROVE CopyInv'
  BY <1>1 DEF ApproveArrival, ManagerGoes, mutexes, permits, others
<1>2. ASSUME NEW b \in Bus, ApproveLeave(b) PROVE CopyInv'
  BY <1>2 DEF ApproveLeave, ManagerGoes, mutexes, permits, others
<1>3. ASSUME LockBays PROVE CopyInv'
  BY <1>3 DEF LockBays, ManagerGoes, mutexes, permits, others
<1>4. ASSUME CountInStats PROVE CopyInv'
  BY <1>4 DEF CountInStats, ManagerGoes, mutexes, permits, others
<1>5. ASSUME UnlockStats PROVE CopyInv'
  BY <1>5 DEF UnlockStats, ManagerGoes, mutexes, permits, others
<1>6. ASSUME CountInStatus PROVE CopyInv'
  BY <1>6 DEF CountInStatus, ManagerGoes, mutexes, permits, others
<1>7. ASSUME UnlockStatus PROVE CopyInv'
  BY <1>7 DEF UnlockStatus, ManagerGoes, mutexes, permits, others
<1>8. ASSUME Approve PROVE CopyInv'
  BY <1>8 DEF Approve, ManagerGoes, mutexes, permits, others
<1>9. ASSUME NEW b \in Bus, EndParking(b) PROVE CopyInv'
  BY <1>9 DEF EndParking, BusGoes, elsewhere
<1>10. ASSUME NEW b \in Bus, LockStatusArrival(b) PROVE CopyInv'
  BY <1>10 DEF LockStatusArrival, LockStatus, Load, BusGoes, elsewhere
<1>11. ASSUME NEW b \in Bus, StoreStatusArrival(b) PROVE CopyInv'
  BY <1>11 DEF StoreStatusArrival, Forget, BusGoes, elsewhere
<1>12. ASSUME NEW b \in Bus, LockStatsArrival(b) PROVE CopyInv'
  BY <1>12 DEF LockStatsArrival, LockStats, Load, BusGoes, elsewhere
<1>13. ASSUME NEW b \in Bus, StoreStatsArrival(b) PROVE CopyInv'
  BY <1>13 DEF StoreStatsArrival, Forget, BusGoes, elsewhere
<1>14. ASSUME NEW b \in Bus, EndLeaving(b) PROVE CopyInv'
  BY <1>14 DEF EndLeaving, BusGoes, elsewhere
<1>15. ASSUME NEW b \in Bus, LockStatusLeave(b) PROVE CopyInv'
  BY <1>15 DEF LockStatusLeave, LockStatus, Load, BusGoes, elsewhere
<1>16. ASSUME NEW b \in Bus, StoreStatusLeave(b) PROVE CopyInv'
  BY <1>16 DEF StoreStatusLeave, Forget, BusGoes, elsewhere
<1>17. ASSUME NEW b \in Bus, LockStatsLeave(b) PROVE CopyInv'
  BY <1>17 DEF LockStatsLeave, LockStats, Load, BusGoes, elsewhere
<1>18. ASSUME NEW b \in Bus, StoreStatsLeave(b) PROVE CopyInv'
  BY <1>18 DEF StoreStatsLeave, Forget, BusGoes, elsewhere
<1>19. ASSUME ComptrollerStep PROVE CopyInv'
  BY <1>19 DEF ComptrollerStep, StartStatistics, PrintStatistics, StartStatus,
     StatusBays, PrintStatus, EndStatus, ComptrollerGoes, unread, permits
<1>20. CASE UNCHANGED vars
  BY <1>20 DEF vars, mutexes, permits
<1> QED BY <1>1, <1>2, <1>3, <1>4, <1>5, <1>6, <1>7, <1>8, <1>9, <1>10, <1>11,
      <1>12, <1>13, <1>14, <1>15, <1>16, <1>17, <1>18, <1>19, <1>20 DEF Next,
      ManagerStep, BusStep

\* The passengers on board follow every update of them.
LEMMA OnBoardExactStep ==
  ASSUME IInv, [Next]_vars
  PROVE  OnBoardExact'
<1> USE LedgerBusAssumption, CapacityAssumption DEF IInv, TypeOK, OnBoardExact,
      StatusExact, One, CopyInv, StatusType, Aboard
<1>1. ASSUME NEW b \in Bus, ApproveArrival(b) PROVE OnBoardExact'
  BY <1>1, CountsStay, PlacesFinite DEF ApproveArrival, ManagerGoes, mutexes,
     permits, others
<1>2. ASSUME NEW b \in Bus, ApproveLeave(b) PROVE OnBoardExact'
  BY <1>2, CountsStay, PlacesFinite DEF ApproveLeave, ManagerGoes, mutexes,
     permits, others
<1>3. ASSUME LockBays PROVE OnBoardExact'
  BY <1>3, CountsStay, PlacesFinite DEF LockBays, ManagerGoes, mutexes,
     permits, others
<1>4. ASSUME CountInStats PROVE OnBoardExact'
  BY <1>4, CountsStay, PlacesFinite DEF CountInStats, ManagerGoes, mutexes,
     permits, others
<1>5. ASSUME UnlockStats PROVE OnBoardExact'
  BY <1>5, CountsStay, PlacesFinite DEF UnlockStats, ManagerGoes, mutexes,
     permits, others
<1>6. ASSUME CountInStatus PROVE OnBoardExact'
  BY <1>6, CountsStay, PlacesFinite DEF CountInStatus, ManagerGoes, mutexes,
     permits, others
<1>7. ASSUME UnlockStatus PROVE OnBoardExact'
  BY <1>7, CountsStay, PlacesFinite DEF UnlockStatus, ManagerGoes, mutexes,
     permits, others
<1>8. ASSUME Approve PROVE OnBoardExact'
  <2>1. PICK from \in {"outside", "parked"}, to \in {"parking", "leaving"} :
          /\ mbus \in Bus /\ BusGoes(mbus, from, to)
          /\ from = "outside" <=> to = "parking"
    BY <1>8 DEF Approve, BusGoes, ManagerGoes, ApprovalInv, Arriving
  <2> QED BY <1>8, <2>1, CountsMove, PlacesFinite, SMT
          DEF Approve, ManagerGoes, permits
<1>9. ASSUME NEW b \in Bus, EndParking(b) PROVE OnBoardExact'
  BY <1>9, CountsMove, PlacesFinite DEF EndParking, elsewhere
<1>10. ASSUME NEW b \in Bus, LockStatusArrival(b) PROVE OnBoardExact'
  BY <1>10, CountsMove, PlacesFinite DEF LockStatusArrival, LockStatus,
     elsewhere
<1>11. ASSUME NEW b \in Bus, StoreStatusArrival(b) PROVE OnBoardExact'
  <2>1. status'.onBoard = status.onBoard + 1
    BY <1>11 DEF StoreStatusArrival, BusGoes
  <2> QED BY <1>11, <2>1, CountsMove, PlacesFinite DEF StoreStatusArrival
<1>12. ASSUME NEW b \in Bus, LockStatsArrival(b) PROVE OnBoardExact'
  BY <1>12, CountsMove, PlacesFinite DEF LockStatsArrival, LockStats, elsewhere
<1>13. ASSUME NEW b \in Bus, StoreStatsArrival(b) PROVE OnBoardExact'
  BY <1>13, CountsMove, PlacesFinite DEF StoreStatsArrival, elsewhere
<1>14. ASSUME NEW b \in Bus, EndLeaving(b) PROVE OnBoardExact'
  BY <1>14, CountsMove, PlacesFinite DEF EndLeaving, elsewhere
<1>15. ASSUME NEW b \in Bus, LockStatusLeave(b) PROVE OnBoardExact'
  BY <1>15, CountsMove, PlacesFinite DEF LockStatusLeave, LockStatus, elsewhere
<1>16. ASSUME NEW b \in Bus, StoreStatusLeave(b) PROVE OnBoardExact'
  <2>1. status'.onBoard = status.onBoard - 1
    BY <1>16 DEF StoreStatusLeave, BusGoes
  <2>2. Cardinality(BusesAt(Aboard))' = Cardinality(BusesAt(Aboard)) - 1
    <3> HIDE DEF OnBoardExact, CopyInv, StatusExact
    <3> QED BY <1>16, CountsMove, PlacesFinite DEF StoreStatusLeave
  <2> QED BY <2>1, <2>2
<1>17. ASSUME NEW b \in Bus, LockStatsLeave(b) PROVE OnBoardExact'
  BY <1>17, CountsMove, PlacesFinite DEF LockStatsLeave, LockStats, elsewhere
<1>18. ASSUME NEW b \in Bus, StoreStatsLeave(b) PROVE OnBoardExact'
  BY <1>18, CountsMove, PlacesFinite DEF StoreStatsLeave, elsewhere
<1>19. ASSUME ComptrollerStep PROVE OnBoardExact'
  BY <1>19, CountsStay DEF ComptrollerStep, StartStatistics, PrintStatistics,
     StartStatus, StatusBays, PrintStatus, EndStatus, ComptrollerGoes, unread,
     permits
<1>20. CASE UNCHANGED vars
  BY <1>20, CountsStay DEF vars, mutexes, permits
<1> QED BY <1>1, <1>2, <1>3, <1>4, <1>5, <1>6, <1>7, <1>8, <1>9, <1>10, <1>11,
      <1>12, <1>13, <1>14, <1>15, <1>16, <1>17, <1>18, <1>19, <1>20 DEF Next,
      ManagerStep, BusStep

\* The passengers picked up follow every update of them.
LEMMA PickedUpExactStep ==
  ASSUME IInv, [Next]_vars
  PROVE  PickedUpExact'
<1> USE LedgerBusAssumption, CapacityAssumption DEF IInv, TypeOK,
      PickedUpExact, One, CopyInv, StatsType
<1>1. ASSUME NEW b \in Bus, ApproveArrival(b) PROVE PickedUpExact'
  BY <1>1, CountsStay, PlacesFinite DEF ApproveArrival, ManagerGoes, mutexes,
     permits, others
<1>2. ASSUME NEW b \in Bus, ApproveLeave(b) PROVE PickedUpExact'
  BY <1>2, CountsStay, PlacesFinite DEF ApproveLeave, ManagerGoes, mutexes,
     permits, others
<1>3. ASSUME LockBays PROVE PickedUpExact'
  BY <1>3, CountsStay, PlacesFinite DEF LockBays, ManagerGoes, mutexes,
     permits, others
<1>4. ASSUME CountInStats PROVE PickedUpExact'
  BY <1>4, CountsStay, PlacesFinite DEF CountInStats, ManagerGoes, mutexes,
     permits, others
<1>5. ASSUME UnlockStats PROVE PickedUpExact'
  BY <1>5, CountsStay, PlacesFinite DEF UnlockStats, ManagerGoes, mutexes,
     permits, others
<1>6. ASSUME CountInStatus PROVE PickedUpExact'
  BY <1>6, CountsStay, PlacesFinite DEF CountInStatus, ManagerGoes, mutexes,
     permits, others
<1>7. ASSUME UnlockStatus PROVE PickedUpExact'
  BY <1>7, CountsStay, PlacesFinite DEF UnlockStatus, ManagerGoes, mutexes,
     permits, others
<1>8. ASSUME Approve PROVE PickedUpExact'
  <2>1. PICK from \in {"outside", "parked"}, to \in {"parking", "leaving"} :
          /\ mbus \in Bus /\ BusGoes(mbus, from, to)
          /\ from = "outside" <=> to = "parking"
    BY <1>8 DEF Approve, BusGoes, ManagerGoes, ApprovalInv, Arriving
  <2> QED BY <1>8, <2>1, CountsMove, PlacesFinite, SMT
          DEF Approve, ManagerGoes, permits
<1>9. ASSUME NEW b \in Bus, EndParking(b) PROVE PickedUpExact'
  BY <1>9, CountsMove, PlacesFinite DEF EndParking, elsewhere
<1>10. ASSUME NEW b \in Bus, LockStatusArrival(b) PROVE PickedUpExact'
  BY <1>10, CountsMove, PlacesFinite DEF LockStatusArrival, LockStatus,
     elsewhere
<1>11. ASSUME NEW b \in Bus, StoreStatusArrival(b) PROVE PickedUpExact'
  BY <1>11, CountsMove, PlacesFinite DEF StoreStatusArrival, elsewhere
<1>12. ASSUME NEW b \in Bus, LockStatsArrival(b) PROVE PickedUpExact'
  BY <1>12, CountsMove, PlacesFinite DEF LockStatsArrival, LockStats, elsewhere
<1>13. ASSUME NEW b \in Bus, StoreStatsArrival(b) PROVE PickedUpExact'
  BY <1>13, CountsMove, PlacesFinite DEF StoreStatsArrival, elsewhere
<1>14. ASSUME NEW b \in Bus, EndLeaving(b) PROVE PickedUpExact'
  BY <1>14, CountsMove, PlacesFinite DEF EndLeaving, elsewhere
<1>15. ASSUME NEW b \in Bus, LockStatusLeave(b) PROVE PickedUpExact'
  BY <1>15, CountsMove, PlacesFinite DEF LockStatusLeave, LockStatus, elsewhere
<1>16. ASSUME NEW b \in Bus, StoreStatusLeave(b) PROVE PickedUpExact'
  <2>1. Cardinality(BusesAt({"gone"}))' = Cardinality(BusesAt({"gone"}))
    BY <1>16, CountsMove, PlacesFinite DEF StoreStatusLeave
  <2> QED BY <1>16, <2>1 DEF StoreStatusLeave
<1>17. ASSUME NEW b \in Bus, LockStatsLeave(b) PROVE PickedUpExact'
  BY <1>17, CountsMove, PlacesFinite DEF LockStatsLeave, LockStats, elsewhere
<1>18. ASSUME NEW b \in Bus, StoreStatsLeave(b) PROVE PickedUpExact'
  <2>1. stats'.pickedUp = stats.pickedUp + 1
    BY <1>18 DEF StoreStatsLeave, BusGoes
  <2> QED BY <1>18, <2>1, CountsMove, PlacesFinite DEF StoreStatsLeave
<1>19. ASSUME ComptrollerStep PROVE PickedUpExact'
  BY <1>19, CountsStay DEF ComptrollerStep, StartStatistics, PrintStatistics,
     StartStatus, StatusBays, PrintStatus, EndStatus, ComptrollerGoes, unread,
     permits
<1>20. CASE UNCHANGED vars
  BY <1>20, CountsStay DEF vars, mutexes, permits
<1> QED BY <1>1, <1>2, <1>3, <1>4, <1>5, <1>6, <1>7, <1>8, <1>9, <1>10, <1>11,
      <1>12, <1>13, <1>14, <1>15, <1>16, <1>17, <1>18, <1>19, <1>20 DEF Next,
      ManagerStep, BusStep

\* The manager's count of the buses in the station follows each of its steps.
LEMMA InStationExactStep ==
  ASSUME IInv, [Next]_vars
  PROVE  InStationExact'
<1> USE DEF IInv, TypeOK, StatusType, StatusExact, InStationExact, ApprovalInv
<1> DEFINE S == {b \in Bus : CountedIn(b)}
<1>0. ASSUME \A c \in Bus : CountedIn(c)' <=> CountedIn(c),
             status'.inStation = status.inStation
      PROVE  InStationExact'
  BY <1>0
<1>1. ASSUME NEW b \in Bus, ApproveArrival(b) PROVE InStationExact'
  BY <1>0, <1>1 DEF ApproveArrival, ManagerGoes, others, CountedIn
<1>2. ASSUME NEW b \in Bus, ApproveLeave(b) PROVE InStationExact'
  BY <1>0, <1>2 DEF ApproveLeave, ManagerGoes, others, CountedIn
<1>3. ASSUME LockBays PROVE InStationExact'
  BY <1>0, <1>3 DEF LockBays, ManagerGoes, others, CountedIn
<1>4. ASSUME CountInStats PROVE InStationExact'
  BY <1>0, <1>4 DEF CountInStats, ManagerGoes, others, CountedIn
<1>5. ASSUME UnlockStats PROVE InStationExact'
  BY <1>0, <1>5 DEF UnlockStats, ManagerGoes, others, CountedIn
<1>6. ASSUME CountInStatus PROVE InStationExact'
  <2>1. /\ mbus \in Bus /\ bpc[mbus] \in {"outside", "parked"}
        /\ UNCHANGED <<mbus, bpc>> /\ mpc = "status" /\ mpc' = "inStatus"
    BY <1>6 DEF CountInStatus, ManagerGoes, others
  <2>2. IsFiniteSet(S) /\ Cardinality(S) \in Nat
    BY CountedInFinite
  <2>3. CASE Arriving
    <3>1. S' = S \cup {mbus} /\ mbus \notin S
      BY <2>1, <2>3 DEF CountedIn, Arriving
    <3>2. Cardinality(S \cup {mbus}) = Cardinality(S) + 1
      BY <2>2, <3>1, FS_AddElement
    <3>3. status'.inStation = status.inStation + 1
      BY <1>6, <2>3 DEF CountInStatus
    <3> QED BY <3>1, <3>2, <3>3
  <2>4. CASE ~Arriving
    <3>1. S' = S \ {mbus} /\ mbus \in S
      BY <2>1, <2>4 DEF CountedIn, Arriving
    <3>2. Cardinality(S \ {mbus}) = Cardinality(S) - 1
      BY <2>2, <3>1, FS_RemoveElement
    <3>3. status'.inStation = status.inStation - 1
      BY <1>6, <2>4 DEF CountInStatus
    <3> QED BY <3>1, <3>2, <3>3
  <2> QED BY <2>3, <2>4
<1>7. ASSUME UnlockStatus PROVE InStationExact'
  BY <1>0, <1>7 DEF UnlockStatus, ManagerGoes, others, CountedIn
<1>8. ASSUME Approve PROVE InStationExact'
  BY <1>0, <1>8 DEF Approve, ManagerGoes, CountedIn, Arriving
<1>9. ASSUME NEW b \in Bus, BusStep(b) PROVE InStationExact'
  <2>1. /\ UNCHANGED <<mpc, mbus>>
        /\ status'.inStation = status.inStation
    BY <1>9 DEF BusStep, EndParking, LockStatusArrival, StoreStatusArrival,
       LockStatsArrival, StoreStatsArrival, EndLeaving, LockStatusLeave,
       StoreStatusLeave, LockStatsLeave, StoreStatsLeave, LockStatus,
       LockStats, elsewhere
  <2>2. \E from, to \in BusPc :
          /\ BusGoes(b, from, to)
          /\ from \notin {"outside", "parked"}
          /\ from \in InStation <=> to \in InStation
    BY <1>9 DEF BusStep, EndParking, LockStatusArrival, StoreStatusArrival,
       LockStatsArrival, StoreStatsArrival, EndLeaving, LockStatusLeave,
       StoreStatusLeave, LockStatsLeave, StoreStatsLeave, LockStatus,
       LockStats, BusPc, InStation
  <2>3. \A c \in Bus : CountedIn(c)' <=> CountedIn(c)
    BY <2>1, <2>2 DEF BusGoes, CountedIn, InStation
  <2> QED BY <1>0, <2>1, <2>3
<1>10. ASSUME ComptrollerStep PROVE InStationExact'
  BY <1>0, <1>10 DEF ComptrollerStep, StartStatistics, PrintStatistics,
     StartStatus, StatusBays, PrintStatus, EndStatus, unread, CountedIn
<1>11. CASE UNCHANGED vars
  BY <1>0, <1>11 DEF vars, CountedIn
<1> QED BY <1>1, <1>2, <1>3, <1>4, <1>5, <1>6, <1>7, <1>8, <1>9, <1>10, <1>11
        DEF Next, ManagerStep

-------------------------------------------------------------------------------
(* The theorems. *)

LEMMA InitIInv == Init => IInv
<1> SUFFICES ASSUME Init PROVE IInv
  OBVIOUS
<1> USE LedgerBusAssumption, CapacityAssumption DEF Init
<1>1. /\ \A pcs : "outside" \notin pcs => BusesAt(pcs) = {}
      /\ {b \in Bus : CountedIn(b)} = {}
  BY DEF BusesAt, CountedIn
<1>2. \A pcs : "outside" \notin pcs => Cardinality(BusesAt(pcs)) = 0
  BY <1>1, FS_EmptySet
<1>3. TypeOK
  BY DEF TypeOK, StatusType, StatsType, NoStatus, NoStats, Nothing, ManagerPc,
     BusPc, ComptrollerPc
<1>4. BaysMutexInv /\ StatusMutexInv /\ PermitInv /\ ApprovalInv /\ CopyInv
  BY DEF BaysMutexInv, StatusMutexInv, HoldsStatus, Printing, PermitInv,
     ArrivalAtWork, LeaveAtWork, ApprovalInv, CopyInv
<1>5. StatsMutexInv
  BY <1>2 DEF StatsMutexInv, One
<1>6. SpotsInv
  BY DEF SpotsInv, Uncounted, NoStatus
<1>7. StatusExact
  BY <1>1, <1>2, FS_EmptySet DEF StatusExact, NoStatus
<1>8. PickedUpExact
  BY <1>2 DEF PickedUpExact, NoStats
<1> QED BY <1>3, <1>4, <1>5, <1>6, <1>7, <1>8 DEF IInv

\* IInv holds from the start on and after every step.
THEOREM IInvInductive == Spec => []IInv
<1>1. IInv /\ [Next]_vars => IInv'
  <2> SUFFICES ASSUME IInv, [Next]_vars PROVE IInv'
    OBVIOUS
  <2>1. StatusExact'
    BY OnBoardExactStep, InStationExactStep
       DEF StatusExact, OnBoardExact, InStationExact, Aboard
  <2> QED BY <2>1, TypeOKStep, BaysMutexInvStep, StatusMutexInvStep,
             StatsMutexInvStep, PermitInvStep, ApprovalInvStep, SpotsInvStep,
             CopyInvStep, PickedUpExactStep DEF IInv
<1> QED BY InitIInv, <1>1, PTL DEF Spec

\* The semaphores, counters and places keep their types: no mutex but
\* statsMutex is ever posted twice, and no counter falls below zero.
THEOREM TypeCorrect == Spec => []TypeOK
<1>1. IInv => TypeOK
  BY DEF IInv
<1> QED BY IInvInductive, <1>1, PTL

\* No update of struct Status is lost, nor of passengersPickedUp in struct Stats,
\* whose other sums do lose some (StatsExact).
THEOREM UpdatesAreKept == Spec => []UpdatesKept
<1>1. IInv => UpdatesKept
  BY DEF IInv, UpdatesKept
<1> QED BY IInvInductive, <1>1, PTL

\* The status the comptroller prints adds up.
THEOREM SnapshotIsExact == Spec => []StatusSnapshot
<1>1. IInv => StatusSnapshot
  BY CapacityAssumption
  DEF IInv, StatusSnapshot, SpotsInv, Uncounted, BaysMutexInv, TypeOK,
     StatusType
<1> QED BY IInvInductive, <1>1, PTL
===============================================================================
