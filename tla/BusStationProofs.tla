--------------------------- MODULE BusStationProofs ---------------------------
(***************************************************************************)
(* Proofs about module BusStation, for any finite set of buses and any     *)
(* number of spots: the inductive invariant IInv, and from it the type     *)
(* invariant, every safety invariant the runs check, and the refinement    *)
(* of ParkingLot.                                                          *)
(*                                                                         *)
(* IInv is the type invariant, the discipline of the forms, the permits    *)
(* and the lot.  None of them is inductive alone: that a permit is not     *)
(* given back twice needs the bus that gives it back to be the only one    *)
(* maneuvering, that an approval is read by the bus it is meant for needs  *)
(* the forms, and that a spot is free when it is taken needs the counter.  *)
(***************************************************************************)
EXTENDS BusStation, FiniteSetTheorems, TLAPS

-------------------------------------------------------------------------------
(* Spots. *)

\* A finite nonempty set of natural numbers has a least element.  The sets of
\* smaller elements are finite, so one of them is minimal under inclusion.
LEMMA FiniteMin ==
  ASSUME NEW T, T \subseteq Nat, IsFiniteSet(T), T # {}
  PROVE  \E x \in T : \A y \in T : x <= y
<1> DEFINE Below(x) == {y \in T : y < x}
           Family == {Below(x) : x \in T}
           R == StrictSubsetOrdering(T)
<1>1. \A x \in T : IsFiniteSet(Below(x)) /\ Below(x) \in SUBSET T
  BY FS_Subset
<1>2. Family \subseteq FiniteSubsetsOf(T) /\ Family # {}
  BY <1>1 DEF FiniteSubsetsOf
<1>3. PICK F \in Family : \A G \in Family : <<G, F>> \notin R
  <2>1. IsWellFoundedOn(R, FiniteSubsetsOf(T))
    BY FS_StrictSubsetOrderingWellFounded
  <2> HIDE DEF Family, R
  <2> QED BY <1>2, <2>1, WFMin
<1>4. PICK x \in T : F = Below(x)
  BY <1>3
<1>5. ASSUME NEW y \in T, y < x PROVE FALSE
  <2>1. Below(y) \subseteq Below(x) /\ Below(y) # Below(x)
    <3>1. y \in Below(x) /\ y \notin Below(y)
      BY <1>5
    <3>2. \A z \in Below(y) : z \in Below(x)
      BY <1>5
    <3> QED BY <3>1, <3>2
  <2>2. <<Below(y), F>> \in R
    BY <1>1, <1>4, <2>1 DEF StrictSubsetOrdering
  <2> QED BY <1>3, <2>2
<1> QED BY <1>5

\* A spot is a bay and an index of that bay; every bay has the index 0.
LEMMA SpotsTyped ==
  /\ \A where \in Bays :
       SpotsOf(where) \subseteq Spots /\ <<where, 0>> \in SpotsOf(where)
  /\ \A s \in Spots : s[1] \in Bays /\ s[2] \in Nat /\ s \in SpotsOf(s[1])
  /\ \A where \in Bays : \A s \in SpotsOf(where) : s[1] = where /\ s[2] \in Nat
<1>1. \A where \in Bays :
        SpotsOf(where) \subseteq Spots /\ <<where, 0>> \in SpotsOf(where)
  BY SpotsAssumption DEF Spots, SpotsOf
<1>2. \A where \in Bays :
        \A s \in SpotsOf(where) : s[1] = where /\ s[2] \in Nat
  BY SpotsAssumption DEF SpotsOf
<1>3. \A s \in Spots : s[1] \in Bays /\ s[2] \in Nat /\ s \in SpotsOf(s[1])
  BY <1>2 DEF Spots
<1> QED BY <1>1, <1>2, <1>3

\* A bay has finitely many spots.
LEMMA SpotsFinite ==
  ASSUME NEW where \in Bays
  PROVE  IsFiniteSet(SpotsOf(where))
<1> DEFINE last == SpotsNumber[where] - 1
<1>1. last \in Int
  BY SpotsAssumption
<1>2. IsFiniteSet(0..last)
  <2> HIDE DEF last
  <2>1. 0 \in Int
    OBVIOUS
  <2> QED BY <1>1, <2>1, FS_Interval
<1>3. IsFiniteSet({where})
  BY FS_Singleton
<1> QED BY <1>2, <1>3, FS_Product DEF SpotsOf

\* occupyFirstAvailable() chooses a spot of the bay, and a free one if the bay
\* has any.
LEMMA FirstFreeIsFree ==
  ASSUME NEW where \in Bays
  PROVE  /\ FirstFree(where) \in SpotsOf(where)
         /\ FreeSpots(where) # {} => FirstFree(where) \in FreeSpots(where)
<1>1. CASE FreeSpots(where) = {}
  BY <1>1, SpotsTyped DEF FirstFree
<1>2. CASE FreeSpots(where) # {}
  <2> DEFINE Numbers == {s[2] : s \in FreeSpots(where)}
  <2>1. IsFiniteSet(FreeSpots(where))
    BY SpotsFinite, FS_Subset DEF FreeSpots
  <2>2. Numbers \subseteq Nat /\ Numbers # {}
    BY <1>2, SpotsTyped DEF FreeSpots
  <2>3. IsFiniteSet(Numbers)
    <3> DEFINE f == [s \in FreeSpots(where) |-> s[2]]
    <3>1. f \in Surjection(FreeSpots(where), Numbers)
      BY DEF Surjection
    <3> QED BY <2>1, <3>1, FS_Surjection
  <2>4. PICK n \in Numbers : \A m \in Numbers : n <= m
    <3> HIDE DEF Numbers
    <3> QED BY <2>2, <2>3, FiniteMin
  <2>5. \E s \in FreeSpots(where) : \A r \in FreeSpots(where) : s[2] <= r[2]
    BY <2>4
  <2>6. FirstFree(where) \in FreeSpots(where)
    BY <1>2, <2>5 DEF FirstFree
  <2> QED BY <2>6 DEF FreeSpots
<1> QED BY <1>1, <1>2

-------------------------------------------------------------------------------
(* The inductive invariant. *)

\* The permits, with what makes the refill after a departure unreachable: a bus
\* found without a spot took the permit with it.
PermitInv ==
  /\ ParkingExclusion
  /\ LeavingExclusion
  /\ consumed # {} => busCanPark = 0 /\ \A b \in Bus : ~Maneuvers(b)

\* SpotsExact, element by element, with the copy of the spot that the leaving
\* bus wrote into the form.
LotInv ==
  /\ \A b \in Bus : Holds(b, Leave) => formPlace[Leave] = place[b]
  /\ \A b \in Bus : Present(b) => SpotOf(b) \in taken
  /\ \A s \in taken : \E b \in Bus : Present(b) /\ SpotOf(b) = s
  /\ \A b, c \in Bus :
       Present(b) /\ Present(c) /\ SpotOf(b) = SpotOf(c) => b = c
  /\ \A where \in Bays : available[where] = Cardinality(FreeSpots(where))

IInv == TypeOK /\ FormIntegrity /\ PermitInv /\ LotInv

\* The initial state of the shared segment satisfies the invariant.
LEMMA InitIInv == Init => IInv
<1> SUFFICES ASSUME Init PROVE IInv
  OBVIOUS
<1> USE DEF Init, Forms, Bays, Leave
<1>1. \A b \in Bus, f \in Forms : ~Holds(b, f)
  BY DEF Holds
<1>2. \A b \in Bus : ~Maneuvers(b) /\ ~MovesOut(b) /\ ~Present(b)
  BY <1>1 DEF Maneuvers, MovesOut, Present, Approved, Holds
<1>3. TypeOK
  BY SpotsAssumption, SpotsTyped DEF TypeOK, ZeroSpot, ManagerPc, BusPc
<1>4. FormIntegrity
  BY <1>1 DEF FormIntegrity
<1>5. PermitInv
  BY <1>2 DEF PermitInv, ParkingExclusion, LeavingExclusion
<1>6. \A where \in Bays : available[where] = Cardinality(FreeSpots(where))
  <2> TAKE where \in Bays
  <2> DEFINE last == SpotsNumber[where] - 1
             Index == 0 .. last
  <2>1. last \in Int /\ last >= 0 /\ 0 \in Int
    BY SpotsAssumption
  <2>2. IsFiniteSet(Index) /\ Cardinality(Index) = last + 1
    <3> HIDE DEF last
    <3> QED BY <2>1, FS_Interval
  <2>3. IsFiniteSet({where}) /\ Cardinality({where}) = 1
    BY FS_Singleton
  <2>4. Cardinality({where} \X Index) = 1 * (last + 1)
    <3> HIDE DEF Index
    <3> QED BY <2>2, <2>3, FS_Product
  <2>5. FreeSpots(where) = {where} \X Index
    BY DEF FreeSpots, SpotsOf
  <2>6. available[where] = last + 1
    BY SpotsAssumption
  <2> QED BY <2>1, <2>4, <2>5, <2>6
<1>7. LotInv
  BY <1>1, <1>2, <1>6 DEF LotInv
<1> QED BY <1>3, <1>4, <1>5, <1>7 DEF IInv

-------------------------------------------------------------------------------
(* Every step preserves the invariant, part by part. *)

\* While a bus is remembered in consumed[] there is no permit, so the extra
\* iteration after a departure changes nothing but the tokens.
LEMMA RefillIdle ==
  ASSUME IInv, Refill
  PROVE  /\ UNCHANGED <<pending, approval, waitingApproval, formBus, formPlace,
                        taken, available, consumed, type, place, bpc,
                        cannotParkEvent, cannotLeaveEvent, busCanLeave,
                        leaveFrom, bay>>
         /\ mpc' = "loop"
         /\ pendingRequests' \in Nat
         /\ busCanPark' = 0 \/ UNCHANGED busCanPark
BY DEF IInv, TypeOK, PermitInv, Refill, ParkPermit, Refillable, ManagerGoes,
       lot, buses

\* So it keeps the types and the lot.
LEMMA RefillTypeLot ==
  ASSUME IInv, Refill
  PROVE  TypeOK' /\ LotInv'
<1>1. TypeOK'
  BY RefillIdle DEF IInv, TypeOK, ManagerPc
<1>2. \A b \in Bus : /\ (Holds(b, Leave)' <=> Holds(b, Leave))
                      /\ (Present(b)' <=> Present(b))
                      /\ SpotOf(b)' = SpotOf(b)
  BY RefillIdle DEF Holds, Present, SpotOf, Maneuvers, Approved
<1>3. \A where \in Bays : FreeSpots(where)' = FreeSpots(where)
  BY RefillIdle DEF FreeSpots
<1>4. LotInv'
  BY <1>2, <1>3, RefillIdle DEF IInv, LotInv
<1> QED BY <1>1, <1>4

\* Type correctness.  That the semaphores of forms and permits stay binary
\* needs the rest of the invariant.
LEMMA TypeStep ==
  ASSUME IInv, [Next]_vars
  PROVE  TypeOK'
<1> USE DEF IInv, TypeOK, BusGoes, ManagerGoes, Forms, Bays, Leave, BusPc,
      ManagerPc, vars, semaphores, forms, lot, manager, buses, PermitInv,
      ParkingExclusion, LeavingExclusion, FormIntegrity, Holds, Approved,
      Maneuvers, MovesOut
<1>1. ASSUME NEW b \in Bus, FillArrival(b) PROVE TypeOK'
  BY <1>1 DEF FillArrival, Fill
<1>2. ASSUME NEW b \in Bus, NotifyArrival(b) PROVE TypeOK'
  BY <1>2 DEF NotifyArrival, Notify
<1>3. ASSUME NEW b \in Bus, NudgeArrival(b) PROVE TypeOK'
  BY <1>3 DEF NudgeArrival, PostCannotLeaveEvent
<1>4. ASSUME NEW b \in Bus, EnterStation(b) PROVE TypeOK'
  BY <1>4 DEF EnterStation
<1>5. ASSUME NEW b \in Bus, EndParking(b) PROVE TypeOK'
  BY <1>5 DEF EndParking
<1>6. ASSUME NEW b \in Bus, NudgeParked(b) PROVE TypeOK'
  BY <1>6 DEF NudgeParked, PostCannotParkEvent
<1>7. ASSUME NEW b \in Bus, FillLeave(b) PROVE TypeOK'
  BY <1>7 DEF FillLeave, Fill
<1>8. ASSUME NEW b \in Bus, NotifyLeave(b) PROVE TypeOK'
  BY <1>8 DEF NotifyLeave, Notify
<1>9. ASSUME NEW b \in Bus, NudgeLeave(b) PROVE TypeOK'
  BY <1>9 DEF NudgeLeave, PostCannotParkEvent
<1>10. ASSUME NEW b \in Bus, BeginLeaving(b) PROVE TypeOK'
  BY <1>10 DEF BeginLeaving
<1>11. ASSUME NEW b \in Bus, EndLeaving(b) PROVE TypeOK'
  BY <1>11 DEF EndLeaving
<1>12. ASSUME NEW b \in Bus, NudgeLeft(b) PROVE TypeOK'
  BY <1>12 DEF NudgeLeft, PostCannotLeaveEvent
<1>13. ASSUME TakeRequest PROVE TypeOK'
  BY <1>13 DEF TakeRequest
<1>14. ASSUME NoLeavePending PROVE TypeOK'
  BY <1>14 DEF NoLeavePending
<1>15. ASSUME GrantLeave PROVE TypeOK'
  BY <1>15, SpotsTyped DEF GrantLeave, LeavePermit, LetParkingSpot
<1>16. ASSUME AnotherRequest PROVE TypeOK'
  BY <1>16 DEF AnotherRequest
<1>17. ASSUME Refill PROVE TypeOK'
  BY <1>17, RefillTypeLot
<1>18. ASSUME RefuseLeave PROVE TypeOK'
  BY <1>18 DEF RefuseLeave
<1>19. ASSUME OnlyLeave PROVE TypeOK'
  BY <1>19 DEF OnlyLeave
<1>20. ASSUME DrainLeaveEvent PROVE TypeOK'
  BY <1>20 DEF DrainLeaveEvent
<1>21. ASSUME WaitLeaveEvent PROVE TypeOK'
  BY <1>21 DEF WaitLeaveEvent
<1>22. ASSUME SkipArrival PROVE TypeOK'
  BY <1>22 DEF SkipArrival, NextStage
<1>23. ASSUME GrantArrival PROVE TypeOK'
  BY <1>23, SpotsTyped, FirstFreeIsFree DEF GrantArrival, ArrivalCandidate,
     ParkPermit, BusParks, OccupyFirstAvailable, SpotsAvailable
<1>24. ASSUME NoSpot PROVE TypeOK'
  BY <1>24 DEF NoSpot, ArrivalCandidate, ParkPermit, NextStage
<1>25. ASSUME RefuseArrival PROVE TypeOK'
  BY <1>25 DEF RefuseArrival, ArrivalCandidate
<1>26. ASSUME OnlyArrival PROVE TypeOK'
  BY <1>26 DEF OnlyArrival
<1>27. ASSUME DrainParkEvent PROVE TypeOK'
  BY <1>27 DEF DrainParkEvent
<1>28. ASSUME WaitParkEvent PROVE TypeOK'
  BY <1>28 DEF WaitParkEvent
<1>29. CASE UNCHANGED vars
  BY <1>29
<1> QED BY <1>1, <1>2, <1>3, <1>4, <1>5, <1>6, <1>7, <1>8, <1>9, <1>10, <1>11,
      <1>12, <1>13, <1>14, <1>15, <1>16, <1>17, <1>18, <1>19, <1>20, <1>21,
      <1>22, <1>23, <1>24, <1>25, <1>26, <1>27, <1>28, <1>29 DEF Next,
      BusStep, ManagerStep

\* A form is filled, answered and released by one bus at a time.
LEMMA FormStep ==
  ASSUME IInv, [Next]_vars
  PROVE  FormIntegrity'
<1> USE DEF IInv, TypeOK, BusGoes, ManagerGoes, Forms, Bays, Leave, BusPc,
      ManagerPc, vars, semaphores, forms, lot, manager, buses, FormIntegrity,
      Holds
<1>1. ASSUME NEW b \in Bus, FillArrival(b) PROVE FormIntegrity'
  BY <1>1 DEF FillArrival, Fill
<1>2. ASSUME NEW b \in Bus, NotifyArrival(b) PROVE FormIntegrity'
  BY <1>2 DEF NotifyArrival, Notify
<1>3. ASSUME NEW b \in Bus, NudgeArrival(b) PROVE FormIntegrity'
  BY <1>3 DEF NudgeArrival, PostCannotLeaveEvent
<1>4. ASSUME NEW b \in Bus, EnterStation(b) PROVE FormIntegrity'
  BY <1>4 DEF EnterStation
<1>5. ASSUME NEW b \in Bus, EndParking(b) PROVE FormIntegrity'
  BY <1>5 DEF EndParking
<1>6. ASSUME NEW b \in Bus, NudgeParked(b) PROVE FormIntegrity'
  BY <1>6 DEF NudgeParked, PostCannotParkEvent
<1>7. ASSUME NEW b \in Bus, FillLeave(b) PROVE FormIntegrity'
  BY <1>7 DEF FillLeave, Fill
<1>8. ASSUME NEW b \in Bus, NotifyLeave(b) PROVE FormIntegrity'
  BY <1>8 DEF NotifyLeave, Notify
<1>9. ASSUME NEW b \in Bus, NudgeLeave(b) PROVE FormIntegrity'
  BY <1>9 DEF NudgeLeave, PostCannotParkEvent
<1>10. ASSUME NEW b \in Bus, BeginLeaving(b) PROVE FormIntegrity'
  BY <1>10 DEF BeginLeaving
<1>11. ASSUME NEW b \in Bus, EndLeaving(b) PROVE FormIntegrity'
  BY <1>11 DEF EndLeaving
<1>12. ASSUME NEW b \in Bus, NudgeLeft(b) PROVE FormIntegrity'
  BY <1>12 DEF NudgeLeft, PostCannotLeaveEvent
<1>13. ASSUME TakeRequest PROVE FormIntegrity'
  BY <1>13 DEF TakeRequest
<1>14. ASSUME NoLeavePending PROVE FormIntegrity'
  BY <1>14 DEF NoLeavePending
<1>15. ASSUME GrantLeave PROVE FormIntegrity'
  BY <1>15 DEF GrantLeave, LeavePermit, LetParkingSpot
<1>16. ASSUME AnotherRequest PROVE FormIntegrity'
  BY <1>16 DEF AnotherRequest
<1>17. ASSUME Refill PROVE FormIntegrity'
  BY <1>17, RefillIdle
<1>18. ASSUME RefuseLeave PROVE FormIntegrity'
  BY <1>18 DEF RefuseLeave
<1>19. ASSUME OnlyLeave PROVE FormIntegrity'
  BY <1>19 DEF OnlyLeave
<1>20. ASSUME DrainLeaveEvent PROVE FormIntegrity'
  BY <1>20 DEF DrainLeaveEvent
<1>21. ASSUME WaitLeaveEvent PROVE FormIntegrity'
  BY <1>21 DEF WaitLeaveEvent
<1>22. ASSUME SkipArrival PROVE FormIntegrity'
  BY <1>22 DEF SkipArrival, NextStage
<1>23. ASSUME GrantArrival PROVE FormIntegrity'
  BY <1>23 DEF GrantArrival, ArrivalCandidate, ParkPermit, BusParks,
     OccupyFirstAvailable, SpotsAvailable
<1>24. ASSUME NoSpot PROVE FormIntegrity'
  BY <1>24 DEF NoSpot, ArrivalCandidate, ParkPermit, NextStage
<1>25. ASSUME RefuseArrival PROVE FormIntegrity'
  BY <1>25 DEF RefuseArrival, ArrivalCandidate
<1>26. ASSUME OnlyArrival PROVE FormIntegrity'
  BY <1>26 DEF OnlyArrival
<1>27. ASSUME DrainParkEvent PROVE FormIntegrity'
  BY <1>27 DEF DrainParkEvent
<1>28. ASSUME WaitParkEvent PROVE FormIntegrity'
  BY <1>28 DEF WaitParkEvent
<1>29. CASE UNCHANGED vars
  BY <1>29
<1> QED BY <1>1, <1>2, <1>3, <1>4, <1>5, <1>6, <1>7, <1>8, <1>9, <1>10, <1>11,
      <1>12, <1>13, <1>14, <1>15, <1>16, <1>17, <1>18, <1>19, <1>20, <1>21,
      <1>22, <1>23, <1>24, <1>25, <1>26, <1>27, <1>28, <1>29 DEF Next,
      BusStep, ManagerStep

\* The permits to maneuver.
LEMMA PermitStep ==
  ASSUME IInv, [Next]_vars
  PROVE  PermitInv'
<1> USE DEF IInv, TypeOK, BusGoes, ManagerGoes, Forms, Bays, Leave, BusPc,
      ManagerPc, vars, semaphores, forms, lot, manager, buses, PermitInv,
      ParkingExclusion, LeavingExclusion, FormIntegrity, Holds, Approved,
      Maneuvers, MovesOut
<1>1. ASSUME NEW b \in Bus, FillArrival(b) PROVE PermitInv'
  BY <1>1 DEF FillArrival, Fill
<1>2. ASSUME NEW b \in Bus, NotifyArrival(b) PROVE PermitInv'
  BY <1>2 DEF NotifyArrival, Notify
<1>3. ASSUME NEW b \in Bus, NudgeArrival(b) PROVE PermitInv'
  BY <1>3 DEF NudgeArrival, PostCannotLeaveEvent
<1>4. ASSUME NEW b \in Bus, EnterStation(b) PROVE PermitInv'
  BY <1>4 DEF EnterStation
<1>5. ASSUME NEW b \in Bus, EndParking(b) PROVE PermitInv'
  BY <1>5 DEF EndParking
<1>6. ASSUME NEW b \in Bus, NudgeParked(b) PROVE PermitInv'
  BY <1>6 DEF NudgeParked, PostCannotParkEvent
<1>7. ASSUME NEW b \in Bus, FillLeave(b) PROVE PermitInv'
  BY <1>7 DEF FillLeave, Fill
<1>8. ASSUME NEW b \in Bus, NotifyLeave(b) PROVE PermitInv'
  BY <1>8 DEF NotifyLeave, Notify
<1>9. ASSUME NEW b \in Bus, NudgeLeave(b) PROVE PermitInv'
  BY <1>9 DEF NudgeLeave, PostCannotParkEvent
<1>10. ASSUME NEW b \in Bus, BeginLeaving(b) PROVE PermitInv'
  BY <1>10 DEF BeginLeaving
<1>11. ASSUME NEW b \in Bus, EndLeaving(b) PROVE PermitInv'
  BY <1>11 DEF EndLeaving
<1>12. ASSUME NEW b \in Bus, NudgeLeft(b) PROVE PermitInv'
  BY <1>12 DEF NudgeLeft, PostCannotLeaveEvent
<1>13. ASSUME TakeRequest PROVE PermitInv'
  BY <1>13 DEF TakeRequest
<1>14. ASSUME NoLeavePending PROVE PermitInv'
  BY <1>14 DEF NoLeavePending
<1>15. ASSUME GrantLeave PROVE PermitInv'
  BY <1>15 DEF GrantLeave, LeavePermit, LetParkingSpot
<1>16. ASSUME AnotherRequest PROVE PermitInv'
  BY <1>16 DEF AnotherRequest
<1>17. ASSUME Refill PROVE PermitInv'
  BY <1>17, RefillIdle
<1>18. ASSUME RefuseLeave PROVE PermitInv'
  BY <1>18 DEF RefuseLeave
<1>19. ASSUME OnlyLeave PROVE PermitInv'
  BY <1>19 DEF OnlyLeave
<1>20. ASSUME DrainLeaveEvent PROVE PermitInv'
  BY <1>20 DEF DrainLeaveEvent
<1>21. ASSUME WaitLeaveEvent PROVE PermitInv'
  BY <1>21 DEF WaitLeaveEvent
<1>22. ASSUME SkipArrival PROVE PermitInv'
  BY <1>22 DEF SkipArrival, NextStage
<1>23. ASSUME GrantArrival PROVE PermitInv'
  BY <1>23 DEF GrantArrival, ArrivalCandidate, ParkPermit, BusParks,
     OccupyFirstAvailable, SpotsAvailable
<1>24. ASSUME NoSpot PROVE PermitInv'
  BY <1>24 DEF NoSpot, ArrivalCandidate, ParkPermit, NextStage
<1>25. ASSUME RefuseArrival PROVE PermitInv'
  BY <1>25 DEF RefuseArrival, ArrivalCandidate
<1>26. ASSUME OnlyArrival PROVE PermitInv'
  BY <1>26 DEF OnlyArrival
<1>27. ASSUME DrainParkEvent PROVE PermitInv'
  BY <1>27 DEF DrainParkEvent
<1>28. ASSUME WaitParkEvent PROVE PermitInv'
  BY <1>28 DEF WaitParkEvent
<1>29. CASE UNCHANGED vars
  BY <1>29
<1> QED BY <1>1, <1>2, <1>3, <1>4, <1>5, <1>6, <1>7, <1>8, <1>9, <1>10, <1>11,
      <1>12, <1>13, <1>14, <1>15, <1>16, <1>17, <1>18, <1>19, <1>20, <1>21,
      <1>22, <1>23, <1>24, <1>25, <1>26, <1>27, <1>28, <1>29 DEF Next,
      BusStep, ManagerStep

\* A departure is granted: the spot of the bus in the form is free again, and
\* nobody else was on it.
LEMMA GrantLeaveLot ==
  ASSUME IInv, GrantLeave
  PROVE  LotInv'
<1> USE DEF IInv, Forms, Bays, Leave
<1>0. /\ waitingApproval[Leave] = 0
      /\ approval[Leave] = 0
      /\ approval' = [approval EXCEPT ![Leave] = @ + 1]
  BY DEF GrantLeave, TypeOK, FormIntegrity
<1>1. PICK b \in Bus :
        Holds(b, Leave) /\ \A c \in Bus : Holds(c, Leave) => c = b
  BY <1>0 DEF FormIntegrity
<1>20. PICK spot \in Spots : spot = formPlace[Leave]
  BY DEF TypeOK
<1>2. /\ approval \in [Forms -> {0, 1}]
      /\ approval[Leave] = 0 /\ approval'[Leave] = 1
      /\ \A f \in Bays : approval'[f] = approval[f]
  BY <1>0 DEF TypeOK
<1>3. /\ UNCHANGED <<type, bpc, place, formPlace>>
      /\ taken' = taken \ {spot}
      /\ available' = [available EXCEPT ![spot[1]] = @ + 1]
  BY <1>20 DEF GrantLeave, LetParkingSpot, buses
<1>4. \A c \in Bus, f \in Forms : Holds(c, f)' <=> Holds(c, f)
  BY <1>3 DEF Holds
<1>5. Present(b) /\ SpotOf(b) = spot /\ spot \in taken
  BY <1>1, <1>2, <1>20 DEF Present, SpotOf, Holds, LotInv, Approved, TypeOK
<1>6. ~Present(b)'
  BY <1>1, <1>2, <1>3 DEF Present, Maneuvers, Holds, Approved, TypeOK
<1>7. \A c \in Bus \ {b} :
        (Present(c)' <=> Present(c)) /\ SpotOf(c)' = SpotOf(c)
  BY <1>1, <1>2, <1>3, <1>4 DEF Present, Maneuvers, SpotOf, Approved, TypeOK
<1>8. /\ \A c \in Bus : Holds(c, Leave)' => formPlace'[Leave] = place'[c]
      /\ \A c \in Bus : Present(c)' => SpotOf(c)' \in taken'
      /\ \A s \in taken' : \E c \in Bus : Present(c)' /\ SpotOf(c)' = s
      /\ \A c, d \in Bus :
           Present(c)' /\ Present(d)' /\ SpotOf(c)' = SpotOf(d)' => c = d
  <2>1. \A c \in Bus : Holds(c, Leave)' => formPlace'[Leave] = place'[c]
    BY <1>3, <1>4 DEF LotInv
  <2>2. \A c \in Bus :
          Present(c)' => c # b /\ Present(c) /\ SpotOf(c)' = SpotOf(c)
    BY <1>6, <1>7
  <2>3. \A c \in Bus : Present(c)' => SpotOf(c)' \in taken'
    BY <1>1, <1>3, <1>5, <2>2 DEF LotInv
  <2>4. \A s \in taken' : \E c \in Bus : Present(c)' /\ SpotOf(c)' = s
    BY <1>3, <1>5, <1>7 DEF LotInv
  <2>5. \A c, d \in Bus :
           Present(c)' /\ Present(d)' /\ SpotOf(c)' = SpotOf(d)' => c = d
    BY <2>2 DEF LotInv
  <2> QED BY <2>1, <2>3, <2>4, <2>5
<1>9. \A where \in Bays : available'[where] = Cardinality(FreeSpots(where)')
  <2> TAKE where \in Bays
  <2>1. spot \in SpotsOf(spot[1]) /\ spot[1] \in Bays
    BY SpotsTyped DEF TypeOK
  <2>2. /\ IsFiniteSet(FreeSpots(where))
        /\ available[where] = Cardinality(FreeSpots(where))
        /\ available[where] \in Nat
    BY SpotsFinite, FS_Subset DEF FreeSpots, LotInv, TypeOK
  <2>3. CASE where = spot[1]
    <3>1. /\ FreeSpots(where)' = FreeSpots(where) \cup {spot}
          /\ spot \notin FreeSpots(where)
      BY <1>3, <1>5, <2>1, <2>3 DEF FreeSpots
    <3>2. available'[where] = available[where] + 1
      BY <1>3, <2>3 DEF TypeOK
    <3> QED BY <2>2, <3>1, <3>2, FS_AddElement
  <2>4. CASE where # spot[1]
    <3>1. FreeSpots(where)' = FreeSpots(where)
      BY <1>3, <2>4, SpotsTyped DEF FreeSpots
    <3>2. available'[where] = available[where]
      BY <1>3, <2>4 DEF TypeOK
    <3> QED BY <2>2, <3>1, <3>2
  <2> QED BY <2>3, <2>4
<1> QED BY <1>8, <1>9 DEF LotInv

\* An arrival is granted: the counter guarantees a free spot, and the bus in
\* the form is the only one to get it.
LEMMA GrantArrivalLot ==
  ASSUME IInv, GrantArrival
  PROVE  LotInv'
<1> USE DEF IInv, Forms, Bays, Leave
<1>20. PICK f \in Bays : f = bay
  BY DEF TypeOK
<1>0. /\ f # Leave /\ pending[f] = 1 /\ waitingApproval[f] = 0
      /\ approval[f] = 0
      /\ approval' = [approval EXCEPT ![f] = @ + 1]
  BY <1>20 DEF GrantArrival, ArrivalCandidate, BusParks, TypeOK, FormIntegrity
<1>1. PICK b \in Bus : Holds(b, f) /\ \A c \in Bus : Holds(c, f) => c = b
  BY <1>0 DEF FormIntegrity
<1>2. /\ approval \in [Forms -> {0, 1}] /\ approval[f] = 0 /\ approval'[f] = 1
      /\ \A g \in Forms \ {f} : approval'[g] = approval[g]
  BY <1>0 DEF TypeOK
<1>3. PICK where \in Bays :
        /\ where = IF available[f] > 0 THEN f ELSE "PEL"
        /\ available[where] > 0
  BY <1>20 DEF GrantArrival, SpotsAvailable, TypeOK
<1>4. /\ IsFiniteSet(FreeSpots(where))
      /\ FreeSpots(where) # {}
      /\ FirstFree(where) \in FreeSpots(where)
  <2>1. IsFiniteSet(FreeSpots(where))
    BY <1>3, SpotsFinite, FS_Subset DEF FreeSpots
  <2>2. FreeSpots(where) # {}
    BY <1>3, FS_EmptySet DEF LotInv
  <2> QED BY <1>3, <2>1, <2>2, FirstFreeIsFree
<1>21. PICK spot \in Spots : spot = FirstFree(where)
  BY <1>4, SpotsTyped DEF FreeSpots
<1>5. /\ UNCHANGED <<type, bpc, place>>
      /\ formPlace' = [formPlace EXCEPT ![f] = spot]
      /\ taken' = taken \cup {spot}
      /\ available' = [available EXCEPT ![where] = @ - 1]
  BY <1>0, <1>20, <1>21, <1>3, <1>4 DEF GrantArrival, BusParks,
     OccupyFirstAvailable, buses, SpotsAvailable, TypeOK
<1>6. \A c \in Bus, g \in Forms : Holds(c, g)' <=> Holds(c, g)
  BY <1>5 DEF Holds
<1>7. f = type[b] /\ bpc[b] \in {"notify", "nudge", "await"}
  BY <1>0, <1>1 DEF Holds
<1>8. ~Present(b) /\ Present(b)' /\ SpotOf(b)' = spot
  BY <1>0, <1>1, <1>2, <1>5, <1>6, <1>7 DEF Present, SpotOf, Approved,
     Maneuvers, Holds, TypeOK
<1>9. \A c \in Bus \ {b} :
        (Present(c)' <=> Present(c)) /\ SpotOf(c)' = SpotOf(c)
  BY <1>0, <1>1, <1>2, <1>5, <1>6 DEF Present, Maneuvers, SpotOf, Approved,
     TypeOK
<1>10. spot \notin taken
  BY <1>4, <1>21 DEF FreeSpots
<1>11. \A c \in Bus : Holds(c, Leave)' => formPlace'[Leave] = place'[c]
  BY <1>0, <1>5, <1>6 DEF LotInv, TypeOK
<1>12. \A c \in Bus : Present(c)' => SpotOf(c)' \in taken'
  BY <1>5, <1>8, <1>9 DEF LotInv
<1>13. \A s \in taken' : \E c \in Bus : Present(c)' /\ SpotOf(c)' = s
  BY <1>1, <1>5, <1>8, <1>9 DEF LotInv
<1>14. \A c, d \in Bus :
         Present(c)' /\ Present(d)' /\ SpotOf(c)' = SpotOf(d)' => c = d
  BY <1>8, <1>9, <1>10 DEF LotInv
<1>15. \A w \in Bays : available'[w] = Cardinality(FreeSpots(w)')
  <2> TAKE w \in Bays
  <2>1. available[w] = Cardinality(FreeSpots(w)) /\ available[w] \in Nat
    BY DEF LotInv, TypeOK
  <2>2. CASE w = where
    <3>1. FreeSpots(w)' = FreeSpots(w) \ {spot}
      BY <1>5, <2>2 DEF FreeSpots
    <3>2. available'[w] = available[w] - 1
      BY <1>5, <2>2 DEF TypeOK
    <3> QED BY <1>4, <1>21, <2>1, <2>2, <3>1, <3>2, FS_RemoveElement
  <2>3. CASE w # where
    <3>1. FreeSpots(w)' = FreeSpots(w)
      BY <1>3, <1>4, <1>21, <1>5, <2>3, SpotsTyped DEF FreeSpots
    <3>2. available'[w] = available[w]
      BY <1>5, <2>3 DEF TypeOK
    <3> QED BY <2>1, <3>1, <3>2
  <2> QED BY <2>2, <2>3
<1> QED BY <1>11, <1>12, <1>13, <1>14, <1>15 DEF LotInv

\* Spots and their counters.
LEMMA LotStep ==
  ASSUME IInv, [Next]_vars
  PROVE  LotInv'
<1> USE DEF IInv, TypeOK, BusGoes, ManagerGoes, Forms, Bays, Leave, BusPc,
      ManagerPc, vars, semaphores, forms, lot, manager, buses, FormIntegrity,
      LotInv, Holds, Approved, Maneuvers, Present, SpotOf, FreeSpots
<1>1. ASSUME NEW b \in Bus, FillArrival(b) PROVE LotInv'
  BY <1>1 DEF FillArrival, Fill
<1>2. ASSUME NEW b \in Bus, NotifyArrival(b) PROVE LotInv'
  BY <1>2 DEF NotifyArrival, Notify
<1>3. ASSUME NEW b \in Bus, NudgeArrival(b) PROVE LotInv'
  BY <1>3 DEF NudgeArrival, PostCannotLeaveEvent
<1>4. ASSUME NEW b \in Bus, EnterStation(b) PROVE LotInv'
  BY <1>4 DEF EnterStation
<1>5. ASSUME NEW b \in Bus, EndParking(b) PROVE LotInv'
  BY <1>5 DEF EndParking
<1>6. ASSUME NEW b \in Bus, NudgeParked(b) PROVE LotInv'
  BY <1>6 DEF NudgeParked, PostCannotParkEvent
<1>7. ASSUME NEW b \in Bus, FillLeave(b) PROVE LotInv'
  BY <1>7 DEF FillLeave, Fill
<1>8. ASSUME NEW b \in Bus, NotifyLeave(b) PROVE LotInv'
  BY <1>8 DEF NotifyLeave, Notify
<1>9. ASSUME NEW b \in Bus, NudgeLeave(b) PROVE LotInv'
  BY <1>9 DEF NudgeLeave, PostCannotParkEvent
<1>10. ASSUME NEW b \in Bus, BeginLeaving(b) PROVE LotInv'
  BY <1>10 DEF BeginLeaving
<1>11. ASSUME NEW b \in Bus, EndLeaving(b) PROVE LotInv'
  BY <1>11 DEF EndLeaving
<1>12. ASSUME NEW b \in Bus, NudgeLeft(b) PROVE LotInv'
  BY <1>12 DEF NudgeLeft, PostCannotLeaveEvent
<1>13. ASSUME TakeRequest PROVE LotInv'
  BY <1>13 DEF TakeRequest
<1>14. ASSUME NoLeavePending PROVE LotInv'
  BY <1>14 DEF NoLeavePending
<1>15. ASSUME GrantLeave PROVE LotInv'
  BY <1>15, GrantLeaveLot
<1>16. ASSUME AnotherRequest PROVE LotInv'
  BY <1>16 DEF AnotherRequest
<1>17. ASSUME Refill PROVE LotInv'
  BY <1>17, RefillTypeLot
<1>18. ASSUME RefuseLeave PROVE LotInv'
  BY <1>18 DEF RefuseLeave
<1>19. ASSUME OnlyLeave PROVE LotInv'
  BY <1>19 DEF OnlyLeave
<1>20. ASSUME DrainLeaveEvent PROVE LotInv'
  BY <1>20 DEF DrainLeaveEvent
<1>21. ASSUME WaitLeaveEvent PROVE LotInv'
  BY <1>21 DEF WaitLeaveEvent
<1>22. ASSUME SkipArrival PROVE LotInv'
  BY <1>22 DEF SkipArrival, NextStage
<1>23. ASSUME GrantArrival PROVE LotInv'
  BY <1>23, GrantArrivalLot
<1>24. ASSUME NoSpot PROVE LotInv'
  BY <1>24 DEF NoSpot, ArrivalCandidate, ParkPermit, NextStage
<1>25. ASSUME RefuseArrival PROVE LotInv'
  BY <1>25 DEF RefuseArrival, ArrivalCandidate
<1>26. ASSUME OnlyArrival PROVE LotInv'
  BY <1>26 DEF OnlyArrival
<1>27. ASSUME DrainParkEvent PROVE LotInv'
  BY <1>27 DEF DrainParkEvent
<1>28. ASSUME WaitParkEvent PROVE LotInv'
  BY <1>28 DEF WaitParkEvent
<1>29. CASE UNCHANGED vars
  BY <1>29
<1> QED BY <1>1, <1>2, <1>3, <1>4, <1>5, <1>6, <1>7, <1>8, <1>9, <1>10, <1>11,
      <1>12, <1>13, <1>14, <1>15, <1>16, <1>17, <1>18, <1>19, <1>20, <1>21,
      <1>22, <1>23, <1>24, <1>25, <1>26, <1>27, <1>28, <1>29 DEF Next,
      BusStep, ManagerStep

\* The invariant is inductive.
THEOREM IInvInductive == Spec => []IInv
<1>1. IInv /\ [Next]_vars => IInv'
  BY TypeStep, FormStep, PermitStep, LotStep DEF IInv
<1> QED BY InitIInv, <1>1, PTL DEF Spec

-------------------------------------------------------------------------------
(* The tokens. *)

\* Requests and notifications are counted over finite sets.
LEMMA CountedSetsFinite == IsFiniteSet(Unanswered) /\ IsFiniteSet(ToNotify)
<1>1. IsFiniteSet({"VOR", "ASK", "PEL", "LEAVE"})
  <2>1. IsFiniteSet({"VOR"})
    BY FS_Singleton
  <2>2. IsFiniteSet({"VOR"} \cup {"ASK"})
    BY <2>1, FS_AddElement
  <2>3. IsFiniteSet(({"VOR"} \cup {"ASK"}) \cup {"PEL"})
    BY <2>2, FS_AddElement
  <2>4. IsFiniteSet((({"VOR"} \cup {"ASK"}) \cup {"PEL"}) \cup {"LEAVE"})
    BY <2>3, FS_AddElement
  <2>5. ((({"VOR"} \cup {"ASK"}) \cup {"PEL"}) \cup {"LEAVE"})
        = {"VOR", "ASK", "PEL", "LEAVE"}
    OBVIOUS
  <2> QED BY <2>4, <2>5
<1>2. Unanswered \subseteq {"VOR", "ASK", "PEL", "LEAVE"}
  BY DEF Unanswered, Forms, Bays, Leave
<1>3. ToNotify \subseteq Bus
  BY DEF ToNotify
<1> QED BY <1>1, <1>2, <1>3, FS_Subset, BusAssumption

\* All counts are natural numbers.
LEMMA TokensNat ==
  ASSUME IInv
  PROVE  /\ pendingRequests \in Nat /\ Working \in {0, 1}
         /\ Cardinality(ToNotify) \in Nat /\ Cardinality(Unanswered) \in Nat
BY CountedSetsFinite, FS_CardinalityType DEF IInv, TypeOK, Working

\* A token is posted for a filled request and used up by at most one answer.
LEMMA TokensStep ==
  ASSUME IInv, TokensCovered, [Next]_vars
  PROVE  TokensCovered'
<1> USE DEF IInv, TypeOK, BusGoes, ManagerGoes, Forms, Bays, Leave, vars,
      semaphores, forms, lot, manager, buses
<1>0. pendingRequests' \in Nat /\ Working' \in {0, 1}
  BY TypeStep DEF Working
<1>1. ASSUME NEW b \in Bus, FillArrival(b) PROVE TokensCovered'
  <2>1. ToNotify' = ToNotify \cup {b} /\ b \notin ToNotify
    BY <1>1 DEF FillArrival, Fill, ToNotify
  <2>2. Unanswered' = Unanswered \cup {type[b]} /\ type[b] \notin Unanswered
    BY <1>1 DEF FillArrival, Fill, Unanswered, FormIntegrity
  <2>3. UNCHANGED <<pendingRequests, Working>>
    BY <1>1 DEF FillArrival, Fill, Working
  <2>4. Cardinality(ToNotify') = Cardinality(ToNotify) + 1
    BY <2>1, CountedSetsFinite, FS_AddElement
  <2>5. Cardinality(Unanswered') = Cardinality(Unanswered) + 1
    BY <2>2, CountedSetsFinite, FS_AddElement
  <2> QED BY <1>0, <2>3, <2>4, <2>5, TokensNat DEF TokensCovered
<1>2. ASSUME NEW b \in Bus, NotifyArrival(b) PROVE TokensCovered'
  <2>1. ToNotify' = ToNotify \ {b} /\ b \in ToNotify
    BY <1>2 DEF NotifyArrival, Notify, ToNotify
  <2>2. /\ UNCHANGED <<Unanswered, Working>>
        /\ pendingRequests' = pendingRequests + 1
    BY <1>2 DEF NotifyArrival, Notify, Unanswered, Working
  <2>3. Cardinality(ToNotify') = Cardinality(ToNotify) - 1
    BY <2>1, CountedSetsFinite, FS_RemoveElement
  <2> QED BY <1>0, <2>2, <2>3, TokensNat DEF TokensCovered
<1>3. ASSUME NEW b \in Bus, NudgeArrival(b) PROVE TokensCovered'
  <2>1. UNCHANGED <<ToNotify, Unanswered>>
    BY <1>3 DEF NudgeArrival, PostCannotLeaveEvent, ToNotify, Unanswered,
       FormIntegrity
  <2>2. pendingRequests' + Working' <= pendingRequests + Working
    BY <1>3 DEF NudgeArrival, PostCannotLeaveEvent, Working
  <2> QED BY <1>0, <2>1, <2>2, TokensNat DEF TokensCovered
<1>4. ASSUME NEW b \in Bus, EnterStation(b) PROVE TokensCovered'
  <2>1. UNCHANGED <<ToNotify, Unanswered>>
    BY <1>4 DEF EnterStation, ToNotify, Unanswered, FormIntegrity
  <2>2. pendingRequests' + Working' <= pendingRequests + Working
    BY <1>4 DEF EnterStation, Working
  <2> QED BY <1>0, <2>1, <2>2, TokensNat DEF TokensCovered
<1>5. ASSUME NEW b \in Bus, EndParking(b) PROVE TokensCovered'
  <2>1. UNCHANGED <<ToNotify, Unanswered>>
    BY <1>5 DEF EndParking, ToNotify, Unanswered, FormIntegrity
  <2>2. pendingRequests' + Working' <= pendingRequests + Working
    BY <1>5 DEF EndParking, Working
  <2> QED BY <1>0, <2>1, <2>2, TokensNat DEF TokensCovered
<1>6. ASSUME NEW b \in Bus, NudgeParked(b) PROVE TokensCovered'
  <2>1. UNCHANGED <<ToNotify, Unanswered>>
    BY <1>6 DEF NudgeParked, PostCannotParkEvent, ToNotify, Unanswered,
       FormIntegrity
  <2>2. pendingRequests' + Working' <= pendingRequests + Working
    BY <1>6 DEF NudgeParked, PostCannotParkEvent, Working
  <2> QED BY <1>0, <2>1, <2>2, TokensNat DEF TokensCovered
<1>7. ASSUME NEW b \in Bus, FillLeave(b) PROVE TokensCovered'
  <2>1. ToNotify' = ToNotify \cup {b} /\ b \notin ToNotify
    BY <1>7 DEF FillLeave, Fill, ToNotify
  <2>2. Unanswered' = Unanswered \cup {Leave} /\ Leave \notin Unanswered
    BY <1>7 DEF FillLeave, Fill, Unanswered, FormIntegrity
  <2>3. UNCHANGED <<pendingRequests, Working>>
    BY <1>7 DEF FillLeave, Fill, Working
  <2>4. Cardinality(ToNotify') = Cardinality(ToNotify) + 1
    BY <2>1, CountedSetsFinite, FS_AddElement
  <2>5. Cardinality(Unanswered') = Cardinality(Unanswered) + 1
    BY <2>2, CountedSetsFinite, FS_AddElement
  <2> QED BY <1>0, <2>3, <2>4, <2>5, TokensNat DEF TokensCovered
<1>8. ASSUME NEW b \in Bus, NotifyLeave(b) PROVE TokensCovered'
  <2>1. ToNotify' = ToNotify \ {b} /\ b \in ToNotify
    BY <1>8 DEF NotifyLeave, Notify, ToNotify
  <2>2. /\ UNCHANGED <<Unanswered, Working>>
        /\ pendingRequests' = pendingRequests + 1
    BY <1>8 DEF NotifyLeave, Notify, Unanswered, Working
  <2>3. Cardinality(ToNotify') = Cardinality(ToNotify) - 1
    BY <2>1, CountedSetsFinite, FS_RemoveElement
  <2> QED BY <1>0, <2>2, <2>3, TokensNat DEF TokensCovered
<1>9. ASSUME NEW b \in Bus, NudgeLeave(b) PROVE TokensCovered'
  <2>1. UNCHANGED <<ToNotify, Unanswered>>
    BY <1>9 DEF NudgeLeave, PostCannotParkEvent, ToNotify, Unanswered,
       FormIntegrity
  <2>2. pendingRequests' + Working' <= pendingRequests + Working
    BY <1>9 DEF NudgeLeave, PostCannotParkEvent, Working
  <2> QED BY <1>0, <2>1, <2>2, TokensNat DEF TokensCovered
<1>10. ASSUME NEW b \in Bus, BeginLeaving(b) PROVE TokensCovered'
  <2>1. UNCHANGED <<ToNotify, Unanswered>>
    BY <1>10 DEF BeginLeaving, ToNotify, Unanswered, FormIntegrity
  <2>2. pendingRequests' + Working' <= pendingRequests + Working
    BY <1>10 DEF BeginLeaving, Working
  <2> QED BY <1>0, <2>1, <2>2, TokensNat DEF TokensCovered
<1>11. ASSUME NEW b \in Bus, EndLeaving(b) PROVE TokensCovered'
  <2>1. UNCHANGED <<ToNotify, Unanswered>>
    BY <1>11 DEF EndLeaving, ToNotify, Unanswered, FormIntegrity
  <2>2. pendingRequests' + Working' <= pendingRequests + Working
    BY <1>11 DEF EndLeaving, Working
  <2> QED BY <1>0, <2>1, <2>2, TokensNat DEF TokensCovered
<1>12. ASSUME NEW b \in Bus, NudgeLeft(b) PROVE TokensCovered'
  <2>1. UNCHANGED <<ToNotify, Unanswered>>
    BY <1>12 DEF NudgeLeft, PostCannotLeaveEvent, ToNotify, Unanswered,
       FormIntegrity
  <2>2. pendingRequests' + Working' <= pendingRequests + Working
    BY <1>12 DEF NudgeLeft, PostCannotLeaveEvent, Working
  <2> QED BY <1>0, <2>1, <2>2, TokensNat DEF TokensCovered
<1>13. ASSUME TakeRequest PROVE TokensCovered'
  <2>1. UNCHANGED <<ToNotify, Unanswered>>
    BY <1>13 DEF TakeRequest, ToNotify, Unanswered, FormIntegrity
  <2>2. pendingRequests' + Working' <= pendingRequests + Working
    BY <1>13 DEF TakeRequest, Working
  <2> QED BY <1>0, <2>1, <2>2, TokensNat DEF TokensCovered
<1>14. ASSUME NoLeavePending PROVE TokensCovered'
  <2>1. UNCHANGED <<ToNotify, Unanswered>>
    BY <1>14 DEF NoLeavePending, ToNotify, Unanswered, FormIntegrity
  <2>2. pendingRequests' + Working' <= pendingRequests + Working
    BY <1>14 DEF NoLeavePending, Working
  <2> QED BY <1>0, <2>1, <2>2, TokensNat DEF TokensCovered
<1>15. ASSUME GrantLeave PROVE TokensCovered'
  <2>1. Unanswered' = Unanswered \ {Leave} /\ Leave \in Unanswered
    BY <1>15 DEF GrantLeave, LeavePermit, LetParkingSpot, Unanswered,
       FormIntegrity
  <2>2. UNCHANGED <<ToNotify, pendingRequests>> /\ Working = 1 /\ Working' = 0
    BY <1>15 DEF GrantLeave, LeavePermit, LetParkingSpot, ToNotify, Working
  <2>3. Cardinality(Unanswered') = Cardinality(Unanswered) - 1
    BY <2>1, CountedSetsFinite, FS_RemoveElement
  <2> QED BY <1>0, <2>2, <2>3, TokensNat DEF TokensCovered
<1>16. ASSUME AnotherRequest PROVE TokensCovered'
  <2>1. UNCHANGED <<ToNotify, Unanswered>>
    BY <1>16 DEF AnotherRequest, ToNotify, Unanswered, FormIntegrity
  <2>2. pendingRequests' + Working' <= pendingRequests + Working
    BY <1>16 DEF AnotherRequest, Working
  <2> QED BY <1>0, <2>1, <2>2, TokensNat DEF TokensCovered
<1>17. ASSUME Refill PROVE TokensCovered'
  <2>1. UNCHANGED <<ToNotify, Unanswered>>
    BY <1>17, RefillIdle DEF Working, ToNotify, Unanswered, FormIntegrity
  <2>2. pendingRequests' + Working' <= pendingRequests + Working
    BY <1>17 DEF Refill, ParkPermit, Working
  <2> QED BY <1>0, <2>1, <2>2, TokensNat DEF TokensCovered
<1>18. ASSUME RefuseLeave PROVE TokensCovered'
  <2>1. UNCHANGED <<ToNotify, Unanswered>>
    BY <1>18 DEF RefuseLeave, ToNotify, Unanswered, FormIntegrity
  <2>2. pendingRequests' + Working' <= pendingRequests + Working
    BY <1>18 DEF RefuseLeave, Working
  <2> QED BY <1>0, <2>1, <2>2, TokensNat DEF TokensCovered
<1>19. ASSUME OnlyLeave PROVE TokensCovered'
  <2>1. UNCHANGED <<ToNotify, Unanswered>>
    BY <1>19 DEF OnlyLeave, ToNotify, Unanswered, FormIntegrity
  <2>2. pendingRequests' + Working' <= pendingRequests + Working
    BY <1>19 DEF OnlyLeave, Working
  <2> QED BY <1>0, <2>1, <2>2, TokensNat DEF TokensCovered
<1>20. ASSUME DrainLeaveEvent PROVE TokensCovered'
  <2>1. UNCHANGED <<ToNotify, Unanswered>>
    BY <1>20 DEF DrainLeaveEvent, ToNotify, Unanswered, FormIntegrity
  <2>2. pendingRequests' + Working' <= pendingRequests + Working
    BY <1>20 DEF DrainLeaveEvent, Working
  <2> QED BY <1>0, <2>1, <2>2, TokensNat DEF TokensCovered
<1>21. ASSUME WaitLeaveEvent PROVE TokensCovered'
  <2>1. UNCHANGED <<ToNotify, Unanswered>>
    BY <1>21 DEF WaitLeaveEvent, ToNotify, Unanswered, FormIntegrity
  <2>2. pendingRequests' + Working' <= pendingRequests + Working
    BY <1>21 DEF WaitLeaveEvent, Working
  <2> QED BY <1>0, <2>1, <2>2, TokensNat DEF TokensCovered
<1>22. ASSUME SkipArrival PROVE TokensCovered'
  <2>1. UNCHANGED <<ToNotify, Unanswered>>
    BY <1>22 DEF SkipArrival, NextStage, ToNotify, Unanswered, FormIntegrity
  <2>2. pendingRequests' + Working' <= pendingRequests + Working
    BY <1>22 DEF SkipArrival, NextStage, Working
  <2> QED BY <1>0, <2>1, <2>2, TokensNat DEF TokensCovered
<1>23. ASSUME GrantArrival PROVE TokensCovered'
  <2>1. Unanswered' = Unanswered \ {bay} /\ bay \in Unanswered
    BY <1>23 DEF GrantArrival, ArrivalCandidate, ParkPermit, BusParks,
       OccupyFirstAvailable, SpotsAvailable, Unanswered, FormIntegrity
  <2>2. UNCHANGED <<ToNotify, pendingRequests>> /\ Working = 1 /\ Working' = 0
    BY <1>23 DEF GrantArrival, ArrivalCandidate, ParkPermit, BusParks,
       OccupyFirstAvailable, SpotsAvailable, ToNotify, Working
  <2>3. Cardinality(Unanswered') = Cardinality(Unanswered) - 1
    BY <2>1, CountedSetsFinite, FS_RemoveElement
  <2> QED BY <1>0, <2>2, <2>3, TokensNat DEF TokensCovered
<1>24. ASSUME NoSpot PROVE TokensCovered'
  <2>1. UNCHANGED <<ToNotify, Unanswered>>
    BY <1>24 DEF NoSpot, ArrivalCandidate, ParkPermit, NextStage, ToNotify,
       Unanswered, FormIntegrity
  <2>2. pendingRequests' + Working' <= pendingRequests + Working
    BY <1>24 DEF NoSpot, ArrivalCandidate, ParkPermit, NextStage, Working
  <2> QED BY <1>0, <2>1, <2>2, TokensNat DEF TokensCovered
<1>25. ASSUME RefuseArrival PROVE TokensCovered'
  <2>1. UNCHANGED <<ToNotify, Unanswered>>
    BY <1>25 DEF RefuseArrival, ArrivalCandidate, ToNotify, Unanswered,
       FormIntegrity
  <2>2. pendingRequests' + Working' <= pendingRequests + Working
    BY <1>25 DEF RefuseArrival, ArrivalCandidate, Working
  <2> QED BY <1>0, <2>1, <2>2, TokensNat DEF TokensCovered
<1>26. ASSUME OnlyArrival PROVE TokensCovered'
  <2>1. UNCHANGED <<ToNotify, Unanswered>>
    BY <1>26 DEF OnlyArrival, ToNotify, Unanswered, FormIntegrity
  <2>2. pendingRequests' + Working' <= pendingRequests + Working
    BY <1>26 DEF OnlyArrival, Working
  <2> QED BY <1>0, <2>1, <2>2, TokensNat DEF TokensCovered
<1>27. ASSUME DrainParkEvent PROVE TokensCovered'
  <2>1. UNCHANGED <<ToNotify, Unanswered>>
    BY <1>27 DEF DrainParkEvent, ToNotify, Unanswered, FormIntegrity
  <2>2. pendingRequests' + Working' <= pendingRequests + Working
    BY <1>27 DEF DrainParkEvent, Working
  <2> QED BY <1>0, <2>1, <2>2, TokensNat DEF TokensCovered
<1>28. ASSUME WaitParkEvent PROVE TokensCovered'
  <2>1. UNCHANGED <<ToNotify, Unanswered>>
    BY <1>28 DEF WaitParkEvent, ToNotify, Unanswered, FormIntegrity
  <2>2. pendingRequests' + Working' <= pendingRequests + Working
    BY <1>28 DEF WaitParkEvent, Working
  <2> QED BY <1>0, <2>1, <2>2, TokensNat DEF TokensCovered
<1>29. CASE UNCHANGED vars
  BY <1>29 DEF ToNotify, Unanswered, Working, TokensCovered
<1> QED BY <1>1, <1>2, <1>3, <1>4, <1>5, <1>6, <1>7, <1>8, <1>9, <1>10, <1>11,
      <1>12, <1>13, <1>14, <1>15, <1>16, <1>17, <1>18, <1>19, <1>20, <1>21,
      <1>22, <1>23, <1>24, <1>25, <1>26, <1>27, <1>28, <1>29 DEF Next,
      BusStep, ManagerStep

\* At the start there are neither tokens nor requests.
LEMMA InitTokens == Init => TokensCovered
<1> SUFFICES ASSUME Init PROVE TokensCovered
  OBVIOUS
<1>1. ToNotify = {} /\ Unanswered = {}
  BY DEF Init, ToNotify, Unanswered, Forms, Bays, Leave
<1>2. pendingRequests = 0 /\ Working = 0
  BY DEF Init, Working
<1> QED BY <1>1, <1>2, FS_EmptySet DEF TokensCovered

-------------------------------------------------------------------------------
(* What the invariant gives. *)

\* Every variable has its type; in particular the semaphores of the forms and
\* the two permits are never posted above 1.
THEOREM TypeCorrect == Spec => []TypeOK
<1>1. IInv => TypeOK
  BY DEF IInv
<1> QED BY IInvInductive, <1>1, PTL

\* The four forms keep their discipline: one holder, one answer, nothing
\* overwritten.
THEOREM FormsKept == Spec => []FormIntegrity
<1>1. IInv => FormIntegrity
  BY DEF IInv
<1> QED BY IInvInductive, <1>1, PTL

\* At most one bus maneuvers into the station.
THEOREM ParkingIsExclusive == Spec => []ParkingExclusion
<1>1. IInv => ParkingExclusion
  BY DEF IInv, PermitInv
<1> QED BY IInvInductive, <1>1, PTL

\* At most one bus maneuvers out of the station.
THEOREM LeavingIsExclusive == Spec => []LeavingExclusion
<1>1. IInv => LeavingExclusion
  BY DEF IInv, PermitInv
<1> QED BY IInvInductive, <1>1, PTL

\* Both together.
THEOREM ManeuversAreExclusive == Spec => []ManeuversExclude
<1> QED BY ParkingIsExclusive, LeavingIsExclusive, PTL DEF ManeuversExclude

\* A bus found without a spot takes the permit with it for good.
THEOREM RefillIsDead == Spec => []RefillNeverServes
<1>1. IInv => RefillNeverServes
  BY DEF IInv, PermitInv, RefillNeverServes
<1> QED BY IInvInductive, <1>1, PTL

\* The spot chars, the counters and the buses in the station agree, and no two
\* buses share a spot.
THEOREM SpotsAreExact == Spec => []SpotsExact
<1>1. ASSUME IInv PROVE SpotsExact
  <2>1. taken = {SpotOf(b) : b \in {c \in Bus : Present(c)}}
    BY <1>1 DEF IInv, LotInv
  <2> QED BY <1>1, <2>1 DEF IInv, LotInv, SpotsExact
<1> QED BY IInvInductive, <1>1, PTL

\* The manager never works on more tokens than there are unanswered requests.
THEOREM TokensAreCovered == Spec => []TokensCovered
<1>1. IInv /\ TokensCovered /\ [Next]_vars => TokensCovered'
  BY TokensStep
<1> QED BY InitTokens, IInvInductive, <1>1, PTL DEF Spec

-------------------------------------------------------------------------------
(* BusStation implements ParkingLot.  Four steps of the protocol are steps  *)
(* of the parking lot: the manager's two approvals, and the two semaphore   *)
(* posts that end a maneuver.  All the others leave every bus where the lot *)
(* sees it.                                                                 *)

\* What the parking lot sees of a bus.
SameInLot(b) ==
  /\ LotStage(b)' = LotStage(b)
  /\ Present(b)' <=> Present(b)
  /\ Present(b) => SpotOf(b)' = SpotOf(b)

\* If no bus changes in its eyes, the parking lot stutters.
LEMMA StutterStep ==
  ASSUME UNCHANGED type, \A b \in Bus : SameInLot(b)
  PROVE  UNCHANGED Lot!vars
BY DEF SameInLot, Lot!vars

\* Initially every bus is outside and holds no spot.
LEMMA LotInit == Init => Lot!Init
<1> SUFFICES ASSUME Init PROVE Lot!Init
  OBVIOUS
<1>1. \A b \in Bus : ~Present(b) /\ LotStage(b) = "outside"
  BY DEF Init, Present, LotStage, Maneuvers, MovesOut, Approved, Holds, Forms,
     Bays, Leave
<1> QED BY <1>1 DEF Init, Lot!Init, Lot!NoSpot, Bays, Lot!Bays

\* The spots whose char is 0 are the spots the parking lot calls free.
LEMMA LotFree ==
  ASSUME IInv, NEW where \in Bays
  PROVE  Lot!Free(where) = FreeSpots(where)
<1> DEFINE held(b) == IF Present(b) THEN SpotOf(b) ELSE <<"UNSET", 0>>
<1>0. Lot!Free(where) = {s \in SpotsOf(where) : \A b \in Bus : held(b) # s}
  BY DEF Lot!Free, Lot!SpotsOf, SpotsOf
<1>1. \A s \in SpotsOf(where) : s # <<"UNSET", 0>>
  BY SpotsTyped DEF Bays
<1>2. ASSUME NEW s \in SpotsOf(where)
      PROVE  (\A b \in Bus : held(b) # s) <=> s \notin taken
  BY <1>1, <1>2 DEF IInv, LotInv
<1> HIDE DEF held
<1> QED BY <1>0, <1>2 DEF FreeSpots

\* The approval of an arrival admits the bus in the form.
LEMMA AdmitStep ==
  ASSUME IInv, GrantArrival
  PROVE  Lot!Next
<1> USE DEF IInv, Forms, Bays, Leave
<1>20. PICK f \in Bays : f = bay
  BY DEF TypeOK
<1>0. /\ f # Leave /\ pending[f] = 1 /\ waitingApproval[f] = 0
      /\ approval[f] = 0
      /\ approval' = [approval EXCEPT ![f] = @ + 1]
      /\ busCanPark = 1
  BY <1>20 DEF GrantArrival, ArrivalCandidate, BusParks, TypeOK,
     FormIntegrity, ParkPermit
<1>1. PICK b \in Bus :
        Holds(b, f) /\ \A c \in Bus : Holds(c, f) => c = b
  BY <1>0 DEF FormIntegrity
<1>2. /\ approval \in [Forms -> {0, 1}] /\ approval[f] = 0 /\ approval'[f] = 1
      /\ \A g \in Forms \ {f} : approval'[g] = approval[g]
  BY <1>0 DEF TypeOK
<1>3. PICK where \in Bays :
        /\ where = IF available[f] > 0 THEN f ELSE "PEL"
        /\ available[where] > 0
  BY <1>20 DEF GrantArrival, SpotsAvailable, TypeOK
<1>4. /\ \A w \in Bays : FreeSpots(w) # {} <=> available[w] > 0
      /\ FirstFree(where) \in FreeSpots(where)
  <2>1. ASSUME NEW w \in Bays PROVE FreeSpots(w) # {} <=> available[w] > 0
    <3>1. IsFiniteSet(FreeSpots(w))
      BY SpotsFinite, FS_Subset DEF FreeSpots
    <3>2. available[w] = Cardinality(FreeSpots(w)) /\ available[w] \in Nat
      BY DEF LotInv, TypeOK
    <3> QED BY <3>1, <3>2, FS_EmptySet
  <2> QED BY <1>3, <2>1, FirstFreeIsFree
<1>21. PICK spot \in Spots : spot = FirstFree(where)
  BY <1>4, SpotsTyped DEF FreeSpots
<1>5. /\ UNCHANGED <<type, bpc, place>>
      /\ formPlace' = [formPlace EXCEPT ![f] = spot]
  BY <1>0, <1>20, <1>21, <1>3, <1>4 DEF GrantArrival, BusParks,
     OccupyFirstAvailable, buses, SpotsAvailable, TypeOK
<1>6. \A c \in Bus, g \in Forms : Holds(c, g)' <=> Holds(c, g)
  BY <1>5 DEF Holds
<1>7. f = type[b] /\ bpc[b] \in {"notify", "nudge", "await"}
  BY <1>0, <1>1 DEF Holds
<1>8. /\ LotStage(b) = "outside" /\ LotStage(b)' = "parking"
      /\ ~Present(b) /\ Present(b)' /\ SpotOf(b)' = spot
  BY <1>0, <1>1, <1>2, <1>5, <1>6, <1>7
     DEF LotStage, MovesOut, Present, SpotOf, Approved, Maneuvers, Holds,
        TypeOK
<1>9. \A c \in Bus \ {b} : SameInLot(c)
  BY <1>0, <1>1, <1>2, <1>5, <1>6
     DEF SameInLot, LotStage, MovesOut, Present, Maneuvers, SpotOf, Approved,
        TypeOK
<1>10. \A c \in Bus : LotStage(c) # "parking"
  BY <1>0 DEF PermitInv, ParkingExclusion, LotStage
<1>11. spot \in IF Lot!Free(type[b]) # {} THEN Lot!Free(type[b])
                ELSE Lot!Free("PEL")
  BY <1>3, <1>4, <1>21, <1>7, LotFree DEF TypeOK
<1>12. Lot!Admit(b)
  <2>1. [c \in Bus |-> LotStage(c)]'
        = [[c \in Bus |-> LotStage(c)] EXCEPT ![b] = "parking"]
    BY <1>8, <1>9 DEF SameInLot
  <2>2. [c \in Bus |-> IF Present(c) THEN SpotOf(c) ELSE <<"UNSET", 0>>]'
        = [[c \in Bus |-> IF Present(c) THEN SpotOf(c) ELSE <<"UNSET", 0>>]
             EXCEPT ![b] = spot]
    BY <1>8, <1>9 DEF SameInLot
  <2> QED BY <1>5, <1>8, <1>10, <1>11, <2>1, <2>2 DEF Lot!Admit, Lot!Goes
<1> QED BY <1>12 DEF Lot!Next

\* The approval of a departure releases the spot of the bus in the form.
LEMMA ReleaseStep ==
  ASSUME IInv, GrantLeave
  PROVE  Lot!Next
<1> USE DEF IInv, Forms, Bays, Leave
<1>0. /\ waitingApproval[Leave] = 0 /\ pending[Leave] = 1
      /\ approval[Leave] = 0
      /\ approval' = [approval EXCEPT ![Leave] = @ + 1]
      /\ busCanLeave = 1
      /\ UNCHANGED <<type, bpc, place, formPlace>>
  BY DEF GrantLeave, LeavePermit, buses, TypeOK, FormIntegrity
<1>1. PICK b \in Bus :
        Holds(b, Leave) /\ \A c \in Bus : Holds(c, Leave) => c = b
  BY <1>0 DEF FormIntegrity
<1>2. /\ approval \in [Forms -> {0, 1}]
      /\ approval[Leave] = 0 /\ approval'[Leave] = 1
      /\ \A f \in Bays : approval'[f] = approval[f]
  BY <1>0 DEF TypeOK
<1>3. \A c \in Bus, f \in Forms : Holds(c, f)' <=> Holds(c, f)
  BY <1>0 DEF Holds
<1>4. /\ LotStage(b) = "parked" /\ LotStage(b)' = "leaving"
      /\ Present(b) /\ ~Present(b)'
  BY <1>0, <1>1, <1>2, <1>3
     DEF LotStage, Present, Maneuvers, MovesOut, Approved, Holds, TypeOK
<1>5. \A c \in Bus \ {b} : SameInLot(c)
  BY <1>0, <1>1, <1>2, <1>3
     DEF SameInLot, LotStage, Present, Maneuvers, MovesOut, SpotOf, Approved,
        TypeOK
<1>6. \A c \in Bus : LotStage(c) # "leaving"
  BY <1>0 DEF PermitInv, LeavingExclusion, LotStage
<1>7. [c \in Bus |-> LotStage(c)]'
        = [[c \in Bus |-> LotStage(c)] EXCEPT ![b] = "leaving"]
  BY <1>4, <1>5 DEF SameInLot
<1>8. [c \in Bus |-> IF Present(c) THEN SpotOf(c) ELSE <<"UNSET", 0>>]'
      = [[c \in Bus |-> IF Present(c) THEN SpotOf(c) ELSE <<"UNSET", 0>>]
           EXCEPT ![b] = Lot!NoSpot]
  BY <1>4, <1>5 DEF SameInLot, Lot!NoSpot
<1>9. Lot!Release(b)
  BY <1>0, <1>4, <1>6, <1>7, <1>8 DEF Lot!Release, Lot!Goes
<1> QED BY <1>9 DEF Lot!Next

\* Giving the permit to park back is the end of the maneuver.
LEMMA ParkStep ==
  ASSUME IInv, NEW b \in Bus, EndParking(b)
  PROVE  Lot!Next
<1> USE DEF IInv, EndParking, BusGoes, forms, Holds, Approved, Maneuvers,
      MovesOut, Forms, Bays, Leave
<1>1. /\ LotStage(b) = "parking" /\ LotStage(b)' = "parked"
      /\ Present(b) /\ Present(b)' /\ SpotOf(b)' = SpotOf(b)
  BY DEF LotStage, Present, SpotOf, TypeOK
<1>2. \A c \in Bus \ {b} : SameInLot(c)
  BY DEF SameInLot, LotStage, Present, SpotOf, TypeOK
<1>3. [c \in Bus |-> LotStage(c)]'
        = [[c \in Bus |-> LotStage(c)] EXCEPT ![b] = "parked"]
  BY <1>1, <1>2 DEF SameInLot
<1>4. UNCHANGED [c \in Bus |-> IF Present(c) THEN SpotOf(c) ELSE <<"UNSET", 0>>]
  BY <1>1, <1>2 DEF SameInLot
<1>5. Lot!Park(b)
  BY <1>1, <1>3, <1>4 DEF Lot!Park, Lot!Goes
<1> QED BY <1>5 DEF Lot!Next

\* Giving the permit to leave back is the bus's exit.
LEMMA ExitStep ==
  ASSUME IInv, NEW b \in Bus, EndLeaving(b)
  PROVE  Lot!Next
<1> USE DEF IInv, EndLeaving, BusGoes, forms, Holds, Approved, Maneuvers,
      MovesOut, Forms, Bays, Leave
<1>1. /\ LotStage(b) = "leaving" /\ LotStage(b)' = "gone"
      /\ ~Present(b) /\ ~Present(b)'
  BY DEF LotStage, Present, TypeOK
<1>2. \A c \in Bus \ {b} : SameInLot(c)
  BY DEF SameInLot, LotStage, Present, SpotOf, TypeOK
<1>3. [c \in Bus |-> LotStage(c)]'
        = [[c \in Bus |-> LotStage(c)] EXCEPT ![b] = "gone"]
  BY <1>1, <1>2 DEF SameInLot
<1>4. UNCHANGED [c \in Bus |-> IF Present(c) THEN SpotOf(c) ELSE <<"UNSET", 0>>]
  BY <1>1, <1>2 DEF SameInLot
<1>5. Lot!Exit(b)
  BY <1>1, <1>3, <1>4 DEF Lot!Exit, Lot!Goes
<1> QED BY <1>5 DEF Lot!Next

\* Every step of the protocol is a step of the parking lot or changes nothing.
LEMMA StepRefines ==
  ASSUME IInv, [Next]_vars
  PROVE  [Lot!Next]_Lot!vars
<1> USE DEF IInv, TypeOK, FormIntegrity, SameInLot, LotStage, Present, SpotOf,
      Holds, BusGoes, ManagerGoes, Forms, Bays, Leave, BusPc, Approved,
      Maneuvers, MovesOut, vars, semaphores, forms, lot, manager, buses
<1>1. ASSUME NEW b \in Bus, FillArrival(b)
      PROVE  UNCHANGED type /\ \A c \in Bus : SameInLot(c)
  BY <1>1 DEF FillArrival, Fill
<1>2. ASSUME NEW b \in Bus, NotifyArrival(b)
      PROVE  UNCHANGED type /\ \A c \in Bus : SameInLot(c)
  BY <1>2 DEF NotifyArrival, Notify
<1>3. ASSUME NEW b \in Bus, NudgeArrival(b)
      PROVE  UNCHANGED type /\ \A c \in Bus : SameInLot(c)
  BY <1>3 DEF NudgeArrival, PostCannotLeaveEvent
<1>4. ASSUME NEW b \in Bus, EnterStation(b)
      PROVE  UNCHANGED type /\ \A c \in Bus : SameInLot(c)
  BY <1>4 DEF EnterStation
<1>5. ASSUME NEW b \in Bus, EndParking(b) PROVE Lot!Next
  BY <1>5, ParkStep
<1>6. ASSUME NEW b \in Bus, NudgeParked(b)
      PROVE  UNCHANGED type /\ \A c \in Bus : SameInLot(c)
  BY <1>6 DEF NudgeParked, PostCannotParkEvent
<1>7. ASSUME NEW b \in Bus, FillLeave(b)
      PROVE  UNCHANGED type /\ \A c \in Bus : SameInLot(c)
  BY <1>7 DEF FillLeave, Fill
<1>8. ASSUME NEW b \in Bus, NotifyLeave(b)
      PROVE  UNCHANGED type /\ \A c \in Bus : SameInLot(c)
  BY <1>8 DEF NotifyLeave, Notify
<1>9. ASSUME NEW b \in Bus, NudgeLeave(b)
      PROVE  UNCHANGED type /\ \A c \in Bus : SameInLot(c)
  BY <1>9 DEF NudgeLeave, PostCannotParkEvent
<1>10. ASSUME NEW b \in Bus, BeginLeaving(b)
      PROVE  UNCHANGED type /\ \A c \in Bus : SameInLot(c)
  BY <1>10 DEF BeginLeaving
<1>11. ASSUME NEW b \in Bus, EndLeaving(b) PROVE Lot!Next
  BY <1>11, ExitStep
<1>12. ASSUME NEW b \in Bus, NudgeLeft(b)
      PROVE  UNCHANGED type /\ \A c \in Bus : SameInLot(c)
  BY <1>12 DEF NudgeLeft, PostCannotLeaveEvent
<1>13. ASSUME TakeRequest
      PROVE  UNCHANGED type /\ \A c \in Bus : SameInLot(c)
  BY <1>13 DEF TakeRequest
<1>14. ASSUME NoLeavePending
      PROVE  UNCHANGED type /\ \A c \in Bus : SameInLot(c)
  BY <1>14 DEF NoLeavePending
<1>15. ASSUME GrantLeave PROVE Lot!Next
  BY <1>15, ReleaseStep
<1>16. ASSUME AnotherRequest
      PROVE  UNCHANGED type /\ \A c \in Bus : SameInLot(c)
  BY <1>16 DEF AnotherRequest
<1>17. ASSUME Refill
      PROVE  UNCHANGED type /\ \A c \in Bus : SameInLot(c)
  BY <1>17, RefillIdle
<1>18. ASSUME RefuseLeave
      PROVE  UNCHANGED type /\ \A c \in Bus : SameInLot(c)
  BY <1>18 DEF RefuseLeave
<1>19. ASSUME OnlyLeave
      PROVE  UNCHANGED type /\ \A c \in Bus : SameInLot(c)
  BY <1>19 DEF OnlyLeave
<1>20. ASSUME DrainLeaveEvent
      PROVE  UNCHANGED type /\ \A c \in Bus : SameInLot(c)
  BY <1>20 DEF DrainLeaveEvent
<1>21. ASSUME WaitLeaveEvent
      PROVE  UNCHANGED type /\ \A c \in Bus : SameInLot(c)
  BY <1>21 DEF WaitLeaveEvent
<1>22. ASSUME SkipArrival
      PROVE  UNCHANGED type /\ \A c \in Bus : SameInLot(c)
  BY <1>22 DEF SkipArrival, NextStage
<1>23. ASSUME GrantArrival PROVE Lot!Next
  BY <1>23, AdmitStep
<1>24. ASSUME NoSpot
      PROVE  UNCHANGED type /\ \A c \in Bus : SameInLot(c)
  BY <1>24 DEF NoSpot, ArrivalCandidate, ParkPermit, NextStage
<1>25. ASSUME RefuseArrival
      PROVE  UNCHANGED type /\ \A c \in Bus : SameInLot(c)
  BY <1>25 DEF RefuseArrival, ArrivalCandidate
<1>26. ASSUME OnlyArrival
      PROVE  UNCHANGED type /\ \A c \in Bus : SameInLot(c)
  BY <1>26 DEF OnlyArrival
<1>27. ASSUME DrainParkEvent
      PROVE  UNCHANGED type /\ \A c \in Bus : SameInLot(c)
  BY <1>27 DEF DrainParkEvent
<1>28. ASSUME WaitParkEvent
      PROVE  UNCHANGED type /\ \A c \in Bus : SameInLot(c)
  BY <1>28 DEF WaitParkEvent
<1>29. CASE UNCHANGED vars
  <2> UNCHANGED type /\ \A c \in Bus : SameInLot(c)
    BY <1>29
  <2> QED BY StutterStep
<1> QED BY <1>1, <1>2, <1>3, <1>4, <1>5, <1>6, <1>7, <1>8, <1>9, <1>10, <1>11,
      <1>12, <1>13, <1>14, <1>15, <1>16, <1>17, <1>18, <1>19, <1>20, <1>21,
      <1>22, <1>23, <1>24, <1>25, <1>26, <1>27, <1>28, <1>29, StutterStep DEF
      Next, BusStep, ManagerStep

\* The semaphore protocol implements the parking lot.
THEOREM ImplementsLot == Spec => LotSpec
<1>1. Spec => Lot!Init
  BY LotInit DEF Spec
<1>2. IInv /\ [Next]_vars => [Lot!Next]_Lot!vars
  BY StepRefines
<1> QED BY IInvInductive, <1>1, <1>2, PTL DEF Spec, LotSpec, Lot!Spec
===============================================================================
