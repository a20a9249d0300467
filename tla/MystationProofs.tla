--------------------------- MODULE MystationProofs ---------------------------
(***************************************************************************)
(* Proofs about mystation, for any number of buses.                        *)
(*                                                                         *)
(* Module Shutdown: the type invariant, that mystation stops cleanly after *)
(* a character or a fork() that failed, and that a forced exit has an      *)
(* error as its cause.  CleanStop speaks of the next call and of the end.  *)
(* It is inductive only with what holds of the whole list of calls that is *)
(* left: the children it names are there to be waited for, every such      *)
(* child is waited for in it, and after its waitpid() a child is named no  *)
(* more (CallsInv).  That the lists the code builds are of this kind takes *)
(* in turn what has been created when each of them is built (CreationInv). *)
(*                                                                         *)
(* Module PlateList: the list of plates stays ordered and has no plate     *)
(* three times, for every set of plates.  The argument is about one        *)
(* insertion: the nodes before the new one are not smaller, those behind   *)
(* it are smaller, and at most the first node is equal.                    *)
(***************************************************************************)
EXTENDS Shutdown, PlateList, SequenceTheorems, WellFoundedInduction, TLAPS

-------------------------------------------------------------------------------
(* The inductive invariant. *)

Starting == {"manager", "flag1", "comptroller", "flag2", "buses", "getchar"}
Stopping == {"stopping", "done"}

\* startStation() has made no list of calls before it stops the station.
PhaseInv ==
  /\ pc \in Starting => why = "running" /\ plan = <<>>
  /\ pc = "done" => plan = <<>>

\* The children are created in the order of the code, and mystation waits for
\* none before it stops the station.
CreationInv ==
  pc \in Starting =>
    /\ \A c \in Child : child[c] # "reaped"
    /\ child[Manager] = "none" <=> pc = "manager"
    /\ child[Comptroller] = "none" <=>
         pc \in {"manager", "flag1", "comptroller"}
    /\ \A b \in Bus : child[b] = "none" <=> b > created
    /\ pc \notin {"buses", "getchar"} => created = 0
    /\ pc = "getchar" => created = Buses

\* There is something to wait for.
ToReap(c) == child[c] \notin {"none", "reaped"}

\* In a list of calls no child is named any more once it has been waited for.
WaitsAreLast(calls) ==
  \A i, j \in 1 .. Len(calls) :
    i < j /\ calls[i][1] = "wait" => calls[j][2] # calls[i][2]
Names(calls) == {calls[i][2] : i \in 1 .. Len(calls)}
Waits(calls) ==
  {c \in Child : \E i \in 1 .. Len(calls) : calls[i] = <<"wait", c>>}

CallsInv ==
  pc \in Stopping /\ why \in {"character", "fork"} =>
    /\ WaitsAreLast(plan)
    /\ \A c \in Names(plan) : c \in Child /\ ToReap(c)
    /\ \A c \in Child : ToReap(c) => c \in Waits(plan)

\* SIGUSR1 reaches mystation from a child in trouble, or when it is stopping the
\* station and has told its children so.
CauseInv ==
  /\ flag => failed \/ pc \in Stopping
  /\ \A c \in Child : cflag[c] => pc \in Stopping
  /\ why = "flag" => failed

IInv ==
  /\ TypeOK
  /\ PhaseInv
  /\ CreationInv
  /\ CallsInv
  /\ CauseInv

-------------------------------------------------------------------------------
(* Lists of calls. *)

\* A list that tells each child of a set to stop and then waits for it.
StopsAll(calls, S) ==
  /\ calls \in Seq(Calls)
  /\ WaitsAreLast(calls)
  /\ Names(calls) = S
  /\ \A c \in S : \E i \in 1 .. Len(calls) : calls[i] = <<"wait", c>>

\* The buses and the two other children are different pids.
LEMMA ChildrenDiffer ==
  /\ Manager # Comptroller /\ Manager \notin Bus /\ Comptroller \notin Bus
  /\ Manager \in Child /\ Comptroller \in Child /\ Bus \subseteq Child
  /\ Stray \notin Child
BY BusesAssumption, ChildAssumption DEF Child, Bus, Stray

\* killAndWait() for one child.
LEMMA StopStopsOne ==
  ASSUME NEW c \in Child
  PROVE  StopsAll(Stop(c), {c})
<1>1. /\ Len(Stop(c)) = 2
      /\ Stop(c)[1] = <<"kill", c>> /\ Stop(c)[2] = <<"wait", c>>
  BY DEF Stop
<1>2. Stop(c) \in Seq(Calls)
  BY DEF Stop, Calls
<1>3. WaitsAreLast(Stop(c))
  BY <1>1 DEF WaitsAreLast
<1>4. Names(Stop(c)) = {c}
  BY <1>1 DEF Names
<1> QED BY <1>1, <1>2, <1>3, <1>4 DEF StopsAll

\* killAndWait() for the first n buses, one after the other.
LEMMA StopBusesStopsAll ==
  ASSUME NEW n \in 0 .. Buses
  PROVE  StopsAll(StopBuses(n), 1 .. n)
<1> USE BusesAssumption
<1>1. /\ StopBuses(n) \in Seq(Calls) /\ Len(StopBuses(n)) = 2 * n
      /\ \A k \in 1 .. 2 * n :
           StopBuses(n)[k]
           = <<IF k % 2 = 1 THEN "kill" ELSE "wait", (k + 1) \div 2>>
  <2>1. \A k \in 1 .. 2 * n : (k + 1) \div 2 \in Bus
    BY DEF Bus
  <2>2. \A k \in 1 .. 2 * n :
          <<IF k % 2 = 1 THEN "kill" ELSE "wait", (k + 1) \div 2>> \in Calls
    BY <2>1 DEF Calls, Child
  <2> QED BY <2>2 DEF StopBuses
<1>2. WaitsAreLast(StopBuses(n))
  <2> SUFFICES ASSUME NEW i \in 1 .. 2 * n, NEW j \in 1 .. 2 * n,
                      i < j, StopBuses(n)[i][1] = "wait"
               PROVE  StopBuses(n)[j][2] # StopBuses(n)[i][2]
    BY <1>1 DEF WaitsAreLast
  <2>1. i % 2 = 0
    BY <1>1
  <2>2. (j + 1) \div 2 # (i + 1) \div 2
    BY <2>1
  <2> QED BY <1>1, <2>2
<1>3. Names(StopBuses(n)) = 1 .. n
  <2>1. \A k \in 1 .. 2 * n : (k + 1) \div 2 \in 1 .. n
    OBVIOUS
  <2>2. \A b \in 1 .. n : 2 * b \in 1 .. 2 * n /\ (2 * b + 1) \div 2 = b
    OBVIOUS
  <2> QED BY <1>1, <2>1, <2>2 DEF Names
<1>4. ASSUME NEW b \in 1 .. n
      PROVE  \E i \in 1 .. 2 * n : StopBuses(n)[i] = <<"wait", b>>
  <2>1. 2 * b \in 1 .. 2 * n /\ (2 * b + 1) \div 2 = b /\ (2 * b) % 2 = 0
    OBVIOUS
  <2>2. PICK k \in 1 .. 2 * n : k = 2 * b
    BY <2>1
  <2>3. StopBuses(n)[k]
        = <<IF k % 2 = 1 THEN "kill" ELSE "wait", (k + 1) \div 2>>
    BY <1>1
  <2>4. k % 2 # 1 /\ (k + 1) \div 2 = b
    BY <2>1, <2>2
  <2> QED BY <2>3, <2>4
<1> QED BY <1>1, <1>2, <1>3, <1>4 DEF StopsAll

\* A child of the second list is not named in the first.
LEMMA StopsBoth ==
  ASSUME NEW first, NEW S, StopsAll(first, S),
         NEW second, NEW T, StopsAll(second, T), S \cap T = {}
  PROVE  StopsAll(first \o second, S \cup T)
<1> DEFINE m == Len(first)
           n == Len(second)
           both == first \o second
<1> USE DEF StopsAll
<1>1. /\ m \in Nat /\ n \in Nat
      /\ both \in Seq(Calls) /\ Len(both) = m + n
      /\ \A k \in 1 .. m : both[k] = first[k]
      /\ \A k \in 1 .. n : both[m + k] = second[k]
  OBVIOUS
<1>2. \A k \in 1 .. m + n :
        \/ k \in 1 .. m /\ both[k] = first[k] /\ both[k][2] \in S
        \/ k - m \in 1 .. n /\ both[k] = second[k - m] /\ both[k][2] \in T
  <2>1. \A k \in 1 .. m : first[k][2] \in S
    BY DEF Names
  <2>2. \A k \in 1 .. n : second[k][2] \in T
    BY DEF Names
  <2> HIDE DEF StopsAll, m, n, both
  <2> TAKE k \in 1 .. m + n
  <2>3. CASE k \in 1 .. m
    BY <1>1, <2>1, <2>3
  <2>4. CASE k \notin 1 .. m
    <3>1. k - m \in 1 .. n /\ m + (k - m) = k
      BY <1>1, <2>4
    <3>2. both[m + (k - m)] = second[k - m]
      BY <1>1, <3>1
    <3> QED
      BY <2>2, <3>1, <3>2
  <2> QED
    BY <2>3, <2>4
<1> HIDE DEF both
<1>3. WaitsAreLast(both)
  <2> SUFFICES ASSUME NEW i \in 1 .. m + n, NEW j \in 1 .. m + n,
                      i < j, both[i][1] = "wait"
               PROVE  both[j][2] # both[i][2]
    BY <1>1 DEF WaitsAreLast
  <2>1. CASE j <= m
    <3>1. /\ i \in 1 .. m /\ j \in 1 .. m
          /\ both[i] = first[i] /\ both[j] = first[j]
      BY <1>1, <2>1
    <3>2. WaitsAreLast(first)
      OBVIOUS
    <3> QED BY <3>1, <3>2 DEF WaitsAreLast, m
  <2>2. CASE i > m
    <3>1. i - m \in 1 .. n /\ j - m \in 1 .. n /\ i - m < j - m
      BY <1>1, <2>2
    <3>2. both[i] = second[i - m] /\ both[j] = second[j - m]
      BY <1>2, <3>1, <2>2
    <3> QED BY <3>1, <3>2 DEF WaitsAreLast
  <2>3. CASE i <= m /\ j > m
    BY <1>1, <1>2, <2>3
  <2> QED BY <1>1, <2>1, <2>2, <2>3
<1>4. Names(both) = S \cup T
  <2>1. Names(both) \subseteq S \cup T
    <3> SUFFICES ASSUME NEW i \in 1 .. Len(both)
                 PROVE  both[i][2] \in S \cup T
      BY DEF Names
    <3>1. i \in 1 .. m + n
      BY <1>1
    <3> QED BY <1>2, <3>1
  <2>2. ASSUME NEW c \in S PROVE c \in Names(both)
    <3>1. PICK k \in 1 .. m : first[k] = <<"wait", c>>
      OBVIOUS
    <3>2. k \in 1 .. m + n /\ both[k][2] = c
      BY <1>1, <3>1
    <3> QED BY <1>1, <3>2 DEF Names
  <2>3. ASSUME NEW c \in T PROVE c \in Names(both)
    <3>1. PICK k \in 1 .. n : second[k] = <<"wait", c>>
      OBVIOUS
    <3>2. m + k \in 1 .. m + n /\ both[m + k][2] = c
      BY <1>1, <3>1
    <3> QED BY <1>1, <3>2 DEF Names
  <2> QED BY <2>1, <2>2, <2>3
<1>5. ASSUME NEW c \in S \cup T
      PROVE  \E i \in 1 .. m + n : both[i] = <<"wait", c>>
  <2>1. CASE c \in S
    <3>1. PICK k \in 1 .. m : first[k] = <<"wait", c>>
      BY <2>1
    <3>2. k \in 1 .. m + n
      BY <1>1
    <3> QED BY <1>1, <3>1, <3>2
  <2>2. CASE c \in T
    <3>1. PICK k \in 1 .. n : second[k] = <<"wait", c>>
      BY <2>2
    <3>2. m + k \in 1 .. m + n
      BY <1>1
    <3> QED BY <1>1, <3>1, <3>2
  <2> QED BY <2>1, <2>2
<1> QED BY <1>1, <1>3, <1>4, <1>5 DEF both

\* The list for a character at the terminal names every child.
LEMMA CharacterStopsAll == StopsAll(StopBuses(Buses) \o StopOthers, Child)
<1>1. StopsAll(StopOthers, {Manager} \cup {Comptroller})
  BY StopStopsOne, StopsBoth, ChildrenDiffer DEF StopOthers
<1>2. StopsAll(StopBuses(Buses), Bus)
  BY BusesAssumption, StopBusesStopsAll DEF Bus
<1>3. Bus \cup ({Manager} \cup {Comptroller}) = Child
  BY DEF Child
<1>4. Bus \cap ({Manager} \cup {Comptroller}) = {}
  BY ChildrenDiffer
<1> QED BY <1>1, <1>2, <1>3, <1>4, StopsBoth

\* So does the list for a bus that cannot be created, for the children there
\* are.
LEMMA ForkFailureStopsAll ==
  ASSUME NEW n \in 0 .. Buses
  PROVE  StopsAll(Stop(Comptroller) \o Stop(Manager) \o StopBuses(n),
                  ({Comptroller} \cup {Manager}) \cup (1 .. n))
<1>1. StopsAll(Stop(Comptroller) \o Stop(Manager), {Comptroller} \cup {Manager})
  BY StopStopsOne, StopsBoth, ChildrenDiffer
<1>2. StopsAll(StopBuses(n), 1 .. n)
  BY StopBusesStopsAll
<1>3. ({Comptroller} \cup {Manager}) \cap (1 .. n) = {}
  BY BusesAssumption, ChildrenDiffer DEF Bus
<1> QED BY <1>1, <1>2, <1>3, StopsBoth

\* The lists of a forced exit are made of calls too.
LEMMA ForcedCalls ==
  ASSUME NEW n \in 0 .. Buses
  PROVE  /\ StopStrays(n) \o StopOthers \in Seq(Calls)
         /\ Stop(Manager) \in Seq(Calls)
         /\ << <<"kill", Manager>>, <<"kill", Comptroller>>,
               <<"wait", Manager>>, <<"wait", Comptroller>> >> \in Seq(Calls)
<1> USE BusesAssumption, ChildrenDiffer DEF Calls, Stop
<1>1. StopStrays(n) \in Seq(Calls)
  BY DEF StopStrays
<1>2. StopOthers \in Seq(Calls)
  BY DEF StopOthers
<1> QED BY <1>1, <1>2

-------------------------------------------------------------------------------
(* Steps. *)

\* A list that stops all there is to wait for begins the stop as CallsInv has
\* it.
LEMMA PlanStopsAll ==
  ASSUME TypeOK, NEW calls, NEW S, StopsAll(calls, S), NEW reason,
         Plan(reason, calls),
         S = {c \in Child : ToReap(c)}
  PROVE  CallsInv' /\ plan' \in Seq(Calls)
<1>1. plan' = calls /\ UNCHANGED child
  BY DEF Plan
<1> QED BY <1>1 DEF StopsAll, CallsInv, ToReap, Names, Waits

\* A call is taken off the list.
LEMMA NextCall ==
  ASSUME plan \in Seq(Calls), plan # <<>>, plan' = Tail(plan)
  PROVE  /\ Head(plan) = plan[1] /\ 1 \in 1 .. Len(plan)
         /\ Head(plan)[1] \in {"kill", "wait"}
         /\ Head(plan)[2] \in Child \cup {Stray}
         /\ plan' \in Seq(Calls)
         /\ Len(plan') = Len(plan) - 1
         /\ \A k \in 1 .. Len(plan') :
              k + 1 \in 1 .. Len(plan) /\ plan'[k] = plan[k + 1]
         /\ \A k \in 2 .. Len(plan) :
              k - 1 \in 1 .. Len(plan') /\ plan'[k - 1] = plan[k]
<1>1. Head(plan) = plan[1] /\ plan[1] \in Calls /\ Len(plan) \in Nat \ {0}
  OBVIOUS
<1>2. Tail(plan) \in Seq(Calls) /\ Len(Tail(plan)) = Len(plan) - 1
  OBVIOUS
<1>3. \A k \in 1 .. Len(plan) - 1 : Tail(plan)[k] = plan[k + 1]
  OBVIOUS
<1> QED BY <1>1, <1>2, <1>3 DEF Calls

\* A signal makes no child appear and reaps none.
LEMMA SignalKeeps ==
  ASSUME TypeOK, NEW S, Signal(S)
  PROVE  /\ child' \in [Child -> ChildState]
         /\ \A c \in Child :
              /\ child'[c] = "none" <=> child[c] = "none"
              /\ child'[c] = "reaped" <=> child[c] = "reaped"
<1>1. \A c \in Child :
        \/ child'[c] = child[c]
        \/ /\ child'[c] \in {"gone", "running", "checked"}
           /\ child[c] \notin {"none", "reaped"}
  <2>1. PICK Q \in SUBSET {c \in S : MayGiveUp(c)} :
          child' = [c \in Child |-> IF c \in S THEN AfterSignal(c, c \in Q)
                                                ELSE child[c]]
    BY DEF Signal
  <2>2. \A c \in Q : child[c] \notin {"none", "reaped"}
    BY DEF MayGiveUp
  <2> QED BY <2>1, <2>2 DEF AfterSignal
<1>2. child' = [c \in Child |-> child'[c]]
  BY DEF Signal
<1> QED BY <1>1, <1>2 DEF TypeOK, ChildState

\* What every step but fork() and waitpid() leaves: the children there are, and
\* those that were waited for.
SameChildren ==
  \A c \in Child :
    /\ child'[c] = "none" <=> child[c] = "none"
    /\ child'[c] = "reaped" <=> child[c] = "reaped"

\* A step of a child moves that child only, and touches mystation by its flag
\* only: because the child had an error, or has been told to stop.
LEMMA ChildMoves ==
  ASSUME IInv, NEW c \in Child, ChildRuns(c) \/ Fail(c) \/ Wake(c)
  PROVE  /\ UNCHANGED <<pc, created, plan, why, strayPid, cflag, lost,
                        told>>
         /\ child' \in [Child -> ChildState] /\ SameChildren
         /\ flag' \in BOOLEAN /\ failed' \in BOOLEAN
         /\ failed => failed'
         /\ flag' => flag \/ failed' \/ cflag[c]
<1> DEFINE Moves ==
             \E from, to \in ChildState \ {"none", "reaped"} : Goes(c, from, to)
<1>1. CASE Fail(c)
  <2>1. Moves
    BY <1>1 DEF Fail, Goes, ChildState
  <2> QED BY <1>1, <2>1
          DEF Fail, TellParent, Goes, IInv, TypeOK, SameChildren
<1>2. CASE Wake(c)
  BY <1>2 DEF Wake, Quietly, parent, ChildState, Goes, IInv, TypeOK,
              SameChildren
<1>3. CASE ChildRuns(c)
  <2>1. CASE CheckFlag(c)
    <3>1. Moves
      BY <2>1 DEF CheckFlag, ChildState
    <3> QED BY <2>1, <3>1
            DEF CheckFlag, Quietly, parent, TellParent, Goes, IInv, TypeOK,
                SameChildren
  <2>2. CASE ~CheckFlag(c)
    <3>1. Moves /\ Quietly
      BY <1>3, <2>2, ChildrenDiffer
         DEF ChildRuns, Exec, InstallHandler, Started, TestFlag, TakeStatusLeave,
             Finish, Work, FallAsleep, TakeBays, CountInStats, LeaveBays,
             WantStatus, TakeStatus, LeaveStatus, ChildState
    <3> QED BY <3>1 DEF Quietly, parent, Goes, IInv, TypeOK, SameChildren
  <2> QED BY <2>1, <2>2
<1> QED BY <1>1, <1>2, <1>3

\* While the set of children stays, so do the facts about their creation.
LEMMA CreationKept ==
  ASSUME CreationInv, SameChildren, UNCHANGED <<pc, created>>
  PROVE  CreationInv'
BY ChildrenDiffer DEF CreationInv, SameChildren

\* ... and about the list of calls.
LEMMA CallsKept ==
  ASSUME CallsInv, SameChildren, UNCHANGED <<pc, why, plan>>
  PROVE  CallsInv'
BY DEF CallsInv, SameChildren, ToReap, Waits, Names

\* The children make steps of that kind.
LEMMA ChildStep ==
  ASSUME IInv, NEW c \in Child, ChildRuns(c) \/ Fail(c) \/ Wake(c)
  PROVE  IInv'
<1>1. TypeOK'
  BY ChildMoves DEF IInv, TypeOK
<1>2. PhaseInv'
  BY ChildMoves DEF IInv, PhaseInv
<1>3. CreationInv' /\ CallsInv'
  BY ChildMoves, CreationKept, CallsKept DEF IInv
<1>4. CauseInv'
  BY ChildMoves DEF IInv, CauseInv, TypeOK
<1> QED BY <1>1, <1>2, <1>3, <1>4 DEF IInv

\* fork() for the manager, the comptroller or the next bus.
LEMMA ForkStep ==
  ASSUME IInv, ForkManager \/ ForkComptroller \/ ForkBus
  PROVE  IInv'
<1> USE BusesAssumption, ChildrenDiffer DEF IInv
<1>1. PICK c \in Child, next \in {"flag1", "flag2", "buses"} :
        /\ Fork(c, next) /\ pc \in Starting
        /\ \/ /\ c = Manager /\ pc = "manager" /\ next = "flag1"
              /\ UNCHANGED created
           \/ /\ c = Comptroller /\ pc = "comptroller" /\ next = "flag2"
              /\ UNCHANGED created
           \/ /\ c \in Bus /\ pc = "buses" /\ next = "buses"
              /\ created < Buses /\ c = created + 1 /\ created' = created + 1
  BY DEF ForkManager, ForkComptroller, ForkBus, Starting, Bus, TypeOK
<1>2. TypeOK'
  BY <1>1 DEF Fork, TypeOK, ChildState
<1>3. PhaseInv' /\ CauseInv' /\ CallsInv'
  BY <1>1 DEF Fork, PhaseInv, CauseInv, CallsInv, Starting, Stopping
<1>4. CreationInv'
  <2>1. \A b \in Bus : b \in Int /\ created \in Int
    BY DEF Bus, TypeOK
  <2> QED BY <1>1, <2>1 DEF Fork, CreationInv, Starting, TypeOK
<1> QED BY <1>2, <1>3, <1>4

\* mystation tests its flag, or goes on to wait for a character.
LEMMA OnwardStep ==
  ASSUME IInv, UNCHANGED <<flag, created, plan, why, strayPid, child, cflag,
                           lost, told, failed>>,
         \/ pc = "flag1" /\ pc' = "comptroller"
         \/ pc = "flag2" /\ pc' = "buses"
         \/ pc = "buses" /\ pc' = "getchar" /\ created = Buses
         \/ pc = "stopping" /\ pc' = "done" /\ plan = <<>>
  PROVE  IInv'
BY DEF IInv, TypeOK, PhaseInv, CreationInv, CallsInv, CauseInv, Starting,
   Stopping, ToReap, Names, Waits, WaitsAreLast

\* The children created before each list of calls is made.
LEMMA ChildrenSoFar ==
  ASSUME IInv
  PROVE  /\ pc = "manager" => {c \in Child : ToReap(c)} = {}
         /\ pc = "comptroller" => {c \in Child : ToReap(c)} = {Manager}
         /\ pc = "buses" => {c \in Child : ToReap(c)}
                            = ({Comptroller} \cup {Manager}) \cup 1 .. created
         /\ pc = "getchar" => {c \in Child : ToReap(c)} = Child
<1> USE BusesAssumption, ChildrenDiffer DEF IInv, CreationInv, ToReap, Starting
<1>1. created \in 0 .. Buses
  BY DEF TypeOK
<1>2. \A c \in Child : c = Manager \/ c = Comptroller \/ c \in Bus
  BY DEF Child
<1>3. CASE pc = "manager"
  BY <1>1, <1>2, <1>3 DEF Bus
<1>4. CASE pc = "comptroller"
  BY <1>1, <1>2, <1>4 DEF Bus
<1>5. CASE pc = "buses"
  <2>1. /\ 1 .. created \subseteq Bus
        /\ \A b \in Bus : b \in 1 .. created <=> ~(b > created)
    BY <1>1 DEF Bus
  <2>2. \A c \in Child : ToReap(c) <=>
          c = Manager \/ c = Comptroller \/ c \in 1 .. created
    BY <1>2, <1>5, <2>1
  <2> QED BY <1>5, <2>1, <2>2
<1>6. CASE pc = "getchar"
  BY <1>1, <1>2, <1>6 DEF Bus
<1> QED BY <1>3, <1>4, <1>5, <1>6

\* mystation begins to stop the station.
LEMMA PlanStep ==
  ASSUME IInv, NEW reason, NEW calls \in Seq(Calls), Plan(reason, calls),
         pc \in Starting,
         \/ reason = "flag" /\ flag
         \/ /\ reason \in {"fork", "character"}
            /\ StopsAll(calls, {c \in Child : ToReap(c)})
  PROVE  IInv'
<1> USE DEF IInv
<1>1. TypeOK' /\ PhaseInv' /\ CreationInv'
  BY DEF TypeOK, PhaseInv, CreationInv, Plan, Starting
<1>2. CallsInv'
  <2>1. CASE reason = "flag"
    BY <2>1 DEF Plan, CallsInv
  <2>2. CASE reason # "flag"
    BY <2>2, PlanStopsAll
  <2> QED BY <2>1, <2>2
<1>3. CauseInv'
  BY DEF Plan, CauseInv, Stopping, Starting
<1> QED BY <1>1, <1>2, <1>3

\* Every way it does.
LEMMA StopStep ==
  ASSUME IInv,
         \/ ForkManagerFails \/ ForkComptrollerFails \/ ForkBusFails
         \/ ForceExit \/ Character
         \/ (TestFlag1 /\ flag) \/ (TestFlag2 /\ flag)
  PROVE  IInv'
<1> USE DEF Starting
<1>0. created \in 0 .. Buses
  BY DEF IInv, TypeOK
<1>1. CASE ForkManagerFails
  <2>1. StopsAll(<<>>, {})
    BY DEF StopsAll, WaitsAreLast, Names
  <2> QED BY <1>1, <2>1, ChildrenSoFar, PlanStep DEF ForkManagerFails, StopsAll
<1>2. CASE ForkComptrollerFails
  BY <1>2, StopStopsOne, ChildrenDiffer, ChildrenSoFar, PlanStep
     DEF ForkComptrollerFails, StopsAll
<1>3. CASE ForkBusFails
  BY <1>0, <1>3, ForkFailureStopsAll, ChildrenSoFar, PlanStep
     DEF ForkBusFails, StopsAll
<1>4. CASE Character
  BY <1>4, CharacterStopsAll, ChildrenSoFar, PlanStep DEF Character, StopsAll
<1>5. CASE ForceExit
  BY <1>0, <1>5, ForcedCalls, PlanStep DEF ForceExit
<1>6. CASE TestFlag1 /\ flag
  BY <1>0, <1>6, ForcedCalls, PlanStep DEF TestFlag1
<1>7. CASE TestFlag2 /\ flag
  BY <1>0, <1>7, ForcedCalls, PlanStep DEF TestFlag2
<1> QED BY <1>1, <1>2, <1>3, <1>4, <1>5, <1>6, <1>7

\* kill() leaves the list of calls as good as it was.
LEMMA KillStep ==
  ASSUME IInv, Kill
  PROVE  IInv'
<1> USE DEF IInv, Kill
<1>1. /\ plan \in Seq(Calls) /\ plan # <<>> /\ plan' = Tail(plan)
      /\ pc \in Stopping /\ pc = "stopping"
  BY DEF TypeOK, PhaseInv, Starting, Stopping
<1>2. child' \in [Child -> ChildState] /\ SameChildren
  BY SignalKeeps DEF SameChildren
<1>3. TypeOK'
  <2>1. /\ cflag' \in [Child -> BOOLEAN] /\ lost' \subseteq {"bays", "status"}
        /\ told' \subseteq Child
    <3>1. Targets(Head(plan)[2]) \subseteq Child
      BY <1>1, NextCall DEF Targets
    <3> QED BY <3>1 DEF Signal, Keeps, TypeOK
  <2> QED BY <1>1, <1>2, <2>1, NextCall DEF TypeOK
<1>4. PhaseInv' /\ CreationInv' /\ CauseInv'
  BY <1>1 DEF PhaseInv, CreationInv, CauseInv, Starting, Stopping
<1>5. CallsInv'
  <2> SUFFICES ASSUME why \in {"character", "fork"} PROVE CallsInv'
    BY DEF CallsInv
  <2>1. WaitsAreLast(plan')
    BY <1>1, NextCall DEF CallsInv, WaitsAreLast
  <2>2. \A c \in Names(plan') : c \in Child /\ ToReap(c)'
    BY <1>1, <1>2, NextCall DEF CallsInv, Names, ToReap, SameChildren
  <2>3. ASSUME NEW c \in Child, ToReap(c)' PROVE c \in Waits(plan')
    <3>1. ToReap(c)
      BY <1>2, <2>3 DEF ToReap, SameChildren
    <3>2. PICK i \in 1 .. Len(plan) : plan[i] = <<"wait", c>>
      BY <1>1, <3>1 DEF CallsInv, Waits
    <3>3. i # 1
      BY <1>1, <3>2, NextCall
    <3>4. i - 1 \in 1 .. Len(plan') /\ plan'[i - 1] = plan[i]
      BY <1>1, <3>3, NextCall
    <3> QED BY <3>2, <3>4 DEF Waits
  <2> QED BY <2>1, <2>2, <2>3 DEF CallsInv
<1> QED BY <1>3, <1>4, <1>5

\* waitpid() reaps the child it names, which is named no more.
LEMMA WaitStep ==
  ASSUME IInv, Wait
  PROVE  IInv'
<1> USE DEF IInv, Wait
<1>1. /\ plan \in Seq(Calls) /\ plan # <<>> /\ plan' = Tail(plan)
      /\ pc \in Stopping /\ pc = "stopping"
  BY DEF TypeOK, PhaseInv, Starting, Stopping
<1>2. DEFINE S == Targets(Head(plan)[2])
<1>3. S \subseteq Child
  BY <1>1, NextCall DEF Targets
<1>4. \/ \E c \in S : child[c] = "gone" /\ Reap(c)
      \/ NoChild(S) /\ UNCHANGED child
  OBVIOUS
<1> HIDE DEF S
<1>5. child' \in [Child -> ChildState]
  BY <1>3, <1>4 DEF TypeOK, Reap, ChildState
<1>6. TypeOK'
  BY <1>1, <1>5, NextCall DEF TypeOK
<1>7. PhaseInv' /\ CreationInv' /\ CauseInv'
  BY <1>1 DEF PhaseInv, CreationInv, CauseInv, Starting, Stopping
<1>8. CallsInv'
  <2> SUFFICES ASSUME why \in {"character", "fork"} PROVE CallsInv'
    BY DEF CallsInv
  <2>1. PICK d \in Child : Head(plan) = <<"wait", d>> /\ ToReap(d) /\ S = {d}
    <3>1. Head(plan)[2] \in Names(plan)
      BY <1>1, NextCall DEF Names
    <3>2. Head(plan)[2] \in Child /\ ToReap(Head(plan)[2])
      BY <1>1, <3>1 DEF CallsInv
    <3>3. Head(plan) = <<"wait", Head(plan)[2]>>
      BY <1>1, NextCall DEF Calls
    <3>4. S = {Head(plan)[2]}
      BY <3>2, ChildrenDiffer DEF S, Targets
    <3> QED BY <3>2, <3>3, <3>4
  <2>2. child' = [child EXCEPT ![d] = "reaped"]
    BY <1>4, <2>1 DEF NoChild, ToReap, Reap
  <2>3. \A k \in 1 .. Len(plan') : plan'[k][2] # d
    BY <1>1, <2>1, NextCall DEF CallsInv, WaitsAreLast
  <2>4. WaitsAreLast(plan')
    BY <1>1, NextCall DEF CallsInv, WaitsAreLast
  <2>5. \A c \in Names(plan') : c \in Child /\ ToReap(c)'
    <3>1. \A c \in Names(plan') : c \in Names(plan) /\ c # d
      BY <1>1, <2>3, NextCall DEF Names
    <3> QED BY <1>1, <2>2, <3>1 DEF CallsInv, ToReap, TypeOK
  <2>6. ASSUME NEW c \in Child, ToReap(c)' PROVE c \in Waits(plan')
    <3>1. ToReap(c) /\ c # d
      BY <2>2, <2>6 DEF ToReap, TypeOK
    <3>2. PICK i \in 1 .. Len(plan) : plan[i] = <<"wait", c>>
      BY <1>1, <3>1 DEF CallsInv, Waits
    <3>3. i # 1
      BY <1>1, <2>1, <3>1, <3>2, NextCall
    <3>4. i - 1 \in 1 .. Len(plan') /\ plan'[i - 1] = plan[i]
      BY <1>1, <3>3, NextCall
    <3> QED BY <3>2, <3>4 DEF Waits
  <2> QED BY <2>4, <2>5, <2>6 DEF CallsInv
<1> QED BY <1>6, <1>7, <1>8

-------------------------------------------------------------------------------
(* The theorems. *)

\* IInv holds from the start on and after every step.
THEOREM IInvInductive == Spec => []IInv
<1>1. Init => IInv
  <2> SUFFICES ASSUME Init PROVE IInv
    OBVIOUS
  <2>1. TypeOK
    <3>1. plan \in Seq(Calls)
      BY DEF Init
    <3>2. /\ flag \in BOOLEAN /\ lost \subseteq {"bays", "status"} /\ failed \in BOOLEAN
          /\ cflag \in [Child -> BOOLEAN]
      BY DEF Init
    <3>3. child \in [Child -> ChildState] /\ told \subseteq Child
      BY DEF Init, ChildState
    <3>4. created \in 0 .. Buses
      BY BusesAssumption DEF Init
    <3> QED BY <3>1, <3>2, <3>3, <3>4 DEF Init, TypeOK
  <2>2. PhaseInv /\ CreationInv /\ CallsInv /\ CauseInv
    BY ChildrenDiffer, BusesAssumption
       DEF Init, PhaseInv, CreationInv, CallsInv, CauseInv, Starting, Stopping,
           Bus
  <2> QED BY <2>1, <2>2 DEF IInv
<1>2. IInv /\ [Next]_vars => IInv'
  <2> SUFFICES ASSUME IInv, [Next]_vars PROVE IInv'
    OBVIOUS
  <2>1. CASE ForkManager \/ ForkComptroller \/ ForkBus
    BY <2>1, ForkStep
  <2>2. CASE \/ ForkManagerFails \/ ForkComptrollerFails \/ ForkBusFails
             \/ ForceExit \/ Character
    BY <2>2, StopStep
  <2>3. CASE TestFlag1
    BY <2>3, StopStep, OnwardStep DEF TestFlag1
  <2>4. CASE TestFlag2
    BY <2>4, StopStep, OnwardStep DEF TestFlag2
  <2>5. CASE EndLoop
    BY <2>5, OnwardStep DEF EndLoop
  <2>6. CASE Kill
    BY <2>6, KillStep
  <2>7. CASE Wait
    BY <2>7, WaitStep
  <2>8. CASE Close
    BY <2>8, OnwardStep DEF Close
  <2>9. CASE \E c \in Child : ChildRuns(c) \/ Fail(c) \/ Wake(c)
    BY <2>9, ChildStep
  <2>10. CASE UNCHANGED vars
    <3>1. TypeOK' /\ PhaseInv' /\ CauseInv'
      BY <2>10 DEF vars, parent, IInv, TypeOK, PhaseInv, CauseInv
    <3>2. CreationInv' /\ CallsInv'
      BY <2>10, CreationKept, CallsKept DEF vars, parent, IInv, SameChildren
    <3> QED BY <3>1, <3>2 DEF IInv
  <2> QED BY <2>1, <2>2, <2>3, <2>4, <2>5, <2>6, <2>7, <2>8, <2>9, <2>10
          DEF Next, MystationRuns
<1> QED BY <1>1, <1>2, PTL DEF Spec

\* startStation() and its children stay in their states, and its lists name only
\* pids it has.
THEOREM TypeCorrect == Spec => []TypeOK
<1>1. IInv => TypeOK
  BY DEF IInv
<1> QED BY IInvInductive, <1>1, PTL

\* After a character or a fork() that failed, mystation signals no pid it has
\* waited for, and removes the segment when every child has been waited for.
THEOREM StopsCleanly == Spec => []CleanStop
<1>1. IInv => CleanStop
  <2> SUFFICES ASSUME IInv PROVE CleanStop
    OBVIOUS
  <2>1. StopIsComplete
    BY DEF IInv, StopIsComplete, PhaseInv, CallsInv, Stopping, Waits, ToReap
  <2>2. SignalsOwnChildren
    <3> SUFFICES ASSUME plan # <<>>, why \in {"character", "fork"}
                 PROVE  ToReap(Head(plan)[2])
      BY DEF SignalsOwnChildren, ToReap
    <3>1. pc \in Stopping
      BY DEF IInv, TypeOK, PhaseInv, Starting, Stopping
    <3>2. Head(plan)[2] \in Names(plan)
      BY DEF IInv, TypeOK, Names
    <3> QED BY <3>1, <3>2 DEF IInv, CallsInv
  <2> QED BY <2>1, <2>2 DEF CleanStop
<1> QED BY IInvInductive, <1>1, PTL

\* A forced exit has an error of a child as its cause.
THEOREM ForcedHasError == Spec => []ForcedByError
<1>1. IInv => ForcedByError
  BY DEF IInv, CauseInv, ForcedByError
<1> QED BY IInvInductive, <1>1, PTL

-------------------------------------------------------------------------------
(* PlateList. *)

\* One list: its nodes are ordered, and equal ones are neighbours.
Sorted(s) == \A i, j \in 1 .. Len(s) : i < j => s[j] <= s[i]
Twice(s) == \A i, j \in 1 .. Len(s) : s[i] = s[j] => j <= i + 1

PlatesInv == PlatesTypeOK /\ Sorted(list) /\ Twice(list)

LEMMA BusesNat == Buses \in Nat
  BY BusesAssumption DEF BusesAssumption

LEMMA PlateInt ==
  ASSUME NEW s \in Seq(Plate)
  PROVE  Plate \subseteq Int /\ \A n \in 1 .. Len(s) : s[n] \in Int
<1>1. \A n \in 1 .. Len(s) : s[n] \in Plate
  OBVIOUS
<1>2. QED
  BY <1>1, PlateAssumption DEF PlateAssumption

\* t is s with a new k-th node d.
Placed(t, s, k, d) ==
  /\ t \in Seq(Plate) /\ Len(t) = Len(s) + 1
  /\ t[k] = d
  /\ \A n \in 1 .. Len(s) : t[IF n < k THEN n ELSE n + 1] = s[n]

\* What InsertAt() puts where.
LEMMA InsertAtPlaces ==
  ASSUME NEW s \in Seq(Plate), NEW d \in Plate, NEW k \in 1 .. Len(s)
  PROVE  Placed(InsertAt(s, k, d), s, k, d)
<1> DEFINE l == SubSeq(s, 1, k - 1)
           r == SubSeq(s, k, Len(s))
           m == l \o <<d>>
<1>1. l \in Seq(Plate) /\ Len(l) = k - 1 /\ \A n \in 1 .. k - 1 : l[n] = s[n]
  OBVIOUS
<1>2. /\ r \in Seq(Plate) /\ Len(r) = Len(s) - k + 1
      /\ \A n \in 1 .. Len(s) - k + 1 : r[n] = s[k + n - 1]
  OBVIOUS
<1> HIDE DEF l, r
<1>3. /\ m \in Seq(Plate) /\ Len(m) = k
      /\ \A n \in 1 .. k - 1 : m[n] = s[n]
      /\ m[k] = d
  BY <1>1
<1>4. InsertAt(s, k, d) = m \o r
  BY DEF InsertAt, l, r
<1> HIDE DEF m
<1> DEFINE t == m \o r
<1>5. /\ t \in Seq(Plate) /\ Len(t) = Len(m) + Len(r)
      /\ \A n \in 1 .. Len(m) + Len(r) :
           t[n] = IF n <= Len(m) THEN m[n] ELSE r[n - Len(m)]
  BY <1>2, <1>3, ConcatProperties
<1> HIDE DEF t
<1>6. Len(s) \in Nat /\ k \in Nat /\ Len(t) = Len(s) + 1
  BY <1>2, <1>3, <1>5
<1>7. t[k] = d
  BY <1>2, <1>3, <1>5, <1>6
<1>8. ASSUME NEW n \in 1 .. Len(s)
      PROVE  t[IF n < k THEN n ELSE n + 1] = s[n]
  <2>1. CASE n < k
    <3>1. t[n] = m[n]
      BY <2>1, <1>2, <1>3, <1>5, <1>6
    <3>2. m[n] = s[n]
      BY <2>1, <1>3, <1>6
    <3>3. QED
      BY <2>1, <3>1, <3>2
  <2>2. CASE k <= n
    <3>1. t[n + 1] = r[n + 1 - k]
      BY <2>2, <1>2, <1>3, <1>5, <1>6
    <3>2. r[n + 1 - k] = s[k + (n + 1 - k) - 1]
      BY <2>2, <1>2, <1>6
    <3>3. k + (n + 1 - k) - 1 = n
      BY <1>6
    <3>4. QED
      BY <2>2, <3>1, <3>2, <3>3, <1>6
  <2>3. QED
    BY <2>1, <2>2, <1>6
<1>9. QED
  BY <1>4, <1>5, <1>6, <1>7, <1>8 DEF Placed, t

\* The place for d: the nodes before it are greater, except that the first one
\* may be equal when it is the only one before, and the others are smaller.
Fits(s, k, d) ==
  /\ k \in 1 .. Len(s) + 1
  /\ \A n \in 1 .. Len(s) : n < k => d <= s[n] /\ (s[n] = d => k = n + 1)
  /\ \A n \in 1 .. Len(s) : k <= n => s[n] < d

LEMMA PlacedKeeps ==
  ASSUME NEW s \in Seq(Plate), NEW d \in Plate, NEW t, NEW k,
         Sorted(s), Twice(s), Placed(t, s, k, d), Fits(s, k, d)
  PROVE  Sorted(t) /\ Twice(t)
<1> DEFINE back(n) == IF n < k THEN n ELSE n - 1
<1>1. Len(s) \in Nat /\ k \in 1 .. Len(s) + 1 /\ Len(t) = Len(s) + 1
  BY DEF Placed, Fits
<1>2. d \in Int /\ \A n \in 1 .. Len(s) : s[n] \in Int
  BY PlateInt
<1>3. ASSUME NEW n \in 1 .. Len(t), n # k
      PROVE  back(n) \in 1 .. Len(s) /\ t[n] = s[back(n)]
  <2>1. back(n) \in 1 .. Len(s)
    BY <1>1, <1>3
  <2>2. (IF back(n) < k THEN back(n) ELSE back(n) + 1) = n
    BY <1>1, <1>3
  <2>3. t[IF back(n) < k THEN back(n) ELSE back(n) + 1] = s[back(n)]
    BY <2>1 DEF Placed
  <2>4. QED
    BY <2>1, <2>2, <2>3
<1>4. t[k] = d
  BY DEF Placed
<1>5. ASSUME NEW i \in 1 .. Len(t), NEW j \in 1 .. Len(t), i < j
      PROVE  t[j] <= t[i] /\ (t[i] = t[j] => j = i + 1)
  <2>1. CASE i = k
    <3>1. j # k /\ back(j) \in 1 .. Len(s) /\ k <= back(j) /\ t[j] = s[back(j)]
      BY <1>1, <1>3, <1>5, <2>1
    <3>2. s[back(j)] < d
      BY <3>1 DEF Fits
    <3>3. QED
      BY <1>2, <1>4, <2>1, <3>1, <3>2
  <2>2. CASE j = k
    <3>1. i # k /\ back(i) = i /\ i \in 1 .. Len(s) /\ t[i] = s[i]
      BY <1>1, <1>3, <1>5, <2>2
    <3>2. d <= s[i] /\ (s[i] = d => k = i + 1)
      BY <1>5, <2>2, <3>1 DEF Fits
    <3>3. QED
      BY <1>4, <2>2, <3>1, <3>2
  <2>3. CASE i # k /\ j # k
    <3>1. /\ back(i) \in 1 .. Len(s) /\ t[i] = s[back(i)]
          /\ back(j) \in 1 .. Len(s) /\ t[j] = s[back(j)]
      BY <1>3, <2>3
    <3>2. back(i) < back(j)
      BY <1>1, <1>5, <2>3
    <3>3. s[back(j)] <= s[back(i)]
      BY <3>1, <3>2 DEF Sorted
    <3>4. s[back(i)] = s[back(j)] => back(j) <= back(i) + 1
      BY <3>1 DEF Twice
    <3>5. ASSUME t[i] = t[j] PROVE j = i + 1
      <4>1. ~ (i < k /\ k < j)
        <5> SUFFICES ASSUME i < k, k < j PROVE FALSE
          OBVIOUS
        <5>1. back(i) < k /\ k <= back(j)
          BY <1>1
        <5>2. d <= s[back(i)] /\ s[back(j)] < d
          BY <3>1, <5>1 DEF Fits
        <5>3. QED
          BY <1>2, <3>1, <3>5, <5>2
      <4>2. back(j) <= back(i) + 1
        BY <3>1, <3>4, <3>5
      <4>3. QED
        BY <1>1, <1>5, <2>3, <3>2, <4>1, <4>2
    <3>6. QED
      BY <3>1, <3>3, <3>5
  <2>4. QED
    BY <2>1, <2>2, <2>3
<1>6. Sorted(t)
  BY <1>5 DEF Sorted
<1>7. Twice(t)
  <2> SUFFICES ASSUME NEW i \in 1 .. Len(t), NEW j \in 1 .. Len(t), t[i] = t[j]
               PROVE  j <= i + 1
    BY DEF Twice
  <2>1. CASE i < j
    BY <1>5, <2>1
  <2>2. CASE ~ (i < j)
    BY <1>1, <2>2
  <2>3. QED
    BY <2>1, <2>2
<1>8. QED
  BY <1>6, <1>7

\* A set of natural numbers has a least element.
LEMMA Least ==
  ASSUME NEW S \in SUBSET Nat, S # {}
  PROVE  \E k \in S : \A i \in S : k <= i
<1>1. PICK k \in S : \A i \in S : <<i, k>> \notin OpToRel(<, Nat)
  BY NatLessThanWellFounded, WFMin
<1>2. \A i \in S : ~ (i < k)
  BY <1>1 DEF OpToRel
<1>3. QED
  BY <1>2

\* The node where the loop stops is the first that is not greater.
LEMMA FirstStopValue ==
  ASSUME NEW s \in Seq(Plate), NEW d \in Plate, Stops(s, d) # {}
  PROVE  /\ FirstStop(s, d) \in 2 .. Len(s)
         /\ s[FirstStop(s, d)] <= d
         /\ \A n \in 2 .. FirstStop(s, d) - 1 : d < s[n]
<1>1. Stops(s, d) \in SUBSET Nat
  BY DEF Stops
<1>2. \E k \in Stops(s, d) : \A i \in Stops(s, d) : k <= i
  BY <1>1, Least
<1>3. /\ FirstStop(s, d) \in Stops(s, d)
      /\ \A i \in Stops(s, d) : FirstStop(s, d) <= i
  BY <1>2 DEF FirstStop
<1>4. \A n \in 2 .. FirstStop(s, d) - 1 : n \notin Stops(s, d)
  BY <1>1, <1>3
<1>5. d \in Int /\ \A n \in 1 .. Len(s) : s[n] \in Int
  BY PlateInt
<1>6. QED
  BY <1>3, <1>4, <1>5 DEF Stops, Before

\* insertOrdered() finds the place.
LEMMA InsertedFits ==
  ASSUME NEW s \in Seq(Plate), NEW d \in Plate,
         Sorted(s), Twice(s), ~Refuses(s, d)
  PROVE  \E k \in 1 .. Len(s) + 1 :
           Placed(Inserted(s, d), s, k, d) /\ Fits(s, k, d)
<1> DEFINE t == Inserted(s, d)
<1>1. Len(s) \in Nat /\ d \in Int /\ \A n \in 1 .. Len(s) : s[n] \in Int
  BY PlateInt
<1>2. CASE AtFront(s, d)
  <2>1. t = <<d>> \o s
    BY <1>2 DEF Inserted
  <2>2. Placed(t, s, 1, d)
    BY <2>1 DEF Placed
  <2>3. \A n \in 1 .. Len(s) : s[n] < d
    BY <1>1, <1>2 DEF AtFront, Before, Sorted
  <2>4. Fits(s, 1, d)
    BY <1>1, <2>3 DEF Fits
  <2>5. QED
    BY <1>1, <2>2, <2>4
<1>3. CASE InLoop(s, d)
  <2> DEFINE k == FirstStop(s, d)
  <2>1. k \in 2 .. Len(s) /\ s[k] <= d /\ \A n \in 2 .. k - 1 : d < s[n]
    BY <1>3, FirstStopValue DEF InLoop
  <2>2. s[k] # d
    BY <1>3 DEF Refuses
  <2>3. d <= s[1]
    BY <1>1, <1>3, <2>1 DEF InLoop, AtFront, Before
  <2>4. t = InsertAt(s, k, d)
    BY <1>3 DEF Inserted, InLoop
  <2> HIDE DEF k
  <2>5. Placed(t, s, k, d)
    BY <2>1, <2>4, InsertAtPlaces
  <2>6. ASSUME NEW n \in 1 .. Len(s), n < k
        PROVE  d <= s[n] /\ (s[n] = d => k = n + 1)
    <3>1. CASE n = 1
      <4>1. 2 < k => d < s[2] /\ s[2] <= s[1]
        BY <1>1, <2>1 DEF Sorted
      <4>2. QED
        BY <1>1, <2>1, <2>3, <3>1, <4>1
    <3>2. CASE n # 1
      BY <1>1, <2>1, <2>6, <3>2
    <3>3. QED
      BY <3>1, <3>2
  <2>7. ASSUME NEW n \in 1 .. Len(s), k <= n
        PROVE  s[n] < d
    <3>1. n = k \/ s[n] <= s[k]
      BY <2>1, <2>7 DEF Sorted
    <3>2. QED
      BY <1>1, <2>1, <2>2, <3>1
  <2>8. Fits(s, k, d)
    BY <1>1, <2>1, <2>6, <2>7 DEF Fits
  <2>9. QED
    BY <1>1, <2>1, <2>5, <2>8
<1>4. CASE AtEnd(s, d)
  <2>1. t = Append(s, d)
    BY <1>4 DEF Inserted, AtEnd, InLoop
  <2>2. Placed(t, s, Len(s) + 1, d)
    BY <1>1, <2>1 DEF Placed
  <2>3. Len(s) # 0
    BY <1>4 DEF AtEnd, AtFront
  <2>4. d <= s[Len(s)]
    BY <1>1, <1>4, <2>3 DEF AtEnd, AtFront, Stops, Before
  <2>5. d < s[Len(s)]
    BY <1>1, <1>4, <2>3, <2>4 DEF Refuses
  <2>6. \A n \in 1 .. Len(s) : d < s[n]
    BY <1>1, <2>3, <2>5 DEF Sorted
  <2>7. Fits(s, Len(s) + 1, d)
    BY <1>1, <2>6 DEF Fits
  <2>8. QED
    BY <1>1, <2>2, <2>7
<1>5. QED
  BY <1>2, <1>3, <1>4 DEF InLoop, AtEnd

\* One insertion keeps a sorted list sorted and makes no third equal node.
LEMMA InsertedKeeps ==
  ASSUME NEW s \in Seq(Plate), NEW d \in Plate,
         Sorted(s), Twice(s), ~Refuses(s, d)
  PROVE  /\ Inserted(s, d) \in Seq(Plate)
         /\ Len(Inserted(s, d)) = Len(s) + 1
         /\ Sorted(Inserted(s, d)) /\ Twice(Inserted(s, d))
<1>1. PICK k \in 1 .. Len(s) + 1 :
        Placed(Inserted(s, d), s, k, d) /\ Fits(s, k, d)
  BY InsertedFits
<1>2. Sorted(Inserted(s, d)) /\ Twice(Inserted(s, d))
  BY <1>1, PlacedKeeps
<1>3. QED
  BY <1>1, <1>2 DEF Placed

\* The conjuncts of the inductive invariant hold at first and in every step.
THEOREM PlatesInvInductive == (PlatesInit => PlatesInv) /\ (PlatesInv /\ [PlatesNext]_platesVars => PlatesInv')
<1>1. PlatesInit => PlatesInv
  <2> SUFFICES ASSUME PlatesInit PROVE PlatesInv
    OBVIOUS
  <2>1. list \in Seq(Plate) /\ Len(list) = 0
    BY DEF PlatesInit
  <2>2. PlatesTypeOK
    <3>1. plated \in 0 .. Buses /\ Len(list) = plated
      BY <2>1, BusesNat DEF PlatesInit
    <3>2. refused \in BOOLEAN
      BY DEF PlatesInit
    <3>3. QED
      BY <2>1, <3>1, <3>2, Zenon DEF PlatesTypeOK
  <2>3. Sorted(list) /\ Twice(list)
    BY <2>1 DEF Sorted, Twice
  <2>4. QED
    BY <2>2, <2>3 DEF PlatesInv
<1>2. PlatesInv /\ [PlatesNext]_platesVars => PlatesInv'
  <2> SUFFICES ASSUME PlatesInv, [PlatesNext]_platesVars PROVE PlatesInv'
    OBVIOUS
  <2>1. ASSUME NEW d \in Plate, DrawAgain(d) PROVE PlatesInv'
    BY <2>1 DEF DrawAgain, PlatesInv, PlatesTypeOK, Sorted, Twice
  <2>2. ASSUME NEW d \in Plate, BusExec(d) PROVE PlatesInv'
    <3>1. /\ list' \in Seq(Plate) /\ Len(list') = Len(list) + 1
          /\ Sorted(list') /\ Twice(list')
      BY <2>2, InsertedKeeps DEF BusExec, PlatesInv, PlatesTypeOK
    <3>2. plated \in 0 .. Buses /\ plated < Buses /\ Len(list) = plated
      BY <2>2 DEF BusExec, PlatesInv, PlatesTypeOK
    <3>3. plated' = plated + 1
      BY <2>2 DEF BusExec
    <3>4. plated' \in 0 .. Buses /\ Len(list') = plated'
      BY <3>1, <3>2, <3>3, BusesNat
    <3>5. refused' \in BOOLEAN
      BY <2>2, Zenon DEF BusExec
    <3>6. QED
      BY <3>1, <3>4, <3>5, Zenon DEF PlatesInv, PlatesTypeOK, Sorted, Twice
  <2>3. CASE UNCHANGED platesVars
    BY <2>3 DEF platesVars, PlatesInv, PlatesTypeOK, Sorted, Twice
  <2>4. QED
    BY <2>1, <2>2, <2>3 DEF PlatesNext
<1>3. QED
  BY <1>1, <1>2

LEMMA PlatesAlways == PlatesSpec => []PlatesInv
  BY PlatesInvInductive, PTL DEF PlatesSpec

\* The types are kept, and the list has one node per bus.
THEOREM PlatesTypeCorrect == PlatesSpec => []PlatesTypeOK
<1>1. PlatesInv => PlatesTypeOK
  BY DEF PlatesInv
<1>2. QED
  BY <1>1, PlatesAlways, PTL

\* The list of insertOrdered() is ordered.
THEOREM PlatesOrdered == PlatesSpec => []Ordered
<1>1. PlatesInv => Ordered
  BY DEF PlatesInv, Sorted, Ordered
<1>2. QED
  BY <1>1, PlatesAlways, PTL

\* No plate is given to three buses, however many plates and buses there are.
THEOREM PlatesAtMostTwice == PlatesSpec => []AtMostTwice
<1>1. PlatesInv => AtMostTwice
  BY DEF PlatesInv, Twice, AtMostTwice
<1>2. QED
  BY <1>1, PlatesAlways, PTL

\* The branch of insertOrdered() behind its loop that would link a node before
\* the last one is dead, on every list.
THEOREM LastBranchIsDead == PlatesSpec => []EndIsGreater
<1>1. PlatesInv => EndIsGreater
  <2> SUFFICES ASSUME list \in Seq(Plate), NEW d \in Plate, AtEnd(list, d)
               PROVE  d <= list[Len(list)]
    BY DEF PlatesInv, PlatesTypeOK, EndIsGreater
  <2>1. Len(list) \in Nat /\ Len(list) # 0
    BY DEF AtEnd, AtFront
  <2>2. d \in Int /\ list[1] \in Int /\ list[Len(list)] \in Int
    <3>1. list[1] \in Plate /\ list[Len(list)] \in Plate
      BY <2>1
    <3>2. QED
      BY <3>1, PlateAssumption DEF PlateAssumption
  <2>3. QED
    BY <2>1, <2>2 DEF AtEnd, AtFront, Stops, Before
<1>2. QED
  BY <1>1, PlatesAlways, PTL
===============================================================================
