----------------------------- MODULE SortsProofs -----------------------------
(***************************************************************************)
(* Proofs about Sorts, for arrays of any length: heapsort() and            *)
(* quicksort() end with the records in the order of the column, each there *)
(* once.                                                                   *)
(***************************************************************************)
EXTENDS Sorts, TLAPS, NaturalsInduction, WellFoundedInduction

-------------------------------------------------------------------------------
(* SWAP. *)

LEMMA SwapFacts ==
  ASSUME NEW n \in Nat, NEW a \in [1 .. n -> 1 .. n], NEW k \in 1 .. n, NEW l \in 1 .. n
  PROVE  /\ Swap(a, k, l) \in [1 .. n -> 1 .. n]
         /\ Swap(a, k, l)[k] = a[l]
         /\ Swap(a, k, l)[l] = a[k]
         /\ \A j \in (1 .. n) \ {k, l} : Swap(a, k, l)[j] = a[j]
  BY DEF Swap

-------------------------------------------------------------------------------
(* Types, and the places that the loops look at. *)

HeapTypes ==
  /\ phase \in {"build", "extract"}
  /\ round \in 0 .. size /\ heap \in 0 .. size /\ i \in Nat
  /\ pc = "build" => phase = "build"
  /\ pc = "extract" => phase = "extract"
  /\ pc = "restore" =>
       /\ i \in 1 .. heap
       /\ phase = "build" => heap = size /\ round \in 1 .. i
       /\ phase = "extract" => round >= 2 /\ heap = round - 1

Calls == [start : 1 .. size + 1, end : 0 .. size]

QuickTypes ==
  /\ pending \in Seq(Calls)
  /\ part \in [start : Nat, end : Nat] /\ now \in Nat /\ last \in Nat
  /\ pc = "partition" => /\ 1 <= part.start /\ part.start <= now
                         /\ now <= part.end /\ part.end <= size
                         /\ part.start - 1 <= last /\ last < now

Types ==
  /\ algorithm \in {"h", "q"}
  /\ size \in 0 .. MaxRecords
  /\ column \in [Places -> Values] /\ array \in [Places -> Places]
  /\ pc \in {"build", "extract", "restore", "call", "partition", "done"}
  /\ HeapTypes /\ QuickTypes

LEMMA ValuesAreInts ==
  ASSUME Types
  PROVE  size \in Nat /\ \A k \in 1 .. size : At(array, k) \in Int
<1>1. size \in Nat
  BY SortsAssumption DEF Types
<1>2. ASSUME NEW k \in Places PROVE At(array, k) \in Int
  <2>1. array[k] \in Places
    BY DEF Types
  <2>2. column[array[k]] \in Values
    BY <2>1 DEF Types
  <2> QED
    BY <2>2, SortsAssumption DEF At
<1> QED
  BY <1>1, <1>2 DEF Places

\* Both children of i, when there are any, and the higher one of the three.
LEMMA MaxFacts ==
  ASSUME Types, pc = "restore"
  PROVE  /\ Max \in {i, 2 * i, 2 * i + 1} /\ Max \in 1 .. heap
         /\ At(array, i) <= At(array, Max)
         /\ \A c \in {2 * i, 2 * i + 1} : c <= heap => At(array, c) <= At(array, Max)
         /\ Max # i => At(array, i) < At(array, Max)
<1>1. heap \in Nat /\ i \in 1 .. heap /\ heap <= size /\ size \in Nat
  BY ValuesAreInts DEF Types, HeapTypes
<1> QED
  BY <1>1, ValuesAreInts DEF Max, LeftMax, Higher

LEMMA InitTypes == Init => Types
<1> SUFFICES ASSUME Init PROVE Types
  OBVIOUS
<1>1. size \in Nat /\ size <= MaxRecords
  BY SortsAssumption DEF Init
<1>2. HeapTypes
  BY <1>1 DEF Init, HeapTypes
<1>3. Segment(1, size) \in Calls
  BY <1>1 DEF Segment, Calls
<1>4. QuickTypes
  BY <1>1, <1>3 DEF Init, QuickTypes, Segment
<1> QED
  BY <1>1, <1>2, <1>4, SortsAssumption DEF Init, Types, Places

\* Sequences of calls that are still to be made.
LEMMA PushTwo ==
  ASSUME NEW q \in Seq(Calls), NEW s \in Calls, NEW t \in Calls
  PROVE  /\ <<s, t>> \o q \in Seq(Calls)
         /\ Len(<<s, t>> \o q) = Len(q) + 2
         /\ (<<s, t>> \o q)[1] = s /\ (<<s, t>> \o q)[2] = t
         /\ \A k \in 1 .. Len(q) : (<<s, t>> \o q)[k + 2] = q[k]
  OBVIOUS

LEMMA Pop ==
  ASSUME NEW q \in Seq(Calls), q # <<>>
  PROVE  /\ Tail(q) \in Seq(Calls) /\ Len(Tail(q)) = Len(q) - 1
         /\ Len(q) \in Nat \ {0} /\ Head(q) = q[1] /\ Head(q) \in Calls
         /\ \A k \in 1 .. Len(q) - 1 : Tail(q)[k] = q[k + 1]
  OBVIOUS

\* The other sort leaves the variables of one alone.
LEMMA HeapTypesUntouched ==
  ASSUME Types, UNCHANGED <<size, heapVars>>, pc' \notin {"build", "extract", "restore"}
  PROVE  HeapTypes'
  BY DEF Types, HeapTypes, heapVars

LEMMA QuickTypesUntouched ==
  ASSUME Types, UNCHANGED <<size, quickVars>>, pc' # "partition"
  PROVE  QuickTypes'
<1>1. pending' \in Seq(Calls')
  BY DEF Types, QuickTypes, quickVars, Calls
<1> QED
  BY <1>1 DEF Types, QuickTypes, quickVars

LEMMA ArrayTyped ==
  ASSUME Types, UNCHANGED file,
         \/ UNCHANGED array
         \/ \E k, l \in 1 .. size : array' = Swap(array, k, l)
  PROVE  /\ algorithm' \in {"h", "q"} /\ size' \in 0 .. MaxRecords
         /\ column' \in [Places' -> Values] /\ array' \in [Places' -> Places']
<1>1. array' \in [1 .. size -> 1 .. size]
  <2>1. CASE UNCHANGED array
    BY <2>1 DEF Types, Places
  <2>2. CASE \E k, l \in 1 .. size : array' = Swap(array, k, l)
    <3>1. size \in Nat /\ array \in [1 .. size -> 1 .. size]
      BY ValuesAreInts DEF Types, Places
    <3>2. PICK k, l \in 1 .. size : array' = Swap(array, k, l)
      BY <2>2
    <3> QED
      BY <3>1, <3>2, SwapFacts
  <2> QED
    BY <2>1, <2>2
<1> QED
  BY <1>1 DEF Types, Places, file

LEMMA TypesKept == Types /\ [Next]_vars => Types'
<1> SUFFICES ASSUME Types, [Next]_vars PROVE Types'
  OBVIOUS
<1>0. size \in Nat
  BY ValuesAreInts
<1>1. CASE BuildRound
  <2>1. HeapTypes'
    BY <1>0, <1>1 DEF Types, HeapTypes, BuildRound, file
  <2>2. pc' = "restore" /\ UNCHANGED <<size, quickVars, file, array>>
    BY <1>1 DEF BuildRound, file
  <2> QED
    BY <2>1, <2>2, QuickTypesUntouched, ArrayTyped DEF Types
<1>2. CASE Built
  <2>1. HeapTypes'
    BY <1>0, <1>2 DEF Types, HeapTypes, Built, file
  <2>2. pc' = "extract" /\ UNCHANGED <<size, quickVars, file, array>>
    BY <1>2 DEF Built, file
  <2> QED
    BY <2>1, <2>2, QuickTypesUntouched, ArrayTyped DEF Types
<1>3. CASE SinkDown
  <2>1. Max \in 1 .. heap /\ Max \in {i, 2 * i, 2 * i + 1}
    BY <1>3, MaxFacts DEF SinkDown
  <2>2. i \in 1 .. size /\ Max \in 1 .. size
    BY <1>0, <1>3, <2>1 DEF Types, HeapTypes, SinkDown
  <2>3. HeapTypes'
    BY <1>0, <1>3, <2>1 DEF Types, HeapTypes, SinkDown, file
  <2>4. pc' = "restore" /\ UNCHANGED <<size, quickVars, file>>
        /\ array' = Swap(array, i, Max)
    BY <1>3 DEF Types, SinkDown, file
  <2> QED
    BY <2>2, <2>3, <2>4, QuickTypesUntouched, ArrayTyped DEF Types
<1>4. CASE Restored
  <2>1. HeapTypes'
    BY <1>0, <1>4 DEF Types, HeapTypes, Restored, file
  <2>2. pc' \in {"build", "extract"} /\ UNCHANGED <<size, quickVars, file, array>>
    BY <1>4 DEF Types, HeapTypes, Restored, file
  <2> QED
    BY <2>1, <2>2, QuickTypesUntouched, ArrayTyped DEF Types
<1>5. CASE Extract
  <2>1. 1 \in 1 .. size /\ round \in 1 .. size
    BY <1>0, <1>5 DEF Types, HeapTypes, Extract
  <2>2. HeapTypes'
    BY <1>0, <1>5 DEF Types, HeapTypes, Extract, file
  <2>3. pc' = "restore" /\ UNCHANGED <<size, quickVars, file>>
        /\ array' = Swap(array, 1, round)
    BY <1>5 DEF Extract, file
  <2> QED
    BY <2>1, <2>2, <2>3, QuickTypesUntouched, ArrayTyped DEF Types
<1>6. CASE HeapDone
  <2>1. pc' = "done" /\ UNCHANGED <<size, heapVars, quickVars, file, array>>
    BY <1>6 DEF HeapDone, file
  <2> QED
    BY <2>1, HeapTypesUntouched, QuickTypesUntouched, ArrayTyped DEF Types
<1>7. CASE Skip
  <2>1. pending' \in Seq(Calls)
    BY <1>7, Pop DEF Types, QuickTypes, Skip
  <2>2. pc' = "call" /\ UNCHANGED <<size, heapVars, file, array, part, now, last>>
    BY <1>7 DEF Skip, file
  <2>3. QuickTypes'
    BY <2>1, <2>2 DEF Types, QuickTypes, Calls
  <2> QED
    BY <2>2, <2>3, HeapTypesUntouched, ArrayTyped DEF Types
<1>8. CASE StartPartition
  <2>1. pending' \in Seq(Calls) /\ part' \in Calls
    BY <1>8, Pop DEF Types, QuickTypes, StartPartition
  <2>2. part'.start < part'.end /\ now' = part'.start /\ last' = part'.start - 1
    BY <1>8 DEF StartPartition
  <2>3. pc' = "partition" /\ UNCHANGED <<size, heapVars, file, array>>
    BY <1>8 DEF StartPartition, file
  <2>4. /\ part' \in [start : Nat, end : Nat] /\ now' \in Nat /\ last' \in Nat
        /\ 1 <= part'.start /\ part'.end <= size
    BY <1>0, <2>1, <2>2 DEF Calls
  <2>5. QuickTypes'
    BY <1>0, <2>1, <2>2, <2>3, <2>4 DEF QuickTypes, Calls
  <2> QED
    BY <2>3, <2>5, HeapTypesUntouched, ArrayTyped DEF Types
<1>9. CASE Compare
  <2>1. now \in 1 .. size /\ last + 1 \in 1 .. size
    BY <1>0, <1>9 DEF Types, QuickTypes, Compare
  <2>2. /\ pc = "partition" /\ pc' = "partition" /\ now' = now + 1
        /\ now <= part.end - 1 /\ last' \in {last, last + 1}
        /\ UNCHANGED <<size, heapVars, file, pending, part>>
        /\ \/ UNCHANGED array
           \/ array' = Swap(array, last + 1, now)
    BY <1>9 DEF Compare, file
  <2>3. QuickTypes'
    BY <1>0, <2>2 DEF Types, QuickTypes, Calls
  <2> QED
    BY <2>1, <2>2, <2>3, HeapTypesUntouched, ArrayTyped DEF Types
<1>10. CASE Place
  <2>1. part.end \in 1 .. size /\ last + 1 \in 1 .. size
    BY <1>0, <1>10 DEF Types, QuickTypes, Place
  <2>2. Segment(part.start, last) \in Calls /\ Segment(last + 2, part.end) \in Calls
    BY <1>0, <1>10 DEF Types, QuickTypes, Place, Calls, Segment
  <2>3. pending' \in Seq(Calls)
    BY <1>10, <2>2, PushTwo DEF Types, QuickTypes, Place
  <2>4. /\ pc' = "call" /\ UNCHANGED <<size, heapVars, file, part, now, last>>
        /\ array' = Swap(array, last + 1, part.end)
    BY <1>10 DEF Place, file
  <2>5. QuickTypes'
    BY <2>3, <2>4 DEF Types, QuickTypes, Calls
  <2> QED
    BY <2>1, <2>4, <2>5, HeapTypesUntouched, ArrayTyped DEF Types
<1>11. CASE QuickDone
  <2>1. pc' = "done" /\ UNCHANGED <<size, heapVars, quickVars, file, array>>
    BY <1>11 DEF QuickDone, file
  <2> QED
    BY <2>1, HeapTypesUntouched, QuickTypesUntouched, ArrayTyped DEF Types
<1>12. CASE UNCHANGED vars
  BY <1>12 DEF Types, HeapTypes, QuickTypes, vars, file, heapVars, quickVars, Places, Calls
<1> QED
  BY <1>1, <1>2, <1>3, <1>4, <1>5, <1>6, <1>7, <1>8, <1>9, <1>10, <1>11, <1>12
     DEF Next, Heapsort, Quicksort

LEMMA AlwaysTypes == Spec => []Types
  BY InitTypes, TypesKept, PTL DEF Spec

\* TypeOK: every place that is compared or swapped is in the array, for arrays of
\* any length.
THEOREM TypeCorrect == Spec => []TypeOK
<1>1. Types => TypeOK
  BY DEF Types, HeapTypes, QuickTypes, TypeOK, Calls
<1> QED
  BY <1>1, AlwaysTypes, PTL

-------------------------------------------------------------------------------
(* Heaps of integers: v[k] is the value at place k. *)

Child(p, c) == c = 2 * p \/ c = 2 * p + 1

\* From place lo on, every value is at least those of its children; not said of
\* the one at hole.
HeapFrom(v, lo, h, hole) ==
  \A p \in lo .. h, c \in lo .. h : p # hole /\ Child(p, c) => v[c] <= v[p]

\* The values below hole are not above the one over it.
Bridged(v, lo, h, hole) ==
  \A p \in lo .. h, c \in lo .. h : Child(p, hole) /\ Child(hole, c) => v[c] <= v[p]

\* What is behind place h is in its final place.
Settled(v, n, h) == \A k, l \in 1 .. n : k < l /\ h < l => v[k] <= v[l]

LEMMA ChildIsBelow ==
  ASSUME NEW p \in Nat \ {0}, NEW c \in Nat, Child(p, c)
  PROVE  p < c
  BY DEF Child

\* The value at the root of a heap is the highest.
LEMMA RootIsHighest ==
  ASSUME NEW n \in Nat, NEW v \in [1 .. n -> Int], NEW h \in 1 .. n,
         HeapFrom(v, 1, h, 0)
  PROVE  \A k \in 1 .. h : v[k] <= v[1]
<1> DEFINE Above == {k \in 1 .. h : v[k] > v[1]}
<1> SUFFICES ASSUME Above # {} PROVE FALSE
  BY DEF Above
<1>1. PICK k \in Above : \A l \in Above : ~ (<<l, k>> \in OpToRel(<, Nat))
  <2>1. Above \subseteq Nat
    OBVIOUS
  <2> QED
    BY <2>1, WFMin, NatLessThanWellFounded
<1>2. k \in 1 .. h /\ v[k] > v[1] /\ k # 1
  OBVIOUS
<1>3. PICK p \in 1 .. h : Child(p, k) /\ p < k
  <2>1. k \div 2 \in 1 .. h /\ k \div 2 < k
    BY <1>2
  <2>2. k = 2 * (k \div 2) \/ k = 2 * (k \div 2) + 1
    BY <1>2
  <2> QED
    BY <2>1, <2>2 DEF Child
<1>4. v[k] <= v[p]
  BY <1>2, <1>3 DEF HeapFrom
<1>5. p \in Above
  BY <1>2, <1>3, <1>4
<1>6. <<p, k>> \in OpToRel(<, Nat)
  BY <1>2, <1>3 DEF OpToRel
<1> QED
  BY <1>1, <1>5, <1>6

\* restore_heap() exchanges the value at i with that of its higher child m.
LEMMA SinkKeepsHeap ==
  ASSUME NEW n \in Nat, NEW v \in [1 .. n -> Int], NEW h \in 0 .. n, NEW lo \in 1 .. n,
         NEW j \in 1 .. h, NEW m \in 1 .. h, lo <= j,
         HeapFrom(v, lo, h, j), Bridged(v, lo, h, j),
         Child(j, m), v[j] < v[m],
         \A c \in 1 .. h : Child(j, c) => v[c] <= v[m]
  PROVE  HeapFrom(Swap(v, j, m), lo, h, m) /\ Bridged(Swap(v, j, m), lo, h, m)
<1> DEFINE w == Swap(v, j, m)
<1>1. /\ w[j] = v[m] /\ w[m] = v[j] /\ j < m
      /\ \A k \in 1 .. h : k # j /\ k # m => w[k] = v[k]
  BY DEF Swap, Child
<1> HIDE DEF w
<1>2. HeapFrom(w, lo, h, m)
  <2> SUFFICES ASSUME NEW p \in lo .. h, NEW c \in lo .. h, p # m, Child(p, c)
               PROVE  w[c] <= w[p]
    BY DEF HeapFrom
  <2>0. p \in 1 .. h /\ c \in 1 .. h /\ p < c
    BY ChildIsBelow
  <2>1. CASE p = j
    <3>1. v[c] <= v[m] /\ w[p] = v[m]
      BY <1>1, <2>0, <2>1
    <3>2. c = m => w[c] = v[j]
      BY <1>1
    <3>3. c # m => w[c] = v[c]
      BY <1>1, <2>0, <2>1
    <3> QED
      BY <3>1, <3>2, <3>3
  <2>2. CASE p # j /\ c = j
    <3>1. v[m] <= v[p]
      BY <2>0, <2>2, <1>1 DEF Bridged
    <3> QED
      BY <3>1, <1>1, <2>0, <2>2
  <2>3. CASE p # j /\ c = m
    BY <2>0, <2>3 DEF Child
  <2>4. CASE p # j /\ c # j /\ c # m
    <3>1. v[c] <= v[p]
      BY <2>4 DEF HeapFrom
    <3> QED
      BY <3>1, <1>1, <2>0, <2>4
  <2> QED
    BY <2>1, <2>2, <2>3, <2>4
<1>3. Bridged(w, lo, h, m)
  <2> SUFFICES ASSUME NEW p \in lo .. h, NEW c \in lo .. h, Child(p, m), Child(m, c)
               PROVE  w[c] <= w[p]
    BY DEF Bridged
  <2>1. p = j
    BY DEF Child
  <2>2. m < c /\ c \in 1 .. h
    BY ChildIsBelow
  <2>3. v[c] <= v[m]
    BY <1>1, <2>2 DEF HeapFrom
  <2> QED
    BY <1>1, <2>1, <2>2, <2>3
<1> QED
  BY <1>2, <1>3 DEF w

\* The values at the places of the array.
Value == [k \in Places |-> At(array, k)]

LEMMA ValueFacts ==
  ASSUME Types
  PROVE  /\ size \in Nat /\ Value \in [1 .. size -> Int]
         /\ \A k \in 1 .. size : Value[k] = At(array, k)
  BY ValuesAreInts DEF Value, Places

LEMMA ValueSwapped ==
  ASSUME Types, UNCHANGED file, NEW k \in 1 .. size, NEW l \in 1 .. size,
         array' = Swap(array, k, l)
  PROVE  Value' = Swap(Value, k, l)
<1>1. /\ size \in Nat /\ array \in [1 .. size -> 1 .. size]
      /\ column' = column /\ size' = size
  BY ValuesAreInts DEF Types, Places, file
<1>2. \A j \in 1 .. size :
        array'[j] = IF j = l THEN array[k] ELSE IF j = k THEN array[l] ELSE array[j]
  BY <1>1 DEF Swap
<1>3. Value' = [j \in 1 .. size |-> column[array'[j]]]
  BY <1>1 DEF Value, Places, At
<1>4. Value = [j \in 1 .. size |-> column[array[j]]]
  BY DEF Value, Places, At
<1>5. Swap(Value, k, l) = [j \in 1 .. size |->
        IF j = l THEN Value[k] ELSE IF j = k THEN Value[l] ELSE Value[j]]
  BY <1>4 DEF Swap
<1> QED
  BY <1>2, <1>3, <1>4, <1>5

LEMMA ValueKept ==
  ASSUME UNCHANGED <<file, array>>
  PROVE  Value' = Value
  BY DEF file, Value, Places, At

\* The state of heapsort(): in build_heap() the places from round on are a heap,
\* in its own loop all up to round; in restore_heap() all but i.
Low == IF phase = "build" THEN round ELSE 1

HeapInv ==
  /\ pc = "build" => HeapFrom(Value, round + 1, size, 0)
  /\ pc = "extract" => HeapFrom(Value, 1, round, 0) /\ Settled(Value, size, round)
  /\ pc = "restore" =>
       /\ HeapFrom(Value, Low, heap, i) /\ Bridged(Value, Low, heap, i)
       /\ phase = "extract" => Settled(Value, size, heap)

LEMMA HeapInit == Init => HeapInv
<1> SUFFICES ASSUME Init PROVE HeapInv
  OBVIOUS
<1>1. size \in Nat
  BY SortsAssumption DEF Init
<1>2. pc # "extract" /\ pc # "restore"
  BY DEF Init
<1>3. ASSUME pc = "build" PROVE HeapFrom(Value, round + 1, size, 0)
  <2>1. round = size \div 2
    BY DEF Init
  <2>2. \A p \in round + 1 .. size : 2 * p > size
    BY <1>1, <2>1
  <2> QED
    BY <1>1, <2>1, <2>2 DEF HeapFrom, Child
<1> QED
  BY <1>2, <1>3 DEF HeapInv

LEMMA HeapKept == Types /\ Types' /\ HeapInv /\ [Next]_vars => HeapInv'
<1> SUFFICES ASSUME Types, Types', HeapInv, [Next]_vars PROVE HeapInv'
  OBVIOUS
<1>0. size \in Nat /\ Value \in [1 .. size -> Int]
  BY ValueFacts
<1>1. CASE BuildRound
  <2>1. /\ pc = "build" /\ pc' = "restore" /\ heap' = size /\ i' = round
        /\ round' = round /\ phase' = phase /\ size' = size /\ phase = "build"
        /\ round \in 1 .. size /\ UNCHANGED <<file, array>>
    BY <1>0, <1>1 DEF BuildRound, Types, HeapTypes, file
  <2>2. Value' = Value /\ Low' = round
    BY <2>1, ValueKept DEF Low
  <2>3. HeapFrom(Value, round, size, round)
    <3> SUFFICES ASSUME NEW p \in round .. size, NEW c \in round .. size,
                        p # round, Child(p, c)
                 PROVE  Value[c] <= Value[p]
      BY DEF HeapFrom
    <3>1. p \in round + 1 .. size /\ c \in round + 1 .. size /\ p # 0
      BY <1>0, <2>1 DEF Child
    <3> QED
      BY <2>1, <3>1 DEF HeapInv, HeapFrom
  <2>4. Bridged(Value, round, size, round)
    BY <1>0, <2>1 DEF Bridged, Child
  <2> QED
    BY <2>1, <2>2, <2>3, <2>4 DEF HeapInv
<1>2. CASE Built
  <2>1. /\ pc = "build" /\ pc' = "extract" /\ round = 0 /\ round' = size /\ size' = size
        /\ UNCHANGED <<file, array>>
    BY <1>0, <1>2 DEF Built, Types, HeapTypes, file
  <2>2. Value' = Value
    BY <2>1, ValueKept
  <2>3. HeapFrom(Value, 1, size, 0)
    BY <2>1 DEF HeapInv
  <2>4. Settled(Value, size, size)
    BY <1>0 DEF Settled
  <2> QED
    BY <2>1, <2>2, <2>3, <2>4 DEF HeapInv
<1>3. CASE SinkDown
  <2>1. /\ pc = "restore" /\ pc' = "restore" /\ i' = Max /\ Max # i
        /\ heap' = heap /\ Low' = Low /\ phase' = phase /\ size' = size
        /\ UNCHANGED file /\ array' = Swap(array, i, Max)
    BY <1>3 DEF SinkDown, file, Low
  <2>2. /\ heap \in 0 .. size /\ i \in 1 .. heap /\ i \in 1 .. size /\ Low <= i
        /\ Low \in 1 .. size
    BY <1>0, <2>1 DEF Types, HeapTypes, Low
  <2>3. /\ Max \in 1 .. heap /\ Max \in 1 .. size /\ Child(i, Max)
        /\ At(array, i) < At(array, Max)
        /\ \A c \in 1 .. heap : Child(i, c) => At(array, c) <= At(array, Max)
    BY <1>0, <2>1, <2>2, MaxFacts DEF Child
  <2>4. /\ Value[i] < Value[Max]
        /\ \A c \in 1 .. heap : Child(i, c) => Value[c] <= Value[Max]
    BY <1>0, <2>2, <2>3, ValueFacts
  <2>5. Value' = Swap(Value, i, Max)
    BY <2>1, <2>2, <2>3, ValueSwapped
  <2>6. HeapFrom(Value, Low, heap, i) /\ Bridged(Value, Low, heap, i)
    BY <2>1 DEF HeapInv
  <2>7. HeapFrom(Value', Low, heap, Max) /\ Bridged(Value', Low, heap, Max)
    BY <1>0, <2>2, <2>3, <2>4, <2>5, <2>6, SinkKeepsHeap
  <2>8. ASSUME phase = "extract" PROVE Settled(Value', size, heap)
    <3>1. Settled(Value, size, heap)
      BY <2>1, <2>8 DEF HeapInv
    <3>2. /\ Value'[i] = Value[Max] /\ Value'[Max] = Value[i]
          /\ \A k \in 1 .. size : k # i /\ k # Max => Value'[k] = Value[k]
      BY <1>0, <2>2, <2>3, <2>5 DEF Swap
    <3> SUFFICES ASSUME NEW k \in 1 .. size, NEW l \in 1 .. size, k < l, heap < l
                 PROVE  Value'[k] <= Value'[l]
      BY DEF Settled
    <3>3. Value'[l] = Value[l]
      BY <1>0, <2>2, <2>3, <3>2
    <3>4. i < l /\ Max < l
      BY <1>0, <2>2, <2>3
    <3>5. PICK j \in 1 .. size : j < l /\ Value'[k] = Value[j]
      BY <2>2, <2>3, <3>2, <3>4
    <3> QED
      BY <3>1, <3>3, <3>5 DEF Settled
  <2> QED
    BY <2>1, <2>7, <2>8 DEF HeapInv
<1>4. CASE Restored
  <2>1. /\ pc = "restore" /\ pc' = phase /\ round' = round - 1 /\ Max = i
        /\ phase' = phase /\ size' = size /\ heap' = heap
        /\ UNCHANGED <<file, array>>
    BY <1>4 DEF Restored, file
  <2>2. Value' = Value
    BY <2>1, ValueKept
  <2>3. /\ heap \in 0 .. size /\ i \in 1 .. heap /\ Low <= i /\ Low \in 1 .. size
        /\ round \in Nat
    BY <1>0, <2>1 DEF Types, HeapTypes, Low
  <2>4. \A c \in 1 .. heap : Child(i, c) => Value[c] <= Value[i]
    BY <1>0, <2>1, <2>3, MaxFacts, ValueFacts DEF Child
  <2>5. HeapFrom(Value, Low, heap, 0)
    <3> SUFFICES ASSUME NEW p \in Low .. heap, NEW c \in Low .. heap, Child(p, c)
                 PROVE  Value[c] <= Value[p]
      BY DEF HeapFrom
    <3>1. c \in 1 .. heap
      BY <1>0, <2>3
    <3>2. CASE p = i
      BY <2>4, <3>1, <3>2
    <3>3. CASE p # i
      BY <2>1, <3>3 DEF HeapInv, HeapFrom
    <3> QED
      BY <3>2, <3>3
  <2>6. CASE phase = "build"
    <3>1. Low = round /\ heap = size /\ round' + 1 = round
      BY <2>1, <2>3, <2>6 DEF Low, Types, HeapTypes
    <3> QED
      BY <2>1, <2>2, <2>5, <2>6, <3>1 DEF HeapInv
  <2>7. CASE phase = "extract"
    <3>1. Low = 1 /\ heap = round' /\ Settled(Value, size, heap)
      BY <2>1, <2>3, <2>7 DEF Low, Types, HeapTypes, HeapInv
    <3> QED
      BY <2>1, <2>2, <2>5, <2>7, <3>1 DEF HeapInv
  <2> QED
    BY <2>6, <2>7 DEF Types, HeapTypes
<1>5. CASE Extract
  <2>1. /\ pc = "extract" /\ pc' = "restore" /\ heap' = round - 1 /\ i' = 1
        /\ phase = "extract" /\ phase' = "extract" /\ size' = size
        /\ round \in 2 .. size /\ UNCHANGED file /\ array' = Swap(array, 1, round)
    BY <1>0, <1>5 DEF Extract, file, Types, HeapTypes
  <2>2. 1 \in 1 .. size /\ round \in 1 .. size /\ Low' = 1
    BY <1>0, <2>1 DEF Low
  <2>3. Value' = Swap(Value, 1, round)
    BY <2>1, <2>2, ValueSwapped
  <2>4. /\ Value'[1] = Value[round] /\ Value'[round] = Value[1]
        /\ \A k \in 1 .. size : k # 1 /\ k # round => Value'[k] = Value[k]
    BY <1>0, <2>1, <2>2, <2>3 DEF Swap
  <2>5. HeapFrom(Value, 1, round, 0) /\ Settled(Value, size, round)
    BY <2>1 DEF HeapInv
  <2>6. \A k \in 1 .. round : Value[k] <= Value[1]
    BY <1>0, <2>2, <2>5, RootIsHighest
  <2>7. HeapFrom(Value', 1, round - 1, 1)
    <3> SUFFICES ASSUME NEW p \in 1 .. round - 1, NEW c \in 1 .. round - 1, p # 1,
                        Child(p, c)
                 PROVE  Value'[c] <= Value'[p]
      BY DEF HeapFrom
    <3>1. /\ p \in 1 .. round /\ c \in 1 .. round /\ p \in 1 .. size /\ c \in 1 .. size
          /\ c # 1 /\ c # round /\ p # round /\ p # 0
      BY <1>0, <2>1 DEF Child
    <3>2. Value[c] <= Value[p]
      BY <2>5, <3>1 DEF HeapFrom
    <3> QED
      BY <2>4, <3>1, <3>2
  <2>8. Bridged(Value', 1, round - 1, 1)
    BY <1>0, <2>1 DEF Bridged, Child
  <2>9. Settled(Value', size, round - 1)
    <3> SUFFICES ASSUME NEW k \in 1 .. size, NEW l \in 1 .. size, k < l, round - 1 < l
                 PROVE  Value'[k] <= Value'[l]
      BY DEF Settled
    <3>1. CASE l = round
      <4>1. k \in 1 .. round /\ k # round
        BY <1>0, <2>1, <3>1
      <4>2. Value'[k] \in {Value[k], Value[round]}
        BY <2>4, <4>1
      <4> QED
        BY <2>4, <2>6, <2>2, <3>1, <4>1, <4>2
    <3>2. CASE l # round
      <4>1. l > round /\ l # 1 /\ 1 < l
        BY <1>0, <2>1, <3>2
      <4>2. Value'[l] = Value[l]
        BY <2>4, <4>1
      <4>3. PICK j \in 1 .. size : j < l /\ Value'[k] = Value[j]
        BY <2>2, <2>4, <4>1
      <4> QED
        BY <2>5, <4>1, <4>2, <4>3 DEF Settled
    <3> QED
      BY <3>1, <3>2
  <2> QED
    BY <2>1, <2>2, <2>7, <2>8, <2>9 DEF HeapInv
<1>6. CASE HeapDone
  BY <1>6 DEF HeapDone, HeapInv
<1>7. CASE Quicksort
  BY <1>7 DEF Quicksort, Skip, StartPartition, Compare, Place, QuickDone, HeapInv
<1>8. CASE UNCHANGED vars
  <2>1. UNCHANGED <<file, array, pc, phase, round, heap, i, size>>
    BY <1>8 DEF vars, heapVars, file
  <2>2. Value' = Value /\ Low' = Low
    BY <2>1, ValueKept DEF Low
  <2> QED
    BY <2>1, <2>2 DEF HeapInv
<1> QED
  BY <1>1, <1>2, <1>3, <1>4, <1>5, <1>6, <1>7, <1>8 DEF Next, Heapsort

-------------------------------------------------------------------------------
(* quicksort(): two places are in order, or a call that is still to be made   *)
(* covers both.                                                               *)

Covers(s, k, l) == s.start <= k /\ l <= s.end

Awaited(k, l) ==
  \/ \E q \in 1 .. Len(pending) : Covers(pending[q], k, l)
  \/ pc = "partition" /\ Covers(part, k, l)

Apart(s, t) == s.end < t.start \/ t.end < s.start

OrderedOrAwaited ==
  \A k, l \in 1 .. size : k < l => Value[k] <= Value[l] \/ Awaited(k, l)

PendingApart ==
  \A p, q \in 1 .. Len(pending) : p # q => Apart(pending[p], pending[q])

Partitioned ==
  /\ \A q \in 1 .. Len(pending) : Apart(part, pending[q])
  /\ \A k \in part.start .. last : Value[k] <= Value[part.end]
  /\ \A k \in last + 1 .. now - 1 : Value[part.end] < Value[k]

QuickInv ==
  /\ pc \in {"call", "partition"} => OrderedOrAwaited /\ PendingApart
  /\ pc = "partition" => Partitioned

LEMMA PendingTyped ==
  ASSUME Types
  PROVE  /\ Len(pending) \in Nat
         /\ \A q \in 1 .. Len(pending) :
              /\ pending[q] \in Calls
              /\ pending[q].start \in Nat /\ pending[q].end \in Nat
<1>1. pending \in Seq(Calls) /\ size \in Nat
  BY ValuesAreInts DEF Types, QuickTypes
<1>2. ASSUME NEW q \in 1 .. Len(pending) PROVE pending[q] \in Calls
  BY <1>1
<1> QED
  BY <1>1, <1>2 DEF Calls

LEMMA QuickInit == Init => QuickInv
<1> SUFFICES ASSUME Init, pc = "call" PROVE OrderedOrAwaited /\ PendingApart
  BY DEF QuickInv, Init
<1>1. pending = <<Segment(1, size)>>
  BY DEF Init
<1>2. /\ Len(pending) = 1
      /\ pending[1].start = 1 /\ pending[1].end = size
  BY <1>1 DEF Segment
<1>3. \A k, l \in 1 .. size : Awaited(k, l)
  BY <1>2, SortsAssumption DEF Awaited, Covers, Init
<1>4. PendingApart
  BY <1>2 DEF PendingApart
<1> QED
  BY <1>3, <1>4 DEF OrderedOrAwaited

\* An exchange within a part leaves it in order with the rest, as no other call
\* covers any of its places.
LEMMA SwapWithinPart ==
  ASSUME Types, QuickInv, pc = "partition", UNCHANGED file,
         NEW a \in part.start .. part.end, NEW b \in part.start .. part.end,
         array' = Swap(array, a, b)
  PROVE  /\ Value'[a] = Value[b] /\ Value'[b] = Value[a] /\ Value' \in [1 .. size -> Int]
         /\ \A k \in 1 .. size : k # a /\ k # b => Value'[k] = Value[k]
         /\ \A k, l \in 1 .. size : k < l =>
              \/ Value'[k] <= Value'[l]
              \/ Covers(part, k, l)
              \/ \E q \in 1 .. Len(pending) : Covers(pending[q], k, l)
<1>1. /\ size \in Nat /\ Value \in [1 .. size -> Int]
      /\ part.start \in 1 .. size /\ part.end \in 1 .. size
  BY ValueFacts DEF Types, QuickTypes
<1>2. a \in 1 .. size /\ b \in 1 .. size
  BY <1>1
<1>3. Value' = Swap(Value, a, b)
  BY <1>2, ValueSwapped
<1>4. /\ Value'[a] = Value[b] /\ Value'[b] = Value[a] /\ Value' \in [1 .. size -> Int]
      /\ \A k \in 1 .. size : k # a /\ k # b => Value'[k] = Value[k]
  BY <1>1, <1>2, <1>3 DEF Swap
<1>5. ASSUME NEW k \in 1 .. size, NEW l \in 1 .. size, k < l,
             ~ Covers(part, k, l),
             ~ \E q \in 1 .. Len(pending) : Covers(pending[q], k, l)
      PROVE  Value'[k] <= Value'[l]
  <2>0. \A q \in 1 .. Len(pending) :
          Apart(part, pending[q]) /\ pending[q].start \in Nat /\ pending[q].end \in Nat
    BY <1>1, PendingTyped DEF QuickInv, Partitioned
  <2>1. CASE k \in part.start .. part.end
    <3>1. l > part.end
      BY <1>1, <1>5, <2>1 DEF Covers
    <3>2. Value'[l] = Value[l]
      BY <1>1, <1>4, <3>1
    <3>3. PICK j \in part.start .. part.end : Value'[k] = Value[j]
      BY <1>1, <1>4, <2>1
    <3>4. ~ Awaited(j, l)
      <4>1. ASSUME NEW q \in 1 .. Len(pending) PROVE ~ Covers(pending[q], j, l)
        <5>1. /\ Apart(part, pending[q])
              /\ pending[q].start \in Nat /\ pending[q].end \in Nat
          BY <2>0
        <5>2. /\ part.start \in Nat /\ part.end \in Nat /\ k \in Nat /\ l \in Nat
              /\ part.start <= j /\ j <= part.end /\ j \in Nat
          BY <1>1
        <5> QED
          BY <3>1, <5>1, <5>2, SMTT(40) DEF Covers, Apart
      <4>2. ~ Covers(part, j, l)
        <5>1. part.start \in Nat /\ part.end \in Nat /\ k \in Nat /\ l \in Nat
          BY <1>1
        <5> QED
          BY <3>1, <5>1 DEF Covers
      <4> QED
        BY <4>1, <4>2 DEF Awaited
    <3> QED
      BY <1>1, <3>1, <3>2, <3>3, <3>4 DEF QuickInv, OrderedOrAwaited
  <2>2. CASE l \in part.start .. part.end
    <3>1. k < part.start
      BY <1>1, <1>5, <2>2 DEF Covers
    <3>2. Value'[k] = Value[k]
      BY <1>1, <1>4, <3>1
    <3>3. PICK j \in part.start .. part.end : Value'[l] = Value[j]
      BY <1>1, <1>4, <2>2
    <3>4. ~ Awaited(k, j)
      <4>1. ASSUME NEW q \in 1 .. Len(pending) PROVE ~ Covers(pending[q], k, j)
        <5>1. /\ Apart(part, pending[q])
              /\ pending[q].start \in Nat /\ pending[q].end \in Nat
          BY <2>0
        <5>2. /\ part.start \in Nat /\ part.end \in Nat /\ k \in Nat /\ l \in Nat
              /\ part.start <= j /\ j <= part.end /\ j \in Nat
          BY <1>1
        <5> QED
          BY <3>1, <5>1, <5>2, SMTT(40) DEF Covers, Apart
      <4>2. ~ Covers(part, k, j)
        <5>1. part.start \in Nat /\ part.end \in Nat /\ k \in Nat /\ l \in Nat
          BY <1>1
        <5> QED
          BY <3>1, <5>1 DEF Covers
      <4> QED
        BY <4>1, <4>2 DEF Awaited
    <3> QED
      BY <1>1, <3>1, <3>2, <3>3, <3>4 DEF QuickInv, OrderedOrAwaited
  <2>3. CASE k \notin part.start .. part.end /\ l \notin part.start .. part.end
    <3>1. Value'[k] = Value[k] /\ Value'[l] = Value[l]
      BY <1>4, <2>3
    <3>2. ~ Awaited(k, l)
      BY <1>5 DEF Awaited
    <3> QED
      BY <1>5, <3>1, <3>2 DEF QuickInv, OrderedOrAwaited
  <2> QED
    BY <2>1, <2>2, <2>3
<1> QED
  BY <1>4, <1>5

\* A round of partitioning().
LEMMA CompareKept ==
  ASSUME Types, QuickInv, Compare
  PROVE  QuickInv'
<1>1. /\ pc = "partition" /\ pc' = "partition" /\ now' = now + 1
      /\ now <= part.end - 1 /\ UNCHANGED <<file, size, pending, part>>
      /\ \/ ~Higher(now, part.end) /\ last' = last + 1 /\ array' = Swap(array, last + 1, now)
         \/ Higher(now, part.end) /\ last' = last /\ array' = array
  BY DEF Compare, file
<1>2. /\ size \in Nat /\ Value \in [1 .. size -> Int]
      /\ \A k \in 1 .. size : Value[k] = At(array, k)
  BY ValueFacts
<1>3. /\ part.start \in 1 .. size /\ part.end \in 1 .. size
      /\ now \in part.start .. part.end - 1 /\ last \in part.start - 1 .. now - 1
  BY <1>1, <1>2 DEF Types, QuickTypes
<1>4. OrderedOrAwaited /\ PendingApart /\ Partitioned
  BY <1>1 DEF QuickInv
<1>5. PendingApart'
  BY <1>1, <1>4 DEF PendingApart
<1>6. CASE Higher(now, part.end)
  <2>1. last' = last /\ Value' = Value
    BY <1>1, <1>2, <1>3, <1>6, ValueKept DEF Higher
  <2>2. Value[part.end] < Value[now]
    BY <1>2, <1>3, <1>6 DEF Higher
  <2>3. OrderedOrAwaited'
    BY <1>1, <1>4, <2>1 DEF OrderedOrAwaited, Awaited
  <2>4. \A k \in last + 1 .. now : Value[part.end] < Value[k]
    BY <1>3, <1>4, <2>2 DEF Partitioned
  <2>5. Partitioned'
    BY <1>1, <1>3, <1>4, <2>1, <2>4 DEF Partitioned
  <2> QED
    BY <1>1, <1>5, <2>3, <2>5 DEF QuickInv
<1>7. CASE ~Higher(now, part.end)
  <2>1. /\ last' = last + 1 /\ array' = Swap(array, last + 1, now)
        /\ last + 1 \in part.start .. part.end /\ now \in part.start .. part.end
    BY <1>1, <1>2, <1>3, <1>7
  <2>2. Value[now] <= Value[part.end]
    BY <1>2, <1>3, <1>7 DEF Higher
  <2>3. /\ Value'[last + 1] = Value[now] /\ Value'[now] = Value[last + 1]
        /\ \A k \in 1 .. size : k # last + 1 /\ k # now => Value'[k] = Value[k]
        /\ \A k, l \in 1 .. size : k < l =>
              \/ Value'[k] <= Value'[l]
              \/ Covers(part, k, l)
              \/ \E q \in 1 .. Len(pending) : Covers(pending[q], k, l)
    BY <1>1, <2>1, SwapWithinPart
  <2>4. OrderedOrAwaited'
    BY <1>1, <2>3 DEF OrderedOrAwaited, Awaited
  <2>5. Value'[part.end] = Value[part.end]
    BY <1>2, <1>3, <2>3
  <2>6. \A k \in part.start .. last + 1 : Value'[k] <= Value'[part.end]
    <3> SUFFICES ASSUME NEW k \in part.start .. last + 1
                 PROVE  Value'[k] <= Value'[part.end]
      OBVIOUS
    <3>1. CASE k = last + 1
      BY <2>2, <2>3, <2>5, <3>1
    <3>2. CASE k # last + 1
      <4>1. k \in part.start .. last /\ k \in 1 .. size /\ k # now
        BY <1>2, <1>3, <3>2
      <4> QED
        BY <1>4, <2>3, <2>5, <4>1, <3>2 DEF Partitioned
    <3> QED
      BY <3>1, <3>2
  <2>7. \A k \in last + 2 .. now : Value'[part.end] < Value'[k]
    <3> SUFFICES ASSUME NEW k \in last + 2 .. now
                 PROVE  Value'[part.end] < Value'[k]
      OBVIOUS
    <3>1. CASE k = now
      <4>1. last + 1 \in last + 1 .. now - 1
        BY <1>3, <3>1
      <4> QED
        BY <1>4, <2>3, <2>5, <3>1, <4>1 DEF Partitioned
    <3>2. CASE k # now
      <4>1. k \in last + 1 .. now - 1 /\ k \in 1 .. size /\ k # last + 1
        BY <1>2, <1>3, <3>2
      <4> QED
        BY <1>4, <2>3, <2>5, <4>1, <3>2 DEF Partitioned
    <3> QED
      BY <3>1, <3>2
  <2>8. Partitioned'
    BY <1>1, <1>3, <1>4, <2>1, <2>6, <2>7 DEF Partitioned
  <2> QED
    BY <1>1, <1>5, <2>4, <2>8 DEF QuickInv
<1> QED
  BY <1>6, <1>7

\* The driver between the two parts.
LEMMA PlaceKept ==
  ASSUME Types, QuickInv, Place
  PROVE  QuickInv'
<1> DEFINE low == Segment(part.start, last)
           high == Segment(last + 2, part.end)
<1>1. /\ pc = "partition" /\ pc' = "call" /\ now > part.end - 1
      /\ UNCHANGED <<file, size, part>> /\ array' = Swap(array, last + 1, part.end)
      /\ pending' = <<low, high>> \o pending
  BY DEF Place, file
<1>2. size \in Nat /\ Value \in [1 .. size -> Int]
  BY ValueFacts
<1>3. /\ part.start \in 1 .. size /\ part.end \in 1 .. size /\ part.start <= part.end
      /\ now = part.end /\ last \in part.start - 1 .. part.end - 1
  BY <1>1, <1>2 DEF Types, QuickTypes
<1>4. OrderedOrAwaited /\ PendingApart /\ Partitioned
  BY <1>1 DEF QuickInv
<1>5. /\ low.start = part.start /\ low.end = last
      /\ high.start = last + 2 /\ high.end = part.end
      /\ low \in Calls /\ high \in Calls
  BY <1>2, <1>3 DEF Segment, Calls
<1> HIDE DEF low, high
<1>6. /\ Len(pending') = Len(pending) + 2 /\ Len(pending) \in Nat
      /\ pending'[1] = low /\ pending'[2] = high
      /\ \A q \in 1 .. Len(pending) : pending'[q + 2] = pending[q]
  BY <1>1, <1>5, PushTwo, PendingTyped DEF Types, QuickTypes
<1>7. last + 1 \in part.start .. part.end /\ part.end \in part.start .. part.end
  BY <1>2, <1>3
<1>8. /\ Value'[last + 1] = Value[part.end] /\ Value'[part.end] = Value[last + 1]
      /\ Value' \in [1 .. size -> Int]
      /\ \A k \in 1 .. size : k # last + 1 /\ k # part.end => Value'[k] = Value[k]
      /\ \A k, l \in 1 .. size : k < l =>
           \/ Value'[k] <= Value'[l]
           \/ Covers(part, k, l)
           \/ \E q \in 1 .. Len(pending) : Covers(pending[q], k, l)
  BY <1>1, <1>7, SwapWithinPart
<1>9. \A k \in part.start .. last : Value'[k] <= Value'[last + 1]
  <2> SUFFICES ASSUME NEW k \in part.start .. last PROVE Value'[k] <= Value'[last + 1]
    OBVIOUS
  <2>1. k \in 1 .. size /\ k # last + 1 /\ k # part.end
    BY <1>2, <1>3
  <2> QED
    BY <1>4, <1>8, <2>1 DEF Partitioned
<1>10. \A k \in last + 2 .. part.end : Value'[last + 1] < Value'[k]
  <2> SUFFICES ASSUME NEW k \in last + 2 .. part.end PROVE Value'[last + 1] < Value'[k]
    OBVIOUS
  <2>1. CASE k = part.end
    <3>1. last + 1 \in last + 1 .. now - 1
      BY <1>3, <2>1
    <3> QED
      BY <1>4, <1>8, <2>1, <3>1 DEF Partitioned
  <2>2. CASE k # part.end
    <3>1. k \in last + 1 .. now - 1 /\ k \in 1 .. size /\ k # last + 1
      BY <1>2, <1>3, <2>2
    <3> QED
      BY <1>4, <1>8, <2>2, <3>1 DEF Partitioned
  <2> QED
    BY <2>1, <2>2
<1>11. OrderedOrAwaited'
  <2> SUFFICES ASSUME NEW k \in 1 .. size, NEW l \in 1 .. size, k < l
               PROVE  (Value[k] <= Value[l] \/ Awaited(k, l))'
    BY <1>1 DEF OrderedOrAwaited
  <2>1. CASE Value'[k] <= Value'[l]
    BY <2>1
  <2>2. CASE \E q \in 1 .. Len(pending) : Covers(pending[q], k, l)
    <3>1. PICK q \in 1 .. Len(pending) : Covers(pending[q], k, l)
      BY <2>2
    <3>2. q + 2 \in 1 .. Len(pending') /\ pending'[q + 2] = pending[q]
      BY <1>6
    <3>3. Covers(pending'[q + 2], k, l)
      BY <3>1, <3>2
    <3> QED
      BY <3>2, <3>3 DEF Awaited
  <2>3. CASE Covers(part, k, l)
    <3>1. part.start <= k /\ l <= part.end
      BY <2>3 DEF Covers
    <3>2. CASE l <= last
      <4>1. Covers(pending'[1], k, l)
        BY <1>5, <1>6, <3>1, <3>2 DEF Covers
      <4> QED
        BY <1>6, <4>1 DEF Awaited
    <3>3. CASE k >= last + 2
      <4>1. Covers(pending'[2], k, l)
        BY <1>5, <1>6, <3>1, <3>3 DEF Covers
      <4> QED
        BY <1>6, <4>1 DEF Awaited
    <3>4. CASE l > last /\ k < last + 2
      <4>1. k = last + 1 \/ k \in part.start .. last
        BY <1>2, <1>3, <3>1, <3>4
      <4>2. l = last + 1 \/ l \in last + 2 .. part.end
        BY <1>2, <1>3, <3>1, <3>4
      <4>3. Value'[k] <= Value'[last + 1]
        BY <1>2, <1>3, <1>8, <1>9, <4>1, SMTT(40)
      <4>4. last + 1 \in 1 .. size
        BY <1>2, <1>3
      <4>5. Value'[last + 1] <= Value'[l]
        <5>1. Value'[l] \in Int /\ Value'[last + 1] \in Int
          BY <1>8, <4>4
        <5> QED
          BY <1>10, <4>2, <5>1
      <4> QED
        BY <1>8, <4>3, <4>4, <4>5
    <3> QED
      BY <1>2, <1>3, <3>2, <3>3, <3>4
  <2> QED
    BY <1>8, <2>1, <2>2, <2>3
<1>12. PendingApart'
  <2>1. Apart(low, high) /\ Apart(high, low)
    BY <1>3, <1>5 DEF Apart
  <2>2. ASSUME NEW q \in 1 .. Len(pending)
        PROVE  /\ Apart(low, pending[q]) /\ Apart(pending[q], low)
               /\ Apart(high, pending[q]) /\ Apart(pending[q], high)
    <3>1. Apart(part, pending[q])
      BY <1>4 DEF Partitioned
    <3>2. pending[q].start \in Nat /\ pending[q].end \in Nat
      BY PendingTyped
    <3>3. /\ part.start \in Nat /\ part.end \in Nat /\ last \in Int
          /\ last < part.end /\ part.start <= last + 1
      BY <1>2, <1>3
    <3>4. Apart(low, pending[q]) /\ Apart(pending[q], low)
      BY <1>5, <3>1, <3>2, <3>3 DEF Apart
    <3>5. Apart(high, pending[q]) /\ Apart(pending[q], high)
      BY <1>5, <3>1, <3>2, <3>3 DEF Apart
    <3> QED
      BY <3>4, <3>5
  <2> SUFFICES ASSUME NEW p \in 1 .. Len(pending'), NEW q \in 1 .. Len(pending'), p # q
               PROVE  Apart(pending'[p], pending'[q])
    BY DEF PendingApart
  <2>3. \/ p \in {1, 2}
        \/ p - 2 \in 1 .. Len(pending) /\ pending'[p] = pending[p - 2]
    <3>1. p \in {1, 2} \/ p - 2 \in 1 .. Len(pending)
      BY <1>6
    <3>2. ((p - 2) + 2) = p
      BY <1>6
    <3> QED
      BY <1>6, <3>1, <3>2
  <2>4. \/ q \in {1, 2}
        \/ q - 2 \in 1 .. Len(pending) /\ pending'[q] = pending[q - 2]
    <3>1. q \in {1, 2} \/ q - 2 \in 1 .. Len(pending)
      BY <1>6
    <3>2. ((q - 2) + 2) = q
      BY <1>6
    <3> QED
      BY <1>6, <3>1, <3>2
  <2>5. CASE p \in {1, 2} /\ q \in {1, 2}
    BY <1>6, <2>1, <2>5
  <2>6. CASE p \in {1, 2} /\ q \notin {1, 2}
    BY <1>6, <2>2, <2>4, <2>6
  <2>7. CASE p \notin {1, 2} /\ q \in {1, 2}
    BY <1>6, <2>2, <2>3, <2>7
  <2>8. CASE p \notin {1, 2} /\ q \notin {1, 2}
    <3>1. p - 2 # q - 2
      BY <1>6
    <3> QED
      BY <1>4, <2>3, <2>4, <2>8, <3>1 DEF PendingApart
  <2> QED
    BY <2>5, <2>6, <2>7, <2>8
<1> QED
  BY <1>1, <1>11, <1>12 DEF QuickInv

LEMMA QuickKept == Types /\ QuickInv /\ [Next]_vars => QuickInv'
<1> SUFFICES ASSUME Types, QuickInv, [Next]_vars PROVE QuickInv'
  OBVIOUS
<1>0. /\ size \in Nat /\ Len(pending) \in Nat
      /\ \A q \in 1 .. Len(pending) : pending[q].start \in Nat /\ pending[q].end \in Nat
  BY ValueFacts, PendingTyped
<1>1. CASE Heapsort
  BY <1>1 DEF Heapsort, BuildRound, Built, SinkDown, Restored, Extract, HeapDone, QuickInv,
              Types, HeapTypes
<1>2. CASE Skip
  <2>1. /\ pc = "call" /\ pc' = "call" /\ pending # <<>> /\ pending' = Tail(pending)
        /\ pending[1].start >= pending[1].end
        /\ UNCHANGED <<file, array, size>>
    BY <1>2, Pop DEF Skip, file, Types, QuickTypes
  <2>2. Value' = Value
    BY <2>1, ValueKept
  <2>3. /\ Len(pending') = Len(pending) - 1 /\ Len(pending) >= 1
        /\ \A q \in 1 .. Len(pending) - 1 : pending'[q] = pending[q + 1]
    BY <2>1, Pop DEF Types, QuickTypes
  <2>4. PendingApart'
    <3> SUFFICES ASSUME NEW p \in 1 .. Len(pending) - 1, NEW q \in 1 .. Len(pending) - 1,
                        p # q
                 PROVE  Apart(pending'[p], pending'[q])
      BY <2>3 DEF PendingApart
    <3>1. Apart(pending[p + 1], pending[q + 1])
      BY <1>0, <2>1 DEF QuickInv, PendingApart
    <3> QED
      BY <2>3, <3>1
  <2>5. OrderedOrAwaited'
    <3> SUFFICES ASSUME NEW k \in 1 .. size, NEW l \in 1 .. size, k < l,
                        NEW q \in 1 .. Len(pending), Covers(pending[q], k, l)
                 PROVE  Awaited(k, l)'
      BY <2>1, <2>2 DEF QuickInv, OrderedOrAwaited, Awaited
    <3>1. q # 1
      BY <1>0, <2>1 DEF Covers
    <3>2. q - 1 \in 1 .. Len(pending) - 1 /\ (q - 1) + 1 = q
      BY <1>0, <3>1
    <3>3. pending'[q - 1] = pending[q] /\ q - 1 \in 1 .. Len(pending')
      BY <2>3, <3>2
    <3>4. Covers(pending'[q - 1], k, l)
      BY <3>3
    <3> QED
      BY <3>3, <3>4 DEF Awaited
  <2> QED
    BY <2>1, <2>4, <2>5 DEF QuickInv
<1>3. CASE StartPartition
  <2>1. /\ pc = "call" /\ pc' = "partition" /\ pending # <<>> /\ pending' = Tail(pending)
        /\ part' = pending[1] /\ now' = part'.start /\ last' = part'.start - 1
        /\ UNCHANGED <<file, array, size>>
    BY <1>3, Pop DEF StartPartition, file, Types, QuickTypes
  <2>2. Value' = Value
    BY <2>1, ValueKept
  <2>3. /\ Len(pending') = Len(pending) - 1 /\ Len(pending) >= 1
        /\ \A q \in 1 .. Len(pending) - 1 : pending'[q] = pending[q + 1]
    BY <2>1, Pop DEF Types, QuickTypes
  <2>4. PendingApart'
    <3> SUFFICES ASSUME NEW p \in 1 .. Len(pending) - 1, NEW q \in 1 .. Len(pending) - 1,
                        p # q
                 PROVE  Apart(pending'[p], pending'[q])
      BY <2>3 DEF PendingApart
    <3>1. Apart(pending[p + 1], pending[q + 1])
      BY <1>0, <2>1 DEF QuickInv, PendingApart
    <3> QED
      BY <2>3, <3>1
  <2>5. OrderedOrAwaited'
    <3> SUFFICES ASSUME NEW k \in 1 .. size, NEW l \in 1 .. size, k < l,
                        NEW q \in 1 .. Len(pending), Covers(pending[q], k, l)
                 PROVE  Awaited(k, l)'
      BY <2>1, <2>2 DEF QuickInv, OrderedOrAwaited, Awaited
    <3>1. CASE q = 1
      BY <2>1, <3>1 DEF Awaited
    <3>2. CASE q # 1
      <4>1. q - 1 \in 1 .. Len(pending) - 1 /\ (q - 1) + 1 = q
        BY <1>0, <3>2
      <4>2. pending'[q - 1] = pending[q] /\ q - 1 \in 1 .. Len(pending')
        BY <2>3, <4>1
      <4>3. Covers(pending'[q - 1], k, l)
        BY <4>2
      <4> QED
        BY <4>2, <4>3 DEF Awaited
    <3> QED
      BY <3>1, <3>2
  <2>6. Partitioned'
    <3>1. part'.start \in Nat /\ part'.end \in Nat
      BY <1>0, <2>1, <2>3
    <3>2. ASSUME NEW q \in 1 .. Len(pending) - 1
          PROVE  Apart(part', pending'[q])
      <4>1. Apart(pending[1], pending[q + 1])
        BY <1>0, <2>1 DEF QuickInv, PendingApart
      <4> QED
        BY <2>1, <2>3, <4>1
    <3>3. \A k : k \notin part'.start .. last' /\ k \notin last' + 1 .. now' - 1
      BY <2>1, <3>1
    <3> QED
      BY <2>3, <3>2, <3>3 DEF Partitioned
  <2> QED
    BY <2>1, <2>4, <2>5, <2>6 DEF QuickInv
<1>4. CASE Compare
  BY <1>4, CompareKept
<1>5. CASE Place
  BY <1>5, PlaceKept
<1>6. CASE QuickDone
  BY <1>6 DEF QuickDone, QuickInv
<1>7. CASE UNCHANGED vars
  <2>1. UNCHANGED <<file, array, pc, pending, part, now, last, size>>
    BY <1>7 DEF vars, quickVars, file
  <2>2. Value' = Value
    BY <2>1, ValueKept
  <2> QED
    BY <2>1, <2>2 DEF QuickInv, OrderedOrAwaited, Awaited, PendingApart, Partitioned
<1> QED
  BY <1>1, <1>2, <1>3, <1>4, <1>5, <1>6, <1>7 DEF Next, Quicksort

-------------------------------------------------------------------------------
(* Every record stays, and the end. *)

NothingLost == \A r \in Places : \E k \in Places : array[k] = r

LEMMA RecordsKept == Types /\ NothingLost /\ [Next]_vars => NothingLost'
<1> SUFFICES ASSUME Types, NothingLost, [Next]_vars PROVE NothingLost'
  OBVIOUS
<1>0. size \in Nat /\ array \in [1 .. size -> 1 .. size]
  BY ValuesAreInts DEF Types, Places
<1>1. CASE UNCHANGED <<array, size>>
  BY <1>1 DEF NothingLost, Places
<1>2. ASSUME NEW k \in 1 .. size, NEW l \in 1 .. size, array' = Swap(array, k, l),
             size' = size
      PROVE  NothingLost'
  <2> SUFFICES ASSUME NEW r \in 1 .. size
               PROVE  \E m \in 1 .. size : array'[m] = r
    BY <1>2 DEF NothingLost, Places
  <2>1. PICK j \in 1 .. size : array[j] = r
    BY DEF NothingLost, Places
  <2>2. \E m \in 1 .. size : Swap(array, k, l)[m] = r
    <3>1. j = k => Swap(array, k, l)[l] = r
      BY <1>0, <2>1 DEF Swap
    <3>2. j = l => Swap(array, k, l)[k] = r
      BY <1>0, <2>1 DEF Swap
    <3>3. j \notin {k, l} => Swap(array, k, l)[j] = r
      BY <1>0, <2>1 DEF Swap
    <3> QED
      BY <3>1, <3>2, <3>3
  <2> QED
    BY <1>2, <2>2
<1>3. CASE SinkDown
  <2>1. i \in 1 .. size /\ Max \in 1 .. size
    BY <1>0, <1>3, MaxFacts DEF SinkDown, Types, HeapTypes
  <2> QED
    BY <1>2, <1>3, <2>1 DEF SinkDown, file
<1>4. CASE Extract
  <2>1. 1 \in 1 .. size /\ round \in 1 .. size
    BY <1>0, <1>4 DEF Types, HeapTypes, Extract
  <2> QED
    BY <1>2, <1>4, <2>1 DEF Extract, file
<1>5. CASE Compare
  <2>1. now \in 1 .. size /\ last + 1 \in 1 .. size
    BY <1>0, <1>5 DEF Types, QuickTypes, Compare
  <2> QED
    BY <1>1, <1>2, <1>5, <2>1 DEF Compare, file
<1>6. CASE Place
  <2>1. part.end \in 1 .. size /\ last + 1 \in 1 .. size
    BY <1>0, <1>6 DEF Types, QuickTypes, Place
  <2> QED
    BY <1>2, <1>6, <2>1 DEF Place, file
<1> QED
  BY <1>1, <1>3, <1>4, <1>5, <1>6
     DEF Next, Heapsort, Quicksort, BuildRound, Built, Restored, HeapDone, Skip,
         StartPartition, QuickDone, vars, file

SortsInv ==
  /\ Types /\ HeapInv /\ QuickInv /\ NothingLost
  /\ pc = "done" => Settled(Value, size, 0)

LEMMA SortsInvInit == Init => SortsInv
<1> SUFFICES ASSUME Init PROVE SortsInv
  OBVIOUS
<1>1. pc # "done" /\ NothingLost
  BY DEF Init, NothingLost
<1> QED
  BY <1>1, InitTypes, HeapInit, QuickInit DEF SortsInv

LEMMA SortsInvKept == SortsInv /\ [Next]_vars => SortsInv'
<1> SUFFICES ASSUME SortsInv, [Next]_vars PROVE SortsInv'
  OBVIOUS
<1>1. Types' /\ HeapInv' /\ QuickInv' /\ NothingLost'
  BY TypesKept, HeapKept, QuickKept, RecordsKept DEF SortsInv
<1>0. size \in Nat
  BY ValueFacts DEF SortsInv
<1>2. CASE HeapDone
  <2>1. /\ pc = "extract" /\ round \in {0, 1} /\ UNCHANGED <<file, array, size>>
    BY <1>0, <1>2 DEF HeapDone, file, SortsInv, Types, HeapTypes
  <2>2. Settled(Value, size, round)
    BY <2>1 DEF SortsInv, HeapInv
  <2>3. Settled(Value, size, 0)
    <3> SUFFICES ASSUME NEW k \in 1 .. size, NEW l \in 1 .. size, k < l
                 PROVE  Value[k] <= Value[l]
      BY DEF Settled
    <3>1. round < l
      BY <1>0, <2>1
    <3> QED
      BY <2>2, <3>1 DEF Settled
  <2> QED
    BY <1>1, <2>1, <2>3, ValueKept DEF SortsInv
<1>3. CASE QuickDone
  <2>1. /\ pc = "call" /\ pending = <<>> /\ UNCHANGED <<file, array, size>>
    BY <1>3 DEF QuickDone, file
  <2>2. \A k, l \in 1 .. size : ~ Awaited(k, l)
    BY <2>1 DEF Awaited
  <2>3. Settled(Value, size, 0)
    BY <2>1, <2>2 DEF SortsInv, QuickInv, OrderedOrAwaited, Settled
  <2> QED
    BY <1>1, <2>1, <2>3, ValueKept DEF SortsInv
<1>4. CASE UNCHANGED vars
  <2>1. UNCHANGED <<file, array, size, pc>>
    BY <1>4 DEF vars, file
  <2> QED
    BY <1>1, <2>1, ValueKept DEF SortsInv
<1>5. CASE ~HeapDone /\ ~QuickDone /\ ~UNCHANGED vars
  <2>1. pc' # "done"
    BY <1>5 DEF Next, Heapsort, Quicksort, BuildRound, Built, SinkDown, Restored, Extract,
                Skip, StartPartition, Compare, Place, SortsInv, Types, HeapTypes
  <2> QED
    BY <1>1, <2>1 DEF SortsInv
<1> QED
  BY <1>2, <1>3, <1>4, <1>5

LEMMA AlwaysSortsInv == Spec => []SortsInv
  BY SortsInvInit, SortsInvKept, PTL DEF Spec

\* SortedWhenDone: heapsort() and quicksort() put an array of any length in the
\* order of the column and lose no record.
THEOREM BothSort == Spec => []SortedWhenDone
<1>1. SortsInv => SortedWhenDone
  <2> SUFFICES ASSUME SortsInv, pc = "done" PROVE SortedWhenDone
    BY DEF SortedWhenDone
  <2>1. \A k, l \in Places : k < l => At(array, k) <= At(array, l)
    <3> SUFFICES ASSUME NEW k \in 1 .. size, NEW l \in 1 .. size, k < l
                 PROVE  At(array, k) <= At(array, l)
      BY DEF Places
    <3>1. Value[k] <= Value[l] /\ 0 < l
      BY DEF SortsInv, Settled
    <3> QED
      BY <3>1, ValueFacts DEF SortsInv
  <2> QED
    BY <2>1 DEF SortedWhenDone, SortsInv, NothingLost
<1> QED
  BY <1>1, AlwaysSortsInv, PTL

\* HeapBetweenRounds: what restore_heap() leaves is a heap, and the extracted
\* records are in their final places.
THEOREM HeapIsKept == Spec => []HeapBetweenRounds
<1>1. SortsInv => HeapBetweenRounds
  <2> SUFFICES ASSUME SortsInv, pc = "extract" PROVE HeapBetweenRounds
    BY DEF HeapBetweenRounds
  <2>0. size \in Nat /\ round \in 0 .. size
    BY ValueFacts DEF SortsInv, Types, HeapTypes
  <2>1. HeapFrom(Value, 1, round, 0) /\ Settled(Value, size, round)
    BY DEF SortsInv, HeapInv
  <2>2. ASSUME NEW k \in 2 .. round PROVE At(array, k) <= At(array, k \div 2)
    <3>1. k \div 2 \in 1 .. round /\ k \in 1 .. round
      BY <2>0
    <3>2. Child(k \div 2, k)
      BY <2>0 DEF Child
    <3>3. Value[k] <= Value[k \div 2]
      BY <2>1, <3>1, <3>2 DEF HeapFrom
    <3>4. k \in 1 .. size /\ k \div 2 \in 1 .. size
      BY <2>0, <3>1
    <3> QED
      BY <3>3, <3>4, ValueFacts DEF SortsInv
  <2>3. ASSUME NEW k \in Places, NEW l \in Places, k < l, round < l
        PROVE  At(array, k) <= At(array, l)
    <3>1. Value[k] <= Value[l]
      BY <2>1, <2>3 DEF Settled, Places
    <3> QED
      BY <3>1, ValueFacts DEF SortsInv, Places
  <2> QED
    BY <2>2, <2>3 DEF HeapBetweenRounds
<1> QED
  BY <1>1, AlwaysSortsInv, PTL
===============================================================================
