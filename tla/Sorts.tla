-------------------------------- MODULE Sorts --------------------------------
(***************************************************************************)
(* heapsort() and quicksort() of ForkSort, with which a sorter puts its    *)
(* records in the order of a column.  The array holds the numbers the      *)
(* records have in the file; a step is one round of a loop or one call of  *)
(* a recursive function.  Places are counted from 1, as in the code.       *)
(***************************************************************************)
EXTENDS Integers, Sequences

CONSTANTS
  MaxRecords,  \* bound: array_size
  Values       \* of the column

ASSUME SortsAssumption == MaxRecords \in Nat /\ Values \subseteq Int

VARIABLES
  algorithm,  \* 'h' or 'q'
  size,       \* array_size
  column,     \* the value of the column of each record
  array,      \* the record at each place
  pc,         \* the loop that is running
  phase,      \* of heapsort(): the one that called restore_heap()
  round,      \* i of build_heap(), heap_size of heapsort()
  heap, i,    \* size and i of restore_heap()
  pending,    \* the calls of quicksort_() that are still to be made
  part,       \* start and end of the call that is in partitioning()
  now, last   \* now_comparing and next_lte_driver

file == <<algorithm, size, column>>
heapVars == <<phase, round, heap, i>>
quickVars == <<pending, part, now, last>>
vars == <<file, array, pc, heapVars, quickVars>>

Places == 1 .. size

Segment(start, end) == [start |-> start, end |-> end]

\* How sorter.c calls the two, for every array.
Init ==
  /\ algorithm \in {"h", "q"}
  /\ size \in 0 .. MaxRecords /\ column \in [Places -> Values]
  /\ array = [k \in Places |-> k]
  /\ pc = IF algorithm = "h" THEN "build" ELSE "call"
  /\ phase = "build" /\ round = size \div 2 /\ heap = size /\ i = 1
  /\ pending = IF algorithm = "q" THEN <<Segment(1, size)>> ELSE <<>>
  /\ part = Segment(1, size) /\ now = 1 /\ last = 0

\* The value at place k of array a; cmpfun() of the records at two places.
At(a, k) == column[a[k]]
Higher(k, l) == At(array, k) > At(array, l)

Swap(a, k, l) == [a EXCEPT ![k] = a[l], ![l] = a[k]]

-------------------------------------------------------------------------------
(* heapsort(). *)

\* A round of build_heap().
BuildRound ==
  /\ pc = "build" /\ round >= 1
  /\ pc' = "restore" /\ heap' = size /\ i' = round
  /\ UNCHANGED <<file, array, phase, round, quickVars>>

Built ==
  /\ pc = "build" /\ round < 1
  /\ pc' = "extract" /\ phase' = "extract" /\ round' = size
  /\ UNCHANGED <<file, array, heap, i, quickVars>>

\* The higher one of i and its left child, and of that one and its right child;
\* MaxLeft forgets the right one.
LeftMax == IF 2 * i <= heap /\ Higher(2 * i, i) THEN 2 * i ELSE i
MaxLeft == LeftMax
Max == IF 2 * i + 1 <= heap /\ Higher(2 * i + 1, LeftMax) THEN 2 * i + 1 ELSE LeftMax

\* restore_heap() calls itself.
SinkDown ==
  /\ pc = "restore" /\ Max # i
  /\ array' = Swap(array, i, Max) /\ i' = Max
  /\ UNCHANGED <<file, pc, phase, round, heap, quickVars>>

Restored ==
  /\ pc = "restore" /\ Max = i
  /\ pc' = phase /\ round' = round - 1
  /\ UNCHANGED <<file, array, phase, heap, i, quickVars>>

\* One round too many.
ExtractLast ==
  /\ pc = "extract" /\ round >= 1
  /\ array' = Swap(array, 1, round)
  /\ pc' = "restore" /\ heap' = round - 1 /\ i' = 1
  /\ UNCHANGED <<file, phase, round, quickVars>>

\* A round of the loop of heapsort().
Extract ==
  /\ pc = "extract" /\ round >= 2
  /\ array' = Swap(array, 1, round)
  /\ pc' = "restore" /\ heap' = round - 1 /\ i' = 1
  /\ UNCHANGED <<file, phase, round, quickVars>>

HeapDone ==
  /\ pc = "extract" /\ round < 2
  /\ pc' = "done"
  /\ UNCHANGED <<file, array, heapVars, quickVars>>

-------------------------------------------------------------------------------
(* quicksort(). *)

\* quicksort_() with less than two records.
Skip ==
  /\ pc = "call" /\ pending # <<>> /\ Head(pending).start >= Head(pending).end
  /\ pending' = Tail(pending)
  /\ UNCHANGED <<file, array, pc, heapVars, part, now, last>>

StartPartition ==
  /\ pc = "call" /\ pending # <<>> /\ Head(pending).start < Head(pending).end
  /\ part' = Head(pending) /\ pending' = Tail(pending)
  /\ pc' = "partition" /\ now' = Head(pending).start /\ last' = Head(pending).start - 1
  /\ UNCHANGED <<file, array, heapVars>>

\* A round of partitioning(); the driver is the record at the end.
Compare ==
  /\ pc = "partition" /\ now <= part.end - 1
  /\ IF ~Higher(now, part.end)
     THEN last' = last + 1 /\ array' = Swap(array, last + 1, now)
     ELSE UNCHANGED <<last, array>>
  /\ now' = now + 1
  /\ UNCHANGED <<file, pc, heapVars, pending, part>>

\* The driver stays behind the others.
PlaceNot ==
  /\ pc = "partition" /\ now > part.end - 1
  /\ pending' = <<Segment(part.start, last), Segment(last + 2, part.end)>> \o pending
  /\ pc' = "call"
  /\ UNCHANGED <<file, array, heapVars, part, now, last>>

\* The driver is sorted again with what is behind it.
PlaceAgain ==
  /\ pc = "partition" /\ now > part.end - 1
  /\ array' = Swap(array, last + 1, part.end)
  /\ pending' = <<Segment(part.start, last), Segment(part.start, part.end)>> \o pending
  /\ pc' = "call"
  /\ UNCHANGED <<file, heapVars, part, now, last>>

\* The driver gets its place, and quicksort_() goes on with what is before it
\* and then with what is behind it.
Place ==
  /\ pc = "partition" /\ now > part.end - 1
  /\ array' = Swap(array, last + 1, part.end)
  /\ pending' = <<Segment(part.start, last), Segment(last + 2, part.end)>> \o pending
  /\ pc' = "call"
  /\ UNCHANGED <<file, heapVars, part, now, last>>

QuickDone ==
  /\ pc = "call" /\ pending = <<>>
  /\ pc' = "done"
  /\ UNCHANGED <<file, array, heapVars, quickVars>>

-------------------------------------------------------------------------------

Heapsort == BuildRound \/ Built \/ SinkDown \/ Restored \/ Extract \/ HeapDone

Quicksort == Skip \/ StartPartition \/ Compare \/ Place \/ QuickDone

Next == Heapsort \/ Quicksort

Spec == Init /\ [][Next]_vars

\* A sorter that is not killed goes on.
FairSpec == Spec /\ WF_vars(Next)

-------------------------------------------------------------------------------
(* Properties. *)

\* Every variable has its type, and every place that is compared or swapped is
\* one of the array.
TypeOK ==
  /\ algorithm \in {"h", "q"}
  /\ size \in 0 .. MaxRecords
  /\ column \in [Places -> Values] /\ array \in [Places -> Places]
  /\ pc \in {"build", "extract", "restore", "call", "partition", "done"}
  /\ phase \in {"build", "extract"}
  /\ round \in 0 .. size /\ heap \in 0 .. size
  /\ pc = "restore" => i \in 1 .. heap
  /\ pending \in Seq([start : 1 .. size + 1, end : 0 .. size])
  /\ pc = "partition" => /\ 1 <= part.start /\ part.start <= now
                         /\ now <= part.end /\ part.end <= size
                         /\ part.start - 1 <= last /\ last < now

\* Both sorts leave the records in the order of the column, with every record of
\* the file there once: what the coach takes for granted when it merges.
SortedWhenDone ==
  pc = "done" =>
    /\ \A k, l \in Places : k < l => At(array, k) <= At(array, l)
    /\ \A r \in Places : \E k \in Places : array[k] = r

\* Between the rounds of heapsort() the records that were extracted are in their
\* final places, and the first ones are a heap: restore_heap() repairs it from
\* any place, also when a child is the last one or missing.
HeapBetweenRounds ==
  pc = "extract" =>
    /\ \A k \in 2 .. round : At(array, k) <= At(array, k \div 2)
    /\ \A k, l \in Places : k < l /\ round < l => At(array, k) <= At(array, l)

\* Both sorts end, also for arrays that are empty or full of equal values.
SortsEnd == <>(pc = "done")
===============================================================================
