SPECIFICATION FairSpec
CONSTANTS
  MaxRecords = 7
  Values = {1, 2, 3}
INVARIANTS
  TypeOK
  SortedWhenDone
  HeapBetweenRounds
PROPERTY SortsEnd
CHECK_DEADLOCK FALSE
