SPECIFICATION FairSpec
CONSTANT NumCoaches = 4
INVARIANTS
  TypeOK
  TableRight
  WaitsMatch
PROPERTY CoordinatorEnds
CHECK_DEADLOCK FALSE
