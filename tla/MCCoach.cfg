SPECIFICATION TurnsSpec
CONSTANTS
  Files <- SmallFiles
  CoachNums = {0, 1, 2}
  PipeSz = 3
  ErrLens = {1, 2, 3}
INVARIANTS
  TypeOK
  PartsCover
  ResultsInOrder
  LoopEndsInTime
  SuccessIsComplete
  FailureHasCause
PROPERTIES
  ContractSpec
  AllEnd
CHECK_DEADLOCK FALSE
