SPECIFICATION FairSpec
CONSTANTS
  Buses = 2
  Manager = Manager
  Comptroller = Comptroller
INVARIANTS
  TypeOK
  CleanStop
  ForcedByError
PROPERTY StopEnds
CHECK_DEADLOCK FALSE
