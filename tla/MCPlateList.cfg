SPECIFICATION PlatesSpec
CONSTANTS
  Plate = {1, 2, 3, 4, 5}
  Buses = 8
INVARIANTS
  PlatesTypeOK
  Ordered
  AtMostTwice
CHECK_DEADLOCK FALSE
