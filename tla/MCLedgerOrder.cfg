SPECIFICATION FairSpec
CONSTANTS
  Bus = {b1}
  b1 = b1
  NoBus = NoBus
  Capacity = 2
PROPERTY StatusIsPrinted
CHECK_DEADLOCK FALSE
