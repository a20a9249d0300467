\* Three buses over two spots.
SPECIFICATION FairSpec
CONSTANTS
  Bus = {b1, b2, b3}
  b1 = b1
  b2 = b2
  b3 = b3
  NoBus = NoBus
  Capacity = 2
INVARIANTS
  TypeOK
  UpdatesKept
  StatusSnapshot
PROPERTY ApprovalIsGiven
CHECK_DEADLOCK FALSE
