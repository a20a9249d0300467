\* A bus that leaves while another arrives.
SPECIFICATION Spec
CONSTANTS
  Bus = {b1, b2}
  b1 = b1
  b2 = b2
  NoBus = NoBus
  Capacity = 2
INVARIANT StatsExact
CHECK_DEADLOCK FALSE
