\* Three buses of five mixtures of types, one spot in each bay: full bays,
\* overflow to PEL, buses without a spot.
CONSTANTS
  b1 = b1
  b2 = b2
  b3 = b3
  Bus = {b1, b2, b3}
  NoBus = NoBus
  SpotsNumber <- OneSpotEach
SPECIFICATION MixedSpec
INVARIANTS
  TypeOK
  FormIntegrity
  ManeuversExclude
  SpotsExact
  TokensCovered
PROPERTIES
  LotSpec
  ServedUnlessLost
CHECK_DEADLOCK FALSE
