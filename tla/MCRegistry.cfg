\* Three voters, one of them with a long id, in two postal codes; the filter is
\* made again after five updates.  Symmetry is sound: PollSpec has no liveness.
CONSTANTS
  p1 = p1
  p2 = p2
  Codes = {p1, p2}
  Ids = {1, 2, 3}
  Long = {3}
  Djb2 <- Djb2OfId
  Murmur <- MurmurOfId
  NumOfUpdates = 5
  MaxLines = 2
SPECIFICATION Spec
SYMMETRY Symmetry
INVARIANTS
  TypeOK
  CountersAgree
PROPERTY PollSpec
CHECK_DEADLOCK FALSE
