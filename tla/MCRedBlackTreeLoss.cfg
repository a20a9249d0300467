SPECIFICATION FairSpec
CONSTANT Keys = {1, 2, 3, 4, 5}
PROPERTY NothingLost
CHECK_DEADLOCK FALSE
