SPECIFICATION Spec
CONSTANT Keys = {1, 2, 3, 4, 5, 6, 7}
CONSTRAINT NotSlipped
INVARIANTS
  TypeOK
  BalancedUnlessSlipped
PROPERTY ContractSpec
CHECK_DEADLOCK FALSE
