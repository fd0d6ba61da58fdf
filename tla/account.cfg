SPECIFICATION Spec
CONSTANTS
  None = None
  Old = Old
  Call = {c1, c2, c3}
  TTL = 1
  MaxTime = 1
SYMMETRY Symmetry
INVARIANTS
  AccountInv
  TokenSpentOnce
  CutOff
PROPERTIES
  AccountIsAtomic
CHECK_DEADLOCK FALSE
