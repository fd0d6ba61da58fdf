SPECIFICATION Spec
CONSTANTS
  Call = {c1, c2, c3}
  Artifact = {a1}
  Retention = 1
  MaxTime = 1
  Old = Old
  None = None
SYMMETRY Symmetry
INVARIANTS
  StoreInv
  GrantIsRevoked
  ConsentFollows
  IssuedIsSpent
  SerialMerge
PROPERTIES
  StoreIsAtomic
  CleanupSparesLive
CHECK_DEADLOCK FALSE
