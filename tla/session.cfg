SPECIFICATION Spec
CONSTANTS
  None = None
  Session = {s1, s2}
  Rotation = {c1, c2, c3}
  IdleTTL = 1
  AbsoluteTTL = 2
  MaxTime = 2
  MaxCredential = 3
SYMMETRY Symmetry
INVARIANTS
  SessionInv
  ReplayKillsFamily
  AbsoluteBound
PROPERTIES
  FamilyIsLinear
CHECK_DEADLOCK FALSE
