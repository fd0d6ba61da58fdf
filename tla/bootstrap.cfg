SPECIFICATION Spec
CONSTANTS
  None = None
  Claim = {c1, c2}
  Registration = {r1}
  Token = {t1, t2}
  Email = {e1, e2}
  TTL = 1
  MaxTime = 1
SYMMETRY Symmetry
INVARIANTS
  BootstrapInv
  AllOrNothing
  ClaimsAreSerial
  NoStandstill
PROPERTIES
  BootstrapIsAtomic
CHECK_DEADLOCK FALSE
