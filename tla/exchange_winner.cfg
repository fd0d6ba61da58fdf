SPECIFICATION Spec
CONSTANTS
  Call = {c1, c2}
  Artifact = {a1}
  Retention = 1
  MaxTime = 1
  Old = Old
  None = None
INVARIANT ExchangedOnce
CHECK_DEADLOCK FALSE
