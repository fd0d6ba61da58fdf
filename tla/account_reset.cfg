SPECIFICATION Spec
CONSTANTS
  None = None
  Old = Old
  Call = {c1, c2}
  TTL = 1
  MaxTime = 0
INVARIANT NoSessionOfAnOldPassword
CHECK_DEADLOCK FALSE
