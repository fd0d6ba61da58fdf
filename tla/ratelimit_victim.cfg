SPECIFICATION Spec
CONSTANTS
  None = None
  Call = {c1, c2, c3}
  Account = {a1}
  Source = {s1, s2}
  AccountBudget = 2
  SourceBudget = 1
  Window = 1
  Lock = 2
  MaxTime = 0
INVARIANT OneSourceCannotLock
CHECK_DEADLOCK FALSE
