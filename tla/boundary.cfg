SPECIFICATION FairSpec
CONSTANTS
  Read = {r1}
  Write = {w1}
  MaxRetries = 1
  Skew = 1
  Second = 2
  MaxOffset = 1
  MaxCalls = 1
  MaxTime = 4
  MaxCopies = 1
  MaxRestarts = 1
INVARIANTS
  BoundaryInv
  NonceOnce
  WriteAtMostOnce
  ProductionServes
PROPERTY
  EveryRequestSettles
CHECK_DEADLOCK FALSE
