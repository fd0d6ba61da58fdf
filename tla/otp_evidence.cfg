SPECIFICATION Spec
CONSTANTS
  e1 = e1
  None = None
  Challenge = {c1}
  Attempt = {r1, r2}
  Email = {e1}
  Addressee <- MCAddressee
  MaxAttempts = 1
  TTL = 1
  MaxTime = 1
INVARIANT SessionHasEvidence
CHECK_DEADLOCK FALSE
