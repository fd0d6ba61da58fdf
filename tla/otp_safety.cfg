SPECIFICATION Spec
CONSTANTS
  e1 = e1
  None = None
  Challenge = {c1}
  Attempt = {r1, r2, r3}
  Email = {e1}
  Addressee <- MCAddressee
  MaxAttempts = 2
  TTL = 1
  MaxTime = 1
SYMMETRY Symmetry
INVARIANTS
  LoginInv
  BudgetAccounting
  TruthfulAnswers
  GrantIsBacked
  RedeemsGoOn
PROPERTIES
  SpentIsFinal
  CodeIsOneTime
CHECK_DEADLOCK FALSE
