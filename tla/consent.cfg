SPECIFICATION Spec
CONSTANTS
  Tab = {t1, t2}
  Post = {p1, p2}
  Decide = {d1}
  Interaction = {i1, i2}
  Agent = {"opaque", "visible"}
  None = None
SYMMETRY Symmetry
INVARIANTS
  ConsentInv
  AllowanceIsRecorded
  AnswerStands
CHECK_DEADLOCK FALSE
