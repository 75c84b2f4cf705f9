CONSTANTS
  B = 5
  Item = {a}
  Ptr = {p1, p2, p3, p4, p5, p6, p7, p8, p9}
  None = None
  MaxSize = 14
SPECIFICATION Spec
INVARIANTS NoPanic InductiveFound Filled
CHECK_DEADLOCK FALSE
VIEW View
