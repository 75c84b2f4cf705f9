CONSTANTS
  B = 4
  Item = {a}
  Marked = b
  Ptr = {p1, p2, p3, p4, p5, p6, p7, p8, p9}
  None = None
  MaxSize = 6
SPECIFICATION CloneUseSpec
INVARIANT NoPanic
CHECK_DEADLOCK FALSE
