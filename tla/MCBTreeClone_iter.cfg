CONSTANTS
  B = 4
  Item = {a}
  Marked = b
  Ptr = {p1, p2, p3, p4, p5, p6, p7, p8, p9}
  None = None
  MaxSize = 5
SPECIFICATION CloneSpec
INVARIANT CopyIterates
CHECK_DEADLOCK FALSE
