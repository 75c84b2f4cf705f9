CONSTANTS
  B = 4
  Item = {a}
  Ptr = {p1, p2, p3, p4, p5, p6, p7, p8, p9, p10, p11}
  None = None
  MaxSize = 15
SPECIFICATION Spec
INVARIANTS NoPanic SizesExact Filled
CONSTRAINT AtEndsOrMiddle
CHECK_DEADLOCK FALSE
VIEW View
