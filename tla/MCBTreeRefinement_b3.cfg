CONSTANTS
  B = 3
  Item = {a, b}
  Marked = b
  Ptr = {p1, p2, p3, p4, p5, p6, p7, p8, p9}
  None = None
  MaxSize = 6
SPECIFICATION Spec
INVARIANT NoPanic
PROPERTY ImplementsVec
CHECK_DEADLOCK FALSE
VIEW View
CONSTRAINT OneMarked
