CONSTANTS
  B = 4
  Item = {a, b}
  Marked = b
  Ptr = {p1, p2, p3, p4, p5, p6, p7, p8, p9}
  None = None
  MaxSize = 11
  MaxSkip = 11
SPECIFICATION IterSpecification
INVARIANTS IterTypeOK NoIterPanic IterPlaceExact
PROPERTY ImplementsIter
CHECK_DEADLOCK FALSE
VIEW IterView
CONSTRAINTS OneMarked AtEndsOrMiddle
