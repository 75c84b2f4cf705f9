CONSTANTS
  B = 4
  Item = {a, b}
  Marked = b
  Ptr = {p1, p2, p3, p4, p5, p6, p7, p8, p9}
  None = None
  MaxSize = 11
SPECIFICATION IntoSpec
INVARIANTS IntoTypeOK NoPanic NoUninitialisedRead Initialised NodesFreedOnce SizeHintExact
PROPERTY ImplementsDrain
CHECK_DEADLOCK FALSE
VIEW IntoView
CONSTRAINTS OneMarked AtEndsOrMiddle
