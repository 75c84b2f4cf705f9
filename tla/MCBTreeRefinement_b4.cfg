CONSTANTS
  B = 4
  Item = {a, b}
  Marked = b
  Ptr = {p1, p2, p3, p4, p5, p6, p7, p8, p9}
  None = None
  MaxSize = 11
SPECIFICATION Spec
INVARIANTS TypeOK NoPanic Initialised Linked SizesExact Filled OwnedOnce Balanced LeafChain
PROPERTY ImplementsVec
CHECK_DEADLOCK FALSE
VIEW View
CONSTRAINT OneMarked
