CONSTANTS
  B = 4
  Item = {a, b}
  Marked = b
  Ptr = {p1, p2, p3, p4, p5, p6, p7, p8, p9}
  None = None
  MaxSize = 6
SPECIFICATION CloneSpec
INVARIANTS NoPanic SizesExact OwnedApart
PROPERTIES OriginalUntouched CloneReadsEqual ImplementsPair
CHECK_DEADLOCK FALSE
VIEW CloneView
CONSTRAINT OneMarkedEach
