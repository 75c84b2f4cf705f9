CONSTANTS
  B = 4
  Item = {a, b}
  Marked = b
  Ptr = {p1, p2, p3, p4, p5, p6, p7, p8, p9, p10, p11, p12, p13, p14, p15, p16, p17, p18}
  None = None
  MaxSize = 11
SPECIFICATION CloneSpec
INVARIANT OwnedApart
PROPERTIES CloneReadsEqual ImplementsPair
CHECK_DEADLOCK FALSE
VIEW CloneView
CONSTRAINTS OneMarkedEach GrowsAtEnd
