SPECIFICATION PtrSpec
CONSTANTS
  Ptr = {p1, p2, p3}
  Object = {o1, o2}
  nullptr = nullptr
INVARIANT NeverDangling
CHECK_DEADLOCK FALSE
