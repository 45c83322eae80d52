SPECIFICATION UnitSpec
CONSTANTS
  Sorts <- UnitSorts
  Kind <- SortKinds
  EOF = "eof"
  MaxSource = 1
  Bound <- MCBound
CHECK_DEADLOCK FALSE
INVARIANTS
  TouchesHeld
  PlainFreed
  DestroyedExactly
