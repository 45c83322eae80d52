SPECIFICATION Spec
CONSTANTS
  Sorts <- AssignSorts
  Kind <- SortKinds
  EOF = "eof"
  MaxSource = 1
  Bound <- MCBound
CHECK_DEADLOCK FALSE
INVARIANT
  AssignOperators
