SPECIFICATION StreamSpec
CONSTANTS
  Kind = {"word"}
  EOF = "eof"
  MaxSource = 2
  MaxRead = 4
  Bound <- MCBound
CHECK_DEADLOCK FALSE
INVARIANTS
  InOrder
  Accounted
  OnlyEofOutlives
  EndsOnce
