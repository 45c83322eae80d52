SPECIFICATION Spec
CONSTANTS
  Sorts <- ExpressionSorts
  Kind <- SortKinds
  EOF = "eof"
  MaxSource = 1
  Bound <- MCBound
CHECK_DEADLOCK FALSE
INVARIANTS
  TypeOK
  TreesOfGrammar
  NoSentenceLost
  OwnedOnce
  NothingLost
  StackIsLinear
