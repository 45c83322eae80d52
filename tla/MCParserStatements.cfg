SPECIFICATION FairSpec
CONSTANTS
  Sorts <- StatementSorts
  Kind <- SortKinds
  EOF = "eof"
  MaxSource = 1
  Bound <- MCBound
CHECK_DEADLOCK FALSE
INVARIANTS
  TreesOfGrammar
  NoSentenceLost
  TakesAll
  BracketsMatch
  CrashesAtEnd
  EndsBeforeEof
PROPERTY
  Terminates
