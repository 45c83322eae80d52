SPECIFICATION FairSpec
CONSTANTS
  Texts <- MCTexts
  Keywords <- MCKeywords
CHECK_DEADLOCK FALSE
INVARIANTS
  TokensPlaced
  MaximalMunch
PROPERTIES
  ImplementsStream
  ReachesEnd
