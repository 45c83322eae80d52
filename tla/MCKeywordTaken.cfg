SPECIFICATION TableSpec
CONSTANTS
  Identifiers <- MCIdentifiers
  Key <- TableKey
  Value <- Keywords
  Hash <- TableHash
  Extends <- TableExtends
  Default = 32
  Limit = 8192
  Empty = Empty
  Tomb = Tomb
  NoKey = NoKey
  NoValue = NoValue
CHECK_DEADLOCK FALSE
INVARIANT
  OnlyKeywordsTaken
