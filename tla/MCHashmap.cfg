SPECIFICATION FairSpec
CONSTANTS
  k1 = k1
  k2 = k2
  k3 = k3
  k4 = k4
  Key = {k1, k2, k3, k4}
  Value = {v1, v2}
  Hash <- MCHash
  Extends <- MCExtends
  Default = 2
  Limit = 4
  Empty = Empty
  Tomb = Tomb
  NoKey = NoKey
  NoValue = NoValue
INVARIANTS
  TypeOK
  UsedCount
  UniqueKeys
  ProbeChain
  RoomToInsert
  GrowthMoves
  FailsOnlyAtLimit
PROPERTIES
  ImplementsMap
  InsertReturns
  LookupReturns
