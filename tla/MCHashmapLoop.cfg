SPECIFICATION FairSpec
CONSTANTS
  k1 = k1
  k2 = k2
  k3 = k3
  k4 = k4
  Key <- MCKey3
  Value = {v1}
  Hash <- MCHash3
  Extends <- MCExtends
  Default = 2
  Limit = 4
  Empty = Empty
  Tomb = Tomb
  NoKey = NoKey
  NoValue = NoValue
PROPERTY
  RetrieveReturns
