SPECIFICATION Spec
CONSTANTS
  v1 = v1
  v2 = v2
  v3 = v3
  Symbol = {v1, v2, v3}
  Name = {"x", "xy"}
  NameOf <- MCNameOf
  Extends <- MCExtends
  Null = Null
  MaxScopes = 4
CHECK_DEADLOCK FALSE
INVARIANTS
  ChainIsPath
  FreedOnce
PROPERTY
  ImplementsScopes
