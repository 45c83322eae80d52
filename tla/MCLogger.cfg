SPECIFICATION Spec
CONSTANTS
  Handle = {"default", "def", "err"}
  Extends <- MCExtends
  Null = Null
  MaxSinks = 3
  MaxHandles = 2
CHECK_DEADLOCK FALSE
INVARIANT
  Delivered
PROPERTY
  HandlesReachFirst
