SPECIFICATION Spec
CONSTANTS
  a = a
  b = b
  c = c
  scope = scope
  Path <- PlainPaths
  Conflict <- PlainConflict
  Holder = {A, B, C}
  NoHolder = NoHolder
  MaxLocks = 2
  MaxWaiters = 3
  MaxPriority = 1
  Requested = {0}
  Listening = FALSE
  TokenBound = 3
  WaiterBound = 3
INVARIANTS NoIdleWaiter NoOrphan Capacity
SYMMETRY PlainSymmetry
