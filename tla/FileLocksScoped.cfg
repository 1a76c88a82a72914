SPECIFICATION Spec
CONSTANTS
  a = a
  b = b
  c = c
  scope = scope
  Path <- ScopedPaths
  Conflict <- ScopedConflict
  Holder = {A, B, C}
  NoHolder = NoHolder
  MaxLocks = 2
  MaxWaiters = 2
  MaxPriority = 1
  Requested = {0, 7}
  Listening = TRUE
  TokenBound = 2
  WaiterBound = 2
INVARIANTS MutualExclusion TokensDistinct
PROPERTIES GrantsInOrder ImplementsExclusiveLocks
SYMMETRY Symmetry
