SPECIFICATION FairSpec
CONSTANTS
  a = a
  b = b
  c = c
  scope = scope
  Path <- ScopedPaths
  Conflict <- ScopedConflict
  Holder = {A, B}
  NoHolder = NoHolder
  MaxLocks = 3
  MaxWaiters = 2
  MaxPriority = 1
  Requested = {0}
  Listening = FALSE
  TokenBound = 2
  WaiterBound = 2
PROPERTIES CallsReturn EveryWaiterAnswered OnlyHolderReleases
