SPECIFICATION MCSpec
CONSTANTS
  File = {f, g}
  Peer = {p}
  NoFile = NoFile
  Size = {1, 2}
  MaxUpdates = 2
  MaxBytes = 3
  LockHolder = {"other"}
  MadeBound = 3
INVARIANTS Conserved CountBounded BytesExact
PROPERTIES ClearFilesDrain RefusedStopsSyncing ImplementsOutbox
CHECK_DEADLOCK FALSE
