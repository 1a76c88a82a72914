SPECIFICATION FairSpec
CONSTANTS
  File = {f, b}
  Blocked = {b}
  Ignored = {}
  PauseId = {i}
  NoId = NoId
  Size = {1, 2}
  MaxUpdates = 2
  MaxBytes = 3
  Check = {c, d}
  RemoteBound = 2
  WriteBound = 1
INVARIANTS Accounted MergedInOrder
PROPERTIES PausesHold GitPauseEnds
