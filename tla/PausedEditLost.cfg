SPECIFICATION Spec
CONSTANTS
  File = {f}
  Blocked = {}
  Ignored = {}
  PauseId = {i}
  NoId = NoId
  Size = {1}
  MaxUpdates = 2
  MaxBytes = 2
  Check = {c}
  RemoteBound = 2
  WriteBound = 2
PROPERTIES PausedEditsSurvive
