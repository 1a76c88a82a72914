SPECIFICATION DocSpec
CONSTANTS
  a = a
  b = b
  Daemon = {d, e}
  Text = {a, b}
  Absent = Absent
  None = None
  MaxSaves = 1
  MaxUpdates = 3
  MaxUnloads = 1
  AtStart <- MCAtStart
  Refused <- MCRefused
PROPERTIES ReloadedOnAccess
CHECK_DEADLOCK FALSE
