SPECIFICATION MCSpec
CONSTANTS
  h1 = h1
  h2 = h2
  c1 = c1
  c2 = c2
  c3 = c3
  p1 = p1
  p2 = p2
  Host = {h1, h2}
  Client = {c1, c2, c3}
  DaemonOf <- MCDaemonOf
  Path = {p1, p2}
  NoPath = NoPath
  Patch <- MCPatch
  Files <- MCFiles
  MaxMishaps = 1
  MaxCalls = 2
  Peer = {x, y}
  MaxFrames = 2
  MaxBreaks = 1
INVARIANTS PatchUnderLock LocksKnown NeverStuck MembersListed LostOnlyByOvertaking
CHECK_DEADLOCK FALSE
SYMMETRY MCSymmetry
