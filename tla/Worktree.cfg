SPECIFICATION MCSpec
CONSTANTS
  a = a
  b = b
  Daemon = {d, e}
  Text = {a, b}
  Absent = Absent
  None = None
  MaxSaves = 1
  MaxUpdates = 3
  MaxUnloads = 1
  AtStart <- MCAtStart
  Refused <- MCRefused
  Name = {p, q}
  Hash = {h, k}
  NoFile = NoFile
  MaxSteps = 3
  NoPid = NoPid
  Alien = Alien
  Gone = Gone
  MaxProcs = 2
  MaxCommands = 4
  Command = {c1, c2}
  Char <- MCChar
  Secret <- MCSecret
  Given <- MCGiven
  Asked <- MCAsked
  Touched <- MCTouched
  Pattern = {x}
  Defaults = {y}
  Nothing = Nothing
  MaxRuns = 2
  MaxMeddling = 2
  File <- MCFile
  Line <- MCLine
  MaxPatterns = 2
INVARIANTS Converged SettledFilesAgree NoEcho ManifestExact FilesLeadToDaemon
  HooksInstalled StartsAsSetUp IgnoresWhatIsWritten
PROPERTIES StopKeepsDocument
CHECK_DEADLOCK FALSE
SYMMETRY MCSymmetry
