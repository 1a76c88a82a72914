SPECIFICATION FilterSpec
CONSTANTS
  File <- MCFile
  Line <- MCLine
  MaxPatterns = 1
INVARIANT CoversDirectories
CHECK_DEADLOCK FALSE
