\* two files of up to two blocks and a half, with holes and without
CONSTANTS
  Block = 4
  MaxLen = 10
  Patterns <- MCPatterns
  MaxFiles = 2
SPECIFICATION FairSpec
INVARIANTS DiskIsPrefix ClosedIsWhole
PROPERTIES CopyEnds
CHECK_DEADLOCK FALSE
