\* four names of two files, with and without contents
CONSTANTS
  N = 4
  Inodes = {i1, i2}
  Kinds = {"reg"}
  Modes = {"extract"}
  OldNames = {}
  Sizes = {1}
  LinkMax = 1
  Half = 3
  Word = 64
  Faults = {FALSE}
SPECIFICATION FairSpec
INVARIANTS LinksOfOneFile LinksResolved
PROPERTIES TerminatesUnfiltered
CHECK_DEADLOCK FALSE
