CONSTANTS
  N = 3
  Inodes = {i1, i2}
  Kinds = {"reg"}
  Modes = {"extract"}
  OldNames = {}
  Sizes = {1}
  LinkMax = 1
  Half = 3
  Word = 64
  Faults = {FALSE}
SPECIFICATION FairSpec
PROPERTIES Terminates
CHECK_DEADLOCK FALSE
