\* every kind of entry, every mode, old files, failing calls; a size that is
\* too long for a link, and negative when it is cast
CONSTANTS
  N = 2
  Inodes = {i1, i2}
  Kinds = {"reg", "dir", "dev", "fifo", "lnk"}
  Modes = {"extract", "rename", "stdout", "list", "append"}
  OldNames = {1, 2}
  Sizes = {1, 4}
  LinkMax = 1
  Half = 3
  Word = 64
  Faults = {TRUE, FALSE}
SPECIFICATION Spec
SYMMETRY Symmetry
INVARIANTS KeepsItsPlace
PROPERTIES OldKept
CHECK_DEADLOCK FALSE
