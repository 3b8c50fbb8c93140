\* every list of up to three lines over the links of two files, which may
\* vanish, shrink, grow, be unreadable or not fit a header; the largest size
\* is one that the cast makes negative
CONSTANTS
  Names = {n1, n2, n3}
  Blank = blank
  Inodes = {i1, i2}
  Number <- OneNumber
  Kinds = {"reg", "lnk", "node"}
  MaxLinks = 3
  Half = 3
  Word = 8
  MaxSize = 3
  MaxList = 3
  Faults = TRUE
SPECIFICATION Spec
SYMMETRY Symmetry
INVARIANTS EntriesMatchHeaders EveryNameAccounted DeferredBelowLinks ContentsOnce CompleteGroupsHaveContents
CHECK_DEADLOCK FALSE
