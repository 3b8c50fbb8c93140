\* every option, linked files, files that another process shortens; the larger
\* size is one that the cast makes negative
CONSTANTS
  Names = {a, b}
  Inodes = {1, 2}
  Kinds = {"reg", "dir", "node"}
  Sizes = {2, 3}
  Half = 3
  Word = 8
  MaxList = 2
  Faults = {TRUE, FALSE}
SPECIFICATION Spec
SYMMETRY Symmetry
INVARIANTS SizeAsStated SourcesKept LinkedNotCopied NoNameForgotten
PROPERTIES NewerKept
CHECK_DEADLOCK FALSE
