\* archives of up to three entries of every kind, in any order, with repetitions
CONSTANTS
  Names <- MCNames
  Above <- MCAbove
  Short = {"x"}
  Kinds = {"dir", "reg", "lnk", "dev", "other", "late"}
  DirModes <- MCDirModes
  MaxEntries = 3
SPECIFICATION MCSpec
INVARIANTS AllRestored LeadingDirectoriesMade 
CHECK_DEADLOCK FALSE
