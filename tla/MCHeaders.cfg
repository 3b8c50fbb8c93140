CONSTANTS
  Byte = 2
  OctShort = 3
  OctLong = 5
  Half = 8
  Word = 64
  FileLists <- MCFileLists
  MaxJunk = 1
SPECIFICATION Spec
INVARIANTS EntriesAsWritten OnlyJunkSkipped NumbersSurvive OldDevicesSurvive FilesStayApart
CHECK_DEADLOCK FALSE
