CONSTANTS
  Byte = 2
  OctShort = 3
  OctLong = 5
  Half = 8
  Word = 64
  FileLists <- MCFileLists
  MaxJunk = 1
SPECIFICATION Spec
INVARIANT DevicesSurvive
CHECK_DEADLOCK FALSE
