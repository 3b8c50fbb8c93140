\* default geometry: the block, the look-ahead and half the buffer are equal
CONSTANTS
  IoBlock = 2
  Half = 2
  PeekSize = 2
  MagicSize = 1
  MaxLen = 5
  MaxRequest = 3
SPECIFICATION FairSpec
INVARIANTS WindowIsStream BytesAccounted PeekFits CrcCoversFile
PROPERTIES ImplementsByteStream CallsReturn
CHECK_DEADLOCK FALSE
