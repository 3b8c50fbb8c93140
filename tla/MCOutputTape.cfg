\* requests shorter than a block, equal to it and spanning up to three blocks
CONSTANTS
  IoBlock = 3
  MaxLen = 13
  MaxRequest = 7
SPECIFICATION FairTapeSpec
INVARIANTS FileIsStream WholeBlocks DoneIsPadded
PROPERTIES CallsReturn
CHECK_DEADLOCK FALSE
