SPECIFICATION FairSpec
CONSTANTS
  Workers = {w1, w2}
  CHUNK_SIZE = 2
  chunk_num = 5
  BlockSize = 14
  TotalFnum = 16
  DbFrames = 17
  MotionFrames <- MCMotion
  PlateFrames <- MCPlates
INVARIANTS
  OnlySharedFlagsBreak
  InsideRing
PROPERTIES
  RoundIsProcessed
CHECK_DEADLOCK FALSE
