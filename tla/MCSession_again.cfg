SPECIFICATION SessionSpec
CONSTANTS
  ChunkSeq = {0}
  FrameSeq = {0, 1, 2, 3, 4}
  Requests <- MCThree
  DbSizes = {6}
  Rounds = 2
INVARIANTS
  SlotsInOrder
CHECK_DEADLOCK FALSE
