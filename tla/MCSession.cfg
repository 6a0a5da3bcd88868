SPECIFICATION SessionSpec
CONSTANTS
  ChunkSeq = {0}
  FrameSeq = {0, 1, 2, 3, 4}
  Requests <- MCRequests
  DbSizes = {2, 3, 4, 5, 6}
  Rounds = 1
INVARIANTS
  SessionTypeOK
  NothingLeftOver
  SlotsInOrder
PROPERTIES
  RoundCompletes
CHECK_DEADLOCK FALSE
