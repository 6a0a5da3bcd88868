SPECIFICATION PipelineSpec
CONSTANTS
  ChunkSeq = {0}
  FrameSeq = {0, 1, 2, 3}
  Decoders = {d1, d2}
  NumChunks = 2
  FrameCounts = {0, 1, 2}
  MayFail = TRUE
  FbHwm = 1
  TotalFnum = 3
INVARIANTS
  PipelineTypeOK
  OneChunkOnly
  FrameEofIsLast
PROPERTIES
  DiesOnCollision
  StreamSettles
CHECK_DEADLOCK FALSE
