SPECIFICATION EagerSpec
CONSTANTS
  ChunkSeq = {0, 1}
  FrameSeq = {0, 1, 2, 3}
  NumFrames = 3
INVARIANTS
  NeverAborts
CHECK_DEADLOCK FALSE
