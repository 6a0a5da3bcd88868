SPECIFICATION Spec
CONSTANTS
  ChunkSeq = {0, 1, 2}
  FrameSeq = {0, 1, 2}
INVARIANTS
  MidChunkIsPresent
  RevealedInOrder
PROPERTIES
  ImplementsInOrderStream
CHECK_DEADLOCK FALSE
