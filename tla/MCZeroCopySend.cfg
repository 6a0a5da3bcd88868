SPECIFICATION FairSpec
CONSTANTS
  Kinds = {"range", "mmap"}
  N = 8
  IoThreads = {t1, t2}
INVARIANTS
  RegionOutlivesBuffers
  HintOutlivesUsers
PROPERTIES
  ImplementsLentRegion
  HintIsFreed
CHECK_DEADLOCK FALSE
