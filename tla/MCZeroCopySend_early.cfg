SPECIFICATION Spec
CONSTANTS
  Kinds = {"early"}
  N = 3
  IoThreads = {t1, t2}
INVARIANTS
  RegionOutlivesBuffers
CHECK_DEADLOCK FALSE
