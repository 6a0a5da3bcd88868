SPECIFICATION FairDaemonSpec
CONSTANTS
  c1 = c1
  c2 = c2
  r1 = r1
  r2 = r2
  Workers = {w1, w2}
  MaxFrames = 3
  Cameras = {c1, c2}
  Jobs = {r1, r2}
  MaxPosts = 2
  Camera = c1
  Setups <- MCSetups
INVARIANTS
  DaemonTypeOK
  WholeFramesInOrder
  OneFrameWaits
  NoLostWakeup
  PostedBeforeDeleted
  TwiceOnlyIfTakenBack
  FrameShownOnce
PROPERTIES
  FramesAreTaken
  ResultsArePosted
CHECK_DEADLOCK FALSE
