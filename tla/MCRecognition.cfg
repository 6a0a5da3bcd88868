SPECIFICATION FairRecognitionSpec
CONSTANTS
  Shapes <- MCAllShapes
  Thresholds = 1
  Heard <- MCHeard
  MinConfidence = 65
  SkipLevel = 80
  MinChars = 1
  MaxChars = 2
  TopN = 3
  Patterns <- MCPatterns
  Unknown <- MCUnknown
  Tasks <- MCTasks
  Near <- MCNear
  CountryOf <- MCCountryOf
  DefaultRegion <- MCDefaultRegion
  MustMatch = "no"
INVARIANTS
  NothingElseLost
  BestFirst
  NothingBetterMissed
  BestIsBestMatch
  LinesApart
  RecognitionTypeOK
  LookedAtIfNeeded
  OnlyRegionIsUsed
  PlatesApart
  ConfidentReadingsSurvive
  UnanimousWins
PROPERTIES
  RecognitionEnds
CHECK_DEADLOCK FALSE
