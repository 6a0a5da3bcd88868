SPECIFICATION ReadingSpec
CONSTANTS
  Shapes <- MCAllShapes
  Thresholds = 1
  Heard <- MCHeard
  MinConfidence = 65
  SkipLevel = 80
  MinChars = 1
  MaxChars = 2
  TopN = 3
  Patterns <- MCPatterns
  Unknown <- MCUnknown
  MustMatch = "yes"
INVARIANTS
  BlackOnWhite
CHECK_DEADLOCK FALSE
