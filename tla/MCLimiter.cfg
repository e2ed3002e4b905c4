SPECIFICATION FairSpec
CONSTANTS
  Target = {s1, s2}
  Sizes = {3}
  Shapes <- TwoShapes
  Extra = {0}
  MaxReceived = 6
  MaxInserts = 2
INVARIANTS TypeOK RateHeld TokensKept PausedHasTimer
PROPERTY PausedResumes
CHECK_DEADLOCK FALSE
