SPECIFICATION FairSpec
CONSTANTS
  NZBs <- MCNZBs
  Layout <- MCLayout
  MaxFailures = 1
  MaxStarts = 2
  Stops <- MCStops
  MayUnmount = TRUE
  MayRead = TRUE
INVARIANTS TypeOKDrive ScopesCounted NoLateUse NothingMissing VolumesInOrder ReadsRight Browsable
PROPERTIES MountEnds StopReturns
CHECK_DEADLOCK FALSE
