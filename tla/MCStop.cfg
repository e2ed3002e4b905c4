CONSTANTS
  Server = {0, 1}
  Backup = {1}
  Threads <- One
  Pipeline <- Two
  Gen = {0, 1}
  Article = {a1}
  Cancelable = {a1}
  Removable = {0}
  MayStop = TRUE
  MaxStrand = 1
  MaxFaults = 0
CHECK_DEADLOCK FALSE
SPECIFICATION FairSpec
PROPERTIES ServiceSpec PostedEnds
