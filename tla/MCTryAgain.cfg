CONSTANTS
  Server = {0}
  Backup = {}
  Threads <- Two
  Pipeline <- One
  Gen = {0, 1}
  Article = {a1}
  Cancelable = {}
  Removable = {}
  MayStop = FALSE
  MaxStrand = 1
  MaxFaults = 2
CHECK_DEADLOCK FALSE
SPECIFICATION Spec
INVARIANT TriedAgain
