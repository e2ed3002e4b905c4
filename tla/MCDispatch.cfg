CONSTANTS
  Server = {0, 1}
  Backup = {1}
  Threads <- One
  Pipeline <- Two
  Gen = {0, 1}
  Article = {a1, a2}
  Cancelable = {}
  Removable = {}
  MayStop = FALSE
  MaxStrand = 1
  MaxFaults = 1
CHECK_DEADLOCK FALSE
SPECIFICATION Spec
INVARIANT TypeOK OneOwner NoCommandLost NeverAskedTwice PipelineBound NoLostWakeup
PROPERTY ServiceSpec
SYMMETRY SymmetricArticles
