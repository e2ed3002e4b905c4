CONSTANTS
  Server = {0}
  Backup = {}
  Threads <- One
  Pipeline <- Two
  Gen = {0, 1}
  Article = {a1, a2}
  Cancelable = {}
  Removable = {}
  MayStop = FALSE
  MaxStrand = 1
  MaxFaults = 1
SPECIFICATION Spec
INVARIANT NoLiveClientDestroyed
