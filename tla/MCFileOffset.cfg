SPECIFICATION Spec
CONSTANTS
  async = async
  sync = sync
  Segment = {0, 1}
  NoArticle = {}
  Foreign = {}
  Misplaced = {}
  Chunks = 2
  Gen = {0, 1}
  Async = {async}
  Sync = {sync}
  Reads <- AllAndLast
  WithCancel = {}
  MayCancel = FALSE
  MaxRetries = 1
  MaxEvictions = 0
INVARIANT WholeData
CHECK_DEADLOCK FALSE
