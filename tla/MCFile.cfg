SPECIFICATION Spec
CONSTANTS
  async = async
  sync = sync
  Segment = {0, 1}
  NoArticle = {}
  Foreign = {1}
  Misplaced = {1}
  Chunks = 2
  Gen = {0, 1}
  Async = {async}
  Sync = {sync}
  Reads <- FirstAndTwo
  WithCancel = {}
  MayCancel = FALSE
  MaxRetries = 1
  MaxEvictions = 0
INVARIANTS TypeOK RightData WaitsForLoading NoSegmentAbandoned
CHECK_DEADLOCK FALSE
