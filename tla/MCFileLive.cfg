SPECIFICATION LiveSpec
CONSTANTS
  async = async
  sync = sync
  Segment = {0, 1, 2}
  NoArticle = {0}
  Foreign = {}
  Misplaced = {}
  Chunks = 1
  Gen = {0, 1}
  Async = {async}
  Sync = {sync}
  Reads <- FirstAndTwo
  WithCancel = {async}
  MayCancel = TRUE
  MaxRetries = 0
  MaxEvictions = 1
INVARIANT RightData
PROPERTIES ReadsEnd FilenameAnswered
CHECK_DEADLOCK FALSE
