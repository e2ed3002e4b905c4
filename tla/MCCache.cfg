SPECIFICATION Spec
CONSTANTS
  SegmentKey = {k1, k2, k3}
  Buffer = {b1, b2, b3, b4}
  User = {decoder, reader}
  MaxKeys = 1
  Recreate = TRUE
  MaxCreate = 4
INVARIANTS OwnBytes RightKey CanBeReused
CHECK_DEADLOCK FALSE
