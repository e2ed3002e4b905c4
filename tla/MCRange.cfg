SPECIFICATION Spec
CONSTANTS
  Last = 3
  Size = {1, 2}
  Estimate = {0, 3}
  MaxSpan = 2
INVARIANT AllBytes
PROPERTY ReadyAtLast
CHECK_DEADLOCK FALSE
