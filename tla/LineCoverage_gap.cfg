CONSTANTS
  MaxLine = 3
  MaxSegments = 3
  Counts = {1}
SPECIFICATION Spec
INVARIANT GapsDoNotCount
CHECK_DEADLOCK FALSE
