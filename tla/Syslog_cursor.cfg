CONSTANTS
  Ascii = {"a"}
  Wide = TRUE
  Patterns = {""}
  Invalid = {}
  CopyMax = 1
  MaxBytes = 3
SPECIFICATION Spec
INVARIANT CursorAtLineStart
\* A panel that is closed, with its tail ended, stops.
CHECK_DEADLOCK FALSE
