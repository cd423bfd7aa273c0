CONSTANTS
  Dirs = {g1, g2}
  Files = {f1}
  Checks = {c1, c2}
  None = None
  MaxChanges = 2
SPECIFICATION Spec
INVARIANT
  DocumentIsOfItsDirectory
\* Changes are bounded: the instance may stop.
CHECK_DEADLOCK FALSE
