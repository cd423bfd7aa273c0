CONSTANTS
  r4 = r4
  p1 = p1
  p2 = p2
  Requests = {r1, r3, r4}
  Paths = {p1, p2}
  PathOf <- MCPathOf
  ScopeOf <- MCScopeOf
  Forced = {r3}
  Boards = {b1, b2}
SPECIFICATION FairSpec
INVARIANTS
  GenerationsAreRecorded
  SpinnerIsRight
PROPERTIES
  EveryTouchHandled
\* Every event has been handled: the bounded instance may stop.
CHECK_DEADLOCK FALSE
