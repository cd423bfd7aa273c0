CONSTANTS
  Jobs = {j1, j2, j3, j4}
  MaxHead = 3
  MaxWatchers = 2
  Dirs = {d1}
  Refreshers = {r1}
  Commits = {h1}
  NoHead = NoHead
  MaxRemote = 1
  Ascii = {"a"}
  Wide = FALSE
  Patterns = {""}
  Invalid = {}
  CopyMax = 1
  MaxBytes = 3
  Labels = {ash}
  Watches = {1, 2}
  Once = Once
  MaxSaves = 2
  MaxOnce = 0
SPECIFICATION MCSpec
INVARIANTS
  OneAtATime
  IdleMeansLatestDone
PROPERTIES
  OnlyNewestStarts
  EveryOfferSettled
  TheNewestArrives
  
  
\* Offers, changes and saves are bounded: the instance may stop.
CHECK_DEADLOCK FALSE
