CONSTANTS
  d1 = d1
  d2 = d2
  e1 = e1
  none = none
  dir1 = dir1
  dir2 = dir2
  NoDir = NoDir
  startup = startup
  Docs = {d1, d2, e1, none}
  Dirs = {dir1, dir2}
  DirOf <- MCDirOf
  Handlers = {startup, ev1, ev2, ev3}
  FormatDocs = {d1, d2}
  NoDoc = NoDoc
  Calls = {u1, u2}
  MaxSaves = 2
  MaxComments = 2
  MaxEvents = 4
  N = 5
  MaxInsert = 2
  MaxLine = 3
  MaxSegments = 3
  Counts = {1}
  FormatCalls = {c1}
  MaxEdits = 1
  MaxChanges = 1
  MaxOptions = 4
  Additions = {a1, a2, a3}
  Cider = TRUE
  MaxChoices = 2
  Labels = {ash}
  Watches = {1, 2}
  Once = Once
  MaxOnce = 1
SPECIFICATION MCSpec
SYMMETRY MCSymmetry
INVARIANTS
  WatchedIsVisibleIsOpen
  ThreadIsRight
  LinesAreRight
  OptionsSurvive
  
PROPERTIES
  FormatterObeys
\* Saves, comments and edits are bounded: the instance may stop.
CHECK_DEADLOCK FALSE
