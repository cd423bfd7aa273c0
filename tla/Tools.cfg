\* One component runs at a time, so the calls and the runs of several have the
\* same names, and one group of permutations does for all.
CONSTANTS
  d1 = d1
  d2 = d2
  k1 = k1
  crosfleet = crosfleet
  spell = spell
  Ascii = {"a"}
  Wide = TRUE
  Patterns = {"", "a", "("}
  Invalid = {"("}
  CopyMax = 1
  MaxBytes = 3
  Majors = {1, 2, 3, 4, 5}
  Local = 3
  Skews = {1, 2}
  Builds = {1}
  DeviceMajors = {1, 2}
  MaxSkew = 0
  MaxChanges = 1
  Docs = {d1, d2}
  NoDoc = NoDoc
  Language <- MCLanguage
  Has <- MCHas
  Runs = {r1, r2}
  MaxSaves = 1
  MaxToggles = 1
  Dirs = {g1}
  Files = {file1}
  Checks = {k1, k2}
  None = None
  SpellMaxChanges = 2
  Callers = {crosfleet, spell, dirmd}
  PackageOf <- MCPackageOf
  Nobody = Nobody
  Calls = {c1, c2}
  Sockets = 2
  MaxLog = 2
  MaxLapses = 1
  case1 = case1
  case2 = case2
  Cases = {case1, case2}
  SuiteOf <- MCSuiteOf
  Parameterized = {case2}
  Homes = {h1, h2}
  MaxEdits = 2
  Names = {n1, n2}
  Inside = {n1}
  Views = {c1, c2}
  Pickers = {p1}
  GnOutputs <- MCGnOutputs
  Host = "linux"
  NoLink = NoLink
  NotALink = NotALink
  MaxOutEvents = 2
SPECIFICATION MCSpec
SYMMETRY MCSymmetry
INVARIANTS
  ShownIsLogged
  SuggestionsAreRight
  DiagnosticsAreCurrent
  ToolsAreReady
PROPERTIES
  
  ViewIsDisk
\* The user's steps are bounded: the instance may stop.
CHECK_DEADLOCK FALSE
