CONSTANTS
  f1 = f1
  f2 = f2
  g = g
  none = none
  r1 = r1
  r2 = r2
  startup = startup
  NoRoot = NoRoot
  Folders = {f1, f2, g, none}
  Roots = {r1, r2}
  RootOf <- MCRootOf
  Handlers = {startup, ev1, ev2}
  MaxFolders = 2
  Batches <- MCBatches
  WithCommand = {"crosFormat", "boardsAndPackages"}
  Optional = {"spellchecker"}
  Undisposed = {"cppXrefs", "gitDirsWatcher"}
  MaxEvents = 3
  OutDirs = {o1, o2}
  NoDir = NoDir
  Jars = {"plain", "placeholder"}
  Clank = FALSE
  Updates = {u1, u2}
  Sessions = {s1, s2}
  NoSession = NoSession
  MaxMoves = 2
  Attempts = {a1, a2}
  Devices = {phone1, phone2}
  Processes = {pid1, pid2}
  Nowhere = Nowhere
  Calls = {c1, c2}
  Dirs = {"cache", "work"}
  Cleaned = {"work"}
  FileSystems = {"chroot", "out"}
  FirstTime = 10
  MaxHead = 3
  MaxWatchers = 2
  GitDirs = {d1}
  Refreshers = {refresh1}
  Commits = {h1}
  NoHead = NoHead
  MaxRemote = 1
SPECIFICATION MCSpec
INVARIANT
  LastEventIsRoot
\* Every change of the workspace has been handled: nothing is left to do.
CHECK_DEADLOCK FALSE
