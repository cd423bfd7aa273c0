CONSTANTS
  Jobs = {j1, j2, j3, j4}
  host1 = host1
  host2 = host2
  other = other
  Calls = {c1, c2, c3}
  Hosts = {host1}
  HostOf <- MCHostOf
  Ports = {p1, p2, p3}
  VncCalls = {c1, c2, other}
  VncHosts = {host1, host2}
  VncHostOf <- MCVncHostOf
SPECIFICATION MCSpec
INVARIANTS
  TunnelsAreUsableAndOne
  MutualExclusion
  PanelsAreOpenAndOne
PROPERTIES
  EveryCallAnswered
  ImplementsExclusiveQueue
  EveryCallReturns
  ReadyIsPosted
\* Every call has returned and every panel is closed: nothing is left to do.
CHECK_DEADLOCK FALSE
