CONSTANTS
  add1 = add1
  add1again = add1again
  add2 = add2
  remove1 = remove1
  remove1again = remove1again
  host1 = host1
  host2 = host2
  Calls <- MCCalls
  Hosts = {host1, host2}
  HostOf <- MCHostOf
  Removals = {remove1, remove1again}
  LeasedHosts = {host1, host2}
  StorageInterval = 2
  MaxTime = 2
  MaxFetches = 2
  MaxRestarts = 1
  MaxCommands = 2
SPECIFICATION MCSpec
INVARIANTS
  LeasedListIsRight
PROPERTIES
  ImplementsDeviceList
  ExpiredLeaseDropped
\* Calls have been answered, and time is bounded: the instance may stop.
CHECK_DEADLOCK FALSE
