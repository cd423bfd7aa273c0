------------------------------ MODULE MCDevices -----------------------------
(***************************************************************************)
(* The lists of devices: the owned ones, in a setting of which every       *)
(* change is a job of a mutex, and the leased ones, in a cache with a      *)
(* timer. The two share nothing; `part` is the one that runs.              *)
(***************************************************************************)
EXTENDS OwnedDevices

CONSTANTS
  add1, add1again, add2, remove1, remove1again, host1, host2, LeasedHosts, StorageInterval,
  MaxTime, MaxFetches, MaxRestarts, MaxCommands

ASSUME LeasedAssumption ==
  /\ StorageInterval \in Nat
  /\ MaxTime \in Nat
  /\ MaxFetches \in Nat

VARIABLES
  part,  \* the component that runs
  now, leases, returning, store, disk, cachedDevices, outcome, devices, fetch, created,
  timeouts, refreshTimer, disposed, leasing, abandoning, restarts, commands, shown, hidden

Leased == INSTANCE LeasedDevices
  WITH Hosts <- LeasedHosts

Parts == {"owned", "leased"}
MCInit ==
  /\ part \in Parts
  /\ Init
  /\ Leased!Init

leasedVars == <<now, leases, returning, store, disk, cachedDevices, outcome, devices, fetch,
    created, timeouts, refreshTimer, disposed, leasing, abandoning, restarts, commands,
    shown, hidden>>

MCNext ==
  \/ /\ part = "owned" /\ Next
     /\ UNCHANGED <<part, leasedVars>>
  \/ /\ part = "leased" /\ Leased!Next
     /\ UNCHANGED <<part, vars>>

MCvars == <<part, vars, leasedVars>>
MCSpec == MCInit /\ [][MCNext]_MCvars
  /\ Leased!Fairness
-----------------------------------------------------------------------------
MCCalls == {add1, add1again, add2, remove1, remove1again}
MCHostOf == [c \in MCCalls |-> IF c = add2 THEN host2 ELSE host1]

\* What the list of leased devices owes to the user: what was abandoned is
\* hidden, also after a restart, what was leased is shown, whatever fetches were
\* under way, and the cached list and its timer belong together
\* (device_repository.ts:184).
LeasedListIsRight ==
  part = "leased" =>
    /\ Leased!AbandonedStaysHidden
    /\ Leased!LeaseIsShown
    /\ Leased!NoStrayTimer
    /\ Leased!CurrentListIsTimed

\* An expired lease does not stay in the list (device_repository.ts:178).
ExpiredLeaseDropped == Leased!ExpiredLeaseDropped
=============================================================================
