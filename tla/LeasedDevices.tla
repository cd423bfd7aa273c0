---------------------------- MODULE LeasedDevices ---------------------------
(***************************************************************************)
(* Devices leased from the lab: `LeasedDeviceRepository`                   *)
(* (device_repository.ts) caches the promise of the list of leases made by *)
(* the crosfleet command, and refreshes it on changes and when a lease     *)
(* expires; `AbandonedDevices` (abandoned_devices.ts) remembers for five   *)
(* minutes, across restarts, the devices whose lease was given up and that *)
(* crosfleet still lists; the commands lease_add.ts and lease_abandon.ts   *)
(* change the leases.                                                      *)
(*                                                                         *)
(* Time is a counter; one unit is any duration the deadlines and the       *)
(* interval are multiples of.  A deadline is a set of at most one time, as *)
(* crosfleet may not tell it.  Several fetches can be in flight: those     *)
(* whose promise is no longer the cached one keep running.                 *)
(***************************************************************************)
EXTENDS Integers, FiniteSetsExt

CONSTANTS
  Hosts,            \* lab devices
  StorageInterval,  \* STORAGE_INTERVAL_MILLIS, in units of time
  MaxTime,          \* bound: the last time
  MaxFetches,       \* bound: how many promises getDevices creates
  MaxRestarts,      \* bound: how often the window is reloaded
  MaxCommands       \* bound: how many leases are made or given up

Times == 0..MaxTime
Promises == 1..MaxFetches
Undefined == 0                      \* cachedDevices is undefined
Deadlines == {{}} \cup {{t} : t \in Times}
Leases == [host : Hosts, deadline : Deadlines]
Timers == [promise : Promises, due : Times]

VARIABLES
  now,
  leases, returning,    \* crosfleet: its leases, and hosts being given back
  store, disk,          \* AbandonedDevices: the Memento in memory, on disk
  cachedDevices,        \* the cached promise, or Undefined
  outcome, devices,     \* how the cached promise stands, and its value
  fetch,                \* getDevicesUncached for each promise
  created,              \* number of promises created so far
  timeouts,             \* setTimeout callbacks that have not run
  refreshTimer,         \* the timer refresh() and dispose() can clear
  disposed,
  leasing, abandoning,  \* commands in progress, per host
  restarts, commands,   \* how often each happened
  shown, hidden         \* history: what the list owes to the user

serverVars == <<leases, returning>>
storeVars == <<store, disk>>
cacheVars == <<cachedDevices, outcome, devices>>
timerVars == <<timeouts, refreshTimer>>
commandVars == <<leasing, abandoning>>
counters == <<restarts, commands>>
historyVars == <<shown, hidden>>
vars == <<now, serverVars, storeVars, cacheVars, fetch, created, timerVars,
          disposed, commandVars, counters, historyVars>>

Init ==
  /\ now = 0
  /\ leases = {}
  /\ returning = {}
  /\ store = {}
  /\ disk = {}
  /\ cachedDevices = Undefined
  /\ outcome = "none"
  /\ devices = {}
  /\ fetch = [p \in Promises |-> [at |-> "none", leases |-> {}]]
  /\ created = 0
  /\ timeouts = {}
  /\ refreshTimer = {}
  /\ disposed = FALSE
  /\ leasing = [h \in Hosts |-> "no"]
  /\ abandoning = [h \in Hosts |-> "no"]
  /\ restarts = 0
  /\ commands = 0
  /\ shown = {}
  /\ hidden = {}

Expired(l) == \E t \in l.deadline : t < now
HostsOf(ls) == {l.host : l \in ls}
DeadlinesOf(ls) == UNION {l.deadline : l \in ls}
Unexpired(s) == {e \in s : e.at > now - StorageInterval}
-----------------------------------------------------------------------------
(***************************************************************************)
(* LeasedDeviceRepository                                                  *)
(***************************************************************************)
\* mutant: the timer is not cleared
RefreshKeepingTimer(ts) ==
  /\ cachedDevices' = Undefined
  /\ outcome' = "none"
  /\ devices' = {}
  /\ timeouts' = ts
  /\ refreshTimer' = {}

\* mutant: the cached promise is kept
RefreshKeepingCache(ts) ==
  /\ UNCHANGED cacheVars
  /\ timeouts' = ts \ refreshTimer
  /\ refreshTimer' = {}

\* refresh(), with the timeouts ts pending: forget the promise and clear the
\* timer that goes with it.
Refresh(ts) ==
  /\ cachedDevices' = Undefined
  /\ outcome' = "none"
  /\ devices' = {}
  /\ timeouts' = ts \ refreshTimer
  /\ refreshTimer' = {}

\* crosfleetRunner.onDidChange, until dispose() ends the subscription.
OnDidChange ==
  IF disposed THEN UNCHANGED <<cacheVars, timerVars>> ELSE Refresh(timeouts)

\* getDevices() when nothing is cached: start getDevicesUncached.
GetDevices ==
  /\ ~disposed
  /\ cachedDevices = Undefined
  /\ created < MaxFetches
  /\ created' = created + 1
  /\ cachedDevices' = created + 1
  /\ outcome' = "pending"
  /\ fetch' = [fetch EXCEPT ![created + 1].at = "checkLogin"]
  /\ UNCHANGED <<now, serverVars, storeVars, devices, timerVars, disposed,
                 commandVars, counters, historyVars>>

\* The promise p settles; its value matters when p is still the cached one.
Settle(p, how, value) ==
  /\ fetch' = [fetch EXCEPT ![p] = [at |-> "done", leases |-> {}]]
  /\ IF cachedDevices = p
     THEN outcome' = how /\ devices' = value /\ UNCHANGED cachedDevices
     ELSE UNCHANGED cacheVars

\* checkLogin() says no, or an external command fails.
FetchEndsEarly(p, how) ==
  /\ \/ fetch[p].at = "checkLogin" /\ how \in {"loggedOut", "rejected"}
     \/ fetch[p].at = "listLeases" /\ how = "rejected"
  /\ Settle(p, how, {})
  /\ UNCHANGED <<now, serverVars, storeVars, created, timerVars, disposed,
                 commandVars, counters, historyVars>>

LoggedIn(p) ==
  /\ fetch[p].at = "checkLogin"
  /\ fetch' = [fetch EXCEPT ![p].at = "listLeases"]
  /\ UNCHANGED <<now, serverVars, storeVars, cacheVars, created, timerVars,
                 disposed, commandVars, counters, historyVars>>

\* crosfleet answers `dut leases`.
CrosfleetLists(p) ==
  /\ fetch[p].at = "listLeases"
  /\ fetch' = [fetch EXCEPT ![p] = [at |-> "listed", leases |-> leases]]
  /\ UNCHANGED <<now, serverVars, storeVars, cacheVars, created, timerVars,
                 disposed, commandVars, counters, historyVars>>

\* parseLeases drops the expired leases and AbandonedDevices.fetch, which
\* prunes its store, gives the hosts to leave out.
LeasesListed(p) ==
  /\ fetch[p].at = "listed"
  /\ store' = Unexpired(store)
  /\ fetch' = [fetch EXCEPT ![p] =
       [at |-> "filtered",
        leases |-> {l \in fetch[p].leases :
                      /\ ~Expired(l)
                      /\ l.host \notin HostsOf(Unexpired(store))}]]
  /\ UNCHANGED <<now, serverVars, disk, cacheVars, created, timerVars,
                 disposed, commandVars, counters, historyVars>>

\* mutant: deadlines are sorted the other way round
ScheduleRefreshLatest(p, value) ==
  IF cachedDevices # p \/ DeadlinesOf(value) = {}
  THEN UNCHANGED timerVars
  ELSE LET t == [promise |-> p, due |-> Max(DeadlinesOf(value))] IN
       /\ timeouts' = timeouts \cup {t}
       /\ refreshTimer' = {t}

\* refreshOnEarliestDeadline, once the promise p has its value.
ScheduleRefresh(p, value) ==
  IF cachedDevices # p \/ DeadlinesOf(value) = {}
  THEN UNCHANGED timerVars
  ELSE LET t == [promise |-> p, due |-> Min(DeadlinesOf(value))] IN
       /\ timeouts' = timeouts \cup {t}
       /\ refreshTimer' = {t}

FetchDone(p) ==
  /\ fetch[p].at = "filtered"
  /\ Settle(p, "resolved", fetch[p].leases)
  /\ ScheduleRefresh(p, fetch[p].leases)
  /\ UNCHANGED <<now, serverVars, storeVars, created, disposed, commandVars,
                 counters, historyVars>>

\* A timeout is due; it may be late.
TimerFires(t) ==
  /\ t.due <= now
  /\ IF cachedDevices = t.promise
     THEN Refresh(timeouts \ {t})
     ELSE timeouts' = timeouts \ {t} /\ UNCHANGED <<cacheVars, refreshTimer>>
  /\ UNCHANGED <<now, serverVars, storeVars, fetch, created, disposed,
                 commandVars, counters, historyVars>>

\* The Refresh leases command.
UserRefreshes ==
  /\ ~disposed
  /\ cachedDevices # Undefined
  /\ Refresh(timeouts)
  /\ UNCHANGED <<now, serverVars, storeVars, fetch, created, disposed,
                 commandVars, counters, historyVars>>

\* dispose(), when the extension is deactivated.
Dispose ==
  /\ ~disposed
  /\ disposed' = TRUE
  /\ timeouts' = timeouts \ refreshTimer
  /\ refreshTimer' = {}
  /\ UNCHANGED <<now, serverVars, storeVars, cacheVars, fetch, created,
                 commandVars, counters, historyVars>>
-----------------------------------------------------------------------------
(***************************************************************************)
(* The commands, and crosfleet's side of them                              *)
(***************************************************************************)
\* `crosfleet dut lease` obtains host h until d; the command is under way.
LeaseGranted(h, d) ==
  /\ ~disposed
  /\ leasing[h] = "no"
  /\ commands < MaxCommands
  /\ commands' = commands + 1
  /\ h \notin HostsOf(leases)
  /\ \A t \in d : t > now
  /\ leases' = leases \cup {[host |-> h, deadline |-> d]}
  /\ leasing' = [leasing EXCEPT ![h] = "granted"]
  /\ UNCHANGED <<now, returning, storeVars, cacheVars, fetch, created,
                 timerVars, disposed, abandoning, restarts, historyVars>>

\* mutant: requestLeaseOrThrow does not fire onDidChange
LeaseReturnsSilently(h) ==
  /\ leasing[h] = "granted"
  /\ leasing' = [leasing EXCEPT ![h] = "no"]
  /\ shown' = shown \cup (({h} \cap HostsOf(leases)) \ HostsOf(store))
  /\ UNCHANGED <<now, serverVars, storeVars, cacheVars, timerVars, fetch,
                 created, disposed, abandoning, counters, hidden>>

\* requestLeaseOrThrow returns; from now on the list owes host h, unless it
\* was abandoned recently: then it stays hidden for the rest of the interval.
LeaseReturns(h) ==
  /\ leasing[h] = "granted"
  /\ leasing' = [leasing EXCEPT ![h] = "no"]
  /\ OnDidChange
  /\ shown' = shown \cup (({h} \cap HostsOf(leases)) \ HostsOf(store))
  /\ UNCHANGED <<now, serverVars, storeVars, fetch, created, disposed,
                 abandoning, counters, hidden>>

\* The user cancels, "but you might still get a device".
LeaseCancelled(h) ==
  /\ leasing[h] = "granted"
  /\ leasing' = [leasing EXCEPT ![h] = "no"]
  /\ UNCHANGED <<now, serverVars, storeVars, cacheVars, fetch, created,
                 timerVars, disposed, abandoning, counters, historyVars>>

\* The user confirms to abandon h: AbandonedDevices.insert first.
AbandonRequested(h) ==
  /\ ~disposed
  /\ abandoning[h] = "no"
  /\ commands < MaxCommands
  /\ commands' = commands + 1
  /\ h \in HostsOf(leases)
  /\ store' = Unexpired(store) \cup {[host |-> h, at |-> now]}
  /\ abandoning' = [abandoning EXCEPT ![h] = "inserting"]
  /\ shown' = shown \ {h}
  /\ UNCHANGED <<now, serverVars, disk, cacheVars, fetch, created, timerVars,
                 disposed, leasing, restarts, hidden>>

\* globalState.update is flushed, and the promises that await it resolve.
MementoSaved ==
  /\ store # disk \/ \E h \in Hosts : abandoning[h] = "inserting"
  /\ disk' = store
  /\ abandoning' = [h \in Hosts |-> IF abandoning[h] = "inserting"
                                    THEN "inserted" ELSE abandoning[h]]
  /\ UNCHANGED <<now, serverVars, store, cacheVars, fetch, created, timerVars,
                 disposed, leasing, counters, historyVars>>

\* `crosfleet dut abandon` schedules the return of the device.
AbandonScheduled(h) ==
  /\ abandoning[h] = "inserted"
  /\ abandoning' = [abandoning EXCEPT ![h] = "scheduled"]
  /\ returning' = returning \cup {h}
  /\ UNCHANGED <<now, leases, storeVars, cacheVars, fetch, created, timerVars,
                 disposed, leasing, counters, historyVars>>

\* The insertions of h whose interval is not over.
InsertedAt(h) == {e \in Unexpired(store) : e.host = h}

\* mutant: abandonLease does not fire onDidChange
AbandonReturnsSilently(h) ==
  /\ abandoning[h] = "scheduled"
  /\ abandoning' = [abandoning EXCEPT ![h] = "no"]
  /\ hidden' = hidden \cup InsertedAt(h)
  /\ UNCHANGED <<now, serverVars, storeVars, cacheVars, timerVars, fetch,
                 created, disposed, leasing, counters, shown>>

\* abandonLease returns; from now on the list must not show h.
AbandonReturns(h) ==
  /\ abandoning[h] = "scheduled"
  /\ abandoning' = [abandoning EXCEPT ![h] = "no"]
  /\ OnDidChange
  /\ hidden' = hidden \cup InsertedAt(h)
  /\ UNCHANGED <<now, serverVars, storeVars, fetch, created, disposed,
                 leasing, counters, shown>>

\* The command fails or is cancelled, before or after crosfleet heeds it.
AbandonFails(h) ==
  /\ abandoning[h] \in {"inserted", "scheduled"}
  /\ abandoning' = [abandoning EXCEPT ![h] = "no"]
  /\ UNCHANGED <<now, serverVars, storeVars, cacheVars, fetch, created,
                 timerVars, disposed, leasing, counters, historyVars>>

\* crosfleet gives back a device that was abandoned or whose lease is over.
DeviceReturned(l) ==
  /\ l.host \in returning \/ Expired(l)
  /\ leases' = leases \ {l}
  /\ returning' = returning \ {l.host}
  /\ shown' = shown \ {l.host}
  /\ UNCHANGED <<now, storeVars, cacheVars, fetch, created, timerVars,
                 disposed, commandVars, counters, hidden>>

\* The window is reloaded or crashes: only the disk and crosfleet survive.
Restart ==
  /\ restarts < MaxRestarts
  /\ restarts' = restarts + 1
  /\ store' = disk
  /\ cachedDevices' = Undefined
  /\ outcome' = "none"
  /\ devices' = {}
  /\ fetch' = [p \in Promises |-> [at |-> "none", leases |-> {}]]
  /\ timeouts' = {}
  /\ refreshTimer' = {}
  /\ disposed' = FALSE
  /\ leasing' = [h \in Hosts |-> "no"]
  /\ abandoning' = [h \in Hosts |-> "no"]
  /\ hidden' = hidden \cup UNION {InsertedAt(h) :
                  h \in {g \in Hosts : abandoning[g] = "scheduled"}}
  /\ UNCHANGED <<now, serverVars, disk, created, commands, shown>>

Tick ==
  /\ now < MaxTime
  /\ now' = now + 1
  /\ hidden' = {e \in hidden : e.at > now' - StorageInterval}
  /\ UNCHANGED <<serverVars, storeVars, cacheVars, fetch, created, timerVars,
                 disposed, commandVars, counters, shown>>

FetchStep(p) ==
  \/ \E how \in {"loggedOut", "rejected"} : FetchEndsEarly(p, how)
  \/ LoggedIn(p)
  \/ CrosfleetLists(p)
  \/ LeasesListed(p)
  \/ FetchDone(p)

Command(h) ==
  \/ \E d \in Deadlines : LeaseGranted(h, d)
  \/ LeaseReturns(h)
  \/ LeaseCancelled(h)
  \/ AbandonRequested(h)
  \/ AbandonScheduled(h)
  \/ AbandonReturns(h)
  \/ AbandonFails(h)

Next ==
  \/ GetDevices
  \/ \E p \in Promises : FetchStep(p)
  \/ \E t \in timeouts : TimerFires(t)
  \/ UserRefreshes
  \/ Dispose
  \/ \E h \in Hosts : Command(h)
  \/ MementoSaved
  \/ \E l \in leases : DeviceReturned(l)
  \/ Restart
  \/ Tick

Spec == Init /\ [][Next]_vars

\* Due timeouts run; users and crosfleet need not act.
Fairness == WF_vars(\E t \in timeouts : TimerFires(t))
-----------------------------------------------------------------------------
\* Types, and at most one timer that can be cleared.
TypeOK ==
  /\ now \in Times
  /\ leases \subseteq Leases
  /\ returning \subseteq Hosts
  /\ store \subseteq [host : Hosts, at : Times]
  /\ disk \subseteq [host : Hosts, at : Times]
  /\ cachedDevices \in Promises \cup {Undefined}
  /\ outcome \in {"none", "pending", "resolved", "loggedOut", "rejected"}
  /\ devices \subseteq Leases
  /\ fetch \in [Promises -> [at : {"none", "checkLogin", "listLeases", "listed",
                                  "filtered", "done"},
                            leases : SUBSET Leases]]
  /\ created \in 0..MaxFetches
  /\ timeouts \subseteq Timers
  /\ refreshTimer \subseteq Timers
  /\ disposed \in BOOLEAN
  /\ leasing \in [Hosts -> {"no", "granted"}]
  /\ abandoning \in [Hosts -> {"no", "inserting", "inserted", "scheduled"}]
  /\ restarts \in 0..MaxRestarts
  /\ commands \in 0..MaxCommands
  /\ shown \subseteq Hosts
  /\ hidden \subseteq [host : Hosts, at : Times]

\* "this.refreshTimer is always undefined at this point because
\* this.refreshTimer is set at most only once for a this.cachedDevices"
\* (device_repository.ts:209): no timeout was ever overwritten, so each one
\* pending can be cleared, and it belongs to the promise that is cached.
NoStrayTimer ==
  ~disposed =>
    /\ timeouts = refreshTimer
    /\ \A s, t \in refreshTimer : s = t
    /\ \A t \in refreshTimer : t.promise = cachedDevices

\* A list with deadlines never stays cached without a timer for the earliest
\* of them, whatever fetches and refreshes overlapped.
CurrentListIsTimed ==
  ~disposed /\ outcome = "resolved" /\ DeadlinesOf(devices) # {}
    => \E t \in timeouts : /\ t.promise = cachedDevices
                          /\ t.due = Min(DeadlinesOf(devices))

\* "Register DUT as abandoned first, so it disappears for sure"
\* (lease_abandon.ts:48): after abandonLease returned, and after a restart
\* in the middle of it, no list shows the host during StorageInterval.
AbandonedStaysHidden ==
  ~disposed => \A e \in hidden : e.host \notin HostsOf(devices)

\* A device whose lease the extension has obtained is in the list, until the
\* lease expires or is given up: no fetch that began earlier hides it.
LeaseIsShown ==
  \A h \in shown :
    outcome = "resolved" /\ ~disposed
      => \/ h \in HostsOf(devices)
         \/ \E l \in leases : l.host = h /\ Expired(l)

\* An expired lease does not stay in the list.
ExpiredLeaseDropped ==
  (\E l \in devices : Expired(l)) /\ ~disposed
    ~> disposed \/ ~\E l \in devices : Expired(l)
-----------------------------------------------------------------------------
\* "Store a Disposable so that the scheduled task can be canceled on
\* refresh() or dispose()" (device_repository.ts:207).
DisposeCancelsTimers == disposed => timeouts = {}
=============================================================================
