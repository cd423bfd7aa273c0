--------------------------- MODULE DevicesProofs ----------------------------
(***************************************************************************)
(* Proofs about the lists of devices, for any calls, hosts and bounds.     *)
(*                                                                         *)
(* Owned devices: of the mutex, whose theorems are in MCSessions, it is    *)
(* only needed that one job executes at a time; what that job is going to  *)
(* write is what it would compute now, and each write is a step of         *)
(* DeviceList.                                                             *)
(*                                                                         *)
(* Leased devices: what the list owes to the user holds of the list        *)
(* because it holds of the fetch that will give the next one, and because  *)
(* the store on the disk has what was hidden before a restart.             *)
(***************************************************************************)
EXTENDS MCDevices, SequenceTheorems, TLAPS

(***************************************************************************)
(* The owned devices.                                                      *)
(***************************************************************************)
\* What is needed of the mutex: one job executes exactly if it is running,
\* and nothing is queued if it is not.
OneExecutes ==
  /\ queue \in Seq(Calls)
  /\ running \in BOOLEAN
  /\ executing \subseteq Calls
  /\ \A i, j \in executing : i = j
  /\ running <=> executing # {}
  /\ ~running => queue = <<>>

\* What a job has sent off to be written is up to date, and the job executes.
PendingIsCurrent ==
  \A c \in Calls : at[c] = "updating" =>
    /\ c \in executing
    /\ newHostnames[c] = Updated(c)
    /\ Outcome(c) = "updating"

OwnedIInv ==
  /\ OneExecutes
  /\ DOMAIN at = Calls /\ DOMAIN newHostnames = Calls
  /\ PendingIsCurrent

\* The steps of the mutex keep it so.
LEMMA MutexInit == ConfigMutex!Init => OneExecutes
<1>1. <<>> \in Seq(Calls)
  OBVIOUS
<1>2. QED
  BY <1>1 DEF ConfigMutex!Init, OneExecutes

LEMMA MutexSteps ==
  ASSUME OneExecutes
  PROVE  /\ \A c \in Calls : ConfigMutex!RunExclusive(c) => OneExecutes'
         /\ \A c \in Calls, o \in {"resolved", "rejected"} :
              ConfigMutex!JobSettles(c, o) => OneExecutes'
         /\ ConfigMutex!Immediate => OneExecutes'
         /\ UNCHANGED mutexVars => OneExecutes'
<1> USE DEF OneExecutes
<1>1. ASSUME NEW c \in Calls, ConfigMutex!RunExclusive(c) PROVE OneExecutes'
  <2>1. Append(queue, c) \in Seq(Calls)
    OBVIOUS
  <2>2. CASE running
    BY <1>1, <2>1, <2>2 DEF ConfigMutex!RunExclusive, ConfigMutex!Handle
  <2>3. CASE ~running
    <3>1. Append(queue, c) = <<c>> /\ Head(<<c>>) = c /\ Tail(<<c>>) = <<>>
      BY <2>3
    <3>2. queue' = <<>> /\ running' = TRUE /\ executing' = {c}
      BY <1>1, <2>3, <3>1 DEF ConfigMutex!RunExclusive, ConfigMutex!Handle
    <3>3. QED
      BY <3>2
  <2>4. QED
    BY <2>2, <2>3
<1>2. ASSUME NEW c \in Calls, NEW o \in {"resolved", "rejected"},
             ConfigMutex!JobSettles(c, o)
      PROVE  OneExecutes'
  <2>1. executing \ {c} = {}
    BY <1>2 DEF ConfigMutex!JobSettles
  <2>2. CASE queue = <<>>
    BY <1>2, <2>1, <2>2 DEF ConfigMutex!JobSettles, ConfigMutex!Handle
  <2>3. CASE queue # <<>>
    <3>1. Head(queue) \in Calls /\ Tail(queue) \in Seq(Calls)
      BY <2>3, HeadTailProperties
    <3>2. queue' = Tail(queue) /\ running' = TRUE /\ executing' = {Head(queue)}
      BY <1>2, <2>1, <2>3 DEF ConfigMutex!JobSettles, ConfigMutex!Handle
    <3>3. QED
      BY <3>1, <3>2
  <2>4. QED
    BY <2>2, <2>3
<1>3. ASSUME ConfigMutex!Immediate PROVE OneExecutes'
  BY <1>3 DEF ConfigMutex!Immediate
<1>4. ASSUME UNCHANGED mutexVars PROVE OneExecutes'
  BY <1>4 DEF mutexVars
<1>5. QED
  BY <1>1, <1>2, <1>3, <1>4

\* A step of the mutex that starts a job, while what was pending still executes.
LEMMA StartedJobsAreCurrent ==
  ASSUME OwnedIInv, RunStarted, UNCHANGED config, OneExecutes',
         \A c \in executing : at[c] = "updating" => c \in executing'
  PROVE  OwnedIInv'
<1> USE DEF OwnedIInv
<1>1. DOMAIN at' = Calls /\ DOMAIN newHostnames' = Calls
  BY DEF RunStarted
<1>2. ASSUME NEW c \in Calls, at'[c] = "updating"
      PROVE  /\ c \in executing' /\ newHostnames'[c] = Updated(c)
             /\ Outcome(c) = "updating"
  <2>1. CASE c \in executing' \ executing
    BY <1>2, <2>1 DEF RunStarted
  <2>2. CASE c \notin executing' \ executing
    BY <1>2, <2>2 DEF RunStarted, PendingIsCurrent
  <2>3. QED
    BY <2>1, <2>2
<1>3. \A c \in Calls : Updated(c)' = Updated(c) /\ Outcome(c)' = Outcome(c)
  BY DEF Updated, Outcome
<1>4. QED
  BY <1>1, <1>2, <1>3 DEF PendingIsCurrent

LEMMA OwnedInit == Init => OwnedIInv
BY MutexInit DEF Init, OwnedIInv, PendingIsCurrent

LEMMA OwnedStep == OwnedIInv /\ [Next]_vars => OwnedIInv'
<1> SUFFICES ASSUME OwnedIInv, [Next]_vars PROVE OwnedIInv'
  OBVIOUS
<1>0. OneExecutes /\ \A i, j \in executing : i = j
  BY DEF OwnedIInv, OneExecutes
<1>1. ASSUME NEW c \in Calls, Call(c) PROVE OwnedIInv'
  <2>1. executing \subseteq executing'
    BY <1>1 DEF Call, ConfigMutex!RunExclusive, ConfigMutex!Handle
  <2>2. OneExecutes'
    BY <1>0, <1>1, MutexSteps DEF Call
  <2>3. QED
    BY <1>1, <2>1, <2>2, StartedJobsAreCurrent DEF Call
<1>2. ASSUME NEW c \in Calls, UpdateApplied(c) PROVE OwnedIInv'
  <2>1. \A d \in Calls : at'[d] # "updating"
    BY <1>0, <1>2 DEF UpdateApplied, OwnedIInv, PendingIsCurrent
  <2>2. OneExecutes'
    BY <1>0, <1>2, MutexSteps DEF UpdateApplied
  <2>3. QED
    BY <1>2, <2>1, <2>2 DEF UpdateApplied, OwnedIInv, PendingIsCurrent
<1>3. ASSUME NEW c \in Calls, UpdateFails(c) PROVE OwnedIInv'
  <2>1. \A d \in Calls : at'[d] # "updating"
    BY <1>0, <1>3 DEF UpdateFails, OwnedIInv, PendingIsCurrent
  <2>2. OneExecutes'
    BY <1>0, <1>3, MutexSteps DEF UpdateFails
  <2>3. QED
    BY <1>3, <2>1, <2>2 DEF UpdateFails, OwnedIInv, PendingIsCurrent
<1>4. ASSUME NEW c \in Calls, JobEnds(c) PROVE OwnedIInv'
  <2>1. at[c] # "updating" /\ c \in executing
    BY <1>4 DEF JobEnds, ConfigMutex!JobSettles
  <2>2. OneExecutes'
    BY <1>0, <1>4, MutexSteps DEF JobEnds
  <2>3. QED
    BY <1>0, <1>4, <2>1, <2>2, StartedJobsAreCurrent DEF JobEnds
<1>5. CASE Immediate
  <2>1. OneExecutes'
    BY <1>0, <1>5, MutexSteps DEF Immediate
  <2>2. UNCHANGED <<executing, config, at, newHostnames>>
    BY <1>5 DEF Immediate, ConfigMutex!Immediate
  <2>3. QED
    BY <2>1, <2>2 DEF OwnedIInv, PendingIsCurrent, Updated, Outcome
<1>6. CASE UNCHANGED vars
  <2>1. OneExecutes'
    BY <1>0, <1>6, MutexSteps DEF vars
  <2>2. QED
    BY <1>6, <2>1 DEF vars, mutexVars, OwnedIInv, PendingIsCurrent, Updated,
                      Outcome
<1>7. QED
  BY <1>1, <1>2, <1>3, <1>4, <1>5, <1>6 DEF Next

\* Never is a list pending that was computed from an older one, whatever calls
\* overlap and whichever writes fail (device_repository.ts:88).
THEOREM OwnedInvariance == Spec => []OwnedIInv
BY OwnedInit, OwnedStep, PTL DEF Spec

\* The only step that changes the setting is one of DeviceList.
LEMMA RefineUpdate ==
  ASSUME OwnedIInv, NEW c \in Calls, UpdateApplied(c)
  PROVE  Abstract!Next
<1>1. HostOf[c] \in Hosts
  BY CallsAssumption
<1>2. config' = Updated(c) /\ Outcome(c) = "updating"
  BY DEF UpdateApplied, OwnedIInv, PendingIsCurrent
<1>3. CASE c \in Removals
  <2>1. Abstract!RemoveHost(HostOf[c])
    BY <1>2, <1>3 DEF Abstract!RemoveHost, Updated, Outcome, Abstract!Remove,
                      Remove, Abstract!Contains, Contains
  <2>2. QED
    BY <1>1, <2>1 DEF Abstract!Next
<1>4. CASE c \notin Removals
  <2>1. Abstract!AddHost(HostOf[c])
    BY <1>2, <1>4 DEF Abstract!AddHost, Updated, Outcome, Abstract!Contains,
                      Contains
  <2>2. QED
    BY <1>1, <2>1 DEF Abstract!Next
<1>5. QED
  BY <1>3, <1>4

\* The repository implements DeviceList: no addition or removal is lost to
\* another call that read the setting before it was written.
THEOREM OwnedRefinement == Spec => ImplementsDeviceList
<1>1. Init => Abstract!Init
  BY DEF Init, Abstract!Init
<1>2. OwnedIInv /\ [Next]_vars => [Abstract!Next]_config
  <2> SUFFICES ASSUME OwnedIInv, [Next]_vars, config' # config PROVE Abstract!Next
    OBVIOUS
  <2>1. PICK c \in Calls : UpdateApplied(c)
    BY DEF Next, vars, Call, UpdateFails, JobEnds, Immediate
  <2>2. QED
    BY <2>1, RefineUpdate
<1>3. QED
  BY OwnedInvariance, <1>1, <1>2, PTL DEF Spec, ImplementsDeviceList,
                                          Abstract!Spec
-----------------------------------------------------------------------------
(***************************************************************************)
(* The leased devices.                                                     *)
(***************************************************************************)
Phases == {"none", "checkLogin", "listLeases", "listed", "filtered", "done"}
Entries == [host : LeasedHosts, at : Nat]

\* Types of what the parts below speak about.
LeasedTypes ==
  /\ now \in Nat
  /\ leases \subseteq Leased!Leases
  /\ store \subseteq Entries /\ disk \subseteq Entries
  /\ fetch \in [Leased!Promises -> [at : Phases, leases : SUBSET Leased!Leases]]
  /\ created \in 0..MaxFetches
  /\ leasing \in [LeasedHosts -> {"no", "granted"}]
  /\ abandoning \in [LeasedHosts -> {"no", "inserting", "inserted", "scheduled"}]
  /\ disposed \in BOOLEAN
  /\ \A t \in timeouts : t.promise \in Leased!Promises

\* A timer is set when its promise has its value; before dispose() it is the
\* one that refresh() clears.
TimerIsOfCache ==
  /\ \A t \in timeouts : fetch[t.promise].at = "done"
  /\ ~disposed =>
       /\ timeouts = refreshTimer
       /\ \A s, t \in timeouts : s = t
       /\ \A t \in timeouts : t.promise = cachedDevices

\* What is hidden, or may be by a command under way, survives a restart.
HiddenIsStored ==
  /\ hidden \subseteq store \cap disk
  /\ hidden \subseteq Leased!Unexpired(hidden)
  /\ \A h \in LeasedHosts : abandoning[h] \in {"inserted", "scheduled"}
                             => Leased!InsertedAt(h) \subseteq disk
  /\ Leased!Unexpired(disk) \subseteq store

\* The fetch of the cached promise, as far as it has the list.
Coming ==
  {p \in Leased!Promises : /\ cachedDevices = p
                           /\ fetch[p].at \in {"listed", "filtered"}}

\* Neither the list nor the one that is coming has a host that was abandoned.
HiddenIsHidden ==
  ~disposed => \A e \in hidden :
    /\ e.host \notin Leased!HostsOf(devices)
    /\ \A p \in Coming : fetch[p].at = "filtered"
                         => e.host \notin Leased!HostsOf(fetch[p].leases)

\* A leased host is in the list ls, or its lease is over.
Owed(h, ls) == \E l \in leases : l.host = h /\ (l \in ls \/ Leased!Expired(l))

\* What was leased is in the list, and in the one that is coming.
ShownIsLeased ==
  \A h \in shown :
    /\ h \in Leased!HostsOf(leases)
    /\ h \notin Leased!HostsOf(Leased!Unexpired(store))
    /\ ~disposed =>
         /\ outcome = "resolved" => Owed(h, devices)
         /\ \A p \in Coming : Owed(h, fetch[p].leases)

\* The inductive invariant.
LeasedIInv ==
  /\ LeasedTypes
  /\ TimerIsOfCache
  /\ Leased!CurrentListIsTimed
  /\ HiddenIsStored
  /\ HiddenIsHidden
  /\ ShownIsLeased

USE LeasedAssumption DEF Leased!Promises, Leased!Times, Leased!Undefined, Phases

LEMMA LeasedInit == Leased!Init => LeasedIInv
<1> SUFFICES ASSUME Leased!Init PROVE LeasedIInv
  OBVIOUS
<1> USE DEF Leased!Init
<1>1. LeasedTypes
  <2>1. fetch \in [Leased!Promises -> [at : Phases, leases : SUBSET Leased!Leases]]
    OBVIOUS
  <2>2. created \in 0..MaxFetches
    OBVIOUS
  <2>3. QED
    BY <2>1, <2>2 DEF LeasedTypes
<1>2. TimerIsOfCache /\ Leased!CurrentListIsTimed
  BY DEF TimerIsOfCache, Leased!CurrentListIsTimed
<1>3. HiddenIsStored /\ HiddenIsHidden /\ ShownIsLeased
  BY DEF HiddenIsStored, HiddenIsHidden, ShownIsLeased, Leased!Unexpired
<1>4. QED
  BY <1>1, <1>2, <1>3 DEF LeasedIInv

\* Types.
LEMMA LeasedTypesStep ==
  ASSUME LeasedIInv, Leased!Next
  PROVE  LeasedTypes'
<1> USE DEF LeasedIInv, LeasedTypes, Leased!serverVars, Leased!storeVars,
            Leased!cacheVars, Leased!timerVars, Leased!commandVars,
            Leased!counters, Leased!historyVars
<1>1. CASE Leased!GetDevices
  BY <1>1 DEF Leased!GetDevices
<1>2. ASSUME NEW p \in Leased!Promises, NEW how, Leased!FetchEndsEarly(p, how)
      PROVE  LeasedTypes'
  BY <1>2 DEF Leased!FetchEndsEarly, Leased!Settle
<1>3. ASSUME NEW p \in Leased!Promises, Leased!LoggedIn(p)
      PROVE  LeasedTypes'
  BY <1>3 DEF Leased!LoggedIn
<1>4. ASSUME NEW p \in Leased!Promises, Leased!CrosfleetLists(p)
      PROVE  LeasedTypes'
  BY <1>4 DEF Leased!CrosfleetLists
<1>5. ASSUME NEW p \in Leased!Promises, Leased!LeasesListed(p)
      PROVE  LeasedTypes'
  BY <1>5 DEF Leased!LeasesListed, Leased!Unexpired
<1>6. ASSUME NEW p \in Leased!Promises, Leased!FetchDone(p)
      PROVE  LeasedTypes'
  BY <1>6 DEF Leased!FetchDone, Leased!Settle, Leased!ScheduleRefresh
<1>7. ASSUME NEW t \in timeouts, Leased!TimerFires(t)
      PROVE  LeasedTypes'
  BY <1>7 DEF Leased!TimerFires, Leased!Refresh
<1>8. CASE Leased!UserRefreshes
  BY <1>8 DEF Leased!UserRefreshes, Leased!Refresh
<1>9. CASE Leased!Dispose
  BY <1>9 DEF Leased!Dispose
<1>10. ASSUME NEW h \in LeasedHosts, NEW d \in Leased!Deadlines,
              Leased!LeaseGranted(h, d)
       PROVE  LeasedTypes'
  BY <1>10 DEF Leased!LeaseGranted, Leased!Leases
<1>11. ASSUME NEW h \in LeasedHosts, Leased!LeaseReturns(h)
       PROVE  LeasedTypes'
  BY <1>11 DEF Leased!LeaseReturns, Leased!OnDidChange, Leased!Refresh
<1>12. ASSUME NEW h \in LeasedHosts, Leased!LeaseCancelled(h)
       PROVE  LeasedTypes'
  BY <1>12 DEF Leased!LeaseCancelled
<1>13. ASSUME NEW h \in LeasedHosts, Leased!AbandonRequested(h)
       PROVE  LeasedTypes'
  BY <1>13 DEF Leased!AbandonRequested, Leased!Unexpired, Entries
<1>14. ASSUME NEW h \in LeasedHosts, Leased!AbandonScheduled(h)
       PROVE  LeasedTypes'
  BY <1>14 DEF Leased!AbandonScheduled
<1>15. ASSUME NEW h \in LeasedHosts, Leased!AbandonReturns(h)
       PROVE  LeasedTypes'
  BY <1>15 DEF Leased!AbandonReturns, Leased!OnDidChange, Leased!Refresh
<1>16. ASSUME NEW h \in LeasedHosts, Leased!AbandonFails(h)
       PROVE  LeasedTypes'
  BY <1>16 DEF Leased!AbandonFails
<1>17. CASE Leased!MementoSaved
  BY <1>17 DEF Leased!MementoSaved
<1>18. ASSUME NEW l \in leases, Leased!DeviceReturned(l)
       PROVE  LeasedTypes'
  BY <1>18 DEF Leased!DeviceReturned
<1>19. CASE Leased!Restart
  BY <1>19 DEF Leased!Restart
<1>20. CASE Leased!Tick
  BY <1>20 DEF Leased!Tick
<1>21. QED
  BY <1>1, <1>2, <1>3, <1>4, <1>5, <1>6, <1>7, <1>8, <1>9, <1>10, <1>11, <1>12,
     <1>13, <1>14, <1>15, <1>16, <1>17, <1>18, <1>19, <1>20 DEF Leased!Next,
                                                                Leased!FetchStep,
                                                                Leased!Command

\* A timer is set by the fetch of the cached promise, and only then.
LEMMA TimersStep ==
  ASSUME LeasedIInv, Leased!Next
  PROVE  TimerIsOfCache'
<1> USE DEF LeasedIInv, LeasedTypes, TimerIsOfCache, Leased!serverVars,
            Leased!storeVars, Leased!cacheVars, Leased!timerVars,
            Leased!commandVars, Leased!counters, Leased!historyVars
<1>1. CASE Leased!GetDevices
  BY <1>1 DEF Leased!GetDevices
<1>2. ASSUME NEW p \in Leased!Promises, NEW how, Leased!FetchEndsEarly(p, how)
      PROVE  TimerIsOfCache'
  BY <1>2 DEF Leased!FetchEndsEarly, Leased!Settle
<1>3. ASSUME NEW p \in Leased!Promises, Leased!LoggedIn(p)
      PROVE  TimerIsOfCache'
  BY <1>3 DEF Leased!LoggedIn
<1>4. ASSUME NEW p \in Leased!Promises, Leased!CrosfleetLists(p)
      PROVE  TimerIsOfCache'
  BY <1>4 DEF Leased!CrosfleetLists
<1>5. ASSUME NEW p \in Leased!Promises, Leased!LeasesListed(p)
      PROVE  TimerIsOfCache'
  BY <1>5 DEF Leased!LeasesListed, Leased!Unexpired
<1>6. ASSUME NEW p \in Leased!Promises, Leased!FetchDone(p)
      PROVE  TimerIsOfCache'
  <2>1. /\ fetch[p].at = "filtered" /\ fetch'[p].at = "done"
        /\ \A q \in Leased!Promises : q # p => fetch'[q] = fetch[q]
        /\ cachedDevices' = cachedDevices /\ disposed' = disposed
    BY <1>6 DEF Leased!FetchDone, Leased!Settle
  <2>2. CASE UNCHANGED <<timeouts, refreshTimer>>
    BY <2>1, <2>2 DEF TimerIsOfCache
  <2>3. CASE cachedDevices = p /\ \E due : LET t == [promise |-> p, due |-> due] IN
                  timeouts' = timeouts \cup {t} /\ refreshTimer' = {t}
    <3>1. ~disposed => timeouts = {}
      BY <2>1, <2>3
    <3>2. QED
      BY <2>1, <2>3, <3>1
  <2>4. QED
    BY <1>6, <2>2, <2>3 DEF Leased!FetchDone, Leased!ScheduleRefresh
<1>7. ASSUME NEW t \in timeouts, Leased!TimerFires(t)
      PROVE  TimerIsOfCache'
  BY <1>7 DEF Leased!TimerFires, Leased!Refresh
<1>8. CASE Leased!UserRefreshes
  BY <1>8 DEF Leased!UserRefreshes, Leased!Refresh
<1>9. CASE Leased!Dispose
  BY <1>9 DEF Leased!Dispose
<1>10. ASSUME NEW h \in LeasedHosts, NEW d \in Leased!Deadlines,
              Leased!LeaseGranted(h, d)
       PROVE  TimerIsOfCache'
  BY <1>10 DEF Leased!LeaseGranted, Leased!Leases
<1>11. ASSUME NEW h \in LeasedHosts, Leased!LeaseReturns(h)
       PROVE  TimerIsOfCache'
  BY <1>11 DEF Leased!LeaseReturns, Leased!OnDidChange, Leased!Refresh
<1>12. ASSUME NEW h \in LeasedHosts, Leased!LeaseCancelled(h)
       PROVE  TimerIsOfCache'
  BY <1>12 DEF Leased!LeaseCancelled
<1>13. ASSUME NEW h \in LeasedHosts, Leased!AbandonRequested(h)
       PROVE  TimerIsOfCache'
  BY <1>13 DEF Leased!AbandonRequested, Leased!Unexpired, Entries
<1>14. ASSUME NEW h \in LeasedHosts, Leased!AbandonScheduled(h)
       PROVE  TimerIsOfCache'
  BY <1>14 DEF Leased!AbandonScheduled
<1>15. ASSUME NEW h \in LeasedHosts, Leased!AbandonReturns(h)
       PROVE  TimerIsOfCache'
  BY <1>15 DEF Leased!AbandonReturns, Leased!OnDidChange, Leased!Refresh
<1>16. ASSUME NEW h \in LeasedHosts, Leased!AbandonFails(h)
       PROVE  TimerIsOfCache'
  BY <1>16 DEF Leased!AbandonFails
<1>17. CASE Leased!MementoSaved
  BY <1>17 DEF Leased!MementoSaved
<1>18. ASSUME NEW l \in leases, Leased!DeviceReturned(l)
       PROVE  TimerIsOfCache'
  BY <1>18 DEF Leased!DeviceReturned
<1>19. CASE Leased!Restart
  BY <1>19 DEF Leased!Restart
<1>20. CASE Leased!Tick
  BY <1>20 DEF Leased!Tick
<1>21. QED
  BY <1>1, <1>2, <1>3, <1>4, <1>5, <1>6, <1>7, <1>8, <1>9, <1>10, <1>11, <1>12,
     <1>13, <1>14, <1>15, <1>16, <1>17, <1>18, <1>19, <1>20 DEF Leased!Next,
                                                                Leased!FetchStep,
                                                                Leased!Command

\* A list with deadlines has its timer.
LEMMA TimedStep ==
  ASSUME LeasedIInv, Leased!Next
  PROVE  Leased!CurrentListIsTimed'
<1> USE DEF LeasedIInv, LeasedTypes, TimerIsOfCache, Leased!CurrentListIsTimed,
            Leased!serverVars, Leased!storeVars, Leased!cacheVars,
            Leased!timerVars, Leased!commandVars, Leased!counters,
            Leased!historyVars
<1>1. CASE Leased!GetDevices
  BY <1>1 DEF Leased!GetDevices
<1>2. ASSUME NEW p \in Leased!Promises, NEW how, Leased!FetchEndsEarly(p, how)
      PROVE  Leased!CurrentListIsTimed'
  BY <1>2 DEF Leased!FetchEndsEarly, Leased!Settle
<1>3. ASSUME NEW p \in Leased!Promises, Leased!LoggedIn(p)
      PROVE  Leased!CurrentListIsTimed'
  BY <1>3 DEF Leased!LoggedIn
<1>4. ASSUME NEW p \in Leased!Promises, Leased!CrosfleetLists(p)
      PROVE  Leased!CurrentListIsTimed'
  BY <1>4 DEF Leased!CrosfleetLists
<1>5. ASSUME NEW p \in Leased!Promises, Leased!LeasesListed(p)
      PROVE  Leased!CurrentListIsTimed'
  BY <1>5 DEF Leased!LeasesListed, Leased!Unexpired
<1>6. ASSUME NEW p \in Leased!Promises, Leased!FetchDone(p)
      PROVE  Leased!CurrentListIsTimed'
  <2>1. CASE cachedDevices = p
    <3>1. /\ devices' = fetch[p].leases /\ cachedDevices' = p
          /\ Leased!ScheduleRefresh(p, devices')
      BY <1>6, <2>1 DEF Leased!FetchDone, Leased!Settle
    <3>2. Leased!DeadlinesOf(devices)' = Leased!DeadlinesOf(devices')
      BY DEF Leased!DeadlinesOf
    <3>3. CASE Leased!DeadlinesOf(devices') # {}
      <4>1. [promise |-> p, due |-> Leased!Min(Leased!DeadlinesOf(devices'))]
              \in timeouts'
        BY <2>1, <3>1, <3>3 DEF Leased!ScheduleRefresh
      <4>2. QED
        BY <3>1, <3>2, <4>1
    <3>4. QED
      BY <3>2, <3>3
  <2>2. CASE cachedDevices # p
    BY <1>6, <2>2 DEF Leased!FetchDone, Leased!Settle, Leased!ScheduleRefresh
  <2>3. QED
    BY <2>1, <2>2
<1>7. ASSUME NEW t \in timeouts, Leased!TimerFires(t)
      PROVE  Leased!CurrentListIsTimed'
  BY <1>7 DEF Leased!TimerFires, Leased!Refresh
<1>8. CASE Leased!UserRefreshes
  BY <1>8 DEF Leased!UserRefreshes, Leased!Refresh
<1>9. CASE Leased!Dispose
  BY <1>9 DEF Leased!Dispose
<1>10. ASSUME NEW h \in LeasedHosts, NEW d \in Leased!Deadlines,
              Leased!LeaseGranted(h, d)
       PROVE  Leased!CurrentListIsTimed'
  BY <1>10 DEF Leased!LeaseGranted, Leased!Leases
<1>11. ASSUME NEW h \in LeasedHosts, Leased!LeaseReturns(h)
       PROVE  Leased!CurrentListIsTimed'
  BY <1>11 DEF Leased!LeaseReturns, Leased!OnDidChange, Leased!Refresh
<1>12. ASSUME NEW h \in LeasedHosts, Leased!LeaseCancelled(h)
       PROVE  Leased!CurrentListIsTimed'
  BY <1>12 DEF Leased!LeaseCancelled
<1>13. ASSUME NEW h \in LeasedHosts, Leased!AbandonRequested(h)
       PROVE  Leased!CurrentListIsTimed'
  BY <1>13 DEF Leased!AbandonRequested, Leased!Unexpired, Entries
<1>14. ASSUME NEW h \in LeasedHosts, Leased!AbandonScheduled(h)
       PROVE  Leased!CurrentListIsTimed'
  BY <1>14 DEF Leased!AbandonScheduled
<1>15. ASSUME NEW h \in LeasedHosts, Leased!AbandonReturns(h)
       PROVE  Leased!CurrentListIsTimed'
  BY <1>15 DEF Leased!AbandonReturns, Leased!OnDidChange, Leased!Refresh
<1>16. ASSUME NEW h \in LeasedHosts, Leased!AbandonFails(h)
       PROVE  Leased!CurrentListIsTimed'
  BY <1>16 DEF Leased!AbandonFails
<1>17. CASE Leased!MementoSaved
  BY <1>17 DEF Leased!MementoSaved
<1>18. ASSUME NEW l \in leases, Leased!DeviceReturned(l)
       PROVE  Leased!CurrentListIsTimed'
  BY <1>18 DEF Leased!DeviceReturned
<1>19. CASE Leased!Restart
  BY <1>19 DEF Leased!Restart
<1>20. CASE Leased!Tick
  BY <1>20 DEF Leased!Tick
<1>21. QED
  BY <1>1, <1>2, <1>3, <1>4, <1>5, <1>6, <1>7, <1>8, <1>9, <1>10, <1>11, <1>12,
     <1>13, <1>14, <1>15, <1>16, <1>17, <1>18, <1>19, <1>20 DEF Leased!Next,
                                                                Leased!FetchStep,
                                                                Leased!Command

\* The store loses no entry whose interval is not over.
LEMMA StoredStep ==
  ASSUME LeasedIInv, Leased!Next
  PROVE  HiddenIsStored'
<1> USE DEF LeasedIInv, LeasedTypes, HiddenIsStored, Leased!Unexpired,
            Leased!InsertedAt, Entries, Leased!serverVars, Leased!storeVars,
            Leased!cacheVars, Leased!timerVars, Leased!commandVars,
            Leased!counters, Leased!historyVars
<1>1. CASE Leased!GetDevices
  BY <1>1 DEF Leased!GetDevices
<1>2. ASSUME NEW p \in Leased!Promises, NEW how, Leased!FetchEndsEarly(p, how)
      PROVE  HiddenIsStored'
  BY <1>2 DEF Leased!FetchEndsEarly, Leased!Settle
<1>3. ASSUME NEW p \in Leased!Promises, Leased!LoggedIn(p)
      PROVE  HiddenIsStored'
  BY <1>3 DEF Leased!LoggedIn
<1>4. ASSUME NEW p \in Leased!Promises, Leased!CrosfleetLists(p)
      PROVE  HiddenIsStored'
  BY <1>4 DEF Leased!CrosfleetLists
<1>5. ASSUME NEW p \in Leased!Promises, Leased!LeasesListed(p)
      PROVE  HiddenIsStored'
  BY <1>5 DEF Leased!LeasesListed, Leased!Unexpired
<1>6. ASSUME NEW p \in Leased!Promises, Leased!FetchDone(p)
      PROVE  HiddenIsStored'
  BY <1>6 DEF Leased!FetchDone, Leased!Settle, Leased!ScheduleRefresh
<1>7. ASSUME NEW t \in timeouts, Leased!TimerFires(t)
      PROVE  HiddenIsStored'
  BY <1>7 DEF Leased!TimerFires, Leased!Refresh
<1>8. CASE Leased!UserRefreshes
  BY <1>8 DEF Leased!UserRefreshes, Leased!Refresh
<1>9. CASE Leased!Dispose
  BY <1>9 DEF Leased!Dispose
<1>10. ASSUME NEW h \in LeasedHosts, NEW d \in Leased!Deadlines,
              Leased!LeaseGranted(h, d)
       PROVE  HiddenIsStored'
  BY <1>10 DEF Leased!LeaseGranted, Leased!Leases
<1>11. ASSUME NEW h \in LeasedHosts, Leased!LeaseReturns(h)
       PROVE  HiddenIsStored'
  BY <1>11 DEF Leased!LeaseReturns, Leased!OnDidChange, Leased!Refresh
<1>12. ASSUME NEW h \in LeasedHosts, Leased!LeaseCancelled(h)
       PROVE  HiddenIsStored'
  BY <1>12 DEF Leased!LeaseCancelled
<1>13. ASSUME NEW h \in LeasedHosts, Leased!AbandonRequested(h)
       PROVE  HiddenIsStored'
  BY <1>13 DEF Leased!AbandonRequested, Leased!Unexpired, Entries
<1>14. ASSUME NEW h \in LeasedHosts, Leased!AbandonScheduled(h)
       PROVE  HiddenIsStored'
  BY <1>14 DEF Leased!AbandonScheduled
<1>15. ASSUME NEW h \in LeasedHosts, Leased!AbandonReturns(h)
       PROVE  HiddenIsStored'
  BY <1>15 DEF Leased!AbandonReturns, Leased!OnDidChange, Leased!Refresh
<1>16. ASSUME NEW h \in LeasedHosts, Leased!AbandonFails(h)
       PROVE  HiddenIsStored'
  BY <1>16 DEF Leased!AbandonFails
<1>17. CASE Leased!MementoSaved
  BY <1>17 DEF Leased!MementoSaved
<1>18. ASSUME NEW l \in leases, Leased!DeviceReturned(l)
       PROVE  HiddenIsStored'
  BY <1>18 DEF Leased!DeviceReturned
<1>19. CASE Leased!Restart
  BY <1>19 DEF Leased!Restart
<1>20. CASE Leased!Tick
  BY <1>20 DEF Leased!Tick
<1>21. QED
  BY <1>1, <1>2, <1>3, <1>4, <1>5, <1>6, <1>7, <1>8, <1>9, <1>10, <1>11, <1>12,
     <1>13, <1>14, <1>15, <1>16, <1>17, <1>18, <1>19, <1>20 DEF Leased!Next,
                                                                Leased!FetchStep,
                                                                Leased!Command

\* A fetch that filters after the insertion hides the host; others are dropped.
LEMMA HiddenStep ==
  ASSUME LeasedIInv, Leased!Next
  PROVE  HiddenIsHidden'
<1> USE DEF LeasedIInv, LeasedTypes, HiddenIsStored, HiddenIsHidden, Coming,
            Leased!Unexpired, Leased!HostsOf, Entries, Leased!serverVars,
            Leased!storeVars, Leased!cacheVars, Leased!timerVars,
            Leased!commandVars, Leased!counters, Leased!historyVars
<1>1. CASE Leased!GetDevices
  BY <1>1 DEF Leased!GetDevices
<1>2. ASSUME NEW p \in Leased!Promises, NEW how, Leased!FetchEndsEarly(p, how)
      PROVE  HiddenIsHidden'
  BY <1>2 DEF Leased!FetchEndsEarly, Leased!Settle
<1>3. ASSUME NEW p \in Leased!Promises, Leased!LoggedIn(p)
      PROVE  HiddenIsHidden'
  BY <1>3 DEF Leased!LoggedIn
<1>4. ASSUME NEW p \in Leased!Promises, Leased!CrosfleetLists(p)
      PROVE  HiddenIsHidden'
  BY <1>4 DEF Leased!CrosfleetLists
<1>5. ASSUME NEW p \in Leased!Promises, Leased!LeasesListed(p)
      PROVE  HiddenIsHidden'
  BY <1>5 DEF Leased!LeasesListed, Leased!Unexpired
<1>6. ASSUME NEW p \in Leased!Promises, Leased!FetchDone(p)
      PROVE  HiddenIsHidden'
  BY <1>6 DEF Leased!FetchDone, Leased!Settle, Leased!ScheduleRefresh
<1>7. ASSUME NEW t \in timeouts, Leased!TimerFires(t)
      PROVE  HiddenIsHidden'
  BY <1>7 DEF Leased!TimerFires, Leased!Refresh
<1>8. CASE Leased!UserRefreshes
  BY <1>8 DEF Leased!UserRefreshes, Leased!Refresh
<1>9. CASE Leased!Dispose
  BY <1>9 DEF Leased!Dispose
<1>10. ASSUME NEW h \in LeasedHosts, NEW d \in Leased!Deadlines,
              Leased!LeaseGranted(h, d)
       PROVE  HiddenIsHidden'
  BY <1>10 DEF Leased!LeaseGranted, Leased!Leases
<1>11. ASSUME NEW h \in LeasedHosts, Leased!LeaseReturns(h)
       PROVE  HiddenIsHidden'
  BY <1>11 DEF Leased!LeaseReturns, Leased!OnDidChange, Leased!Refresh
<1>12. ASSUME NEW h \in LeasedHosts, Leased!LeaseCancelled(h)
       PROVE  HiddenIsHidden'
  BY <1>12 DEF Leased!LeaseCancelled
<1>13. ASSUME NEW h \in LeasedHosts, Leased!AbandonRequested(h)
       PROVE  HiddenIsHidden'
  BY <1>13 DEF Leased!AbandonRequested, Leased!Unexpired, Entries
<1>14. ASSUME NEW h \in LeasedHosts, Leased!AbandonScheduled(h)
       PROVE  HiddenIsHidden'
  BY <1>14 DEF Leased!AbandonScheduled
<1>15. ASSUME NEW h \in LeasedHosts, Leased!AbandonReturns(h)
       PROVE  HiddenIsHidden'
  BY <1>15 DEF Leased!AbandonReturns, Leased!OnDidChange, Leased!Refresh
<1>16. ASSUME NEW h \in LeasedHosts, Leased!AbandonFails(h)
       PROVE  HiddenIsHidden'
  BY <1>16 DEF Leased!AbandonFails
<1>17. CASE Leased!MementoSaved
  BY <1>17 DEF Leased!MementoSaved
<1>18. ASSUME NEW l \in leases, Leased!DeviceReturned(l)
       PROVE  HiddenIsHidden'
  BY <1>18 DEF Leased!DeviceReturned
<1>19. CASE Leased!Restart
  BY <1>19 DEF Leased!Restart
<1>20. CASE Leased!Tick
  BY <1>20 DEF Leased!Tick
<1>21. QED
  BY <1>1, <1>2, <1>3, <1>4, <1>5, <1>6, <1>7, <1>8, <1>9, <1>10, <1>11, <1>12,
     <1>13, <1>14, <1>15, <1>16, <1>17, <1>18, <1>19, <1>20 DEF Leased!Next,
                                                                Leased!FetchStep,
                                                                Leased!Command

\* A lease is in every list asked for after it was obtained.
LEMMA ShownStep ==
  ASSUME LeasedIInv, Leased!Next
  PROVE  ShownIsLeased'
<1> USE DEF LeasedIInv, LeasedTypes, HiddenIsStored, ShownIsLeased, Coming,
            Owed, Leased!Unexpired, Leased!HostsOf, Leased!Expired, Entries,
            Leased!serverVars, Leased!storeVars, Leased!cacheVars,
            Leased!timerVars, Leased!commandVars, Leased!counters,
            Leased!historyVars
<1>1. CASE Leased!GetDevices
  BY <1>1 DEF Leased!GetDevices
<1>2. ASSUME NEW p \in Leased!Promises, NEW how, Leased!FetchEndsEarly(p, how)
      PROVE  ShownIsLeased'
  BY <1>2 DEF Leased!FetchEndsEarly, Leased!Settle
<1>3. ASSUME NEW p \in Leased!Promises, Leased!LoggedIn(p)
      PROVE  ShownIsLeased'
  BY <1>3 DEF Leased!LoggedIn
<1>4. ASSUME NEW p \in Leased!Promises, Leased!CrosfleetLists(p)
      PROVE  ShownIsLeased'
  BY <1>4 DEF Leased!CrosfleetLists
<1>5. ASSUME NEW p \in Leased!Promises, Leased!LeasesListed(p)
      PROVE  ShownIsLeased'
  BY <1>5 DEF Leased!LeasesListed, Leased!Unexpired
<1>6. ASSUME NEW p \in Leased!Promises, Leased!FetchDone(p)
      PROVE  ShownIsLeased'
  BY <1>6 DEF Leased!FetchDone, Leased!Settle, Leased!ScheduleRefresh
<1>7. ASSUME NEW t \in timeouts, Leased!TimerFires(t)
      PROVE  ShownIsLeased'
  BY <1>7 DEF Leased!TimerFires, Leased!Refresh
<1>8. CASE Leased!UserRefreshes
  BY <1>8 DEF Leased!UserRefreshes, Leased!Refresh
<1>9. CASE Leased!Dispose
  BY <1>9 DEF Leased!Dispose
<1>10. ASSUME NEW h \in LeasedHosts, NEW d \in Leased!Deadlines,
              Leased!LeaseGranted(h, d)
       PROVE  ShownIsLeased'
  BY <1>10 DEF Leased!LeaseGranted, Leased!Leases
<1>11. ASSUME NEW h \in LeasedHosts, Leased!LeaseReturns(h)
       PROVE  ShownIsLeased'
  BY <1>11 DEF Leased!LeaseReturns, Leased!OnDidChange, Leased!Refresh
<1>12. ASSUME NEW h \in LeasedHosts, Leased!LeaseCancelled(h)
       PROVE  ShownIsLeased'
  BY <1>12 DEF Leased!LeaseCancelled
<1>13. ASSUME NEW h \in LeasedHosts, Leased!AbandonRequested(h)
       PROVE  ShownIsLeased'
  BY <1>13 DEF Leased!AbandonRequested, Leased!Unexpired, Entries
<1>14. ASSUME NEW h \in LeasedHosts, Leased!AbandonScheduled(h)
       PROVE  ShownIsLeased'
  BY <1>14 DEF Leased!AbandonScheduled
<1>15. ASSUME NEW h \in LeasedHosts, Leased!AbandonReturns(h)
       PROVE  ShownIsLeased'
  BY <1>15 DEF Leased!AbandonReturns, Leased!OnDidChange, Leased!Refresh
<1>16. ASSUME NEW h \in LeasedHosts, Leased!AbandonFails(h)
       PROVE  ShownIsLeased'
  BY <1>16 DEF Leased!AbandonFails
<1>17. CASE Leased!MementoSaved
  BY <1>17 DEF Leased!MementoSaved
<1>18. ASSUME NEW l \in leases, Leased!DeviceReturned(l)
       PROVE  ShownIsLeased'
  BY <1>18 DEF Leased!DeviceReturned
<1>19. CASE Leased!Restart
  BY <1>19 DEF Leased!Restart
<1>20. CASE Leased!Tick
  <2>1. ASSUME NEW l \in leases, Leased!Expired(l) PROVE Leased!Expired(l)'
    <3>1. PICK t \in l.deadline : t < now
      BY <2>1 DEF Leased!Expired
    <3>2. t \in Int /\ l.deadline' = l.deadline
      BY DEF Leased!Leases, Leased!Deadlines
    <3>3. now' = now + 1
      BY <1>20 DEF Leased!Tick
    <3>4. t < now'
      BY <3>1, <3>2, <3>3
    <3>5. QED
      BY <3>1, <3>4 DEF Leased!Expired
  <2>2. UNCHANGED <<shown, leases, store, devices, outcome, disposed, fetch,
                    cachedDevices>>
    BY <1>20 DEF Leased!Tick
  <2>3. /\ Leased!Unexpired(store)' \subseteq Leased!Unexpired(store)
        /\ Coming' = Coming /\ Leased!HostsOf(leases)' = Leased!HostsOf(leases)
    BY <1>20 DEF Leased!Tick, Leased!Unexpired, Entries, Coming, Leased!HostsOf
  <2>4. ASSUME NEW h \in Leased!HostsOf(Leased!Unexpired(store))'
        PROVE  h \in Leased!HostsOf(Leased!Unexpired(store))
    <3>1. PICK e \in Leased!Unexpired(store)' : h = e.host
      BY DEF Leased!HostsOf
    <3>2. QED
      BY <2>3, <3>1 DEF Leased!HostsOf
  <2>5. ASSUME NEW h \in shown, NEW ls, Owed(h, ls)
        PROVE  \E l \in leases' : l.host = h /\ (l \in ls \/ Leased!Expired(l)')
    BY <2>1, <2>2, <2>5 DEF Owed
  <2>6. ASSUME NEW h \in shown
        PROVE  /\ h \in Leased!HostsOf(leases)'
               /\ h \notin Leased!HostsOf(Leased!Unexpired(store))'
    BY <2>3, <2>4
  <2>7. ASSUME NEW h \in shown, ~disposed, outcome = "resolved"
        PROVE  Owed(h, devices)'
    BY <2>2, <2>5, <2>7 DEF Owed
  <2>8. ASSUME NEW h \in shown, ~disposed, NEW p \in Coming
        PROVE  Owed(h, fetch[p].leases)'
    BY <2>2, <2>5, <2>8 DEF Owed
  <2>9. QED
    BY <2>2, <2>3, <2>6, <2>7, <2>8 DEF ShownIsLeased
<1>21. QED
  BY <1>1, <1>2, <1>3, <1>4, <1>5, <1>6, <1>7, <1>8, <1>9, <1>10, <1>11, <1>12,
     <1>13, <1>14, <1>15, <1>16, <1>17, <1>18, <1>19, <1>20 DEF Leased!Next,
                                                                Leased!FetchStep,
                                                                Leased!Command

LEMMA LeasedStep == LeasedIInv /\ [Leased!Next]_leasedVars => LeasedIInv'
<1>1. ASSUME LeasedIInv, Leased!Next PROVE LeasedIInv'
  BY <1>1, LeasedTypesStep, TimersStep, TimedStep, StoredStep, HiddenStep,
     ShownStep DEF LeasedIInv
<1>2. ASSUME LeasedIInv, UNCHANGED leasedVars PROVE LeasedIInv'
  <2> USE <1>2 DEF leasedVars, LeasedIInv
  <2>1. LeasedTypes' /\ TimerIsOfCache' /\ Leased!CurrentListIsTimed'
    BY DEF LeasedTypes, TimerIsOfCache, Leased!CurrentListIsTimed,
           Leased!DeadlinesOf
  <2>2. HiddenIsStored' /\ HiddenIsHidden'
    BY DEF HiddenIsStored, HiddenIsHidden, Coming, Leased!Unexpired,
           Leased!InsertedAt, Leased!HostsOf
  <2>3. ShownIsLeased'
    BY DEF ShownIsLeased, Coming, Owed, Leased!Unexpired, Leased!HostsOf,
           Leased!Expired
  <2>4. QED
    BY <2>1, <2>2, <2>3
<1>3. QED
  BY <1>1, <1>2

\* What the list owes to the user, with the fetches, timers and the store it
\* comes from, is invariant for any number of devices, fetches and restarts.
THEOREM LeasedInvariance == MCSpec => []LeasedIInv
<1>1. MCInit => LeasedIInv
  BY LeasedInit DEF MCInit
<1>2. LeasedIInv /\ [MCNext]_MCvars => LeasedIInv'
  BY LeasedStep DEF MCNext, MCvars
<1>3. QED
  BY <1>1, <1>2, PTL DEF MCSpec

\* The list of leased devices is right: what was abandoned is hidden, also after
\* a restart, what was leased is shown, and the timer is that of the list, in
\* whatever order fetches, commands, timers and dispose() come
\* (device_repository.ts:184, lease_abandon.ts:48).
THEOREM LeasedList == MCSpec => []LeasedListIsRight
<1>1. LeasedIInv => LeasedListIsRight
  <2> SUFFICES ASSUME LeasedIInv
               PROVE  Leased!AbandonedStaysHidden /\ Leased!LeaseIsShown
                      /\ Leased!NoStrayTimer /\ Leased!CurrentListIsTimed
    BY DEF LeasedListIsRight
  <2> USE DEF LeasedIInv
  <2>1. Leased!AbandonedStaysHidden
    BY DEF HiddenIsHidden, Leased!AbandonedStaysHidden
  <2>2. Leased!LeaseIsShown
    BY DEF ShownIsLeased, Owed, Leased!LeaseIsShown, Leased!HostsOf
  <2>3. Leased!NoStrayTimer
    BY DEF TimerIsOfCache, Leased!NoStrayTimer
  <2>4. QED
    BY <2>1, <2>2, <2>3
<1>2. QED
  BY LeasedInvariance, <1>1, PTL
=============================================================================
