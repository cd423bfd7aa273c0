---------------------------- MODULE OwnedDevices ----------------------------
(***************************************************************************)
(* `OwnedDeviceRepository` (device_repository.ts): the user's devices are  *)
(* kept in a setting; addDevice and removeDevice read it, compute the new  *)
(* list and write it back with an `await`, as jobs of a Mutex.  They are   *)
(* called by the commands to add, delete and import devices, the last of   *)
(* which starts several calls at once and awaits none.                     *)
(*                                                                         *)
(* config.get() is synchronous and sees an update only once it has been    *)
(* applied; the update may fail.  One window is modelled, and nobody else  *)
(* writes the setting while a call is in progress.                         *)
(***************************************************************************)
EXTENDS Naturals, Sequences, SequencesExt, FiniteSets

CONSTANTS
  Calls,        \* calls of addDevice and removeDevice
  Hosts,
  HostOf,       \* HostOf[c]: the host call c is about
  Removals      \* the calls of removeDevice; the others are addDevice

ASSUME CallsAssumption ==
  /\ HostOf \in [Calls -> Hosts]
  /\ Removals \subseteq Calls

VARIABLES
  queue, running, executing, immediates, answered, calls,    \* the Mutex
  config,       \* the setting deviceManagement.devices
  at,           \* where the job of each call is
  newHostnames  \* what it is going to write

mutexVars == <<queue, running, executing, immediates, answered, calls>>
vars == <<mutexVars, config, at, newHostnames>>

ConfigMutex == INSTANCE Mutex WITH Jobs <- Calls

Init ==
  /\ ConfigMutex!Init
  /\ config = <<>>
  /\ at = [c \in Calls |-> "waiting"]
  /\ newHostnames = [c \in Calls |-> <<>>]

(***************************************************************************)
(* The job of call c up to its `await`: nothing to do, an unknown host, or *)
(* an update of the setting that has been sent off.                        *)
(***************************************************************************)
Outcome(c) ==
  IF c \in Removals <=> Contains(config, HostOf[c]) THEN "updating"
  ELSE IF c \in Removals THEN "throws" ELSE "returns"

Updated(c) ==
  IF c \in Removals THEN Remove(config, HostOf[c]) ELSE Append(config, HostOf[c])

\* The job that the mutex starts in this step, if any, runs to its `await`.
RunStarted ==
  LET started == executing' \ executing IN
  /\ at' = [c \in Calls |-> IF c \in started THEN Outcome(c) ELSE at[c]]
  /\ newHostnames' = [c \in Calls |-> IF c \in started THEN Updated(c)
                                                       ELSE newHostnames[c]]

\* addDevice or removeDevice is called.
Call(c) ==
  /\ ConfigMutex!RunExclusive(c)
  /\ RunStarted
  /\ UNCHANGED config

\* setHostnames: the setting is written, and onDidChange is fired ...
UpdateApplied(c) ==
  /\ at[c] = "updating"
  /\ config' = newHostnames[c]
  /\ at' = [at EXCEPT ![c] = "returns"]
  /\ UNCHANGED <<mutexVars, newHostnames>>

\* ... or the write fails.
UpdateFails(c) ==
  /\ at[c] = "updating"
  /\ at' = [at EXCEPT ![c] = "throws"]
  /\ UNCHANGED <<mutexVars, config, newHostnames>>

\* The job ends; the mutex starts the next one in the same turn.
JobEnds(c) ==
  /\ \/ at[c] = "returns" /\ ConfigMutex!JobSettles(c, "resolved")
     \/ at[c] = "throws" /\ ConfigMutex!JobSettles(c, "rejected")
  /\ RunStarted
  /\ UNCHANGED config

Immediate ==
  /\ ConfigMutex!Immediate
  /\ UNCHANGED <<config, at, newHostnames>>

Next ==
  \/ \E c \in Calls : Call(c) \/ UpdateApplied(c) \/ UpdateFails(c) \/ JobEnds(c)
  \/ Immediate

Spec == Init /\ [][Next]_vars
-----------------------------------------------------------------------------
\* Types of the repository's own variables.
TypeOK ==
  /\ config \in Seq(Hosts)
  /\ at \in [Calls -> {"waiting", "updating", "returns", "throws"}]
  /\ newHostnames \in [Calls -> Seq(Hosts)]

\* No call works on a list another call has changed since: each write of the
\* setting is one addition or removal in the list as it stands.
Abstract == INSTANCE DeviceList WITH hostnames <- config
ImplementsDeviceList == Abstract!Spec

\* A device whose addDevice was fulfilled is in the list unless someone asks
\* to remove it, however many other calls are under way.
AddedIsListed ==
  \A i \in 1..Len(answered) :
    LET c == answered[i].job IN
    answered[i].outcome = "resolved" /\ c \notin Removals
      => \/ Contains(config, HostOf[c])
         \/ \E d \in Removals : HostOf[d] = HostOf[c] /\ Contains(calls, d)
=============================================================================
