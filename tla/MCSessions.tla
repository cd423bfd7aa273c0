----------------------------- MODULE MCSessions -----------------------------
(***************************************************************************)
(* Calls that overlap: those of a mutex, which waits for one after the     *)
(* other, and those that open a tunnel of SSH or a panel of VNC, which do  *)
(* not: they keep a map from hosts to sessions that is read before an      *)
(* `await` and written after it. They share nothing; `part` is the one     *)
(* that runs.                                                              *)
(***************************************************************************)
EXTENDS Mutex, SequenceTheorems, TLAPS

CONSTANTS
  host1, host2, other, Calls, Hosts, HostOf, Ports, VncCalls, VncHosts, VncHostOf

ASSUME SessionsAssumption ==
  /\ HostOf \in [Calls -> Hosts]
  /\ VncHostOf \in [VncCalls -> VncHosts]

VARIABLES
  part,  \* the component that runs
  at, existing, answer, sshSessions, port, tunnel, disposed, foreign, overlapped,
  vncAt, vncSessions, panel, webview, server, race, webViewReady, posted, vncOverlapped

Ssh == INSTANCE SshSessions
Vnc == INSTANCE VncSessions
  WITH Calls <- VncCalls, Hosts <- VncHosts, HostOf <- VncHostOf, at <- vncAt,
       overlapped <- vncOverlapped

Parts == {"mutex", "ssh", "vnc"}
MCInit ==
  /\ part \in Parts
  /\ Init
  /\ Ssh!Init
  /\ Vnc!Init

sshVars == <<at, existing, answer, sshSessions, port, tunnel, disposed, foreign, overlapped>>
vncVars == <<vncAt, vncSessions, panel, webview, server, race, webViewReady, posted,
    vncOverlapped>>

MCNext ==
  \/ /\ part = "mutex" /\ Next
     /\ UNCHANGED <<part, sshVars, vncVars>>
  \/ /\ part = "ssh" /\ Ssh!Next
     /\ UNCHANGED <<part, vars, vncVars>>
  \/ /\ part = "vnc" /\ Vnc!Next
     /\ UNCHANGED <<part, vars, sshVars>>

MCvars == <<part, vars, sshVars, vncVars>>
MCSpec == MCInit /\ [][MCNext]_MCvars
  /\ Fairness
  /\ Ssh!Fairness
  /\ Vnc!Fairness
-----------------------------------------------------------------------------
\* Three calls of SSH for one device.
MCHostOf == [c \in Calls |-> host1]

\* Runs of the VNC command on one device; `other` is on another one.
MCVncHostOf == [c \in VncCalls |-> IF c = other THEN host2 ELSE host1]

\* The session in the map has a panel, and two panels of a device, or one that
\* is not in the map, come from overlapping calls only.
PanelsAreOpenAndOne ==
  part = "vnc" =>
    /\ Vnc!EntryIsOpen
    /\ Vnc!OnlyOverlapDuplicates

\* A ready server and a ready page are brought together (vnc_session.ts:188).
ReadyIsPosted == Vnc!ReadyIsPosted

\* The map gives to the next caller a session that nobody has disposed of, and
\* one that nothing can dispose of comes from overlapping calls only
\* (commands/common.ts:113, 140).
TunnelsAreUsableAndOne ==
  part = "ssh" =>
    /\ Ssh!EntryIsUsable
    /\ Ssh!OnlyOverlapLeaks

\* Every call of ensureSshSession returns, if there is a port (ssh_session.ts:97).
EveryCallReturns == Ssh!EveryCallReturns
-----------------------------------------------------------------------------
(***************************************************************************)
(* Theorems about the maps of tunnels and of panels, for any calls and     *)
(* devices.  What the maps hold can be used even when calls overlap; as    *)
(* long as no calls for a device overlap, the map has its only session.    *)
(***************************************************************************)
\* A call has an answer when it is over, and only then is its session
\* disposed of; ssh was run before.
SshAnswers ==
  \A c \in Calls : /\ answer[c] = "pending" <=> at[c] # "done"
                   /\ c \in disposed => at[c] = "done"
                   /\ at[c] = "starting" \/ answer[c] = "created" => tunnel[c] # "none"

\* The map holds what was created for the host; so did the one that was read.
SshEntries ==
  /\ \A h \in Hosts, s \in Calls :
       s \in sshSessions[h] => HostOf[s] = h /\ answer[s] = "created" /\ s \notin disposed
  /\ \A c, s \in Calls :
       s \in existing[c] => HostOf[s] = HostOf[c] /\ answer[s] = "created"

\* Calls for host h have not overlapped.
SshAlone(h) ==
  /\ \A c, d \in Ssh!UnderWay(h) : c = d
  /\ \A c \in Ssh!UnderWay(h) :
       /\ at[c] = "checking" => existing[c] = sshSessions[h] /\ existing[c] # {}
       /\ at[c] # "checking" => sshSessions[h] = {}
  /\ \A s \in Calls :
       HostOf[s] = h /\ answer[s] = "created" /\ s \notin disposed => s \in sshSessions[h]
  /\ \A s, t \in sshSessions[h] : s = t

SshIInv ==
  /\ Ssh!TypeOK
  /\ SshAnswers
  /\ SshEntries
  /\ \A h \in Hosts \ overlapped : SshAlone(h)

USE SessionsAssumption DEF Ssh!sessionVars, Ssh!Goto, Vnc!sessionVars, Vnc!Goto

LEMMA SshInit == Ssh!Init => SshIInv
<1> SUFFICES ASSUME Ssh!Init PROVE SshIInv
  OBVIOUS
<1> USE DEF Ssh!Init
<1>1. Ssh!TypeOK
  BY DEF Ssh!TypeOK
<1>2. SshAnswers /\ SshEntries
  BY DEF SshAnswers, SshEntries
<1>3. \A h \in Hosts : SshAlone(h)
  <2>1. \A h \in Hosts : Ssh!UnderWay(h) = {}
    BY DEF Ssh!UnderWay
  <2>2. QED
    BY <2>1 DEF SshAlone
<1>4. QED
  BY <1>1, <1>2, <1>3 DEF SshIInv

LEMMA SshTypesStep ==
  ASSUME SshIInv, Ssh!Next
  PROVE  Ssh!TypeOK'
<1> USE DEF SshIInv, Ssh!TypeOK, SshAnswers, SshEntries
<1>1. ASSUME NEW c \in Calls, Ssh!Ensure(c) PROVE Ssh!TypeOK'
  BY <1>1 DEF Ssh!Ensure
<1>2. ASSUME NEW c \in Calls, Ssh!Reuse(c) PROVE Ssh!TypeOK'
  BY <1>2 DEF Ssh!Reuse, Ssh!Return
<1>3. ASSUME NEW c \in Calls, Ssh!Replace(c) PROVE Ssh!TypeOK'
  BY <1>3 DEF Ssh!Replace, Ssh!Dispose
<1>4. ASSUME NEW c \in Calls, NEW p \in Ports, Ssh!PortFound(c,
             p) PROVE Ssh!TypeOK'
  BY <1>4 DEF Ssh!PortFound
<1>5. ASSUME NEW c \in Calls, Ssh!StartFails(c) PROVE Ssh!TypeOK'
  BY <1>5 DEF Ssh!StartFails, Ssh!Return
<1>6. ASSUME NEW c \in Calls, Ssh!StartSucceeds(c) PROVE Ssh!TypeOK'
  BY <1>6 DEF Ssh!StartSucceeds, Ssh!Return
<1>7. ASSUME NEW c \in Calls, Ssh!TunnelStarts(c) PROVE Ssh!TypeOK'
  BY <1>7 DEF Ssh!TunnelStarts
<1>8. ASSUME NEW c \in Calls, Ssh!TunnelEnds(c) PROVE Ssh!TypeOK'
  BY <1>8 DEF Ssh!TunnelEnds
<1>9. ASSUME NEW p \in Ports, Ssh!OtherProgram(p) PROVE Ssh!TypeOK'
  BY <1>9 DEF Ssh!OtherProgram
<1>10. QED
  BY <1>1, <1>2, <1>3, <1>4, <1>5, <1>6, <1>7, <1>8, <1>9 DEF Ssh!Next,
                                                              Ssh!EnsureSshSession

LEMMA SshAnswersStep ==
  ASSUME SshIInv, Ssh!Next
  PROVE  SshAnswers'
<1> USE DEF SshIInv, Ssh!TypeOK, SshAnswers, SshEntries
<1>1. ASSUME NEW c \in Calls, Ssh!Ensure(c) PROVE SshAnswers'
  BY <1>1 DEF Ssh!Ensure
<1>2. ASSUME NEW c \in Calls, Ssh!Reuse(c) PROVE SshAnswers'
  BY <1>2 DEF Ssh!Reuse, Ssh!Return
<1>3. ASSUME NEW c \in Calls, Ssh!Replace(c) PROVE SshAnswers'
  BY <1>3 DEF Ssh!Replace, Ssh!Dispose
<1>4. ASSUME NEW c \in Calls, NEW p \in Ports, Ssh!PortFound(c,
             p) PROVE SshAnswers'
  BY <1>4 DEF Ssh!PortFound
<1>5. ASSUME NEW c \in Calls, Ssh!StartFails(c) PROVE SshAnswers'
  BY <1>5 DEF Ssh!StartFails, Ssh!Return
<1>6. ASSUME NEW c \in Calls, Ssh!StartSucceeds(c) PROVE SshAnswers'
  BY <1>6 DEF Ssh!StartSucceeds, Ssh!Return
<1>7. ASSUME NEW c \in Calls, Ssh!TunnelStarts(c) PROVE SshAnswers'
  BY <1>7 DEF Ssh!TunnelStarts
<1>8. ASSUME NEW c \in Calls, Ssh!TunnelEnds(c) PROVE SshAnswers'
  BY <1>8 DEF Ssh!TunnelEnds
<1>9. ASSUME NEW p \in Ports, Ssh!OtherProgram(p) PROVE SshAnswers'
  BY <1>9 DEF Ssh!OtherProgram
<1>10. QED
  BY <1>1, <1>2, <1>3, <1>4, <1>5, <1>6, <1>7, <1>8, <1>9 DEF Ssh!Next,
                                                              Ssh!EnsureSshSession

LEMMA SshEntriesStep ==
  ASSUME SshIInv, Ssh!Next
  PROVE  SshEntries'
<1> USE DEF SshIInv, Ssh!TypeOK, SshAnswers, SshEntries
<1>1. ASSUME NEW c \in Calls, Ssh!Ensure(c) PROVE SshEntries'
  BY <1>1 DEF Ssh!Ensure
<1>2. ASSUME NEW c \in Calls, Ssh!Reuse(c) PROVE SshEntries'
  BY <1>2 DEF Ssh!Reuse, Ssh!Return
<1>3. ASSUME NEW c \in Calls, Ssh!Replace(c) PROVE SshEntries'
  BY <1>3 DEF Ssh!Replace, Ssh!Dispose
<1>4. ASSUME NEW c \in Calls, NEW p \in Ports, Ssh!PortFound(c,
             p) PROVE SshEntries'
  BY <1>4 DEF Ssh!PortFound
<1>5. ASSUME NEW c \in Calls, Ssh!StartFails(c) PROVE SshEntries'
  BY <1>5 DEF Ssh!StartFails, Ssh!Return
<1>6. ASSUME NEW c \in Calls, Ssh!StartSucceeds(c) PROVE SshEntries'
  BY <1>6 DEF Ssh!StartSucceeds, Ssh!Return
<1>7. ASSUME NEW c \in Calls, Ssh!TunnelStarts(c) PROVE SshEntries'
  BY <1>7 DEF Ssh!TunnelStarts
<1>8. ASSUME NEW c \in Calls, Ssh!TunnelEnds(c) PROVE SshEntries'
  BY <1>8 DEF Ssh!TunnelEnds
<1>9. ASSUME NEW p \in Ports, Ssh!OtherProgram(p) PROVE SshEntries'
  BY <1>9 DEF Ssh!OtherProgram
<1>10. QED
  BY <1>1, <1>2, <1>3, <1>4, <1>5, <1>6, <1>7, <1>8, <1>9 DEF Ssh!Next,
                                                              Ssh!EnsureSshSession

LEMMA SshAloneStep ==
  ASSUME SshIInv, Ssh!Next, NEW h \in Hosts, h \notin overlapped'
  PROVE  SshAlone(h)'
<1> USE DEF SshIInv, Ssh!TypeOK, SshAnswers, SshEntries, SshAlone, Ssh!UnderWay
<1>1. ASSUME NEW c \in Calls, Ssh!Ensure(c) PROVE SshAlone(h)'
  BY <1>1 DEF Ssh!Ensure
<1>2. ASSUME NEW c \in Calls, Ssh!Reuse(c) PROVE SshAlone(h)'
  BY <1>2 DEF Ssh!Reuse, Ssh!Return
<1>3. ASSUME NEW c \in Calls, Ssh!Replace(c) PROVE SshAlone(h)'
  BY <1>3 DEF Ssh!Replace, Ssh!Dispose
<1>4. ASSUME NEW c \in Calls, NEW p \in Ports, Ssh!PortFound(c,
             p) PROVE SshAlone(h)'
  BY <1>4 DEF Ssh!PortFound
<1>5. ASSUME NEW c \in Calls, Ssh!StartFails(c) PROVE SshAlone(h)'
  BY <1>5 DEF Ssh!StartFails, Ssh!Return
<1>6. ASSUME NEW c \in Calls, Ssh!StartSucceeds(c) PROVE SshAlone(h)'
  BY <1>6 DEF Ssh!StartSucceeds, Ssh!Return
<1>7. ASSUME NEW c \in Calls, Ssh!TunnelStarts(c) PROVE SshAlone(h)'
  BY <1>7 DEF Ssh!TunnelStarts
<1>8. ASSUME NEW c \in Calls, Ssh!TunnelEnds(c) PROVE SshAlone(h)'
  BY <1>8 DEF Ssh!TunnelEnds
<1>9. ASSUME NEW p \in Ports, Ssh!OtherProgram(p) PROVE SshAlone(h)'
  BY <1>9 DEF Ssh!OtherProgram
<1>10. QED
  BY <1>1, <1>2, <1>3, <1>4, <1>5, <1>6, <1>7, <1>8, <1>9 DEF Ssh!Next,
                                                              Ssh!EnsureSshSession

\* A session of the map.
VncEntries ==
  /\ \A h \in VncHosts, s \in VncCalls :
       s \in vncSessions[h] => VncHostOf[s] = h /\ panel[s] = "open"
  /\ \A c \in VncCalls : vncAt[c] \in {"idle", "finding"} => panel[c] = "none"

\* Calls for device h have not overlapped.
VncAlone(h) ==
  /\ \A c, d \in Vnc!UnderWay(h) : c = d
  /\ \A c \in Vnc!UnderWay(h) : vncSessions[h] = {}
  /\ \A s \in VncCalls : VncHostOf[s] = h /\ panel[s] = "open" => s \in vncSessions[h]
  /\ \A s, t \in vncSessions[h] : s = t

VncIInv ==
  /\ Vnc!TypeOK
  /\ VncEntries
  /\ \A h \in VncHosts \ vncOverlapped : VncAlone(h)

LEMMA VncInit == Vnc!Init => VncIInv
BY DEF Vnc!Init, VncIInv, Vnc!TypeOK, VncEntries, VncAlone, Vnc!UnderWay

LEMMA VncTypesStep ==
  ASSUME VncIInv, Vnc!Next
  PROVE  Vnc!TypeOK'
<1> USE DEF VncIInv, Vnc!TypeOK, Vnc!Open, VncEntries
<1>1. ASSUME NEW c \in VncCalls, Vnc!Connect(c) PROVE Vnc!TypeOK'
  BY <1>1 DEF Vnc!Connect
<1>2. ASSUME NEW c \in VncCalls, Vnc!Create(c) PROVE Vnc!TypeOK'
  BY <1>2 DEF Vnc!Create
<1>3. ASSUME NEW c \in VncCalls, Vnc!StartWebview(c) PROVE Vnc!TypeOK'
  BY <1>3 DEF Vnc!StartWebview
<1>4. ASSUME NEW c \in VncCalls, Vnc!ServerStarts(c) PROVE Vnc!TypeOK'
  BY <1>4 DEF Vnc!ServerStarts
<1>5. ASSUME NEW c \in VncCalls, Vnc!RaceSettles(c) PROVE Vnc!TypeOK'
  BY <1>5 DEF Vnc!RaceSettles
<1>6. ASSUME NEW c \in VncCalls, Vnc!WebviewReady(c) PROVE Vnc!TypeOK'
  BY <1>6 DEF Vnc!WebviewReady
<1>7. ASSUME NEW c \in VncCalls, Vnc!PostReady(c) PROVE Vnc!TypeOK'
  BY <1>7 DEF Vnc!PostReady
<1>8. ASSUME NEW c \in VncCalls, Vnc!PanelClosed(c) PROVE Vnc!TypeOK'
  BY <1>8 DEF Vnc!PanelClosed, Vnc!Dispose
<1>9. ASSUME NEW c \in VncCalls, Vnc!ServerStops(c) PROVE Vnc!TypeOK'
  BY <1>9 DEF Vnc!ServerStops
<1>10. QED
  BY <1>1, <1>2, <1>3, <1>4, <1>5, <1>6, <1>7, <1>8, <1>9 DEF Vnc!Next, Vnc!Step

LEMMA VncEntriesStep ==
  ASSUME VncIInv, Vnc!Next
  PROVE  VncEntries'
<1> USE DEF VncIInv, Vnc!TypeOK, VncEntries, Vnc!Open
<1>1. ASSUME NEW c \in VncCalls, Vnc!Connect(c) PROVE VncEntries'
  BY <1>1 DEF Vnc!Connect
<1>2. ASSUME NEW c \in VncCalls, Vnc!Create(c) PROVE VncEntries'
  BY <1>2 DEF Vnc!Create
<1>3. ASSUME NEW c \in VncCalls, Vnc!StartWebview(c) PROVE VncEntries'
  BY <1>3 DEF Vnc!StartWebview
<1>4. ASSUME NEW c \in VncCalls, Vnc!ServerStarts(c) PROVE VncEntries'
  BY <1>4 DEF Vnc!ServerStarts
<1>5. ASSUME NEW c \in VncCalls, Vnc!RaceSettles(c) PROVE VncEntries'
  BY <1>5 DEF Vnc!RaceSettles
<1>6. ASSUME NEW c \in VncCalls, Vnc!WebviewReady(c) PROVE VncEntries'
  BY <1>6 DEF Vnc!WebviewReady
<1>7. ASSUME NEW c \in VncCalls, Vnc!PostReady(c) PROVE VncEntries'
  BY <1>7 DEF Vnc!PostReady
<1>8. ASSUME NEW c \in VncCalls, Vnc!PanelClosed(c) PROVE VncEntries'
  BY <1>8 DEF Vnc!PanelClosed, Vnc!Dispose
<1>9. ASSUME NEW c \in VncCalls, Vnc!ServerStops(c) PROVE VncEntries'
  BY <1>9 DEF Vnc!ServerStops
<1>10. QED
  BY <1>1, <1>2, <1>3, <1>4, <1>5, <1>6, <1>7, <1>8, <1>9 DEF Vnc!Next, Vnc!Step

LEMMA VncAloneStep ==
  ASSUME VncIInv, Vnc!Next, NEW h \in VncHosts, h \notin vncOverlapped'
  PROVE  VncAlone(h)'
<1> USE DEF VncIInv, Vnc!TypeOK, VncEntries, VncAlone, Vnc!UnderWay, Vnc!Open
<1>1. ASSUME NEW c \in VncCalls, Vnc!Connect(c) PROVE VncAlone(h)'
  BY <1>1 DEF Vnc!Connect
<1>2. ASSUME NEW c \in VncCalls, Vnc!Create(c) PROVE VncAlone(h)'
  BY <1>2 DEF Vnc!Create
<1>3. ASSUME NEW c \in VncCalls, Vnc!StartWebview(c) PROVE VncAlone(h)'
  BY <1>3 DEF Vnc!StartWebview
<1>4. ASSUME NEW c \in VncCalls, Vnc!ServerStarts(c) PROVE VncAlone(h)'
  BY <1>4 DEF Vnc!ServerStarts
<1>5. ASSUME NEW c \in VncCalls, Vnc!RaceSettles(c) PROVE VncAlone(h)'
  BY <1>5 DEF Vnc!RaceSettles
<1>6. ASSUME NEW c \in VncCalls, Vnc!WebviewReady(c) PROVE VncAlone(h)'
  BY <1>6 DEF Vnc!WebviewReady
<1>7. ASSUME NEW c \in VncCalls, Vnc!PostReady(c) PROVE VncAlone(h)'
  BY <1>7 DEF Vnc!PostReady
<1>8. ASSUME NEW c \in VncCalls, Vnc!PanelClosed(c) PROVE VncAlone(h)'
  BY <1>8 DEF Vnc!PanelClosed, Vnc!Dispose
<1>9. ASSUME NEW c \in VncCalls, Vnc!ServerStops(c) PROVE VncAlone(h)'
  BY <1>9 DEF Vnc!ServerStops
<1>10. QED
  BY <1>1, <1>2, <1>3, <1>4, <1>5, <1>6, <1>7, <1>8, <1>9 DEF Vnc!Next, Vnc!Step

\* The map of tunnels, for any calls and hosts.
THEOREM SshInvariance == MCSpec => []SshIInv
<1>1. MCInit => SshIInv
  BY SshInit DEF MCInit
<1>2. SshIInv /\ [MCNext]_MCvars => SshIInv'
  <2> SUFFICES ASSUME SshIInv, [MCNext]_MCvars PROVE SshIInv'
    OBVIOUS
  <2>1. CASE Ssh!Next
    BY <2>1, SshTypesStep, SshAnswersStep, SshEntriesStep, SshAloneStep
       DEF SshIInv
  <2>2. CASE UNCHANGED sshVars
    BY <2>2 DEF sshVars, SshIInv, Ssh!TypeOK, SshAnswers, SshEntries, SshAlone,
                Ssh!UnderWay
  <2>3. QED
    BY <2>1, <2>2 DEF MCNext, MCvars
<1>3. QED
  BY <1>1, <1>2, PTL DEF MCSpec

\* The map of panels, for any calls and devices.
THEOREM VncInvariance == MCSpec => []VncIInv
<1>1. MCInit => VncIInv
  BY VncInit DEF MCInit
<1>2. VncIInv /\ [MCNext]_MCvars => VncIInv'
  <2> SUFFICES ASSUME VncIInv, [MCNext]_MCvars PROVE VncIInv'
    OBVIOUS
  <2>1. CASE Vnc!Next
    BY <2>1, VncTypesStep, VncEntriesStep, VncAloneStep DEF VncIInv
  <2>2. CASE UNCHANGED vncVars
    BY <2>2 DEF vncVars, VncIInv, Vnc!TypeOK, VncEntries, VncAlone, Vnc!UnderWay
  <2>3. QED
    BY <2>1, <2>2 DEF MCNext, MCvars
<1>3. QED
  BY <1>1, <1>2, PTL DEF MCSpec

\* However calls overlap, the next caller gets a session that is not disposed
\* of; without an overlap none is left behind (commands/common.ts:113, 140).
THEOREM Tunnels == MCSpec => []TunnelsAreUsableAndOne
<1>1. SshIInv => TunnelsAreUsableAndOne
  BY SessionsAssumption DEF SshIInv, SshEntries, SshAlone, Ssh!TypeOK,
                            TunnelsAreUsableAndOne, Ssh!EntryIsUsable,
                            Ssh!OnlyOverlapLeaks, Ssh!Created, Ssh!Reachable
<1>2. QED
  BY SshInvariance, <1>1, PTL

\* However runs of the command overlap, the session in the map has a panel to
\* reveal; without an overlap a device has no other (connect_vnc.ts:32).
THEOREM Panels == MCSpec => []PanelsAreOpenAndOne
<1>1. VncIInv => PanelsAreOpenAndOne
  BY SessionsAssumption DEF VncIInv, VncEntries, VncAlone, Vnc!TypeOK,
                            PanelsAreOpenAndOne, Vnc!EntryIsOpen,
                            Vnc!OnlyOverlapDuplicates, Vnc!Open
<1>2. QED
  BY VncInvariance, <1>1, PTL

-----------------------------------------------------------------------------
(***************************************************************************)
(* The mutex, for any set of jobs.  The inductive invariant says where     *)
(* each call is: the sequence of calls is, in this order, the calls        *)
(* answered or about to be, the one executing (if any), and the queue.     *)
(***************************************************************************)
Ended == Len(answered) + Len(immediates)
Busy == IF running THEN 1 ELSE 0

Accounting == Len(calls) = Ended + Busy + Len(queue)
QueueIsTail == \A i \in 1..Len(queue) : queue[i] = calls[Ended + Busy + i]
ExecutingIsNext ==
  /\ running => executing = {calls[Ended + 1]}
  /\ ~running => executing = {} /\ queue = <<>>

MutexIInv == TypeOK /\ Accounting /\ QueueIsTail /\ ExecutingIsNext

USE DEF Outcomes, Results

LEMMA MutexInit == Init => MutexIInv
<1> SUFFICES ASSUME Init PROVE MutexIInv
  OBVIOUS
<1> USE DEF Init
<1>1. Len(queue) = 0 /\ Len(calls) = 0 /\ Ended = 0 /\ Busy = 0
  BY DEF Ended, Busy
<1>2. TypeOK
  <2>1. <<>> \in Seq(Jobs) /\ <<>> \in Seq(Results)
    OBVIOUS
  <2>2. QED
    BY <2>1 DEF TypeOK
<1>3. Accounting
  BY <1>1 DEF Accounting
<1>4. QueueIsTail
  BY <1>1 DEF QueueIsTail
<1>5. ExecutingIsNext
  BY DEF ExecutingIsNext
<1>6. QED
  BY <1>2, <1>3, <1>4, <1>5 DEF MutexIInv

LEMMA MutexCall ==
  ASSUME MutexIInv, NEW j \in Jobs, RunExclusive(j)
  PROVE  MutexIInv'
<1> USE DEF MutexIInv, TypeOK, RunExclusive
<1>1. CASE running
  <2>1. /\ queue' = Append(queue, j) /\ running' = running
        /\ executing' = executing /\ calls' = Append(calls, j)
    BY <1>1 DEF Handle
  <2>2. TypeOK'
    BY <2>1
  <2>3. Accounting'
    <3>1. Ended' = Ended /\ Busy' = Busy /\ Ended \in Nat /\ Busy \in Nat
      BY <2>1 DEF Ended, Busy
    <3>2. Len(queue') = Len(queue) + 1 /\ Len(calls') = Len(calls) + 1
      BY <2>1
    <3>3. Len(calls) = Ended + Busy + Len(queue) /\ Len(queue) \in Nat
      BY DEF Accounting
    <3>4. QED
      BY <3>1, <3>2, <3>3 DEF Accounting
  <2>4. QueueIsTail'
    <3>1. /\ Ended' = Ended /\ Busy' = Busy /\ Busy = 1
          /\ Ended \in Nat /\ Len(queue) \in Nat
      BY <1>1, <2>1 DEF Ended, Busy
    <3>2. Len(queue') = Len(queue) + 1 /\ Len(calls) = Ended + 1 + Len(queue)
      BY <2>1, <3>1 DEF Accounting
    <3>3. ASSUME NEW i \in 1..Len(queue')
          PROVE  queue'[i] = calls'[Ended + 1 + i]
      <4>1. CASE i = Len(queue) + 1
        <5>1. queue'[i] = j
          BY <2>1, <4>1
        <5>2. Ended + 1 + i = Len(calls) + 1
          BY <3>1, <3>2, <4>1
        <5>3. calls'[Len(calls) + 1] = j
          BY <2>1
        <5>4. QED
          BY <5>1, <5>2, <5>3
      <4>2. CASE i \in 1..Len(queue)
        <5>1. queue'[i] = queue[i] /\ queue[i] = calls[Ended + 1 + i]
          BY <2>1, <3>1, <4>2 DEF QueueIsTail
        <5>2. Ended + 1 + i \in 1..Len(calls)
          BY <3>1, <3>2, <4>2
        <5>3. QED
          BY <2>1, <5>1, <5>2
      <4>3. i = Len(queue) + 1 \/ i \in 1..Len(queue)
        BY <3>1, <3>2
      <4>4. QED
        BY <4>1, <4>2, <4>3
    <3>4. QED
      BY <3>1, <3>3 DEF QueueIsTail
  <2>5. ExecutingIsNext'
    BY <1>1, <2>1 DEF Accounting, ExecutingIsNext, Ended, Busy
  <2>6. QED
    BY <2>2, <2>3, <2>4, <2>5
<1>2. CASE ~running
  <2>1. queue = <<>> /\ executing = {}
    BY <1>2 DEF ExecutingIsNext
  <2>2. /\ queue' = <<>> /\ running' = TRUE
        /\ executing' = {j} /\ calls' = Append(calls, j)
    BY <1>2, <2>1 DEF Handle
  <2>3. TypeOK'
    BY <2>2
  <2>4. Accounting' /\ QueueIsTail' /\ ExecutingIsNext'
    BY <1>2, <2>1, <2>2
       DEF Accounting, QueueIsTail, ExecutingIsNext, Ended, Busy
  <2>5. QED
    BY <2>3, <2>4
<1>3. QED
  BY <1>1, <1>2

LEMMA MutexSettle ==
  ASSUME MutexIInv, NEW j \in Jobs, NEW o \in Outcomes, JobSettles(j, o)
  PROVE  MutexIInv'
<1> USE DEF MutexIInv, TypeOK, JobSettles
<1> DEFINE r == [job |-> j, outcome |-> o]
<1>1. running /\ executing = {j} /\ executing \ {j} = {}
  BY DEF ExecutingIsNext
<1>2. immediates' \in Seq(Results) /\ Len(immediates') = Len(immediates) + 1
  <2>1. r \in Results
    OBVIOUS
  <2>2. QED
    BY <2>1
<1>3. Ended' = Ended + 1 /\ Ended \in Nat /\ Len(queue) \in Nat
  BY <1>2 DEF Ended
<1>4. CASE queue = <<>>
  <2>1. queue' = <<>> /\ running' = FALSE /\ executing' = {}
    BY <1>1, <1>4 DEF Handle
  <2>2. TypeOK'
    BY <1>2, <1>4, <2>1
  <2>3. Accounting' /\ QueueIsTail' /\ ExecutingIsNext'
    BY <1>1, <1>3, <1>4, <2>1
       DEF Accounting, QueueIsTail, ExecutingIsNext, Busy
  <2>4. QED
    BY <2>2, <2>3
<1>5. CASE queue # <<>>
  <2>1. /\ queue' = Tail(queue) /\ running' = TRUE
        /\ executing' = {Head(queue)}
    BY <1>1, <1>5 DEF Handle
  <2>2. /\ Head(queue) = queue[1] /\ Head(queue) \in Jobs
        /\ queue' \in Seq(Jobs) /\ Len(queue') = Len(queue) - 1
        /\ \A i \in 1..Len(queue') : queue'[i] = queue[i + 1]
        /\ Len(queue) >= 1
    BY <1>3, <1>5, <2>1, HeadTailProperties, EmptySeq
  <2>3. TypeOK'
    BY <1>2, <2>1, <2>2
  <2>4. Accounting'
    <3>1. Busy = 1 /\ Busy' = 1 /\ Len(calls') = Len(calls)
      BY <1>1, <2>1 DEF Busy
    <3>2. Len(calls) = Ended + 1 + Len(queue)
      BY <3>1 DEF Accounting
    <3>3. Len(queue') = Len(queue) - 1 /\ Len(queue) \in Nat
      BY <1>3, <2>2
    <3>4. Len(calls') = Ended' + Busy' + Len(queue')
      BY <1>3, <3>1, <3>2, <3>3
    <3>5. QED
      BY <3>4 DEF Accounting
  <2>5. QueueIsTail'
    <3>1. ASSUME NEW i \in 1..Len(queue')
          PROVE  queue'[i] = calls[Ended + 1 + 1 + i]
      BY <1>1, <1>3, <2>2 DEF QueueIsTail, Busy
    <3>2. QED
      BY <1>3, <2>1, <3>1 DEF QueueIsTail, Busy
  <2>6. ExecutingIsNext'
    BY <1>1, <1>3, <2>1, <2>2 DEF ExecutingIsNext, QueueIsTail, Busy
  <2>7. QED
    BY <2>3, <2>4, <2>5, <2>6
<1>6. QED
  BY <1>4, <1>5

LEMMA MutexImmediate ==
  ASSUME MutexIInv, Immediate
  PROVE  MutexIInv'
<1> USE DEF MutexIInv, TypeOK, Immediate
<1>1. /\ Head(immediates) \in Results /\ Tail(immediates) \in Seq(Results)
      /\ Len(Tail(immediates)) = Len(immediates) - 1
      /\ Len(immediates) \in Nat
  BY HeadTailProperties, EmptySeq
<1>2. TypeOK' /\ Ended' = Ended
  BY <1>1, SMTT(30) DEF Ended
<1>3. Accounting' /\ QueueIsTail' /\ ExecutingIsNext'
  BY <1>2 DEF Accounting, QueueIsTail, ExecutingIsNext, Busy
<1>4. QED
  BY <1>2, <1>3

\* Types, and where each call is, are invariant for every set of jobs.
THEOREM MutexInvariance == Spec => []MutexIInv
<1>1. MutexIInv /\ [Next]_vars => MutexIInv'
  <2> SUFFICES ASSUME MutexIInv, [Next]_vars PROVE MutexIInv'
    OBVIOUS
  <2>1. ASSUME NEW j \in Jobs, RunExclusive(j) PROVE MutexIInv'
    BY <2>1, MutexCall
  <2>2. ASSUME NEW j \in Jobs, NEW o \in Outcomes, JobSettles(j, o)
        PROVE MutexIInv'
    BY <2>2, MutexSettle
  <2>3. CASE Immediate
    BY <2>3, MutexImmediate
  <2>4. CASE UNCHANGED vars
    BY <2>4 DEF vars, MutexIInv, TypeOK, Accounting, QueueIsTail, ExecutingIsNext,
                Ended, Busy
  <2>5. QED
    BY <2>1, <2>2, <2>3, <2>4 DEF Next
<1>2. QED
  BY MutexInit, <1>1, PTL DEF Spec

\* A behaviour of the suite is one of the mutex, so that what follows is also
\* true of the suite.
LEMMA MutexRuns == MCSpec => Spec
<1>1. MCInit => Init
  BY DEF MCInit
<1>2. [MCNext]_MCvars => [Next]_vars
  BY DEF MCNext, MCvars
<1>3. QED
  BY <1>1, <1>2, PTL DEF MCSpec, Spec

\* mutex.ts, "run jobs exclusively": never two jobs at once, whatever the
\* callers do and however the jobs end.
THEOREM Exclusion == Spec => []MutualExclusion
<1>1. MutexIInv => MutualExclusion
  BY DEF MutexIInv, ExecutingIsNext, TypeOK, MutualExclusion
<1>2. QED
  BY MutexInvariance, <1>1, PTL

\* handle() never leaves a queued job behind with nothing to start it.
THEOREM NothingForgotten == Spec => []NoForgottenJob
<1>1. MutexIInv => NoForgottenJob
  BY DEF MutexIInv, ExecutingIsNext, TypeOK, NoForgottenJob
<1>2. QED
  BY MutexInvariance, <1>1, PTL

LEMMA CallRefines ==
  ASSUME MutexIInv, NEW j \in Jobs, RunExclusive(j)
  PROVE  Abstract!Call(j)
BY DEF MutexIInv, TypeOK, RunExclusive, Called, Abstract!Call

LEMMA SettleRefines ==
  ASSUME MutexIInv, NEW j \in Jobs, NEW o \in Outcomes, JobSettles(j, o)
  PROVE  Abstract!Execute(o)
<1> DEFINE results == answered \o immediates
<1> USE DEF MutexIInv, TypeOK, JobSettles
<1>1. running /\ j = calls[Ended + 1]
  BY DEF ExecutingIsNext
<1>2. Len(results) = Ended /\ results \in Seq(Results)
  BY DEF Ended
<1>3. Len(results) < Len(calls)
  BY <1>1, <1>2 DEF Accounting, Busy, Ended
<1>4. results' = Append(results, [job |-> calls[Len(results) + 1], outcome |-> o])
  BY <1>1, <1>2
<1>5. QED
  BY <1>3, <1>4 DEF Abstract!Execute

LEMMA ImmediateRefines ==
  ASSUME MutexIInv, Immediate
  PROVE  Abstract!Answer
<1> USE DEF MutexIInv, TypeOK, Immediate
<1>1. Len(answered) < Len(answered \o immediates)
  OBVIOUS
<1>2. Head(immediates) = (answered \o immediates)[Len(answered) + 1]
  OBVIOUS
<1>3. (answered \o immediates)' = answered \o immediates
  OBVIOUS
<1>4. QED
  BY <1>1, <1>2, <1>3 DEF Abstract!Answer

\* The class implements ExclusiveQueue: jobs run in the order of the calls,
\* and callers are answered in that order with the outcome of their own job.
THEOREM Refinement == Spec => ImplementsExclusiveQueue
<1>1. Init => Abstract!Init
  BY DEF Init, Abstract!Init
<1>2. MutexIInv /\ [Next]_vars => [Abstract!Next]_(Abstract!vars)
  <2> SUFFICES ASSUME MutexIInv, [Next]_vars
               PROVE  [Abstract!Next]_(Abstract!vars)
    OBVIOUS
  <2>1. ASSUME NEW j \in Jobs, RunExclusive(j) PROVE Abstract!Next
    BY <2>1, CallRefines DEF Abstract!Next
  <2>2. ASSUME NEW j \in Jobs, NEW o \in Outcomes, JobSettles(j, o)
        PROVE Abstract!Next
    BY <2>2, SettleRefines DEF Abstract!Next
  <2>3. ASSUME Immediate PROVE Abstract!Next
    BY <2>3, ImmediateRefines DEF Abstract!Next
  <2>4. CASE UNCHANGED vars
    BY <2>4 DEF vars, Abstract!vars
  <2>5. QED
    BY <2>1, <2>2, <2>3, <2>4 DEF Next
<1>3. QED
  BY MutexInvariance, <1>1, <1>2, PTL
     DEF Spec, ImplementsExclusiveQueue, Abstract!Spec
=============================================================================
