----------------------------- MODULE SshSessions -----------------------------
(***************************************************************************)
(* `ensureSshSession` (commands/common.ts) gives its callers the port of   *)
(* an SSH tunnel to a device.  It reuses the session in the map            *)
(* `sshSessions` when something listens on its port, else it replaces it   *)
(* by a new `SshSession` (ssh_session.ts), on a port that findUnusedPort   *)
(* (net_util.ts) has found free.                                           *)
(*                                                                         *)
(* The map is read before an `await` and written after another, with no    *)
(* mutex: calls for one host may overlap, and a port found free may be     *)
(* taken before ssh binds it.  ssh then goes on without forwarding, as     *)
(* ExitOnForwardFailure is not set.  A session is named by the call that   *)
(* creates it; a set of at most one element is a value or undefined.       *)
(***************************************************************************)
EXTENDS FiniteSets

CONSTANTS
  Calls,     \* calls of ensureSshSession
  Hosts,
  HostOf,    \* HostOf[c]: the host that call c is for
  Ports      \* the ports that findUnusedPort may find

VARIABLES
  at,           \* where each call is
  existing,     \* existingSession, read at the start of the call
  answer,       \* what the call returned: a port of an old or new session
  sshSessions,  \* the map from host to session
  port, tunnel, \* the port and the ssh process of each session
  disposed,     \* sessions that were disposed of
  foreign,      \* ports on which other programs listen
  overlapped    \* history: hosts for which two calls were under way at once

sessionVars == <<sshSessions, port, tunnel, disposed>>
vars == <<at, existing, answer, sessionVars, foreign, overlapped>>

Init ==
  /\ at = [c \in Calls |-> "idle"]
  /\ existing = [c \in Calls |-> {}]
  /\ answer = [c \in Calls |-> "pending"]
  /\ sshSessions = [h \in Hosts |-> {}]
  /\ port = [c \in Calls |-> {}]
  /\ tunnel = [c \in Calls |-> "none"]
  /\ disposed = {}
  /\ foreign = {}
  /\ overlapped = {}

Goto(c, p) == at' = [at EXCEPT ![c] = p]
UnderWay(h) == {c \in Calls : HostOf[c] = h /\ at[c] \notin {"idle", "done"}}

\* isPortUsed: a tunnel or another program listens on p.
IsPortUsed(p) ==
  p \in foreign \/ \E s \in Calls : tunnel[s] = "up" /\ port[s] = {p}
-----------------------------------------------------------------------------
\* ensureSshSession(c) up to its first `await`.
Ensure(c) ==
  LET h == HostOf[c] IN
  /\ at[c] = "idle"
  /\ existing' = [existing EXCEPT ![c] = sshSessions[h]]
  /\ Goto(c, IF sshSessions[h] = {} THEN "finding" ELSE "checking")
  /\ overlapped' = IF UnderWay(h) = {} THEN overlapped ELSE overlapped \cup {h}
  /\ UNCHANGED <<answer, sessionVars, foreign>>

Return(c, a) ==
  /\ answer' = [answer EXCEPT ![c] = a]
  /\ Goto(c, "done")

\* The port of the existing session is in use: the session is reused.
Reuse(c) ==
  /\ at[c] = "checking"
  /\ \E s \in existing[c], p \in Ports : port[s] = {p} /\ IsPortUsed(p)
  /\ Return(c, "reused")
  /\ UNCHANGED <<existing, sessionVars, foreign, overlapped>>

\* mutant: the emitter is disposed of before it fires
DisposeSilently(s) ==
  /\ disposed' = disposed \cup {s}
  /\ tunnel' = [tunnel EXCEPT ![s] = "down"]
  /\ UNCHANGED sshSessions

\* SshSession.dispose for a session that is or was in the map: ssh is killed
\* and the listener of onDidDispose deletes the entry of the host, whichever
\* session it holds; the listener is gone the second time.
Dispose(s) ==
  /\ disposed' = disposed \cup {s}
  /\ tunnel' = [tunnel EXCEPT ![s] = "down"]
  /\ sshSessions' = IF s \in disposed THEN sshSessions
                    ELSE [sshSessions EXCEPT ![HostOf[s]] = {}]

\* mutant: the session that is not reused is not disposed of
ReplaceKeeping(c) ==
  /\ at[c] = "checking"
  /\ \A s \in existing[c], p \in Ports : port[s] = {p} => ~IsPortUsed(p)
  /\ Goto(c, "finding")
  /\ UNCHANGED <<existing, answer, sessionVars, foreign, overlapped>>

\* Nothing listens on the port: the session is disposed of.
Replace(c) ==
  /\ at[c] = "checking"
  /\ \A s \in existing[c], p \in Ports : port[s] = {p} => ~IsPortUsed(p)
  /\ \E s \in existing[c] : Dispose(s)
  /\ Goto(c, "finding")
  /\ UNCHANGED <<existing, answer, port, foreign, overlapped>>

\* findUnusedPort returns p, and SshSession.create starts ssh.
PortFound(c, p) ==
  /\ at[c] = "finding"
  /\ ~IsPortUsed(p)
  /\ port' = [port EXCEPT ![c] = {p}]
  /\ tunnel' = [tunnel EXCEPT ![c] = "starting"]
  /\ Goto(c, "starting")
  /\ UNCHANGED <<existing, answer, sshSessions, disposed, foreign, overlapped>>

\* mutant: waitSshServer is awaited before the end of ssh is looked at
StartFailsNotRaced(c) ==
  /\ at[c] = "starting"
  /\ tunnel[c] = "down"
  /\ \E p \in port[c] : IsPortUsed(p)
  /\ disposed' = disposed \cup {c}
  /\ Return(c, "undefined")
  /\ UNCHANGED <<existing, sshSessions, port, tunnel, foreign, overlapped>>

\* ssh ends before waitSshServer: the session is disposed of, and the call
\* returns undefined.
StartFails(c) ==
  /\ at[c] = "starting"
  /\ tunnel[c] = "down"
  /\ disposed' = disposed \cup {c}
  /\ Return(c, "undefined")
  /\ UNCHANGED <<existing, sshSessions, port, tunnel, foreign, overlapped>>

\* waitSshServer: something answers on the port; the session goes in the map.
StartSucceeds(c) ==
  /\ at[c] = "starting"
  /\ \E p \in port[c] : IsPortUsed(p)
  /\ sshSessions' = [sshSessions EXCEPT ![HostOf[c]] = {c}]
  /\ Return(c, "created")
  /\ UNCHANGED <<existing, port, tunnel, disposed, foreign, overlapped>>
-----------------------------------------------------------------------------
\* ssh is connected; it forwards unless its port has been taken meanwhile.
TunnelStarts(c) ==
  /\ tunnel[c] = "starting"
  /\ tunnel' = [tunnel EXCEPT ![c] = IF \E p \in port[c] : IsPortUsed(p)
                                     THEN "notForwarding" ELSE "up"]
  /\ UNCHANGED <<at, existing, answer, sshSessions, port, disposed, foreign,
                 overlapped>>

\* ssh ends: it cannot connect, or the device restarts.
TunnelEnds(c) ==
  /\ tunnel[c] \in {"starting", "up", "notForwarding"}
  /\ tunnel' = [tunnel EXCEPT ![c] = "down"]
  /\ UNCHANGED <<at, existing, answer, sshSessions, port, disposed, foreign,
                 overlapped>>

\* Another program starts to listen on a free port, or stops; bound: one
\* such port at a time.
OtherProgram(p) ==
  /\ foreign' = IF p \in foreign THEN {} ELSE {p}
  /\ foreign = {p} \/ (foreign = {} /\ ~IsPortUsed(p))
  /\ UNCHANGED <<at, existing, answer, sessionVars, overlapped>>

EnsureSshSession(c) ==
  \/ Ensure(c)
  \/ Reuse(c)
  \/ Replace(c)
  \/ \E p \in Ports : PortFound(c, p)
  \/ StartFails(c)
  \/ StartSucceeds(c)

Next ==
  \/ \E c \in Calls : EnsureSshSession(c) \/ TunnelStarts(c) \/ TunnelEnds(c)
  \/ \E p \in Ports : OtherProgram(p)

Spec == Init /\ [][Next]_vars

(***************************************************************************)
(* Continuations run, waitSshServer retries every 200 ms, and ssh either   *)
(* connects or gives up.  Nobody has to call, and a tunnel may stay up.    *)
(***************************************************************************)
Fairness ==
  \A c \in Calls : /\ WF_vars(at[c] # "idle" /\ EnsureSshSession(c))
                   /\ WF_vars(TunnelStarts(c))
-----------------------------------------------------------------------------
\* Types; a session has a port from the moment its ssh is started.
TypeOK ==
  /\ at \in [Calls -> {"idle", "checking", "finding", "starting", "done"}]
  /\ existing \in [Calls -> SUBSET Calls]
  /\ answer \in [Calls -> {"pending", "reused", "created", "undefined"}]
  /\ sshSessions \in [Hosts -> SUBSET Calls]
  /\ port \in [Calls -> SUBSET Ports]
  /\ tunnel \in [Calls -> {"none", "starting", "up", "notForwarding", "down"}]
  /\ \A c \in Calls : tunnel[c] = "none" <=> port[c] = {}
  /\ disposed \subseteq Calls
  /\ foreign \subseteq Ports
  /\ overlapped \subseteq Hosts

Created == {s \in Calls : answer[s] = "created"}
Reachable == UNION {sshSessions[h] : h \in Hosts}

\* What the map gives to the next caller is a session that was created and
\* that nobody has disposed of, even when calls overlap.
EntryIsUsable == Reachable \subseteq Created \ disposed

\* Calls for a host that do not overlap leave no session behind that nothing
\* can dispose of any more.
OnlyOverlapLeaks ==
  \A s \in Created \ (disposed \cup Reachable) : HostOf[s] \in overlapped

\* A port is taken between findUnusedPort and the moment ssh binds it.
PortClash == \E c \in Calls : tunnel[c] = "notForwarding"

PortFree == \E p \in Ports : ~IsPortUsed(p)

\* Every call returns (again and again none is under way), whatever tunnels
\* end meanwhile, if there always is a port to be found and none is taken
\* between being found and being bound (waitSshServer may then wait for ever).
EveryCallReturns ==
  [](PortFree /\ ~PortClash) => []<>(\A c \in Calls : at[c] \in {"idle", "done"})
-----------------------------------------------------------------------------
(***************************************************************************)
(* What the comments and docs say and the code does not do.                *)
(***************************************************************************)
\* "If tunnel is not up, then do not reuse the session" (common.ts:116).
ReusedTunnelIsUp ==
  [][\A c \in Calls : Reuse(c) => \A s \in existing[c] : tunnel[s] = "up"]_vars

\* "store disposable resources on class instance fields and implement
\* vscode.Disposable in your class to release them" (docs/development.md:224):
\* every session can still be reached by something that may dispose of it.
NoSessionLeaks == Created \subseteq disposed \cup Reachable
=============================================================================
