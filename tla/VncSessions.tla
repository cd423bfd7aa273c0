----------------------------- MODULE VncSessions -----------------------------
(***************************************************************************)
(* `connectToDeviceForScreen` (commands/connect_vnc.ts) shows the screen   *)
(* of a device in a panel, once per device: it reveals the panel of the    *)
(* session in the map `vncSessions`, or creates a `VncSession`             *)
(* (vnc_session.ts).  A session runs kmsvnc on the device, after killing   *)
(* the one that is there, and tells the web view to connect when both the  *)
(* server and the web view are ready.                                      *)
(*                                                                         *)
(* A session is named by the call that creates it.  The map is read before *)
(* an `await` (findUnusedPort) and written after it.                       *)
(***************************************************************************)
EXTENDS FiniteSets

CONSTANTS
  Calls,     \* calls of connectToDeviceForScreen
  Hosts,
  HostOf     \* HostOf[c]: the device that call c is for

VARIABLES
  at,           \* where each call is
  vncSessions,  \* the map: a set of at most one session per host
  panel,        \* the panel of each session
  webview,      \* the page in it: empty, loading, ready
  server,       \* the ssh process that runs kmsvnc
  race,         \* Promise.race of the server's start and its end
  webViewReady, \* sessions that have received `ready` from the web view
  posted,       \* sessions that have sent `ready` to the web view
  overlapped    \* history: hosts for which two calls were under way at once

sessionVars == <<panel, webview, server, race, webViewReady, posted>>
vars == <<at, vncSessions, sessionVars, overlapped>>

Init ==
  /\ at = [c \in Calls |-> "idle"]
  /\ vncSessions = [h \in Hosts |-> {}]
  /\ panel = [c \in Calls |-> "none"]
  /\ webview = [c \in Calls |-> "empty"]
  /\ server = [c \in Calls |-> "none"]
  /\ race = [c \in Calls |-> "pending"]
  /\ webViewReady = {}
  /\ posted = {}
  /\ overlapped = {}

Goto(c, p) == at' = [at EXCEPT ![c] = p]
UnderWay(h) == {c \in Calls : HostOf[c] = h /\ at[c] = "finding"}
Open == {c \in Calls : panel[c] = "open"}
-----------------------------------------------------------------------------
\* mutant: the map is not looked at
ConnectAlwaysNew(c) ==
  LET h == HostOf[c] IN
  /\ at[c] = "idle"
  /\ Goto(c, "finding")
  /\ overlapped' = IF UnderWay(h) = {} THEN overlapped ELSE overlapped \cup {h}
  /\ UNCHANGED <<vncSessions, sessionVars>>

\* The command is run: "If there's an existing session, just reveal its
\* panel", else findUnusedPort is awaited.
Connect(c) ==
  LET h == HostOf[c] IN
  /\ at[c] = "idle"
  /\ Goto(c, IF vncSessions[h] = {} THEN "finding" ELSE "done")
  /\ overlapped' = IF UnderWay(h) = {} THEN overlapped ELSE overlapped \cup {h}
  /\ UNCHANGED <<vncSessions, sessionVars>>

\* VncSession.create returns: the panel is open, ssh is started, and the
\* session is in the map; start() awaits asExternalUri.
Create(c) ==
  /\ at[c] = "finding"
  /\ panel' = [panel EXCEPT ![c] = "open"]
  /\ server' = [server EXCEPT ![c] = "starting"]
  /\ vncSessions' = [vncSessions EXCEPT ![HostOf[c]] = {c}]
  /\ Goto(c, "starting")
  /\ UNCHANGED <<webview, race, webViewReady, posted, overlapped>>

\* start() goes on: the page is set, or the panel is closed already.
StartWebview(c) ==
  /\ at[c] = "starting"
  /\ Goto(c, "done")
  /\ webview' = IF c \in Open THEN [webview EXCEPT ![c] = "loading"] ELSE webview
  /\ UNCHANGED <<vncSessions, panel, server, race, webViewReady, posted,
                 overlapped>>

\* mutant: the event is not fired
DisposeSilently(c) ==
  /\ panel' = [panel EXCEPT ![c] = "closed"]
  /\ server' = [server EXCEPT ![c] = "stopped"]
  /\ race' = IF race[c] = "pending" THEN [race EXCEPT ![c] = "cancelled"] ELSE race
  /\ UNCHANGED <<at, vncSessions, webview, webViewReady, posted, overlapped>>

\* The user closes the panel: dispose() kills ssh, which settles the race
\* normally, and onDidDispose deletes the entry of the host, whichever
\* session it holds.
Dispose(c) ==
  /\ panel' = [panel EXCEPT ![c] = "closed"]
  /\ server' = [server EXCEPT ![c] = "stopped"]
  /\ race' = IF race[c] = "pending" THEN [race EXCEPT ![c] = "cancelled"] ELSE race
  /\ vncSessions' = [vncSessions EXCEPT ![HostOf[c]] = {}]
  /\ UNCHANGED <<at, webview, webViewReady, posted, overlapped>>

PanelClosed(c) == c \in Open /\ Dispose(c)

\* ssh runs `fuser -k 5900/tcp; kmsvnc`: the server of any other session on
\* the device is killed.
ServerStarts(c) ==
  /\ server[c] = "starting"
  /\ server' = [d \in Calls |->
                  IF d = c THEN "up"
                  ELSE IF HostOf[d] = HostOf[c] /\ server[d] = "up"
                  THEN "stopped" ELSE server[d]]
  /\ UNCHANGED <<at, vncSessions, panel, webview, race, webViewReady, posted,
                 overlapped>>

\* ssh fails, or the server ends.
ServerStops(c) ==
  /\ server[c] \in {"starting", "up"}
  /\ server' = [server EXCEPT ![c] = "stopped"]
  /\ UNCHANGED <<at, vncSessions, panel, webview, race, webViewReady, posted,
                 overlapped>>

\* waitVncServer connects, or startVncServer rejects and the user is told.
RaceSettles(c) ==
  /\ race[c] = "pending"
  /\ \/ server[c] = "up" /\ race' = [race EXCEPT ![c] = "started"]
     \/ server[c] = "stopped" /\ race' = [race EXCEPT ![c] = "failed"]
  /\ UNCHANGED <<at, vncSessions, panel, webview, server, webViewReady, posted,
                 overlapped>>

\* mutant: waitWebViewReady is called after the race
WebviewReadyAfterRace(c) ==
  /\ c \in Open
  /\ webview[c] = "loading"
  /\ webview' = [webview EXCEPT ![c] = "ready"]
  /\ webViewReady' = IF race[c] = "started" THEN webViewReady \cup {c}
                                            ELSE webViewReady
  /\ UNCHANGED <<at, vncSessions, panel, server, race, posted, overlapped>>

\* The page has loaded its scripts and says so, once; waitWebViewReady was
\* called when the session was created, so it hears of it.
WebviewReady(c) ==
  /\ c \in Open
  /\ webview[c] = "loading"
  /\ webview' = [webview EXCEPT ![c] = "ready"]
  /\ webViewReady' = webViewReady \cup {c}
  /\ UNCHANGED <<at, vncSessions, panel, server, race, posted, overlapped>>

\* Server and web view are ready: the web view is told to connect.
PostReady(c) ==
  /\ race[c] = "started"
  /\ c \in webViewReady \ posted
  /\ posted' = posted \cup {c}
  /\ UNCHANGED <<at, vncSessions, panel, webview, server, race, webViewReady,
                 overlapped>>

Step(c) ==
  \/ Create(c)
  \/ StartWebview(c)
  \/ ServerStarts(c)
  \/ RaceSettles(c)
  \/ WebviewReady(c)
  \/ PostReady(c)

Next ==
  \E c \in Calls : Connect(c) \/ Step(c) \/ PanelClosed(c) \/ ServerStops(c)

Spec == Init /\ [][Next]_vars

\* Everything that has been started goes on; the user need not do anything.
Fairness == \A c \in Calls : WF_vars(Step(c))
-----------------------------------------------------------------------------
\* Types; a session with a page or a server has had a panel.
TypeOK ==
  /\ at \in [Calls -> {"idle", "finding", "starting", "done"}]
  /\ vncSessions \in [Hosts -> SUBSET Calls]
  /\ panel \in [Calls -> {"none", "open", "closed"}]
  /\ webview \in [Calls -> {"empty", "loading", "ready"}]
  /\ server \in [Calls -> {"none", "starting", "up", "stopped"}]
  /\ race \in [Calls -> {"pending", "started", "failed", "cancelled"}]
  /\ \A c \in Calls : panel[c] = "none" => webview[c] = "empty" /\ server[c] = "none"
  /\ webViewReady \subseteq Calls
  /\ posted \subseteq webViewReady
  /\ overlapped \subseteq Hosts

\* The session to be revealed has a panel, even when calls overlap: the
\* command never ends without showing anything.
EntryIsOpen == \A h \in Hosts : vncSessions[h] \subseteq Open

\* Calls for a device that do not overlap never open two panels for it, whose
\* servers would kill each other, and keep the open one in the map.
OnlyOverlapDuplicates ==
  \A c \in Open : c \in vncSessions[HostOf[c]] \/ HostOf[c] \in overlapped

\* Once its server has started and its page has loaded, in whichever order,
\* a panel that stays open is told to connect.
ReadyIsPosted ==
  []<>(\A c \in Open : race[c] = "started" /\ webview[c] = "ready" => c \in posted)
-----------------------------------------------------------------------------
\* "If there's an existing session, just reveal its panel"
\* (connect_vnc.ts:32): a device has one panel at most.
OnePanelPerDevice ==
  \A c, d \in Open : HostOf[c] = HostOf[d] => c = d
=============================================================================
