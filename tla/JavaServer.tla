----------------------------- MODULE JavaServer -----------------------------
(***************************************************************************)
(* The Java language server of a Chromium checkout                         *)
(* (chromium/java/language.ts): LanguageServerManager keeps one session    *)
(* for the output directory that out/current_link leads to, which it polls *)
(* for its inode, and each session works out the compiler's class path     *)
(* with the build (chromium/v0.ts, v1.ts) before it starts the server.     *)
(*                                                                         *)
(* A session that is disposed of is only cancelled: its start goes on up   *)
(* to the next command that heeds the token, and every path of it goes     *)
(* through the link.  An output directory stands for its inode.            *)
(***************************************************************************)
EXTENDS Naturals, FiniteSets

CONSTANTS
  OutDirs,    \* output directories the link may lead to
  NoDir,      \* the link leads nowhere
  Jars,       \* source archives of a build: kinds of SourceJars
  Clank,      \* BOOLEAN: the checkout has the internal part
  Updates,    \* calls of maybeUpdateSession that may be in flight at once
  Sessions,   \* sessions that may be alive at once
  NoSession,
  MaxMoves    \* bound: how often the user moves the link

VARIABLES
  link,       \* where out/current_link leads
  lastInode,  \* FilePathWatcher: the directory seen by the last poll
  opened,     \* didOpenJavaSource
  update,     \* the calls of maybeUpdateSession
  session,    \* the manager's session
  state,      \* the sessions
  extracted,  \* each directory's extracted archives: "old", "partial" or "full"
  moves       \* counts moves of the link

vars == <<link, lastInode, opened, update, session, state, extracted, moves>>

\* isUsefulSourceJar: no stubs, and only the resources of the main browser.
SourceJars == {"plain", "placeholder", "clank resources", "public resources"}
IsUsefulSourceJar(jar) ==
  \/ jar = "plain"
  \/ jar = "clank resources" /\ Clank
  \/ jar = "public resources" /\ ~Clank
UsefulJars == {jar \in Jars : IsUsefulSourceJar(jar)}

NoUpdate == [at |-> "idle", inode |-> NoDir, late |-> FALSE]
Gone == [at |-> "gone", inode |-> NoDir, cancelled |-> FALSE, late |-> FALSE,
         from |-> NoDir, todo |-> {}, busy |-> {}]

Init ==
  /\ link \in OutDirs \cup {NoDir}
  /\ lastInode = NoDir
  /\ opened = FALSE
  /\ update = [u \in Updates |-> NoUpdate]
  /\ session = NoSession
  /\ state = [s \in Sessions |-> Gone]
  /\ extracted = [d \in OutDirs |-> [jar \in UsefulJars |-> "old"]]
  /\ moves = 0
-----------------------------------------------------------------------------
(* LanguageServerManager *)

\* The user picks another output directory, or removes it.
MoveLink(d) ==
  /\ moves < MaxMoves /\ d # link
  /\ moves' = moves + 1
  /\ link' = d
  /\ update' = [u \in Updates |-> [update[u] EXCEPT !.late = @ \/ update[u].at = "read"]]
  /\ state' = [s \in Sessions |->
       [state[s] EXCEPT !.late = @ \/ (s = session /\ state[s].inode = link /\ lastInode # link)]]
  /\ UNCHANGED <<lastInode, opened, session, extracted>>

MaybeUpdateSession ==
  \E u \in Updates :
    /\ update[u] = NoUpdate
    /\ update' = [update EXCEPT ![u].at = "stat"]

\* A Java file is opened.
OnDidOpenJavaSource ==
  /\ opened' = TRUE
  /\ MaybeUpdateSession
  /\ UNCHANGED <<link, lastInode, session, state, extracted, moves>>

\* mutant: polls matter only while there is no session
CheckInodeWhenIdle ==
  /\ lastInode # link
  /\ lastInode' = link
  /\ IF opened /\ session = NoSession THEN MaybeUpdateSession ELSE UNCHANGED update
  /\ UNCHANGED <<link, opened, session, state, extracted, moves>>

\* The poll of each second.
CheckInode ==
  /\ lastInode # link
  /\ lastInode' = link
  /\ IF opened THEN MaybeUpdateSession ELSE UNCHANGED update
  /\ UNCHANGED <<link, opened, session, state, extracted, moves>>

GetOutDirInode(u) ==
  /\ update[u].at = "stat"
  /\ update' = [update EXCEPT ![u].at = "read", ![u].inode = link]
  /\ UNCHANGED <<link, lastInode, opened, session, state, extracted, moves>>

\* mutant: the old session is only forgotten
Forgotten == state

\* updateSession: the present session is disposed of.
Disposed ==
  [s \in Sessions |-> IF s # session THEN state[s]
                      ELSE IF state[s].at = "running" THEN Gone
                      ELSE [state[s] EXCEPT !.cancelled = TRUE]]

\* The inode has been read, and the session is looked at now: a new directory
\* restarts it, a directory that has gone stops it.
UpdateSession(u) ==
  /\ update[u].at = "read"
  /\ update' = [update EXCEPT ![u] = NoUpdate]
  /\ LET inode == update[u].inode IN
       \/ /\ IF session = NoSession THEN inode = NoDir ELSE state[session].inode = inode
          /\ UNCHANGED <<session, state>>
       \/ /\ session # NoSession /\ inode = NoDir
          /\ session' = NoSession
          /\ state' = Disposed
       \/ /\ inode # NoDir
          /\ session # NoSession => state[session].inode # inode
          /\ \E s \in Sessions :
               /\ state[s] = Gone
               /\ session' = s
               /\ state' = [Disposed EXCEPT ![s] =
                    [Gone EXCEPT !.at = "cert", !.inode = inode, !.late = update[u].late]]
  /\ UNCHANGED <<link, lastInode, opened, extracted, moves>>
-----------------------------------------------------------------------------
(* startLanguageServer, of session s *)

Goes(s, from, to) ==
  /\ state[s].at = from
  /\ state' = [state EXCEPT ![s] = to]
  /\ UNCHANGED <<link, lastInode, opened, update, session, extracted, moves>>

To(s, stage) == [state[s] EXCEPT !.at = stage]

\* ensureCert does not heed the token.
EnsureCert(s) == Goes(s, "cert", To(s, "api"))

\* getApiVersion: a checkout without the script is version 0, and so is one
\* whose script was cancelled.
GetApiVersion(s) ==
  \E version \in 0 .. 1 :
    /\ state[s].cancelled => version = 0
    /\ Goes(s, "api", To(s, IF version = 0 THEN "targets" ELSE "query"))

\* The start throws: the manager drops the session if it is still its own.
Fails(s) ==
  /\ state[s].at \in {"cert", "targets", "query", "jars", "start"}
  /\ state' = [state EXCEPT ![s] = Gone]
  /\ session' = IF session = s THEN NoSession ELSE session
  /\ UNCHANGED <<link, lastInode, opened, update, extracted, moves>>

\* A checkout with the script answers with the paths itself.
ComputeCompilerConfigApiV1(s) ==
  /\ ~state[s].cancelled /\ link # NoDir
  /\ Goes(s, "query", [To(s, "start") EXCEPT !.from = link])

\* processConfigJsons: the targets' archives that are of use are to be extracted.
ProcessConfigJsons(start) == [start EXCEPT !.at = "jars", !.todo = UsefulJars]

\* buildConfigJsons: the targets of the directory the link leads to now.
BuildConfigJsons(s) ==
  /\ ~state[s].cancelled /\ link # NoDir
  /\ Goes(s, "targets", ProcessConfigJsons([state[s] EXCEPT !.from = link]))

\* The archives are built; those that changed are newer than what was extracted.
BuildSourceJars(s) ==
  /\ ~state[s].cancelled /\ link # NoDir
  /\ state[s].at = "jars"
  /\ state' = [state EXCEPT ![s].at = "extract"]
  /\ \E changed \in SUBSET UsefulJars :
       extracted' = [extracted EXCEPT ![link] =
         [jar \in UsefulJars |-> IF jar \in changed THEN "old" ELSE @[jar]]]
  /\ UNCHANGED <<link, lastInode, opened, update, session, moves>>

\* extractSourceJars, for one archive: what is no older is left alone, else the
\* directory is emptied, whatever the token says, and the command runs.
ExtractSourceJar(s, jar) ==
  /\ state[s].at = "extract" /\ jar \in state[s].todo /\ link # NoDir
  /\ LET fresh == extracted[link][jar] # "old" IN
     /\ state' = [state EXCEPT ![s].todo = @ \ {jar},
                               ![s].busy = IF fresh THEN @ ELSE @ \cup {<<link, jar>>}]
     /\ extracted' = IF fresh THEN extracted ELSE [extracted EXCEPT ![link][jar] = "partial"]
  /\ UNCHANGED <<link, lastInode, opened, update, session, moves>>

\* The command ends; when it is cancelled or fails, nobody looks.
Extracted(s, d, jar) ==
  /\ <<d, jar>> \in state[s].busy
  /\ state' = [state EXCEPT ![s].busy = @ \ {<<d, jar>>}]
  /\ \E ok \in BOOLEAN :
       /\ state[s].cancelled => ~ok
       /\ extracted' = IF ok THEN [extracted EXCEPT ![d][jar] = "full"] ELSE extracted
  /\ UNCHANGED <<link, lastInode, opened, update, session, moves>>

AllExtracted(s) ==
  state[s].todo = {} /\ state[s].busy = {} /\ Goes(s, "extract", To(s, "start"))

\* The client has started; a session cancelled meanwhile disposes of it.
Started(s) == Goes(s, "start", IF state[s].cancelled THEN Gone ELSE To(s, "running"))

Next ==
  \/ \E d \in OutDirs \cup {NoDir} : MoveLink(d)
  \/ OnDidOpenJavaSource \/ CheckInode
  \/ \E u \in Updates : GetOutDirInode(u) \/ UpdateSession(u)
  \/ \E s \in Sessions :
       \/ EnsureCert(s) \/ GetApiVersion(s) \/ Fails(s) \/ ComputeCompilerConfigApiV1(s)
       \/ BuildConfigJsons(s) \/ BuildSourceJars(s)
       \/ AllExtracted(s) \/ Started(s)
       \/ \E jar \in state[s].todo : ExtractSourceJar(s, jar)
       \/ \E b \in state[s].busy : Extracted(s, b[1], b[2])

Spec == Init /\ [][Next]_vars
-----------------------------------------------------------------------------
TypeOK ==
  /\ link \in OutDirs \cup {NoDir} /\ lastInode \in OutDirs \cup {NoDir}
  /\ opened \in BOOLEAN
  /\ update \in [Updates -> [at : {"idle", "stat", "read"}, inode : OutDirs \cup {NoDir}, late : BOOLEAN]]
  /\ session \in Sessions \cup {NoSession}
  /\ \A s \in Sessions :
       state[s] \in [at : {"gone", "cert", "api", "targets", "query", "jars", "extract",
                           "start", "running"},
                     inode : OutDirs \cup {NoDir}, cancelled : BOOLEAN, late : BOOLEAN,
                     from : OutDirs \cup {NoDir}, todo : SUBSET Jars,
                     busy : SUBSET (OutDirs \X Jars)]
  /\ extracted \in [OutDirs -> [UsefulJars -> {"old", "partial", "full"}]]

(***************************************************************************)
(* One server: however updates, failures and cancelled starts cross, only  *)
(* the manager's session runs or goes on to run a server; no start that    *)
(* was given up comes through.                                             *)
(***************************************************************************)
OneServer ==
  \A s \in Sessions : state[s].at # "gone" /\ ~state[s].cancelled => s = session

(***************************************************************************)
(* Once the poll has seen the link and the updates have ended, the session *)
(* is that of the directory the link leads to, and there is none when it   *)
(* leads nowhere; unless it was begun from an inode that was outdated when *)
(* its reading came back, or its directory came and went between two polls.*)
(***************************************************************************)
SessionFollowsLink ==
  lastInode = link /\ session # NoSession /\ (\A u \in Updates : update[u] = NoUpdate) =>
    state[session].inode = link \/ state[session].late

(***************************************************************************)
(* "Compare timestamps to avoid extracting source jars on every startup"   *)
(* (extractSourceJars): a server that runs has the archives of its         *)
(* directory extracted in full.                                            *)
(***************************************************************************)
RunsOnFullArchives ==
  \A s \in Sessions :
    state[s].at = "running" /\ state[s].from = link =>
      \A jar \in UsefulJars : extracted[link][jar] # "partial"
=============================================================================
