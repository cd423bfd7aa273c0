------------------------- MODULE OutputDirectories -------------------------
(***************************************************************************)
(* The view of Chromium's output directories (output_directories.ts): a    *)
(* list of the directories out*/* and of the link out/current_link, built  *)
(* from the disk and kept in `nodeCache` until refresh() clears it, and    *)
(* the command that points the link elsewhere.                             *)
(*                                                                         *)
(* VS Code asks for the nodes (getChildren) after each refresh and when it *)
(* likes.  The calls run one at a time in a Mutex, which hands a result to *)
(* its caller only in a later turn (setImmediate): the next job has begun  *)
(* by then.  The reads of `gn args` are not waited for.                    *)
(***************************************************************************)
EXTENDS Naturals, Sequences, FiniteSets

CONSTANTS
  Names,      \* output directories out*/<name>
  Inside,     \* those in `out` itself, where the link lives too
  Views,      \* calls of getChildren that may be in flight at once
  Pickers,    \* commands setCurrentLink that may be in flight at once
  GnOutputs,  \* what `gn args` may print
  Host,       \* the platform's operating system
  NoLink, NotALink,  \* states of out/current_link
  MaxEvents   \* bound: how often the user changes the directories or refreshes

VARIABLES
  dirs,     \* the output directories on disk
  link,     \* out/current_link: its target, NoLink or NotALink (a real directory)
  cache,    \* nodeCache: the list shown, or 0
  lists,    \* the lists alive, by number
  call,     \* each call of getChildren
  order,    \* calls whose job runs (the first) or waits in the mutex
  done,     \* calls whose job ended, to be told
  pick,     \* each command setCurrentLink
  owed,     \* the change event of a refresh: VS Code has still to ask for nodes
  crossed,  \* the last refresh crossed a call, or the user changed the disk since
  events    \* counts the user's steps

vars == <<dirs, link, cache, lists, call, order, done, pick, owed, crossed, events>>

Ids == 1 .. Cardinality(Views) + 1
Empty == [nodes |-> {}, target |-> NoLink, cancelled |-> FALSE, gn |-> [n \in Names |-> "unknown"]]
NoCall == [at |-> "idle", list |-> 0, tops |-> {}, reads |-> {}]
NoPick == [at |-> "idle", target |-> NoLink]

Init ==
  /\ dirs \in SUBSET Names
  /\ link \in Names \cup {NoLink, NotALink}
  /\ cache = 0
  /\ lists = [i \in Ids |-> Empty]
  /\ call = [v \in Views |-> NoCall]
  /\ order = <<>> /\ done = <<>>
  /\ pick = [p \in Pickers |-> NoPick]
  /\ owed = TRUE
  /\ crossed = FALSE
  /\ events = 0

InFlight == order # <<>> \/ done # <<>>
Used == {cache} \cup {call[v].list : v \in Views}
NewId == CHOOSE i \in Ids : i \notin Used
Alive(used) == [i \in Ids |-> IF i \in used THEN lists[i] ELSE Empty]

\* The directory part and the link part of the view: `out` is one top-level
\* directory, each other output directory is in one of its own.
Tops == {{n} : n \in dirs \ Inside}
          \cup (IF dirs \cap Inside # {} \/ link # NoLink THEN {Inside} ELSE {})
-----------------------------------------------------------------------------
(* getChildren and its jobs *)

Building(c) == [NoCall EXCEPT !.at = "top", !.list = c]

\* The jobs of the calls q are handled while nodeCache is c: each returns the
\* cached list, or else the first begins to build one.
Handle(q, told) ==
  IF q = <<>> THEN /\ order' = <<>> /\ done' = told
                   /\ UNCHANGED lists
  ELSE IF cache # 0
    THEN /\ order' = <<>> /\ done' = told \o q
         /\ UNCHANGED lists
    ELSE /\ order' = q /\ done' = told
         /\ lists' = [lists EXCEPT ![NewId] = Empty]

Called(q, c) ==
  [v \in Views |->
     IF cache # 0 /\ (\E i \in DOMAIN q : q[i] = v) THEN [c[v] EXCEPT !.at = "ended", !.list = cache]
     ELSE IF cache = 0 /\ q # <<>> /\ v = q[1] THEN Building(NewId)
     ELSE c[v]]

GetChildren(v) ==
  /\ call[v] = NoCall
  /\ owed' = FALSE
  /\ IF order = <<>>
       THEN /\ Handle(<<v>>, done)
            /\ call' = Called(<<v>>, call)
       ELSE /\ order' = Append(order, v)
            /\ call' = [call EXCEPT ![v].at = "queued"]
            /\ UNCHANGED <<done, lists>>
  /\ UNCHANGED <<dirs, link, cache, pick, crossed, events>>

\* The job of the first call ends, and the next ones are handled.
JobEnds(v, ended) ==
  /\ Handle(Tail(order), Append(done, v))
  /\ call' = Called(Tail(order), [call EXCEPT ![v] = ended])

\* The caller is told: what it was given becomes nodeCache.
Told ==
  /\ done # <<>>
  /\ LET v == Head(done) IN
       /\ cache' = IF call[v].list # 0 THEN call[v].list ELSE cache
       /\ call' = [call EXCEPT ![v] = NoCall]
  /\ done' = Tail(done)
  /\ lists' = Alive({cache'} \cup {call'[v].list : v \in Views})
  /\ UNCHANGED <<dirs, link, order, pick, owed, crossed, events>>
-----------------------------------------------------------------------------
(* buildNodeCache *)

At(v, stage) == call[v].at = stage

FindTopLevelOutDirNames(v) ==
  /\ At(v, "top")
  /\ call' = [call EXCEPT ![v].at = "sub", ![v].tops = Tops]
  /\ UNCHANGED <<dirs, link, cache, lists, order, done, pick, owed, crossed, events>>

\* One top-level directory is read.  A link is an entry only while it leads to
\* a directory; its target is read afterwards.
ReadDirectory(v, top) ==
  /\ At(v, "sub") /\ top \in call[v].tops
  /\ top \in Tops
  /\ lists' = [lists EXCEPT ![call[v].list].nodes = @ \cup (top \cap dirs)]
  /\ LET linked == top = Inside /\ link \in dirs IN
     call' = [call EXCEPT ![v].tops = @ \ {top},
                          ![v].reads = IF linked THEN {Inside} ELSE @]
  /\ UNCHANGED <<dirs, link, cache, order, done, pick, owed, crossed, events>>

\* The directory has gone meanwhile: the build rejects.
ReadDirectoryFails(v, top) ==
  /\ At(v, "sub") /\ top \in call[v].tops
  /\ top \notin Tops
  /\ JobEnds(v, [NoCall EXCEPT !.at = "ended"])
  /\ UNCHANGED <<dirs, link, cache, pick, owed, crossed, events>>

\* readlink of the link, which may be gone: then nothing of `out` is listed.
ReadLink(v) ==
  LET list == lists[call[v].list] IN
  /\ At(v, "sub") /\ call[v].reads # {}
  /\ lists' = [lists EXCEPT ![call[v].list] =
       IF link \in Names THEN [list EXCEPT !.target = link]
                         ELSE [list EXCEPT !.nodes = list.nodes \ Inside]]
  /\ call' = [call EXCEPT ![v].reads = {}]
  /\ UNCHANGED <<dirs, link, cache, order, done, pick, owed, crossed, events>>

\* The node of a directory is marked current when the link of its list leads there.
IsCurrent(i, n) == n \in lists[i].nodes /\ lists[i].target = n

\* All is read: the reads of gn args start, the current directory is marked.
BuildNodeCache(v) ==
  /\ At(v, "sub") /\ call[v].tops = {} /\ call[v].reads = {}
  /\ JobEnds(v, [call[v] EXCEPT !.at = "ended"])
  /\ UNCHANGED <<dirs, link, cache, pick, owed, crossed, events>>

\* getTargetOsFromHost, computeTargetOsFromArgs: the target, else the host GN
\* runs on, else this machine.
Systems == {"linux", "android", "win", "ios", "mac", "fuchsia", "chromeos"}
TargetOs(target, host) ==
  LET named == IF target # "" THEN target ELSE IF host # "" THEN host ELSE Host
  IN  IF named \in Systems THEN named ELSE "unknown OS"

\* readGnArgs: a cancelled or failed command is an error, and so is an output
\* with no list in it; text before the list is a warning.
GnArgsInfo(out, cancelled) ==
  IF cancelled \/ ~out.ran \/ ~out.list THEN "error"
  ELSE IF out.noise \/ ~out.remote THEN "warnings"
  ELSE TargetOs(out.target, out.host)

ReadGnArgs(i, n) ==
  /\ n \in lists[i].nodes /\ lists[i].gn[n] = "unknown"
  /\ i \in {cache} \cup {call[v].list : v \in {w \in Views : At(w, "ended")}}
  /\ \E out \in GnOutputs :
       lists' = [lists EXCEPT ![i].gn[n] = GnArgsInfo(out, lists[i].cancelled)]
  /\ UNCHANGED <<dirs, link, cache, call, order, done, pick, owed, crossed, events>>
-----------------------------------------------------------------------------
(* refresh and the commands *)

\* mutant: the cached list stays
RefreshKeepingCache ==
  /\ lists' = IF cache = 0 THEN lists ELSE [lists EXCEPT ![cache].cancelled = TRUE]
  /\ owed' = TRUE
  /\ crossed' = InFlight
  /\ UNCHANGED cache

\* What refresh() does: only the reads of a list that is cached are cancelled.
DoRefresh ==
  /\ lists' = LET held == Alive({call[v].list : v \in Views}) IN
              IF cache = 0 THEN held ELSE [held EXCEPT ![cache].cancelled = \E v \in Views : call[v].list = cache]
  /\ cache' = 0
  /\ owed' = TRUE
  /\ crossed' = InFlight

Refresh ==
  /\ events < MaxEvents
  /\ events' = events + 1
  /\ DoRefresh
  /\ UNCHANGED <<dirs, link, call, order, done, pick>>

\* A build or the user makes or removes an output directory.
DiskChanges(n) ==
  /\ events < MaxEvents
  /\ events' = events + 1
  /\ dirs' = IF n \in dirs THEN dirs \ {n} ELSE dirs \cup {n}
  /\ crossed' = TRUE
  /\ UNCHANGED <<link, cache, lists, call, order, done, pick, owed>>

Picks(p, from, to) == pick[p].at = from /\ pick' = [pick EXCEPT ![p] = to]

\* setCurrentLink on a node shown, up to the lstat of the link.
SetCurrentLink(p) ==
  /\ events < MaxEvents
  /\ events' = events + 1
  /\ cache # 0
  /\ \E n \in lists[cache].nodes :
       Picks(p, "idle",
             IF link = NotALink THEN NoPick
             ELSE [at |-> IF link = NoLink THEN "symlink" ELSE "unlink", target |-> n])
  /\ UNCHANGED <<dirs, link, cache, lists, call, order, done, owed, crossed>>

\* mutant: an existing link is only removed
UnlinkOnly(p) ==
  /\ Picks(p, "unlink", NoPick)
  /\ link' = NoLink
  /\ UNCHANGED <<dirs, cache, lists, call, order, done, owed, crossed, events>>

\* The link that lstat saw is removed; it throws when it has gone.
Unlink(p) ==
  /\ Picks(p, "unlink", IF link = NoLink THEN NoPick ELSE [pick[p] EXCEPT !.at = "symlink"])
  /\ link' = NoLink
  /\ UNCHANGED <<dirs, cache, lists, call, order, done, owed, crossed, events>>

\* The link is made; it throws when one is there.
Symlink(p) ==
  /\ Picks(p, "symlink", IF link = NoLink THEN [pick[p] EXCEPT !.at = "refresh"] ELSE NoPick)
  /\ link' = IF link = NoLink THEN pick[p].target ELSE link
  /\ UNCHANGED <<dirs, cache, lists, call, order, done, owed, crossed, events>>

PickRefreshes(p) ==
  /\ Picks(p, "refresh", NoPick)
  /\ DoRefresh
  /\ UNCHANGED <<dirs, link, call, order, done, events>>

Next ==
  \/ \E v \in Views :
       \/ GetChildren(v) \/ FindTopLevelOutDirNames(v) \/ ReadLink(v) \/ BuildNodeCache(v)
       \/ \E top \in call[v].tops : ReadDirectory(v, top) \/ ReadDirectoryFails(v, top)
  \/ Told
  \/ \E i \in Ids, n \in Names : ReadGnArgs(i, n)
  \/ Refresh
  \/ \E n \in Names : DiskChanges(n)
  \/ \E p \in Pickers : SetCurrentLink(p) \/ Unlink(p) \/ Symlink(p) \/ PickRefreshes(p)

Spec == Init /\ [][Next]_vars
-----------------------------------------------------------------------------
TypeOK ==
  /\ dirs \subseteq Names
  /\ link \in Names \cup {NoLink, NotALink}
  /\ cache \in {0} \cup Ids
  /\ lists \in [Ids -> [nodes : SUBSET Names, target : Names \cup {NoLink}, cancelled : BOOLEAN,
                        gn : [Names -> {"unknown", "error", "warnings", "unknown OS"} \cup Systems]]]
  /\ pick \in [Pickers -> [at : {"idle", "unlink", "symlink", "refresh"}, target : Names \cup {NoLink}]]
  /\ order \in Seq(Views) /\ done \in Seq(Views)
  /\ owed \in BOOLEAN /\ crossed \in BOOLEAN

Quiet == ~InFlight /\ ~owed /\ \A p \in Pickers : pick[p] = NoPick

(***************************************************************************)
(* Once the calls of getChildren and the commands have ended, the list     *)
(* shown is the disk: its directories, the link's target marked current,   *)
(* and no read of gn args cancelled under it; unless the last refresh came *)
(* while a call was in flight.                                             *)
(***************************************************************************)
ViewIsDisk ==
  Quiet /\ ~crossed /\ cache # 0 =>
    /\ lists[cache].nodes = dirs
    /\ \A n \in Names : IsCurrent(cache, n) <=> n = link /\ n \in dirs
    /\ ~lists[cache].cancelled

(***************************************************************************)
(* However the commands that move the link interleave, a link that is      *)
(* there stays there, but for the moment until the command that removed it *)
(* has made the new one.                                                   *)
(***************************************************************************)
Kept == link \in Names \/ \E p \in Pickers : pick[p].at = "symlink"
LinkIsKept == [][Kept => Kept']_vars

(***************************************************************************)
(* "Cancel all ongoing operations that are based on the outdated cache,    *)
(* then clear the cache and refresh the tree view" (refresh): once all is  *)
(* quiet, no list whose reads were cancelled is shown.                     *)
(***************************************************************************)
CancelledIsGone == Quiet /\ cache # 0 => ~lists[cache].cancelled
=============================================================================
