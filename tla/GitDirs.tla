------------------------------ MODULE GitDirs ------------------------------
(***************************************************************************)
(* Which git directories are watched: `visible.Watcher` (git_dirs/         *)
(* visible.ts) maps each git directory to the documents opened in it, and  *)
(* `GitDirsWatcher` (git_dirs/watcher.ts) keeps a watcher of the HEAD of   *)
(* each directory it has been told of.                                     *)
(*                                                                         *)
(* The git directory of a document is looked for with `await`, and nothing *)
(* serialises the handlers.  A handler is one event: a document is opened  *)
(* or closed, or the setImmediate callback of the constructor (`startup`), *)
(* the only one that may be about several documents.                       *)
(***************************************************************************)
EXTENDS FiniteSets

CONSTANTS
  Docs,        \* text documents
  Dirs,        \* git directories under the root
  DirOf,       \* DirOf[d]: the git directory of document d, or NoDir
  NoDir,       \* undefined: not under the root, or in no git repository
  Handlers,    \* the events, and `startup`
  startup

VARIABLES
  open,             \* the documents that are open in the editor
  gitDirToDocUris,  \* visible.Watcher: documents per directory; no entry if {}
  handler,          \* for each handler [at, todo, changed]
  watched,          \* GitDirsWatcher.gitDirToHeadWatcher: its keys
  mixed,            \* history: startup was not alone in progress
  entangled         \* history: documents whose handlers have overlapped

historyVars == <<mixed, entangled>>
vars == <<open, gitDirToDocUris, handler, watched, historyVars>>

NotStarted == [at |-> "idle", todo |-> {}, changed |-> {}]

\* Documents that are open but hidden when the watcher is created are not
\* among the visible editors that startup looks at.
Init ==
  /\ open \in SUBSET Docs
  /\ gitDirToDocUris = [dir \in Dirs |-> {}]
  /\ \E visible \in SUBSET open :
       handler = [h \in Handlers |->
                    IF h = startup /\ visible # {}
                    THEN [at |-> "add", todo |-> visible, changed |-> {}]
                    ELSE NotStarted]
  /\ watched = {}
  /\ mixed = FALSE
  /\ entangled = {}

InProgress == {h \in Handlers : handler[h].at \in {"add", "remove"}}
BeingHandled == UNION {handler[h].todo : h \in InProgress}
-----------------------------------------------------------------------------
Started(h, kind, doc) ==
  /\ handler[h].at = "idle"
  /\ h # startup
  /\ handler' = [handler EXCEPT ![h] = [at |-> kind, todo |-> {doc}, changed |-> {}]]
  /\ mixed' = (mixed \/ startup \in InProgress)
  /\ entangled' = entangled \cup ({doc} \cap BeingHandled)
  /\ UNCHANGED <<gitDirToDocUris, watched>>

DocumentOpened(h, doc) ==
  /\ doc \notin open
  /\ open' = open \cup {doc}
  /\ Started(h, "add", doc)

DocumentClosed(h, doc) ==
  /\ doc \in open
  /\ open' = open \ {doc}
  /\ Started(h, "remove", doc)

\* Handler h is done with doc.  After the last one Promise.all resolves, and
\* one event tells of all the directories that it has changed.
Found(h, doc, changed) ==
  LET done == handler[h].todo = {doc} IN
  /\ handler' = [handler EXCEPT ![h] =
       [at |-> IF done THEN "done" ELSE @.at, todo |-> @.todo \ {doc},
        changed |-> @.changed \cup changed]]
  /\ watched' = IF ~done THEN watched
                ELSE IF handler[h].at = "add"
                THEN watched \cup handler[h].changed \cup changed
                ELSE watched \ (handler[h].changed \cup changed)
  /\ UNCHANGED <<open, historyVars>>

\* gitDirFor(doc) returns no directory.
FoundNone(h, doc) ==
  /\ doc \in handler[h].todo
  /\ DirOf[doc] = NoDir
  /\ Found(h, doc, {})
  /\ UNCHANGED gitDirToDocUris

\* add(): its directory is new if it has no document yet.
FoundAdded(h, doc) ==
  LET dir == DirOf[doc] IN
  /\ handler[h].at = "add"
  /\ doc \in handler[h].todo
  /\ dir # NoDir
  /\ gitDirToDocUris' = [gitDirToDocUris EXCEPT ![dir] = @ \cup {doc}]
  /\ Found(h, doc, IF gitDirToDocUris[dir] = {} THEN {dir} ELSE {})

\* remove(): docs.get(gitDir) is undefined, and there is nothing to do ...
FoundUnknown(h, doc) ==
  /\ handler[h].at = "remove"
  /\ doc \in handler[h].todo
  /\ DirOf[doc] # NoDir
  /\ gitDirToDocUris[DirOf[doc]] = {}
  /\ Found(h, doc, {})
  /\ UNCHANGED gitDirToDocUris

\* mutant: the directory is dropped with its first document
FoundRemovedAll(h, doc) ==
  LET dir == DirOf[doc] IN
  /\ handler[h].at = "remove"
  /\ doc \in handler[h].todo
  /\ dir # NoDir
  /\ gitDirToDocUris[dir] # {}
  /\ gitDirToDocUris' = [gitDirToDocUris EXCEPT ![dir] = @ \ {doc}]
  /\ Found(h, doc, {dir})

\* mutant: the document is deleted only together with its directory
FoundRemovedKeeping(h, doc) ==
  LET dir == DirOf[doc] IN
  /\ handler[h].at = "remove"
  /\ doc \in handler[h].todo
  /\ dir # NoDir
  /\ gitDirToDocUris[dir] # {}
  /\ IF gitDirToDocUris[dir] \subseteq {doc}
     THEN Found(h, doc, {dir}) /\ gitDirToDocUris' = [gitDirToDocUris EXCEPT ![dir] = {}]
     ELSE Found(h, doc, {}) /\ UNCHANGED gitDirToDocUris

\* ... or the document is removed, and the directory after its last one.
FoundRemoved(h, doc) ==
  LET dir == DirOf[doc] IN
  /\ handler[h].at = "remove"
  /\ doc \in handler[h].todo
  /\ dir # NoDir
  /\ gitDirToDocUris[dir] # {}
  /\ gitDirToDocUris' = [gitDirToDocUris EXCEPT ![dir] = @ \ {doc}]
  /\ Found(h, doc, IF gitDirToDocUris[dir] \subseteq {doc} THEN {dir} ELSE {})

Next ==
  \E h \in Handlers, doc \in Docs :
    \/ DocumentOpened(h, doc)
    \/ DocumentClosed(h, doc)
    \/ FoundNone(h, doc)
    \/ FoundAdded(h, doc)
    \/ FoundUnknown(h, doc)
    \/ FoundRemoved(h, doc)

Spec == Init /\ [][Next]_vars
-----------------------------------------------------------------------------
\* Types; documents are filed under their directory.
TypeOK ==
  /\ open \subseteq Docs
  /\ gitDirToDocUris \in [Dirs -> SUBSET Docs]
  /\ \A dir \in Dirs : \A doc \in gitDirToDocUris[dir] : DirOf[doc] = dir
  /\ handler \in [Handlers -> [at : {"idle", "add", "remove", "done"},
                              todo : SUBSET Docs, changed : SUBSET Dirs]]
  /\ watched \subseteq Dirs
  /\ mixed \in BOOLEAN
  /\ entangled \subseteq Docs

visibleGitDirs == {dir \in Dirs : gitDirToDocUris[dir] # {}}

\* The watchers of HEAD are those of visibleGitDirs, although the handlers
\* for single documents overlap, if none of them overlapped with startup.
WatchedIsVisible ==
  ~mixed /\ startup \notin InProgress => watched = visibleGitDirs

\* "There is at least one visible text editor [...] whose fileName is under
\* the directory" (watcher.ts:20): the documents a directory is visible for
\* are open, but for those that are being handled and those of which the
\* handlers of two events have overlapped.
VisibleIsOpen ==
  \A dir \in Dirs : gitDirToDocUris[dir] \subseteq open \cup BeingHandled \cup entangled
-----------------------------------------------------------------------------
(***************************************************************************)
(* What the comments say and the code does not do.                         *)
(***************************************************************************)
\* "updating them as documents are opened and closed" (watcher.ts:24): once
\* all handlers are done, the directories watched are the visible ones.
WatchedIsVisibleAtRest == InProgress = {} => watched = visibleGitDirs

\* "this shouldn't actually happen" (visible.ts:93).
RemovedIsKnown ==
  [][\A h \in Handlers, doc \in Docs : ~FoundUnknown(h, doc)]_vars

\* "There is at least one visible text editor [...] whose fileName is under
\* the directory" (watcher.ts:20): a visible directory has an open document.
VisibleHasOpenDocument ==
  InProgress = {} => \A dir \in visibleGitDirs : \E d \in open : DirOf[d] = dir
=============================================================================
