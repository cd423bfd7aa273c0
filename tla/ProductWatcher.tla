--------------------------- MODULE ProductWatcher ---------------------------
(***************************************************************************)
(* `ProductWatcher` (services/watchers/product/watcher.ts) watches the     *)
(* workspace folders and tells with an event which ChromiumOS (or          *)
(* Chromium) tree to work on; ChromiumosActivation (extension.ts) disposes *)
(* of its features and creates new ones on each event.                     *)
(*                                                                         *)
(* A handler looks for the product root of one folder after another with   *)
(* `await` and compares the root at its end with the one at its start.     *)
(* Nothing serialises the handlers.  A handler stands for one event of     *)
(* onDidChangeWorkspaceFolders, `startup` for the setImmediate callback of *)
(* the constructor; the order of the folders in an event is not known.     *)
(***************************************************************************)
EXTENDS Naturals, Sequences, SequencesExt, FiniteSets

CONSTANTS
  Folders,      \* workspace folders
  Roots,        \* roots of source trees of the product
  RootOf,       \* RootOf[f]: productRoot of folder f, or NoRoot
  NoRoot,       \* undefined
  Handlers,     \* the events of the workspace, and `startup`
  startup,
  MaxFolders    \* bound: how many folders one event is about

ASSUME FoldersAssumption ==
  /\ NoRoot \notin Roots
  /\ RootOf \in [Folders -> Roots \cup {NoRoot}]
  /\ startup \in Handlers
  /\ MaxFolders \in Nat
  /\ IsFiniteSet(Folders)

VARIABLES
  workspace,    \* vscode.workspace.workspaceFolders
  root,         \* this.root
  keys, count,  \* this.rootCount: its keys in order of insertion, its values
  handler,      \* for each handler [at, todo, removed, prevRoot]
  events,       \* the events fired by onDidChangeRoot
  prompt,       \* handleNoWorkspaceFolder: the message to open a folder
  overlapped    \* history: two handlers were in progress at once

rootVars == <<root, keys, count>>
vars == <<workspace, rootVars, handler, events, prompt, overlapped>>

Products == Roots \cup {NoRoot}
NotStarted == [at |-> "idle", todo |-> {}, removed |-> {}, prevRoot |-> NoRoot]

Init ==
  /\ workspace \in {w \in SUBSET Folders : Cardinality(w) <= MaxFolders}
  /\ root = NoRoot
  /\ keys = <<>>
  /\ count = [r \in Roots |-> 0]
  /\ handler = [h \in Handlers |->
       IF h = startup /\ workspace # {}
       THEN [NotStarted EXCEPT !.at = "add", !.todo = workspace]
       ELSE NotStarted]
  /\ events = <<>>
  /\ prompt = "none"
  /\ overlapped = FALSE

InProgress == {h \in Handlers : handler[h].at \in {"add", "added", "remove"}}
-----------------------------------------------------------------------------
\* Folders are added to and removed from the workspace: add() or remove()
\* runs to its first `await`.
WorkspaceChanges(h, added, removed) ==
  /\ h # startup
  /\ handler[h].at = "idle"
  /\ added \cap workspace = {}
  /\ removed \subseteq workspace
  /\ Cardinality(added \cup removed) \in 1..MaxFolders
  /\ workspace' = (workspace \cup added) \ removed
  /\ handler' = [handler EXCEPT ![h] =
       [at |-> IF added # {} THEN "add" ELSE "remove",
        todo |-> IF added # {} THEN added ELSE removed,
        removed |-> IF added # {} THEN removed ELSE {},
        prevRoot |-> root]]
  /\ overlapped' = (overlapped \/ InProgress # {})
  /\ UNCHANGED <<rootVars, events, prompt>>

\* The loop has come to its end with folder f: an event is fired if the root
\* is not the one it was.
FireIfLast(h, f) ==
  events' = IF handler[h].todo = {f} /\ handler[h].prevRoot # root'
            THEN Append(events, root') ELSE events

\* Where handler h goes after folder f.
FolderDone(h, f, next) ==
  LET s == handler[h] IN
  handler' = [handler EXCEPT ![h] =
    [at |-> IF s.todo = {f} THEN next ELSE s.at, todo |-> s.todo \ {f},
     removed |-> s.removed, prevRoot |-> s.prevRoot]]

\* add(): the root of folder f is known.
FolderAdded(h, f) ==
  LET r == RootOf[f] IN
  /\ handler[h].at = "add"
  /\ f \in handler[h].todo
  /\ IF r = NoRoot
     THEN UNCHANGED rootVars
     ELSE /\ count' = [count EXCEPT ![r] = @ + 1]
          /\ keys' = IF count[r] = 0 THEN Append(keys, r) ELSE keys
          /\ root' = IF root = NoRoot THEN r ELSE root
  /\ FireIfLast(h, f)
  /\ FolderDone(h, f, IF handler[h].removed = {} THEN "done" ELSE "added")
  /\ UNCHANGED <<workspace, prompt, overlapped>>

\* `await this.add` returns and remove() is called for the same event.
RemoveStarts(h) ==
  /\ handler[h].at = "added"
  /\ handler' = [handler EXCEPT ![h] =
       [at |-> "remove", todo |-> handler[h].removed, removed |-> {},
        prevRoot |-> root]]
  /\ UNCHANGED <<workspace, rootVars, events, prompt, overlapped>>

\* mutant: the root is not replaced while other trees remain
DropRootKeeping(r) ==
  /\ count' = [count EXCEPT ![r] = 0]
  /\ keys' = RemoveFirst(keys, r)
  /\ root' = IF root = r /\ keys' = <<>> THEN NoRoot ELSE root

\* The last folder of root r is gone: the oldest of the others is selected.
DropRoot(r) ==
  /\ count' = [count EXCEPT ![r] = 0]
  /\ keys' = RemoveFirst(keys, r)
  /\ root' = IF root # r THEN root ELSE IF keys' = <<>> THEN NoRoot ELSE Head(keys')

\* mutant: the count is compared with 0
FolderRemovedLate(h, f) ==
  LET r == RootOf[f] IN
  /\ handler[h].at = "remove"
  /\ f \in handler[h].todo
  /\ \/ r = NoRoot /\ UNCHANGED rootVars
     \/ r # NoRoot /\ count[r] > 0
        /\ count' = [count EXCEPT ![r] = @ - 1] /\ UNCHANGED <<root, keys>>
     \/ r # NoRoot /\ count[r] = 0 /\ DropRoot(r)
  /\ FireIfLast(h, f)
  /\ FolderDone(h, f, "done")
  /\ UNCHANGED <<workspace, prompt, overlapped>>

\* remove(): the root of folder f is known; if it was never counted, because
\* its add() is behind, `undefined > 1` is false.
FolderRemoved(h, f) ==
  LET r == RootOf[f] IN
  /\ handler[h].at = "remove"
  /\ f \in handler[h].todo
  /\ \/ r = NoRoot /\ UNCHANGED rootVars
     \/ r # NoRoot /\ count[r] > 1
        /\ count' = [count EXCEPT ![r] = @ - 1] /\ UNCHANGED <<root, keys>>
     \/ r # NoRoot /\ count[r] <= 1 /\ DropRoot(r)
  /\ FireIfLast(h, f)
  /\ FolderDone(h, f, "done")
  /\ UNCHANGED <<workspace, prompt, overlapped>>

\* A file of the product is opened while there is no root: productRoot is
\* awaited ...
FileOpened ==
  /\ prompt = "none"
  /\ root = NoRoot
  /\ prompt' = "looking"
  /\ UNCHANGED <<workspace, rootVars, handler, events, overlapped>>

\* ... and the user is asked, once, to open a workspace folder.
PromptShown ==
  /\ prompt = "looking"
  /\ prompt' = "shown"
  /\ UNCHANGED <<workspace, rootVars, handler, events, overlapped>>

Next ==
  \/ \E h \in Handlers, a \in SUBSET (Folders \ workspace), d \in SUBSET workspace :
       WorkspaceChanges(h, a, d)
  \/ \E h \in Handlers, f \in Folders : FolderAdded(h, f) \/ FolderRemoved(h, f)
  \/ \E h \in Handlers : RemoveStarts(h)
  \/ FileOpened
  \/ PromptShown

Spec == Init /\ [][Next]_vars
-----------------------------------------------------------------------------
States == [at : {"idle", "add", "added", "remove", "done"},
           todo : SUBSET Folders, removed : SUBSET Folders, prevRoot : Products]

\* Types; the two halves of the map agree.
TypeOK ==
  /\ workspace \subseteq Folders
  /\ root \in Products
  /\ keys \in Seq(Roots)
  /\ count \in [Roots -> Nat]
  /\ \A r \in Roots : Contains(keys, r) <=> count[r] > 0
  /\ handler \in [Handlers -> States]
  /\ events \in Seq(Products)
  /\ prompt \in {"none", "looking", "shown"}
  /\ overlapped \in BOOLEAN

\* The root that is selected has a folder that was counted, and one is
\* selected if any was, in whatever order the handlers go on.
RootIsCounted ==
  IF root = NoRoot THEN keys = <<>> ELSE Contains(keys, root)

FoldersOf(r) == {f \in workspace : RootOf[f] = r}
LastEvent == IF events = <<>> THEN NoRoot ELSE Last(events)

\* When handlers do not overlap and none is in progress, the map counts the
\* folders of the workspace, a tree with such a folder is selected if there is
\* one, and listeners know the root.
ExactWithoutOverlap ==
  ~overlapped /\ InProgress = {} =>
    /\ \A r \in Roots : count[r] = Cardinality(FoldersOf(r))
    /\ IF \A r \in Roots : FoldersOf(r) = {}
       THEN root = NoRoot
       ELSE \E r \in Roots : root = r /\ FoldersOf(r) # {}
    /\ LastEvent = root
-----------------------------------------------------------------------------
(***************************************************************************)
(* What the comments say and the code does not do.                         *)
(***************************************************************************)
\* "an event is fired in the following event: [...] The number of the
\* workspace folders containing the product source code becomes 0 from 1"
\* (watcher.ts:17): once all handlers are done the listeners know the root.
LastEventIsRoot == InProgress = {} => LastEvent = root

\* "fires event when the status [...] changes" (watcher.ts:15): no event
\* repeats the one before.
NoRepeatedEvent ==
  \A i \in 1..Len(events) - 1 : events[i] # events[i + 1]

\* "ChromiumIDE expects a workspace folder with [...] sources"
\* (watcher.ts:206): the user is only told so when there is none.
PromptMeansNoFolder ==
  [][PromptShown => \A f \in workspace : RootOf[f] = NoRoot]_vars
=============================================================================
