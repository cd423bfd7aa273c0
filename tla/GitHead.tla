------------------------------ MODULE GitHead ------------------------------
(***************************************************************************)
(* Events on the HEAD of one git directory: `head.Watcher` (git_dirs/      *)
(* head.ts) runs `git rev-parse HEAD` for each change of the log of HEAD   *)
(* and fires its answer; `GitDirsWatcher` (git_dirs/watcher.ts) creates a  *)
(* watcher when the directory becomes visible, passes its events on, and   *)
(* disposes of it when the directory is no longer visible.                 *)
(*                                                                         *)
(* The jobs of a watcher are run by its Mutex, which is taken here as the  *)
(* ExclusiveQueue it implements: a job starts when the one before has been *)
(* executed.  A disposed watcher's job goes on but nobody listens to it.   *)
(* HEADs are numbered in the order in which they come; one directory.      *)
(***************************************************************************)
EXTENDS Naturals, SequencesExt

CONSTANTS
  MaxHead,      \* bound: how often HEAD changes
  MaxWatchers   \* bound: how often the directory becomes visible

Heads == 0..MaxHead
Watchers == 1..MaxWatchers
None == MaxHead + 1      \* no HEAD: not read, not known, or `undefined`

VARIABLES
  head,      \* HEAD of the repository
  created,   \* how many watchers were created
  watcher,   \* the entry of gitDirToHeadWatcher: at most one watcher
  notified,  \* watchers for which a callback of fs.watch or setImmediate waits
  jobs,      \* the jobs of each watcher: what rev-parse read, or None yet
  told,      \* the last event of onDidChangeHead
  newest,    \* history: the newest HEAD that was ever told
  failed     \* history: git rev-parse failed

vars == <<head, created, watcher, notified, jobs, told, newest, failed>>

Init ==
  /\ head = 0
  /\ created = 0
  /\ watcher = {}
  /\ notified = {}
  /\ jobs = [w \in Watchers |-> <<>>]
  /\ told = None
  /\ newest = 0
  /\ failed = FALSE
-----------------------------------------------------------------------------
\* A commit, a checkout, ...: fs.watch reports the change of logs/HEAD.
HeadChanges ==
  /\ head < MaxHead
  /\ head' = head + 1
  /\ notified' = notified \cup watcher
  /\ UNCHANGED <<created, watcher, jobs, told, newest, failed>>

\* mutant: the constructor watches the log but does not read HEAD
AddWithoutHandle ==
  /\ watcher = {}
  /\ created < MaxWatchers
  /\ created' = created + 1
  /\ watcher' = {created'}
  /\ UNCHANGED <<head, notified, jobs, told, newest, failed>>

\* GitDirsWatcher.add: the watcher is created, and handles once by itself.
Add ==
  /\ watcher = {}
  /\ created < MaxWatchers
  /\ created' = created + 1
  /\ watcher' = {created'}
  /\ notified' = notified \cup watcher'
  /\ UNCHANGED <<head, jobs, told, newest, failed>>

\* GitDirsWatcher.remove: fs.watch and the listener are disposed of, and the
\* listeners are told that the directory is no longer watched.  A callback of
\* fs.watch that waits is dropped, the one of setImmediate is not.
RemoveWatcher ==
  /\ watcher # {}
  /\ watcher' = {}
  /\ notified' \in {notified, notified \ watcher}
  /\ told' = None
  /\ UNCHANGED <<head, created, jobs, newest, failed>>

\* handle(): a job is queued.
Handle(w) ==
  /\ w \in notified
  /\ notified' = notified \ {w}
  /\ jobs' = [jobs EXCEPT ![w] = Append(@, None)]
  /\ UNCHANGED <<head, created, watcher, told, newest, failed>>

\* mutant: without the mutex all jobs run at once
JobsRunningAll(w) == 1..Len(jobs[w])

\* runExclusive: only the oldest job of a watcher runs.
JobsRunning(w) == {i \in 1..Len(jobs[w]) : i = 1}

\* git rev-parse reads HEAD.
RevParse(w) ==
  \E i \in JobsRunning(w) :
    /\ jobs[w][i] = None
    /\ jobs' = [jobs EXCEPT ![w][i] = head]
    /\ UNCHANGED <<head, created, watcher, notified, told, newest, failed>>

\* git fails: the job ends without an event.
RevParseFails(w) ==
  \E i \in JobsRunning(w) :
    /\ jobs[w][i] = None
    /\ jobs' = [jobs EXCEPT ![w] = RemoveAt(@, i)]
    /\ failed' = TRUE
    /\ UNCHANGED <<head, created, watcher, notified, told, newest>>

\* mutant: the events of a disposed watcher are passed on
FireUnchecked(w) ==
  \E i \in JobsRunning(w) :
    /\ jobs[w][i] # None
    /\ jobs' = [jobs EXCEPT ![w] = RemoveAt(@, i)]
    /\ told' = jobs[w][i]
    /\ newest' = told'
    /\ UNCHANGED <<head, created, watcher, notified, failed>>

\* rev-parse has ended: onDidChange is fired, and passed on if the listener of
\* the watcher has not been disposed of.
Fire(w) ==
  \E i \in JobsRunning(w) :
    /\ jobs[w][i] # None
    /\ jobs' = [jobs EXCEPT ![w] = RemoveAt(@, i)]
    /\ IF w \in watcher
         THEN told' = jobs[w][i] /\ newest' = told'
         ELSE UNCHANGED <<told, newest>>
    /\ UNCHANGED <<head, created, watcher, notified, failed>>

Watcher(w) == Handle(w) \/ RevParse(w) \/ RevParseFails(w) \/ Fire(w)

Next ==
  \/ HeadChanges
  \/ Add
  \/ RemoveWatcher
  \/ \E w \in Watchers : Watcher(w)

Spec == Init /\ [][Next]_vars

\* Callbacks run and git ends; nothing else has to happen.
Fairness == \A w \in Watchers : WF_vars(Watcher(w))
-----------------------------------------------------------------------------
\* Types.
TypeOK ==
  /\ head \in Heads
  /\ created \in 0..MaxWatchers
  /\ watcher \subseteq Watchers
  /\ notified \subseteq Watchers
  /\ jobs \in [Watchers -> Seq(Heads \cup {None})]
  /\ told \in Heads \cup {None}
  /\ newest \in Heads
  /\ failed \in BOOLEAN

\* "Ensures events are fired in order" (head.ts:65): an event never goes back
\* to an older HEAD, also when the watcher was replaced in between.
HeadsInOrder ==
  [][told' \in Heads => told' >= newest]_vars

\* "undefined to indicate the git directory is no longer watched"
\* (git_dirs/watcher.ts:113): HEAD is told after that only if it is watched again.
UndefinedMeansUnwatched == watcher = {} => told = None

\* The HEAD that listeners know is the one of the repository once it stops
\* changing, if git never fails: no change is lost when a watcher is created,
\* replaced or busy.
HeadIsTold ==
  [](~failed) => (watcher # {} ~> watcher = {} \/ told = head)
=============================================================================
