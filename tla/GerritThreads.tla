--------------------------- MODULE GerritThreads ---------------------------
(***************************************************************************)
(* `Gerrit` (gerrit/gerrit.ts): shows a thread of comments on a file of a  *)
(* git directory, moved by the local changes of the file, and runs the     *)
(* draft commands (gerrit/command/).                                       *)
(*                                                                         *)
(* showChanges awaits the search for the git directory, the check for the  *)
(* patchset's commit and `git diff`, and then redraws in one step.  It is  *)
(* called by updates of the comments, by changes of the editing status     *)
(* (both of which may overlap) and by saves (through a JobManager: one     *)
(* runs, the newest waits).  Diff hunks are those of a version of the file *)
(* and are cached until a save evicts them (local_diff_hunks.ts).          *)
(*                                                                         *)
(* The thread in Gerrit is a sequence of comments ordered by their time of *)
(* update, its first one published.  A fetch of it is one step here:       *)
(* GerritFetch.tla has its steps.                                          *)
(***************************************************************************)
EXTENDS Integers, SequencesExt

CONSTANTS
  Calls,        \* calls of showChanges by events that may be running at once
  MaxSaves,     \* bound: how often the file is saved
  MaxComments,  \* bound: how many comments are made or updated
  MaxEvents     \* bound: how many of both there are together

Save == "save"             \* the call of showChanges by the JobManager
Shows == Calls \cup {Save}
NoHunks == -1
Tentative == [id |-> 0, draft |-> FALSE, upd |-> 0]   \* "Draft being created"

VARIABLES
  made,      \* how many comments were made or updated
  remote,    \* the thread in Gerrit
  known,     \* GerritComments: the thread as it was last fetched
  changes,   \* Gerrit.changes: the thread to show
  saved,     \* the version of the file on disk
  cache,     \* hunks in the DiffHunksClient: a version of the file, or NoHunks
  show,      \* each running call of showChanges
  waiting,   \* a save waits in the JobManager
  shown,     \* the thread in the editor: comments, hunks it was moved by, edit mode
  editing,   \* EditingStatus: ids of comments
  cmd,       \* the draft command that is running
  crossed,   \* history: two updates looked for the git directory at once
  raced,     \* history: the file was saved while `git diff` was running
  gitFailed, \* history: git failed in the call that drew last
  late       \* history: since the last redraw a command changed the thread although
             \* the fetch had been faster, or failed and left its tentative comment

vars == <<made, remote, known, changes, saved, cache, show, waiting, shown, editing,
          cmd, crossed, raced, gitFailed, late>>

LastId(s) == IF s = <<>> THEN 0 ELSE Last(s).id
Done == [at |-> "idle", update |-> FALSE, with |-> <<>>, hunks |-> NoHunks]
NoCmd == [kind |-> "none", id |-> 0, ok |-> FALSE, overtaken |-> FALSE]
Start == [Done EXCEPT !.at = "find"]

Init ==
  /\ made = 1
  /\ remote = <<[id |-> 1, draft |-> FALSE, upd |-> 1]>>
  /\ known = <<>> /\ changes = <<>>
  /\ saved = 0 /\ cache = NoHunks
  /\ show = [s \in Shows |-> Done]
  /\ waiting = FALSE
  /\ shown = [comments |-> <<>>, hunks |-> NoHunks, edit |-> FALSE]
  /\ editing = {}
  /\ cmd = NoCmd
  /\ crossed = FALSE /\ raced = FALSE /\ gitFailed = FALSE /\ late = FALSE
-----------------------------------------------------------------------------
\* A comment made or updated now comes last: comments are sorted by `updated`.
Published(s) == Append(s, [id |-> made + 1, draft |-> FALSE, upd |-> made + 1])
Drafted(s) == Append(s, [id |-> made + 1, draft |-> TRUE, upd |-> made + 1])
Without(s, i) == RemoveAt(s, i)
Updated(s, i) == Append(Without(s, i), [id |-> s[i].id, draft |-> TRUE, upd |-> made + 1])
Drafts(s, id) == {i \in DOMAIN s : s[i].id = id /\ s[i].draft}

Room == made < MaxComments /\ made + saved < MaxEvents

\* Somebody else comments.
RemoteComment ==
  /\ Room
  /\ made' = made + 1
  /\ remote' = Published(remote)
  /\ UNCHANGED <<known, changes, saved, cache, show, waiting, shown, editing, cmd,
                 crossed, raced, gitFailed, late>>

\* An event calls showChanges, with the new comments if it is an update.
Call(s, with, update) ==
  /\ s \in Calls /\ show[s] = Done
  /\ show' = [show EXCEPT ![s] = [Start EXCEPT !.update = update, !.with = with]]

Finding == {s \in Shows : show[s].at = "find" /\ show[s].update}

\* A fetch ends: onDidUpdateComments if the comments differ from the known ones.
Fetched(s) ==
  /\ remote # known
  /\ known' = remote
  /\ Call(s, remote, TRUE)
  /\ crossed' = (Finding # {})
  /\ cmd' = [cmd EXCEPT !.overtaken = cmd.ok]
  /\ UNCHANGED <<made, remote, changes, saved, cache, waiting, shown, editing,
                 raced, gitFailed, late>>

\* mutant: the cached hunks outlive a save
SaveWithoutEvict ==
  /\ saved < MaxSaves /\ made + saved < MaxEvents
  /\ saved' = saved + 1
  /\ IF show[Save] = Done
       THEN show' = [show EXCEPT ![Save] = Start] /\ UNCHANGED waiting
       ELSE waiting' = TRUE /\ UNCHANGED show
  /\ raced' = \E s \in Shows : show[s].at = "diff"
  /\ UNCHANGED <<made, remote, known, changes, cache, shown, editing, cmd, crossed, gitFailed, late>>

\* onDidSaveTextDocument: the hunks are evicted and a redraw is offered.
SaveFile ==
  /\ saved < MaxSaves /\ made + saved < MaxEvents
  /\ saved' = saved + 1
  /\ cache' = NoHunks
  /\ IF show[Save] = Done
       THEN show' = [show EXCEPT ![Save] = Start] /\ UNCHANGED waiting
       ELSE waiting' = TRUE /\ UNCHANGED show
  /\ raced' = \E s \in Shows : show[s].at = "diff"
  /\ UNCHANGED <<made, remote, known, changes, shown, editing, cmd, crossed, gitFailed, late>>
-----------------------------------------------------------------------------
\* showChanges has returned; the JobManager takes up a waiting save.
Return(s) ==
  IF s = Save /\ waiting
    THEN [show EXCEPT ![s] = Start]
    ELSE [show EXCEPT ![s] = Done]
Returned(s) == show' = Return(s) /\ waiting' = (waiting /\ s # Save)

\* findGitDir: the comments of an update are kept from here on.
FoundGitDir(s) ==
  /\ show[s].at = "find"
  /\ changes' = IF show[s].update THEN show[s].with ELSE changes
  /\ show' = [show EXCEPT ![s].at = "commit"]
  /\ UNCHANGED <<made, remote, known, saved, cache, waiting, shown, editing, cmd,
                 crossed, raced, gitFailed, late>>

\* decorateVscodeCommentThread: the fields that differ are set; only a thread
\* that is there already is put into edit mode.
Decorated(hunks) ==
  [comments |-> changes, hunks |-> hunks,
   edit |-> LastId(changes) \in editing /\ shown.comments # <<>>]

\* Redraw: the thread is created, decorated or disposed of.
Draw(s, hunks, failed) ==
  /\ shown' = IF changes = <<>> THEN [comments |-> <<>>, hunks |-> NoHunks, edit |-> FALSE]
              ELSE Decorated(hunks)
  /\ gitFailed' = failed
  /\ late' = FALSE
  /\ Returned(s)

\* The commit is not there, or checking for it failed: shown without a shift.
CommitMissing(s) ==
  /\ show[s].at = "commit" /\ changes # <<>>
  /\ Draw(s, NoHunks, TRUE)
  /\ UNCHANGED <<made, remote, known, changes, saved, cache, editing, cmd, crossed, raced>>

\* The hunks are in the cache, or there is nothing to show: no git diff.
NoDiffNeeded(s) ==
  /\ show[s].at = "commit"
  /\ cache # NoHunks \/ changes = <<>>
  /\ Draw(s, cache, FALSE)
  /\ UNCHANGED <<made, remote, known, changes, saved, cache, editing, cmd, crossed, raced>>

\* git diff is started, and reads the file.
RunDiff(s) ==
  /\ show[s].at = "commit"
  /\ cache = NoHunks /\ changes # <<>>
  /\ show' = [show EXCEPT ![s].at = "diff", ![s].hunks = saved]
  /\ UNCHANGED <<made, remote, known, changes, saved, cache, waiting, shown, editing, cmd,
                 crossed, raced, gitFailed, late>>

\* git diff has ended: its hunks are cached, and used.
DiffEnds(s) ==
  /\ show[s].at = "diff"
  /\ cache' = show[s].hunks
  /\ Draw(s, show[s].hunks, FALSE)
  /\ UNCHANGED <<made, remote, known, changes, saved, editing, cmd, crossed, raced>>

DiffFails(s) ==
  /\ show[s].at = "diff"
  /\ Draw(s, NoHunks, TRUE)
  /\ UNCHANGED <<made, remote, known, changes, saved, cache, editing, cmd, crossed, raced>>

ShowStep(s) ==
  \/ FoundGitDir(s) \/ CommitMissing(s) \/ NoDiffNeeded(s) \/ RunDiff(s)
  \/ DiffEnds(s) \/ DiffFails(s)
-----------------------------------------------------------------------------
\* reply: a tentative comment is appended, and a draft is asked for.
Reply ==
  /\ cmd = NoCmd /\ shown.comments # <<>>
  /\ ~ Last(shown.comments).draft /\ LastId(shown.comments) # 0   \* canReply
  /\ Room
  /\ shown' = [shown EXCEPT !.comments = Append(@, Tentative)]
  /\ cmd' = [NoCmd EXCEPT !.kind = "reply"]
  /\ UNCHANGED <<made, remote, known, changes, saved, cache, show, waiting, editing,
                 crossed, raced, gitFailed, late>>

\* discardDraft and updateDraft act on the last comment of the thread as it was
\* drawn last, whichever comment they were called on.
OnDraft(kind) ==
  /\ cmd = NoCmd /\ changes # <<>>
  /\ \E i \in DOMAIN shown.comments : shown.comments[i].draft
  /\ cmd' = [NoCmd EXCEPT !.kind = kind, !.id = LastId(changes)]
  /\ UNCHANGED <<made, remote, known, changes, saved, cache, show, waiting, shown, editing,
                 crossed, raced, gitFailed, late>>

DiscardDraft == OnDraft("discard")
UpdateDraft == shown.edit /\ Room /\ OnDraft("update")

\* Gerrit answers; it refuses to discard or update what is no draft.
Answered ==
  /\ cmd.kind # "none" /\ ~cmd.ok
  /\ Room \/ cmd.kind = "discard"
  /\ made' = IF cmd.kind = "discard" THEN made ELSE made + 1
  /\ IF cmd.kind = "reply" THEN remote' = Drafted(remote)
     ELSE \E i \in Drafts(remote, cmd.id) :
            remote' = IF cmd.kind = "discard" THEN Without(remote, i) ELSE Updated(remote, i)
  /\ cmd' = [cmd EXCEPT !.ok = TRUE]
  /\ UNCHANGED <<known, changes, saved, cache, show, waiting, shown, editing,
                 crossed, raced, gitFailed, late>>

\* The command redraws its thread by itself, and ends with a refresh (which
\* is Fetched, as any fetch).
CommandEnds ==
  /\ cmd.ok
  /\ cmd' = NoCmd
  /\ shown' = IF cmd.kind = "reply" \/ shown.comments = <<>> THEN shown
              ELSE [shown EXCEPT !.comments =
                      IF cmd.kind = "discard" THEN Front(@) ELSE Append(Front(@), Tentative)]
  /\ late' = (late \/ cmd.overtaken)
  /\ editing' = IF cmd.kind = "update" THEN editing \ {cmd.id} ELSE editing
  /\ UNCHANGED <<made, remote, known, changes, saved, cache, show, waiting,
                 crossed, raced, gitFailed>>

\* The request fails: an error is shown, a tentative comment stays.
CommandFails ==
  /\ cmd.kind # "none" /\ ~cmd.ok
  /\ cmd' = NoCmd
  /\ late' = (late \/ cmd.kind = "reply")
  /\ UNCHANGED <<made, remote, known, changes, saved, cache, show, waiting, shown, editing,
                 crossed, raced, gitFailed>>

\* editDraft and editDraftCancel: the editing status changes, and the thread is
\* redrawn if the comment is its last one.
EditDraft(s) ==
  /\ \E i \in DOMAIN shown.comments :
       LET id == shown.comments[i].id IN
       /\ shown.comments[i].draft
       /\ editing' = IF id \in editing THEN editing \ {id} ELSE editing \cup {id}
       /\ IF id = LastId(changes) THEN Call(s, <<>>, FALSE) ELSE s \in Calls /\ UNCHANGED show
  /\ UNCHANGED <<made, remote, known, changes, saved, cache, waiting, shown, cmd,
                 crossed, raced, gitFailed, late>>

Command == Reply \/ DiscardDraft \/ UpdateDraft
CommandStep == Answered \/ CommandEnds \/ CommandFails

Next ==
  \/ RemoteComment
  \/ SaveFile
  \/ \E s \in Calls : Fetched(s) \/ EditDraft(s)
  \/ \E s \in Shows : ShowStep(s)
  \/ Command
  \/ CommandStep

Spec == Init /\ [][Next]_vars

-----------------------------------------------------------------------------
TypeOK ==
  /\ made \in 1..MaxComments
  /\ saved \in 0..MaxSaves /\ cache \in NoHunks..MaxSaves
  /\ \A s \in Shows : show[s].at \in {"idle", "find", "commit", "diff"}
  /\ shown.hunks \in NoHunks..MaxSaves
  /\ editing \subseteq 1..MaxComments

\* Nothing is running, and the editor shows what was fetched.
Quiet == (\A s \in Shows : show[s] = Done) /\ cmd = NoCmd

\* The thread to show is the one that was fetched last when no call is running:
\* an older update does not overwrite a newer one unless both were looking for
\* the git directory at the same time (the update of changes follows an await).
ShownIsKnown == Quiet => changes = known \/ crossed

\* The thread is where the file as it is on disk puts it, unless the file was
\* saved under a running `git diff`, whose hunks are then cached, or git failed.
PositionIsCurrent ==
  Quiet /\ shown.comments # <<>> => shown.hunks = saved \/ raced \/ gitFailed

\* What a draft command shows by itself gives way to the real comments: the
\* comments in the editor are those to show, or a fetch is still to bring others,
\* unless the fetch was faster than the command or a reply failed.
CommandGivesWay == Quiet /\ shown.comments # changes => known # remote \/ late

\* "Comment shown until real draft is fetched from Gerrit" (draft.ts:31).
TentativeUntilFetched == Quiet /\ known = remote => LastId(shown.comments) # 0 \/ shown.comments = <<>>
=============================================================================
