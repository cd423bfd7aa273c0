----------------------------- MODULE MCDocuments ----------------------------
(***************************************************************************)
(* Documents in the editor: the git directories they make visible, a       *)
(* thread of Gerrit comments with its drafts, the line at which a comment  *)
(* is shown, the lines painted as covered, formatting, and the builds of   *)
(* Chromium that saves start. `part` is the one that runs.                 *)
(***************************************************************************)
EXTENDS Integers, SequencesExt, SequenceTheorems, FiniteSetTheorems, TLAPS

CONSTANTS
  d1, d2, e1, none, dir1, dir2, Docs, Dirs, DirOf, NoDir, Handlers, startup, Calls,
  MaxSaves, MaxComments, MaxEvents, N, MaxInsert, MaxLine, MaxSegments, Counts, FormatDocs,
  FormatCalls, NoDoc, MaxEdits, MaxChanges, MaxOptions, Additions, Cider, MaxChoices,
  Labels, Watches, Once, MaxOnce

VARIABLES
  part,  \* the component that runs
  open, gitDirToDocUris, handler, watched, mixed, entangled,
  made, remote, known, changes, saved, cache, show, waiting, shown, editing, cmd, crossed,
  raced, gitFailed, late,
  kept, inserted, line,
  segments,
  buffer, disk, active, presubmit, ignores, cfgCache, ignoreCache, argsCache, call, status,
  formatChanges,
  hook,
  defaultFormatter, suggestSetAsDefault, alwaysDefaultInCros, suggestAlwaysDefaultInCros,
  hasBeenSet, addition, choices, chosen,
  saves, watch, hasBeenANewSave, isBuilding, process, task, tried, once

Git == INSTANCE GitDirs
Threads == INSTANCE GerritThreads
Shifts == INSTANCE LineShifts
Coverage == INSTANCE LineCoverage
Format == INSTANCE CrosFormat
  WITH Docs <- FormatDocs, Calls <- FormatCalls, changes <- formatChanges
Hook == INSTANCE HookProofs
Default == INSTANCE DefaultFormatter
Build == INSTANCE ChromiumBuild

Parts == {"git", "thread", "shift", "paint", "format", "hook", "default", "build"}
MCInit ==
  /\ part \in Parts
  /\ Git!Init /\ (part # "git" => open = {})
  /\ Threads!Init
  /\ Shifts!Init /\ (part # "shift" => line = 1)
  /\ Coverage!Init
  /\ Format!Init /\ (part # "format" => active = d1 /\ presubmit = "none" /\ ignores = "none")
  /\ Hook!Init
  /\ Default!Init /\ (part # "default" => defaultFormatter = "other" /\ ~alwaysDefaultInCros)
  /\ Build!Init

gitVars == <<open, gitDirToDocUris, handler, watched, mixed, entangled>>
threadVars == <<made, remote, known, changes, saved, cache, show, waiting, shown, editing,
    cmd, crossed, raced, gitFailed, late>>
shiftVars == <<kept, inserted, line>>
paintVars == <<segments>>
formatVars == <<buffer, disk, active, presubmit, ignores, cfgCache, ignoreCache, argsCache,
    call, status, formatChanges>>
hookVars == <<hook>>
defaultVars == <<defaultFormatter, suggestSetAsDefault, alwaysDefaultInCros,
    suggestAlwaysDefaultInCros, hasBeenSet, addition, choices, chosen>>
buildVars == <<saves, watch, hasBeenANewSave, isBuilding, process, task, tried, once>>

MCNext ==
  \/ /\ part = "git" /\ Git!Next
     /\ UNCHANGED <<part, threadVars, shiftVars, paintVars, formatVars,
                    hookVars, defaultVars, buildVars>>
  \/ /\ part = "thread" /\ Threads!Next
     /\ UNCHANGED <<part, gitVars, shiftVars, paintVars, formatVars,
                    hookVars, defaultVars, buildVars>>
  \/ /\ part = "shift" /\ Shifts!Next
     /\ UNCHANGED <<part, gitVars, threadVars, paintVars, formatVars,
                    hookVars, defaultVars, buildVars>>
  \/ /\ part = "paint" /\ Coverage!Next
     /\ UNCHANGED <<part, gitVars, threadVars, shiftVars, formatVars,
                    hookVars, defaultVars, buildVars>>
  \/ /\ part = "format" /\ Format!Next
     /\ UNCHANGED <<part, gitVars, threadVars, shiftVars, paintVars,
                    hookVars, defaultVars, buildVars>>
  \/ /\ part = "hook" /\ Hook!Next
     /\ UNCHANGED <<part, gitVars, threadVars, shiftVars, paintVars,
                    formatVars, defaultVars, buildVars>>
  \/ /\ part = "default" /\ Default!Next
     /\ UNCHANGED <<part, gitVars, threadVars, shiftVars, paintVars,
                    formatVars, hookVars, buildVars>>
  \/ /\ part = "build" /\ Build!Next
     /\ UNCHANGED <<part, gitVars, threadVars, shiftVars, paintVars,
                    formatVars, hookVars, defaultVars>>

MCvars == <<part, gitVars, threadVars, shiftVars, paintVars, formatVars,
            hookVars, defaultVars, buildVars>>
MCSpec == MCInit /\ [][MCNext]_MCvars
-----------------------------------------------------------------------------
\* States that differ by the names of these alone are the same.
MCSymmetry == Permutations(FormatDocs) \cup Permutations(Labels)

\* Two documents in one git directory, one in another, and one in none.
MCDirOf == [d \in Docs |->
  CASE d \in {d1, d2} -> dir1 [] d = e1 -> dir2 [] d = none -> NoDir]

\* The watchers of HEAD are those of the visible directories, and the
\* documents these are visible for are open, unless their handlers overlapped.
WatchedIsVisibleIsOpen ==
  part = "git" =>
    /\ Git!WatchedIsVisible
    /\ Git!VisibleIsOpen

\* Once nothing is running the editor shows what was fetched, where the file on
\* disk puts it, and nothing a draft command has shown by itself; the exceptions
\* are named in the three parts.
ThreadIsRight ==
  part = "thread" =>
    /\ Threads!ShownIsKnown
    /\ Threads!PositionIsCurrent
    /\ Threads!CommandGivesWay

\* Every comment is shown at the line it is about, for every edit of the file
\* (comment_thread.ts, getShift), and lines are painted as the report of coverage
\* has them (llvm_json_parser.ts:43).
LinesAreRight ==
  /\ part = "shift" => Shifts!CommentFollowsItsLine
  /\ part = "paint" => Coverage!LinesAreRight

\* Formatting loses nothing that was typed, and the user's choice of a formatter
\* stands (formatting_edit_provider.ts, default_formatter.ts:69).
FormatterObeys ==
  /\ Format!KeepsText
  /\ Default!ChoiceStands

\* The flags of a watch tell what it builds, and what it has built is current
\* (chromium_build.ts:319).
FlagsTellTheBuilds == part = "build" => Build!FlagsTellTheBuilds

\* The options of the hook survive the change of the command.
OptionsSurvive == part = "hook" => Hook!OptionsSurvive

\* A git directory is one of Dirs, or none.
ASSUME DocumentsAssumption ==
  /\ NoDir \notin Dirs /\ startup \in Handlers
  /\ \A doc \in Docs : DirOf[doc] \in Dirs \cup {NoDir}
\* Watches are counted from 1; the command `build` is none of them.
ASSUME BuildAssumption == Watches \subseteq Nat \ {0} /\ Once \notin Watches
\* The file and the bound of the edits are of some size; the lines and counts of a
\* report are numbers.
ASSUME ShiftAssumption == N \in Nat /\ MaxInsert \in Nat
ASSUME CoverageAssumption == MaxLine \in Nat /\ Counts \subseteq Nat

-----------------------------------------------------------------------------
(***************************************************************************)
(* Theorems about the directories watched, the thread of comments, the     *)
(* formatters and builds on save, for any documents, events and calls: an  *)
(* inductive invariant for each.                                           *)
(***************************************************************************)
\* Only startup is about several documents.  While it is alone nothing is
\* watched, and after that the watchers follow each event at once.
GitAlone ==
  /\ \A h \in Handlers \ Git!InProgress : handler[h].todo = {}
  /\ \A h \in Git!InProgress \ {startup} :
       handler[h].changed = {} /\ \E doc \in Docs : handler[h].todo = {doc}
  /\ startup \in Git!InProgress =>
       /\ handler[startup].at = "add"
       /\ ~mixed => /\ Git!InProgress = {startup}
                    /\ watched = {} /\ handler[startup].changed = Git!visibleGitDirs
  /\ Git!WatchedIsVisible

\* A document whose handlers have not overlapped has one handler at most, and
\* is open if that one opens it.
GitUntangled ==
  /\ \A doc \in Docs \ entangled : \A h, g \in Git!InProgress :
       doc \in handler[h].todo \cap handler[g].todo => h = g
  /\ \A h \in Git!InProgress : handler[h].at = "add" => handler[h].todo \subseteq open \cup entangled
  /\ Git!VisibleIsOpen

GitIInv == Git!TypeOK /\ GitAlone /\ GitUntangled

\* The thread. Every comment was made or updated when it says, and those that
\* are still there of what was fetched, or is commanded, have not been away.
Comments == [id : Nat, draft : BOOLEAN, upd : Nat]
Ids(s) == {s[i].id : i \in DOMAIN s}
ThreadCalls == [at : {"idle", "find", "commit", "diff"}, update : BOOLEAN,
                with : Seq(Comments), hunks : Int]
ThreadCommands == [kind : {"none", "reply", "discard", "update"}, id : Nat,
                   ok : BOOLEAN, overtaken : BOOLEAN]
ThreadTypes ==
  /\ made \in Nat /\ saved \in Nat /\ cache \in Int
  /\ crossed \in BOOLEAN /\ raced \in BOOLEAN /\ gitFailed \in BOOLEAN
  /\ late \in BOOLEAN /\ waiting \in BOOLEAN
  /\ {remote, known, changes} \subseteq Seq(Comments)
  /\ show \in [Threads!Shows -> ThreadCalls]
  /\ cmd \in ThreadCommands
  /\ shown = [comments |-> shown.comments, hunks |-> shown.hunks, edit |-> shown.edit]

\* The comments somebody still has in hand.
InCalls == UNION {Ids(show[s].with) : s \in Threads!Shows}
InHand == Ids(changes) \cup InCalls
          \cup (IF cmd.kind \in {"discard", "update"} THEN {cmd.id} ELSE {})
ThreadIds ==
  /\ \A i \in DOMAIN known : known[i].upd <= made
  /\ \A i \in DOMAIN remote : remote[i].upd <= made /\ remote[i].id <= made
  /\ \A i, j \in DOMAIN remote : remote[i].id = remote[j].id => i = j
  /\ InHand \subseteq 0..made
  /\ Ids(remote) \cap InHand \subseteq Ids(known)

\* A call that is over leaves nothing, and a save only waits for another.
ThreadShows ==
  /\ \A s \in Threads!Shows : show[s].at = "idle" => show[s] = Threads!Done
  /\ waiting => show[Threads!Save].at # "idle"

\* Unless two updates have crossed, one at most is looking for its directory,
\* and brings what was fetched last.
ThreadUpdates ==
  ~crossed =>
    /\ \A s, t \in Threads!Finding : s = t
    /\ \A s \in Threads!Finding : show[s].with = known
    /\ Threads!Finding = {} => changes = known

\* Unless it was saved under a diff, the hunks that are used are of the file,
\* and a thread that was drawn with others is about to be drawn by a save.
ThreadHunks ==
  ~raced =>
    /\ cache \in {Threads!NoHunks, saved}
    /\ \A s \in Threads!Shows : show[s].at = "diff" => show[s].hunks = saved
    /\ show[Threads!Save].at = "idle" /\ shown.comments # <<>> /\ ~gitFailed
         => shown.hunks = saved

\* What a command has changed is not fetched before it ends, unless that was
\* noticed; what it shows itself waits for a redraw or for what is to be fetched.
ThreadCommand ==
  /\ cmd.ok => cmd.kind # "none"
  /\ cmd.ok /\ ~cmd.overtaken => known # remote
  /\ (\A s \in Threads!Shows : show[s].at = "idle") /\ cmd.kind # "reply"
       /\ shown.comments # changes => known # remote \/ late

ThreadIInv ==
  ThreadTypes /\ ThreadIds /\ ThreadShows /\ ThreadUpdates /\ ThreadHunks /\ ThreadCommand

\* The file the tool reads has all that the document has, unless it is behind.
FormatIInv ==
  /\ {buffer, disk} \subseteq [FormatDocs -> [edits : Nat, formatted : BOOLEAN]]
  /\ active \in FormatDocs
  /\ call \in [FormatCalls -> [step : {"idle", "ignored", "args", "save", "exec"},
       doc : FormatDocs \cup {NoDoc}, force : BOOLEAN, args : {"none", "hook", "default"},
       asked : Seq([edits : Nat, formatted : BOOLEAN]), behind : BOOLEAN]]
  /\ argsCache \in [FormatDocs -> {"none", "hook", "default"}]
  /\ \A c \in FormatCalls :
       LET doc == call[c].doc IN
       /\ call[c].step # "idle" => doc \in FormatDocs
       /\ call[c].step = "exec" /\ ~call[c].behind => disk[doc].edits = buffer[doc].edits

\* What is set without asking is set once.
DefaultSteps == {"new", "find to set", "find to ask", "set", "mark", "ask", "ask always",
                 "done"}
DefaultIInv ==
  /\ addition \in [Additions -> DefaultSteps]
  /\ chosen => hasBeenSet /\ \A a \in Additions : addition[a] \notin {"find to set", "set"}

\* The edit: what is kept, what was inserted, and the line of the comment.
ShiftIInv ==
  /\ kept \subseteq 1..N
  /\ inserted \in [Shifts!Anchors(kept) -> 0..MaxInsert]
  /\ line \in 1..N

\* The hook is a sequence of options.
HookIInv == Hook!TypeOK

\* The report is in the order of the lines.
CoverageIInv ==
  /\ segments \in Seq(Coverage!Segments)
  /\ \A i, j \in 1..Len(segments) : i <= j => segments[i].line <= segments[j].line

(* The git directories *)
LEMMA GitInitially == Git!Init => GitIInv
<1> SUFFICES ASSUME Git!Init PROVE GitIInv
  OBVIOUS
<1>1. PICK visible \in SUBSET open :
        handler = [h \in Handlers |->
                     IF h = startup /\ visible # {}
                     THEN [at |-> "add", todo |-> visible, changed |-> {}]
                     ELSE Git!NotStarted]
  BY DEF Git!Init
<1>2. Git!TypeOK
  BY <1>1 DEF Git!Init, Git!TypeOK, Git!NotStarted
<1>3. \A h \in Git!InProgress :
        h = startup /\ handler[h] = [at |-> "add", todo |-> visible, changed |-> {}]
  BY <1>1 DEF Git!InProgress, Git!NotStarted
<1>4. Git!visibleGitDirs = {}
  BY DEF Git!Init, Git!visibleGitDirs
<1>5. GitAlone
  <2>1. \A h \in Handlers \ Git!InProgress : handler[h].todo = {}
    BY <1>1 DEF Git!InProgress, Git!NotStarted
  <2>2. QED
    <3>1. watched = {} /\ mixed = FALSE
      BY DEF Git!Init
    <3>2. Git!InProgress \ {startup} = {}
      BY <1>3
    <3>3. startup \in Git!InProgress =>
            Git!InProgress = {startup} /\ handler[startup].at = "add"
              /\ handler[startup].changed = {}
      BY <1>3
    <3>4. QED
      BY <1>4, <2>1, <3>1, <3>2, <3>3 DEF GitAlone, Git!WatchedIsVisible
<1>6. GitUntangled
  BY <1>3 DEF GitUntangled, Git!Init, Git!VisibleIsOpen
<1>7. QED
  BY <1>2, <1>5, <1>6 DEF GitIInv

HandlerRecords ==
  [at : {"idle", "add", "remove", "done"}, todo : SUBSET Docs, changed : SUBSET Dirs]

\* An event starts a handler of its own for one document.
LEMMA GitStarted ==
  ASSUME GitIInv, NEW h \in Handlers, NEW doc \in Docs, NEW kind \in {"add", "remove"},
         Git!Started(h, kind, doc), open' \subseteq Docs,
         kind = "add" => open' = open \cup {doc},
         kind = "remove" => open' = open \ {doc}
  PROVE  GitIInv'
<1> DEFINE r == [at |-> kind, todo |-> {doc}, changed |-> {}]
<1>1. /\ r \in HandlerRecords /\ r.at = kind /\ r.todo = {doc} /\ r.changed = {}
      /\ r.at \in {"add", "remove"}
  BY DEF HandlerRecords
<1>2. /\ h # startup /\ handler[h].at = "idle"
      /\ handler \in [Handlers -> HandlerRecords] /\ handler' = [handler EXCEPT ![h] = r]
      /\ mixed' = (mixed \/ startup \in Git!InProgress)
      /\ entangled' = entangled \cup ({doc} \cap Git!BeingHandled)
      /\ watched' = watched /\ gitDirToDocUris' = gitDirToDocUris
  BY DEF GitIInv, Git!TypeOK, HandlerRecords, Git!Started
<1> HIDE DEF r
<1>3. /\ handler' \in [Handlers -> HandlerRecords] /\ handler'[h] = r
      /\ \A g \in Handlers \ {h} : handler'[g] = handler[g]
  BY <1>1, <1>2
<1>4. Git!InProgress' = Git!InProgress \cup {h} /\ h \notin Git!InProgress
  BY <1>1, <1>2, <1>3 DEF Git!InProgress
<1>5. Git!BeingHandled' = Git!BeingHandled \cup {doc}
  BY <1>1, <1>3, <1>4 DEF Git!BeingHandled, Git!InProgress
<1>6. Git!TypeOK'
  BY <1>2, <1>3 DEF GitIInv, Git!TypeOK, HandlerRecords
<1>7. GitAlone'
  <2>1. \A g \in Git!InProgress' \ {startup} :
          handler'[g].changed = {} /\ \E d \in Docs : handler'[g].todo = {d}
    BY <1>1, <1>3, <1>4 DEF GitIInv, GitAlone, Git!InProgress
  <2>2. startup \in Git!InProgress' => handler'[startup].at = "add" /\ mixed'
    BY <1>2, <1>3, <1>4 DEF GitIInv, GitAlone, Git!InProgress
  <2>3. Git!visibleGitDirs' = Git!visibleGitDirs
    BY <1>2 DEF Git!visibleGitDirs
  <2>4. Git!WatchedIsVisible'
    BY <1>2, <1>4, <2>3 DEF GitIInv, GitAlone, Git!WatchedIsVisible, Git!TypeOK
  <2>5. \A g \in Handlers \ Git!InProgress' : handler'[g].todo = {}
    BY <1>3, <1>4 DEF GitIInv, GitAlone
  <2>6. QED
    BY <2>1, <2>2, <2>4, <2>5, DocumentsAssumption DEF GitAlone
<1>8. GitUntangled'
  <2>1. ASSUME NEW d \in Docs \ entangled', NEW f \in Git!InProgress', NEW g \in Git!InProgress',
               d \in handler'[f].todo \cap handler'[g].todo
        PROVE  f = g
    <3>1. ASSUME NEW i \in Git!InProgress', i # h, d \in handler'[i].todo PROVE d \in Git!BeingHandled
      BY <1>3, <1>4, <3>1 DEF Git!BeingHandled, Git!InProgress
    <3>2. ASSUME d = doc PROVE f = g
      BY <2>1, <3>1, <3>2, <1>2
    <3>3. ASSUME d # doc PROVE f = g
      BY <2>1, <3>3, <1>1, <1>2, <1>3, <1>4 DEF GitIInv, GitUntangled,
                                                Git!InProgress
    <3>4. QED
      BY <3>2, <3>3
  <2>2. ASSUME NEW g \in Git!InProgress', handler'[g].at = "add"
        PROVE  handler'[g].todo \subseteq open' \cup entangled'
    <3>1. CASE g = h
      BY <2>2, <3>1, <1>1, <1>3
    <3>2. CASE g # h
      <4>1. /\ g \in Git!InProgress /\ handler[g].at = "add"
            /\ handler'[g].todo = handler[g].todo
        BY <2>2, <3>2, <1>3, <1>4 DEF Git!InProgress
      <4>2. handler[g].todo \subseteq (open \cup entangled) \cap Git!BeingHandled
        BY <4>1 DEF GitIInv, GitUntangled, Git!BeingHandled
      <4>3. QED
        BY <4>1, <4>2, <1>2
    <3>3. QED
      BY <3>1, <3>2
  <2>3. Git!VisibleIsOpen'
    BY <1>2, <1>5 DEF GitIInv, GitUntangled, Git!VisibleIsOpen, Git!TypeOK
  <2>4. QED
    BY <2>1, <2>2, <2>3 DEF GitUntangled
<1>9. QED
  BY <1>6, <1>7, <1>8 DEF GitIInv

\* What is left of a handler that is done with a document.
LEMMA GitLeft ==
  ASSUME NEW r \in HandlerRecords, r.at \in {"add", "remove"}, NEW doc \in r.todo,
         NEW changed \in SUBSET Dirs
  PROVE  LET s == [at |-> IF r.todo = {doc} THEN "done" ELSE r.at, todo |-> r.todo \ {doc},
                   changed |-> r.changed \cup changed] IN
         /\ s \in HandlerRecords
         /\ s.at = IF r.todo = {doc} THEN "done" ELSE r.at
         /\ s.todo = r.todo \ {doc} /\ s.changed = r.changed \cup changed
BY DEF HandlerRecords

\* A handler is done with a document: what it has changed, and who knows of it.
LEMMA GitFound ==
  ASSUME GitIInv, NEW h \in Git!InProgress, NEW doc \in handler[h].todo,
         NEW changed \in SUBSET Dirs, Git!Found(h, doc, changed),
         gitDirToDocUris' \in [Dirs -> SUBSET Docs],
         \A dir \in Dirs : gitDirToDocUris'[dir] \ gitDirToDocUris[dir] \subseteq
           IF handler[h].at = "add" /\ DirOf[doc] = dir THEN {doc} ELSE {},
         handler[h].at = "remove" =>
           \A dir \in Dirs : DirOf[doc] = dir => gitDirToDocUris'[dir] \subseteq gitDirToDocUris[dir] \ {doc},
         Git!visibleGitDirs' = IF handler[h].at = "add" THEN Git!visibleGitDirs \cup changed
                               ELSE Git!visibleGitDirs \ changed
  PROVE  GitIInv'
<1> DEFINE done == handler[h].todo = {doc}
           s == [at |-> IF done THEN "done" ELSE handler[h].at, todo |-> handler[h].todo \ {doc},
                 changed |-> handler[h].changed \cup changed]
<1>1. /\ h \in Handlers /\ handler[h] \in HandlerRecords /\ handler[h].at \in {"add", "remove"}
      /\ doc \in Docs /\ handler \in [Handlers -> HandlerRecords]
  BY DEF GitIInv, Git!TypeOK, HandlerRecords, Git!InProgress
<1>2. /\ s \in HandlerRecords /\ s.at = (IF done THEN "done" ELSE handler[h].at)
      /\ s.todo = handler[h].todo \ {doc} /\ s.changed = handler[h].changed \cup changed
  BY <1>1, GitLeft
<1>3. /\ handler' = [handler EXCEPT ![h] = s]
      /\ open' = open /\ mixed' = mixed /\ entangled' = entangled
      /\ watched' = IF ~done THEN watched
                    ELSE IF handler[h].at = "add" THEN watched \cup handler[h].changed \cup changed
                    ELSE watched \ (handler[h].changed \cup changed)
  BY <1>1 DEF Git!Found, Git!historyVars
<1> HIDE DEF s
<1>4. /\ handler' \in [Handlers -> HandlerRecords] /\ handler'[h] = s
      /\ \A g \in Handlers \ {h} : handler'[g] = handler[g]
  BY <1>1, <1>2, <1>3
<1>5. Git!InProgress' = IF done THEN Git!InProgress \ {h} ELSE Git!InProgress
  BY <1>1, <1>2, <1>4 DEF Git!InProgress
<1>6. Git!TypeOK'
  <2>1. \A dir \in Dirs : \A d \in gitDirToDocUris'[dir] : DirOf[d] = dir
    BY <1>1 DEF GitIInv, Git!TypeOK
  <2>2. watched' \subseteq Dirs
    BY <1>1, <1>3 DEF GitIInv, Git!TypeOK, HandlerRecords
  <2>3. QED
    BY <2>1, <2>2, <1>3, <1>4 DEF GitIInv, Git!TypeOK, HandlerRecords
<1>7. \A g \in Git!InProgress' : handler'[g].at = handler[g].at /\ handler'[g].todo \subseteq handler[g].todo
  BY <1>2, <1>4, <1>5 DEF Git!InProgress
<1>8. GitAlone'
  <2>1. h # startup => done /\ handler[h].changed = {}
    BY DEF GitIInv, GitAlone
  <2>2. \A g \in Git!InProgress' \ {startup} :
          handler'[g].changed = {} /\ \E d \in Docs : handler'[g].todo = {d}
    BY <1>4, <1>5, <2>1 DEF GitIInv, GitAlone, Git!InProgress
  <2>3. startup \in Git!InProgress' =>
          /\ handler'[startup].at = "add"
          /\ ~mixed' => /\ Git!InProgress' = {startup}
                        /\ watched' = {} /\ handler'[startup].changed = Git!visibleGitDirs'
    <3>1. SUFFICES ASSUME startup \in Git!InProgress'
                   PROVE  /\ handler'[startup].at = "add"
                          /\ ~mixed => /\ Git!InProgress' = {startup}
                                       /\ watched' = {} /\ handler'[startup].changed = Git!visibleGitDirs'
      BY <1>3
    <3>2. startup \in Git!InProgress /\ handler'[startup].at = "add"
      BY <3>1, <1>5, <1>7 DEF GitIInv, GitAlone
    <3>3. ASSUME ~mixed
          PROVE  /\ Git!InProgress' = {startup}
                 /\ watched' = {} /\ handler'[startup].changed = Git!visibleGitDirs'
      <4>1. Git!InProgress = {startup} /\ watched = {} /\ handler[startup].changed = Git!visibleGitDirs
        BY <3>2, <3>3 DEF GitIInv, GitAlone
      <4>2. h = startup /\ ~done /\ Git!InProgress' = Git!InProgress
        BY <4>1, <1>5, <3>1
      <4>3. handler[h].at = "add"
        BY <4>2, <3>2, <1>7
      <4>4. QED
        BY <4>1, <4>2, <4>3, <1>2, <1>3, <1>4
    <3>4. QED
      BY <3>2, <3>3
  <2>4. Git!WatchedIsVisible'
    <3>1. SUFFICES ASSUME ~mixed, startup \notin Git!InProgress'
                   PROVE  watched' = Git!visibleGitDirs'
      BY <1>3 DEF Git!WatchedIsVisible
    <3>2. CASE h = startup
      <4>1. /\ watched = {} /\ handler[h].changed = Git!visibleGitDirs /\ handler[h].at = "add"
        BY <3>1, <3>2 DEF GitIInv, GitAlone
      <4>2. done
        BY <3>1, <3>2, <1>5
      <4>3. QED
        BY <4>1, <4>2, <1>3
    <3>3. CASE h # startup
      <4>1. startup \notin Git!InProgress
        BY <3>1, <3>3, <1>5
      <4>2. watched = Git!visibleGitDirs
        BY <4>1, <3>1 DEF GitIInv, GitAlone, Git!WatchedIsVisible
      <4>3. QED
        BY <4>2, <2>1, <3>3, <1>1, <1>3
    <3>4. QED
      BY <3>2, <3>3
  <2>5. \A g \in Handlers \ Git!InProgress' : handler'[g].todo = {}
    BY <1>2, <1>4, <1>5 DEF GitIInv, GitAlone
  <2>6. QED
    BY <2>2, <2>3, <2>4, <2>5 DEF GitAlone
<1>9. GitUntangled'
  <2>1. \A d \in Docs \ entangled' : \A f, g \in Git!InProgress' :
          d \in handler'[f].todo \cap handler'[g].todo => f = g
    BY <1>3, <1>5, <1>7 DEF GitIInv, GitUntangled
  <2>2. \A g \in Git!InProgress' : handler'[g].at = "add" => handler'[g].todo \subseteq open' \cup entangled'
    BY <1>3, <1>5, <1>7 DEF GitIInv, GitUntangled
  <2>3. ASSUME NEW dir \in Dirs, NEW d \in gitDirToDocUris'[dir]
        PROVE  d \in open \cup Git!BeingHandled' \cup entangled
    <3>1. CASE d = doc
      <4>1. CASE handler[h].at = "add"
        BY <3>1, <4>1, <1>1 DEF GitIInv, GitUntangled
      <4>2. CASE handler[h].at = "remove"
        <5>1. DirOf[doc] # dir
          BY <2>3, <3>1, <4>2
        <5>2. d \in gitDirToDocUris[dir]
          BY <2>3, <3>1, <4>2
        <5>3. QED
          BY <5>1, <5>2, <3>1 DEF GitIInv, Git!TypeOK
      <4>3. QED
        BY <4>1, <4>2, <1>1
    <3>2. CASE d # doc
      <4>1. d \in gitDirToDocUris[dir]
        BY <2>3, <3>2
      <4>2. d \in open \cup Git!BeingHandled \cup entangled
        BY <4>1 DEF GitIInv, GitUntangled, Git!VisibleIsOpen
      <4>3. ASSUME NEW g \in Git!InProgress, d \in handler[g].todo
            PROVE  g \in Git!InProgress' /\ d \in handler'[g].todo
        BY <4>3, <3>2, <1>2, <1>4, <1>5 DEF Git!InProgress
      <4>4. QED
        BY <4>2, <4>3 DEF Git!BeingHandled
    <3>3. QED
      BY <3>1, <3>2
  <2>4. QED
    BY <1>3, <2>1, <2>2, <2>3 DEF GitUntangled, Git!VisibleIsOpen
<1>10. QED
  BY <1>6, <1>8, <1>9 DEF GitIInv

LEMMA GitStep ==
  ASSUME GitIInv, [Git!Next]_gitVars
  PROVE  GitIInv'
<1>1. ASSUME NEW h \in Handlers, NEW doc \in Docs, Git!DocumentOpened(h,
             doc) PROVE GitIInv'
  <2>1. Git!Started(h, "add", doc) /\ open' = open \cup {doc} /\ open' \subseteq Docs
    BY <1>1 DEF Git!DocumentOpened, GitIInv, Git!TypeOK
  <2>2. QED
    BY <2>1, GitStarted
<1>2. ASSUME NEW h \in Handlers, NEW doc \in Docs, Git!DocumentClosed(h,
             doc) PROVE GitIInv'
  <2>1. Git!Started(h, "remove", doc) /\ open' = open \ {doc} /\ open' \subseteq Docs
    BY <1>2 DEF Git!DocumentClosed, GitIInv, Git!TypeOK
  <2>2. QED
    BY <2>1, GitStarted
<1>3. ASSUME NEW h \in Handlers, NEW doc \in Docs, NEW changed \in SUBSET Dirs,
             doc \in handler[h].todo, Git!Found(h, doc, changed),
             \/ gitDirToDocUris' = gitDirToDocUris /\ changed = {}
                /\ (DirOf[doc] = NoDir \/ gitDirToDocUris[DirOf[doc]] = {})
             \/ /\ handler[h].at = "add" /\ DirOf[doc] \in Dirs
                /\ gitDirToDocUris' = [gitDirToDocUris EXCEPT ![DirOf[doc]] = @ \cup {doc}]
                /\ changed = IF gitDirToDocUris[DirOf[doc]] = {} THEN {DirOf[doc]} ELSE {}
             \/ /\ handler[h].at = "remove" /\ DirOf[doc] \in Dirs
                /\ gitDirToDocUris[DirOf[doc]] # {}
                /\ gitDirToDocUris' = [gitDirToDocUris EXCEPT ![DirOf[doc]] = @ \ {doc}]
                /\ changed = IF gitDirToDocUris[DirOf[doc]] \subseteq {doc} THEN {DirOf[doc]} ELSE {}
      PROVE  GitIInv'
  <2>1. h \in Git!InProgress /\ handler[h].at \in {"add", "remove"}
    BY <1>3 DEF GitIInv, GitAlone, Git!InProgress
  <2>2. gitDirToDocUris \in [Dirs -> SUBSET Docs]
    BY DEF GitIInv, Git!TypeOK
  <2>3. gitDirToDocUris' \in [Dirs -> SUBSET Docs]
    BY <1>3, <2>2
  <2>4. \A dir \in Dirs : gitDirToDocUris'[dir] \ gitDirToDocUris[dir] \subseteq
           IF handler[h].at = "add" /\ DirOf[doc] = dir THEN {doc} ELSE {}
    BY <1>3, <2>2
  <2>5. handler[h].at = "remove" =>
           \A dir \in Dirs : DirOf[doc] = dir => gitDirToDocUris'[dir] \subseteq gitDirToDocUris[dir] \ {doc}
    BY <1>3, <2>2, DocumentsAssumption
  <2>6. Git!visibleGitDirs' = IF handler[h].at = "add" THEN Git!visibleGitDirs \cup changed
                               ELSE Git!visibleGitDirs \ changed
    BY <1>3, <2>2 DEF Git!visibleGitDirs
  <2>7. QED
    BY <1>3, <2>1, <2>3, <2>4, <2>5, <2>6, GitFound
<1>4. ASSUME NEW h \in Handlers, NEW doc \in Docs, Git!FoundNone(h,
             doc) PROVE GitIInv'
  BY <1>4, <1>3 DEF Git!FoundNone
<1>5. ASSUME NEW h \in Handlers, NEW doc \in Docs, Git!FoundAdded(h,
             doc) PROVE GitIInv'
  BY <1>5, <1>3, DocumentsAssumption DEF Git!FoundAdded
<1>6. ASSUME NEW h \in Handlers, NEW doc \in Docs, Git!FoundUnknown(h,
             doc) PROVE GitIInv'
  BY <1>6, <1>3 DEF Git!FoundUnknown
<1>7. ASSUME NEW h \in Handlers, NEW doc \in Docs, Git!FoundRemoved(h,
             doc) PROVE GitIInv'
  BY <1>7, <1>3, DocumentsAssumption DEF Git!FoundRemoved
<1>8. CASE UNCHANGED gitVars
  BY <1>8 DEF gitVars, GitIInv, GitAlone, GitUntangled, Git!TypeOK,
              Git!InProgress, Git!visibleGitDirs, Git!WatchedIsVisible,
              Git!VisibleIsOpen, Git!BeingHandled
<1>9. QED
  BY <1>1, <1>2, <1>4, <1>5, <1>6, <1>7, <1>8 DEF Git!Next

-----------------------------------------------------------------------------
(* The thread of comments *)

LEMMA ThreadInitially == Threads!Init => ThreadIInv
<1> SUFFICES ASSUME Threads!Init PROVE ThreadIInv
  OBVIOUS
<1> DEFINE first == [id |-> 1, draft |-> FALSE, upd |-> 1]
<1>1. first \in Comments /\ first.id = 1 /\ first.upd = 1
  BY DEF Comments
<1>2. remote = <<first>> /\ DOMAIN remote = {1} /\ remote[1] = first
  BY DEF Threads!Init
<1> HIDE DEF first
<1>3. Threads!Done \in ThreadCalls /\ Threads!Done.at = "idle" /\ Threads!Done.with = <<>>
  BY DEF Threads!Done, ThreadCalls, Threads!NoHunks
<1>4. Threads!NoCmd \in ThreadCommands /\ Threads!NoCmd.kind = "none" /\ ~Threads!NoCmd.ok
  BY DEF Threads!NoCmd, ThreadCommands
<1>5. ThreadTypes
  <2>1. remote \in Seq(Comments) /\ <<>> \in Seq(Comments)
    BY <1>1, <1>2
  <2>2. show \in [Threads!Shows -> ThreadCalls] /\ cmd \in ThreadCommands
    BY <1>3, <1>4 DEF Threads!Init
  <2>3. shown = [comments |-> shown.comments, hunks |-> shown.hunks, edit |-> shown.edit]
    BY DEF Threads!Init
  <2>4. cache \in Int
    BY DEF Threads!Init, Threads!NoHunks
  <2>5. QED
    BY <2>1, <2>2, <2>3, <2>4 DEF Threads!Init, ThreadTypes
<1>6. \A s \in Threads!Shows : show[s] = Threads!Done
  BY DEF Threads!Init
<1>7. Ids(<<>>) = {}
  BY DEF Ids
<1>8. InHand = {}
  BY <1>3, <1>4, <1>6, <1>7 DEF InHand, InCalls, Threads!Init
<1>9. ThreadIds
  BY <1>1, <1>2, <1>8 DEF ThreadIds, Threads!Init
<1>10. Threads!Finding = {}
  BY <1>3, <1>6 DEF Threads!Finding
<1>11. QED
  BY <1>3, <1>4, <1>5, <1>6, <1>9, <1>10 DEF ThreadIInv, ThreadShows,
                                             ThreadUpdates, ThreadHunks,
                                             ThreadCommand, Threads!Init

LEMMA ThreadGoes ==
  ASSUME NEW r \in ThreadCalls, NEW at \in {"idle", "find", "commit", "diff"}
  PROVE  LET s == [r EXCEPT !.at = at] IN
         s \in ThreadCalls /\ s.at = at /\ s.with = r.with /\ s.update = r.update
BY DEF ThreadCalls

\* A call that is called, and one that is over.
LEMMA ThreadCalled ==
  /\ Threads!Done \in ThreadCalls /\ Threads!Done.at = "idle" /\ Threads!Done.with = <<>>
  /\ Threads!Start \in ThreadCalls /\ Threads!Start.at = "find" /\ Threads!Start.with = <<>>
  /\ ~Threads!Start.update
  /\ \A with \in Seq(Comments), update \in BOOLEAN :
       LET r == [Threads!Start EXCEPT !.update = update, !.with = with] IN
       r \in ThreadCalls /\ r.at = "find" /\ r.with = with /\ r.update = update
<1>1. /\ Threads!Done \in ThreadCalls /\ Threads!Done.at = "idle" /\ Threads!Done.with = <<>>
      /\ ~Threads!Done.update
  BY DEF Threads!Done, ThreadCalls, Threads!NoHunks
<1>2. /\ Threads!Start \in ThreadCalls /\ Threads!Start.at = "find" /\ Threads!Start.with = <<>>
      /\ ~Threads!Start.update
  BY <1>1 DEF Threads!Start, ThreadCalls
<1>3. ASSUME NEW with \in Seq(Comments), NEW update \in BOOLEAN
      PROVE  LET r == [Threads!Start EXCEPT !.update = update, !.with = with] IN
       r \in ThreadCalls /\ r.at = "find" /\ r.with = with /\ r.update = update
  BY <1>2 DEF ThreadCalls
<1>4. QED
  BY <1>1, <1>2, <1>3

LEMMA ThreadSet ==
  ASSUME show \in [Threads!Shows -> ThreadCalls], NEW s \in Threads!Shows,
         NEW r \in ThreadCalls, show' = [show EXCEPT ![s] = r]
  PROVE  /\ show' \in [Threads!Shows -> ThreadCalls] /\ show'[s] = r
         /\ \A t \in Threads!Shows \ {s} : show'[t] = show[t]
         /\ Threads!Finding' = (Threads!Finding \ {s})
              \cup (IF r.at = "find" /\ r.update THEN {s} ELSE {})
         /\ InCalls' \subseteq InCalls \cup Ids(r.with) /\ Ids(show[s].with) \subseteq InCalls
<1>1. /\ show' \in [Threads!Shows -> ThreadCalls] /\ show'[s] = r
      /\ \A t \in Threads!Shows \ {s} : show'[t] = show[t]
  OBVIOUS
<1>2. Threads!Finding' = (Threads!Finding \ {s})
              \cup (IF r.at = "find" /\ r.update THEN {s} ELSE {})
  BY <1>1 DEF Threads!Finding
<1>3. ASSUME NEW t \in Threads!Shows
      PROVE  Ids(show'[t].with) \subseteq Ids(show[t].with) \cup Ids(r.with)
  <2>1. CASE t = s
    BY <1>1, <2>1
  <2>2. CASE t # s
    BY <1>1, <2>2
  <2>3. QED
    BY <2>1, <2>2
<1>4. ASSUME NEW id \in InCalls' PROVE id \in InCalls \cup Ids(r.with)
  <2>1. PICK t \in Threads!Shows : id \in Ids(show'[t].with)
    BY <1>4 DEF InCalls
  <2>2. id \in Ids(show[t].with) \/ id \in Ids(r.with)
    BY <1>3, <2>1
  <2>3. QED
    BY <2>2 DEF InCalls
<1>5. Ids(show[s].with) \subseteq InCalls
  BY Zenon DEF InCalls
<1>6. QED
  BY <1>1, <1>2, <1>4, <1>5

\* Nothing is taken in hand that was not.
LEMMA ThreadIdsKept ==
  ASSUME ThreadIInv, known' = known, remote' = remote, made' = made, InHand' \subseteq InHand
  PROVE  ThreadIds'
BY DEF ThreadIInv, ThreadIds

\* One comment is taken out of the thread.
LEMMA TakenOut ==
  ASSUME NEW s \in Seq(Comments), NEW i \in DOMAIN s,
         \A j, k \in DOMAIN s : s[j].id = s[k].id => j = k
  PROVE  LET rest == Threads!Without(s, i) IN
         /\ rest \in Seq(Comments)
         /\ \A j \in DOMAIN rest : \E k \in DOMAIN s : k # i /\ rest[j] = s[k]
         /\ \A j, k \in DOMAIN rest : rest[j].id = rest[k].id => j = k
         /\ s[i].id \notin Ids(rest) /\ Ids(rest) \subseteq Ids(s)
<1> DEFINE rest == Threads!Without(s, i)
           before == SubSeq(s, 1, i - 1)
           after == SubSeq(s, i + 1, Len(s))
<1>1. i \in Nat /\ i >= 1 /\ i <= Len(s) /\ Len(s) \in Nat /\ DOMAIN s = 1..Len(s)
  OBVIOUS
<1>2. /\ before \in Seq(Comments) /\ Len(before) = i - 1
      /\ \A j \in 1..i - 1 : before[j] = s[j]
  BY <1>1
<1>3. /\ after \in Seq(Comments) /\ Len(after) = Len(s) - i
      /\ \A j \in 1..Len(s) - i : after[j] = s[i + j]
  BY <1>1
<1>4. rest = before \o after
  BY DEF Threads!Without, Threads!RemoveAt
<1> HIDE DEF rest, before, after
<1>5. /\ rest \in Seq(Comments) /\ Len(rest) = Len(s) - 1
      /\ \A j \in 1..Len(rest) : rest[j] = IF j < i THEN s[j] ELSE s[j + 1]
  <2>0. rest \in Seq(Comments) /\ Len(rest) = Len(before) + Len(after)
    <3>1. \A a, b \in Seq(Comments) : a \o b \in Seq(Comments) /\ Len(a \o b) = Len(a) + Len(b)
      OBVIOUS
    <3>2. QED
      BY <1>2, <1>3, <1>4, <3>1
  <2>1. rest \in Seq(Comments) /\ Len(rest) = Len(s) - 1
    BY <1>1, <1>2, <1>3, <2>0
  <2>2. ASSUME NEW j \in 1..Len(rest) PROVE rest[j] = IF j < i THEN s[j] ELSE s[j + 1]
    <3>1. CASE j < i
      BY <1>1, <1>2, <1>3, <1>4, <2>1, <3>1
    <3>2. CASE ~(j < i)
      <4>0. rest[j] = IF j <= Len(before) THEN before[j] ELSE after[j - Len(before)]
        <5>1. j \in 1..Len(before) + Len(after)
          BY <2>0
        <5>2. before \in Seq(Comments) /\ after \in Seq(Comments)
          BY <1>2, <1>3
        <5>3. \A k \in 1..Len(before) + Len(after) : (before \o after)[k] =
                IF k <= Len(before) THEN before[k] ELSE after[k - Len(before)]
          BY <5>2, ConcatProperties
        <5>4. QED
          BY <1>4, <5>1, <5>3
      <4>1. rest[j] = after[j - (i - 1)] /\ j - (i - 1) \in 1..Len(s) - i
        BY <1>1, <1>2, <2>1, <3>2, <4>0
      <4>2. after[j - (i - 1)] = s[i + (j - (i - 1))] /\ i + (j - (i - 1)) = j + 1
        BY <1>1, <1>3, <4>1
      <4>3. QED
        BY <3>2, <4>1, <4>2
    <3>3. QED
      BY <3>1, <3>2
  <2>3. QED
    BY <2>1, <2>2
<1>6. DOMAIN rest = 1..Len(s) - 1
  BY <1>5
<1>7. \A j \in DOMAIN rest : LET k == IF j < i THEN j ELSE j + 1 IN
        k \in DOMAIN s /\ k # i /\ rest[j] = s[k]
  BY <1>1, <1>5, <1>6
<1>8. \A j, k \in DOMAIN rest : rest[j].id = rest[k].id => j = k
  <2>1. SUFFICES ASSUME NEW j \in DOMAIN rest, NEW k \in DOMAIN rest, rest[j].id = rest[k].id
                 PROVE  j = k
    OBVIOUS
  <2>2. j \in Int /\ k \in Int
    BY <1>1, <1>6
  <2>3. (IF j < i THEN j ELSE j + 1) = (IF k < i THEN k ELSE k + 1)
    BY <1>7, <2>1
  <2>4. QED
    BY <1>1, <2>2, <2>3
<1>9. s[i].id \notin Ids(rest) /\ Ids(rest) \subseteq Ids(s)
  BY <1>7 DEF Ids
<1>10. QED
  BY <1>5, <1>7, <1>8, <1>9 DEF rest

\* A comment in the thread that was made or updated later than all.
LEMMA ThreadChanged ==
  ASSUME ThreadIInv, NEW s \in Seq(Comments), NEW c \in Comments,
         made' = made + 1, c.upd = made + 1, known' = known, InHand' \subseteq InHand,
         remote' = Append(s, c), Ids(s) \subseteq Ids(remote),
         \A i \in DOMAIN s : \E k \in DOMAIN remote : s[i] = remote[k],
         \A i, j \in DOMAIN s : s[i].id = s[j].id => i = j,
         c.id \notin Ids(s), c.id \in Ids(remote) \/ c.id = made + 1
  PROVE  ThreadIds' /\ remote' \in Seq(Comments) /\ known' # remote'
<1>1. /\ remote \in Seq(Comments) /\ known \in Seq(Comments) /\ made \in Nat
  BY DEF ThreadIInv, ThreadTypes
<1>2. /\ remote' \in Seq(Comments) /\ Len(remote') = Len(s) + 1
      /\ remote'[Len(s) + 1] = c
      /\ \A i \in 1..Len(s) : remote'[i] = s[i]
      /\ Len(s) \in Nat /\ DOMAIN s = 1..Len(s)
      /\ DOMAIN remote' = 1..(Len(s) + 1)
  OBVIOUS
<1>3. \A i \in DOMAIN known : known[i].upd \in Nat /\ known[i].upd <= made
  <2>1. \A i \in DOMAIN known : known[i] \in Comments
    BY <1>1
  <2>2. \A i \in DOMAIN known : known[i].upd \in Nat
    BY <2>1 DEF Comments
  <2>3. QED
    BY <2>2 DEF ThreadIInv, ThreadIds
<1>4. known # remote'
  <2>1. SUFFICES ASSUME known = remote' PROVE FALSE
    OBVIOUS
  <2>2. Len(s) + 1 \in DOMAIN known /\ known[Len(s) + 1] = c
    BY <1>2, <2>1
  <2>3. QED
    BY <1>1, <1>3, <2>2
<1>5. \A i \in DOMAIN remote :
        remote[i].upd \in Nat /\ remote[i].upd <= made /\ remote[i].id \in Nat /\ remote[i].id <= made
  <2>1. \A i \in DOMAIN remote : remote[i] \in Comments
    BY <1>1
  <2>2. \A i \in DOMAIN remote : remote[i].upd \in Nat /\ remote[i].id \in Nat
    BY <2>1 DEF Comments
  <2>3. QED
    BY <2>2 DEF ThreadIInv, ThreadIds
<1>6. c.id \in Nat /\ c.id <= made + 1
  BY <1>1, <1>5 DEF Ids, Comments
<1>7. \A i \in DOMAIN s :
        s[i].upd \in Nat /\ s[i].upd <= made /\ s[i].id \in Nat /\ s[i].id <= made
  BY <1>5
<1>8. \A i \in DOMAIN remote' : remote'[i].upd <= made + 1 /\ remote'[i].id <= made + 1
  BY <1>1, <1>2, <1>6, <1>7
<1>9. \A i, j \in DOMAIN remote' : remote'[i].id = remote'[j].id => i = j
  <2>1. \A i \in DOMAIN s : s[i].id # c.id
    BY DEF Ids
  <2>2. QED
    BY <1>2, <2>1
<1>10. Ids(remote') \subseteq Ids(remote) \cup {made + 1}
  BY <1>2 DEF Ids
<1>11. InHand \subseteq 0..made /\ Ids(remote) \cap InHand \subseteq Ids(known)
  BY DEF ThreadIInv, ThreadIds
<1>12. InHand' \subseteq 0..(made + 1) /\ made + 1 \notin InHand'
  BY <1>1, <1>11
<1>13. ThreadIds'
  <2>1. \A i \in DOMAIN known' : known'[i].upd <= made'
    BY <1>1, <1>3
  <2>2. Ids(remote') \cap InHand' \subseteq Ids(known')
    BY <1>10, <1>11, <1>12
  <2>3. QED
    BY <1>8, <1>9, <1>12, <2>1, <2>2 DEF ThreadIds
<1>14. QED
  BY <1>2, <1>4, <1>13

\* A new comment.
LEMMA ThreadAdded ==
  ASSUME ThreadIInv, NEW c \in Comments, made' = made + 1, c.id = made + 1, c.upd = made + 1,
         remote' = Append(remote, c), known' = known, InHand' \subseteq InHand
  PROVE  ThreadIds' /\ remote' \in Seq(Comments) /\ known' # remote'
<1>1. /\ remote \in Seq(Comments) /\ made \in Nat
      /\ \A i, j \in DOMAIN remote : remote[i].id = remote[j].id => i = j
      /\ \A i \in DOMAIN remote : remote[i].id <= made
  BY DEF ThreadIInv, ThreadTypes, ThreadIds
<1>2. \A i \in DOMAIN remote : remote[i].id \in Nat
  <2>1. \A i \in DOMAIN remote : remote[i] \in Comments
    BY <1>1
  <2>2. QED
    BY <2>1 DEF Comments
<1>3. c.id \notin Ids(remote)
  BY <1>1, <1>2 DEF Ids
<1>4. QED
  BY <1>1, <1>3, ThreadChanged

\* showChanges has returned: the thread is the one to show, with the hunks it
\* was moved by.
LEMMA ThreadDrawn ==
  ASSUME ThreadIInv, NEW s \in Threads!Shows, show[s].at \in {"commit", "diff"},
         NEW h \in Int, NEW failed \in BOOLEAN, Threads!Draw(s, h, failed),
         ~raced => cache' \in {Threads!NoHunks, saved},
         ~raced /\ ~failed /\ changes # <<>> => h = saved, cache' \in Int,
         <<made, remote, known, changes, saved, editing, cmd, crossed, raced>>' =
           <<made, remote, known, changes, saved, editing, cmd, crossed, raced>>
  PROVE  ThreadIInv'
<1>1. /\ made' = made /\ remote' = remote /\ known' = known /\ changes' = changes
      /\ saved' = saved /\ cmd' = cmd /\ crossed' = crossed /\ raced' = raced
  OBVIOUS
<1>2. PICK r \in {Threads!Start, Threads!Done} :
        /\ show' = [show EXCEPT ![s] = r]
        /\ r = Threads!Start <=> s = Threads!Save /\ waiting
        /\ waiting' = (waiting /\ s # Threads!Save)
  <2>1. waiting' = (waiting /\ s # Threads!Save)
    BY DEF Threads!Draw, Threads!Returned
  <2>2. CASE s = Threads!Save /\ waiting
    <3>1. show' = [show EXCEPT ![s] = Threads!Start]
      BY <2>2 DEF Threads!Draw, Threads!Returned, Threads!Return
    <3>2. QED
      BY <2>1, <2>2, <3>1
  <2>3. CASE ~(s = Threads!Save /\ waiting)
    <3>1. show' = [show EXCEPT ![s] = Threads!Done]
      BY <2>3 DEF Threads!Draw, Threads!Returned, Threads!Return
    <3>2. Threads!Done # Threads!Start
      BY ThreadCalled
    <3>3. QED
      BY <2>1, <2>3, <3>1, <3>2
  <2>4. QED
    BY <2>2, <2>3
<1>3. /\ r \in ThreadCalls /\ r.with = <<>> /\ r.at \in {"idle", "find"}
      /\ (r.at = "find" => ~r.update)
      /\ r.at = "idle" => r = Threads!Done
  BY ThreadCalled
<1>4. show \in [Threads!Shows -> ThreadCalls]
  BY DEF ThreadIInv, ThreadTypes
<1>5. /\ show' \in [Threads!Shows -> ThreadCalls] /\ show'[s] = r
      /\ \A t \in Threads!Shows \ {s} : show'[t] = show[t]
      /\ Threads!Finding' = Threads!Finding \ {s}
      /\ InCalls' \subseteq InCalls \cup Ids(<<>>)
  BY <1>2, <1>3, <1>4, ThreadSet
<1>6. /\ shown'.comments = changes /\ gitFailed' = failed /\ late' = FALSE
      /\ changes # <<>> => shown'.hunks = h
      /\ shown' = [comments |-> shown'.comments, hunks |-> shown'.hunks, edit |-> shown'.edit]
  BY DEF Threads!Draw, Threads!Decorated
<1>7. ThreadTypes'
  <2>1. waiting' \in BOOLEAN
    BY <1>2
  <2>2. QED
    BY <1>1, <1>5, <1>6, <2>1 DEF ThreadIInv, ThreadTypes
<1>8. ThreadIds'
  <2>1. Ids(<<>>) = {}
    BY DEF Ids
  <2>2. InHand' \subseteq InHand
    BY <1>1, <1>5, <2>1 DEF InHand
  <2>3. QED
    BY <1>1, <2>2, ThreadIdsKept
<1>9. Threads!Finding' = Threads!Finding
  BY <1>5 DEF Threads!Finding
<1>10. ThreadShows'
  <2>1. \A t \in Threads!Shows : show'[t].at = "idle" => show'[t] = Threads!Done
    BY <1>3, <1>5 DEF ThreadIInv, ThreadShows
  <2>2. waiting' => show'[Threads!Save].at # "idle"
    BY <1>2, <1>5 DEF ThreadIInv, ThreadShows, Threads!Shows
  <2>3. QED
    BY <2>1, <2>2 DEF ThreadShows
<1>11. ThreadUpdates'
  <2>1. \A t \in Threads!Finding : show'[t] = show[t]
    BY <1>5, <1>9 DEF Threads!Finding
  <2>2. QED
    BY <1>1, <1>9, <2>1 DEF ThreadIInv, ThreadUpdates
<1>12. ThreadHunks'
  <2>1. \A t \in Threads!Shows : show'[t].at = "diff" => show[t].at = "diff" /\ show'[t] = show[t]
    BY <1>3, <1>5
  <2>2. QED
    BY <1>1, <1>6, <2>1 DEF ThreadIInv, ThreadHunks
<1>13. ThreadCommand'
  BY <1>1, <1>6 DEF ThreadIInv, ThreadCommand
<1>14. QED
  BY <1>7, <1>8, <1>10, <1>11, <1>12, <1>13 DEF ThreadIInv

\* A call of showChanges goes on.
LEMMA ThreadShowStep ==
  ASSUME ThreadIInv, NEW s \in Threads!Shows, Threads!ShowStep(s)
  PROVE  ThreadIInv'
<1>1. /\ show \in [Threads!Shows -> ThreadCalls] /\ show[s] \in ThreadCalls /\ saved \in Int
      /\ changes \in Seq(Comments) /\ cache \in Int /\ show[s].hunks \in Int
      /\ show[s].with \in Seq(Comments)
  BY DEF ThreadIInv, ThreadTypes, ThreadCalls
<1>2. CASE Threads!CommitMissing(s)
  <2>1. /\ show[s].at = "commit" /\ Threads!Draw(s, Threads!NoHunks, TRUE) /\ cache' = cache
        /\ <<made, remote, known, changes, saved, editing, cmd, crossed, raced>>' =
           <<made, remote, known, changes, saved, editing, cmd, crossed, raced>>
    BY <1>2 DEF Threads!CommitMissing
  <2>2. Threads!NoHunks \in Int
    BY DEF Threads!NoHunks
  <2>3. ~raced => cache' \in {Threads!NoHunks, saved}
    BY <2>1 DEF ThreadIInv, ThreadHunks
  <2>4. QED
    BY <1>1, <2>1, <2>2, <2>3, ThreadDrawn
<1>3. CASE Threads!NoDiffNeeded(s)
  <2>1. /\ show[s].at = "commit" /\ Threads!Draw(s, cache, FALSE) /\ cache' = cache /\ (cache # Threads!NoHunks \/ changes = <<>>)
        /\ <<made, remote, known, changes, saved, editing, cmd, crossed, raced>>' =
           <<made, remote, known, changes, saved, editing, cmd, crossed, raced>>
    BY <1>3 DEF Threads!NoDiffNeeded
  <2>2. ~raced => cache' \in {Threads!NoHunks, saved} /\ (changes # <<>> => cache = saved)
    BY <2>1 DEF ThreadIInv, ThreadHunks
  <2>3. QED
    BY <1>1, <2>1, <2>2, ThreadDrawn
<1>4. CASE Threads!DiffEnds(s)
  <2>1. /\ show[s].at = "diff" /\ Threads!Draw(s, show[s].hunks, FALSE) /\ cache' = show[s].hunks
        /\ <<made, remote, known, changes, saved, editing, cmd, crossed, raced>>' =
           <<made, remote, known, changes, saved, editing, cmd, crossed, raced>>
    BY <1>4 DEF Threads!DiffEnds
  <2>2. ~raced => show[s].hunks = saved
    BY <2>1 DEF ThreadIInv, ThreadHunks
  <2>3. QED
    BY <1>1, <2>1, <2>2, ThreadDrawn
<1>5. CASE Threads!DiffFails(s)
  <2>1. /\ show[s].at = "diff" /\ Threads!Draw(s, Threads!NoHunks, TRUE) /\ cache' = cache
        /\ <<made, remote, known, changes, saved, editing, cmd, crossed, raced>>' =
           <<made, remote, known, changes, saved, editing, cmd, crossed, raced>>
    BY <1>5 DEF Threads!DiffFails
  <2>2. Threads!NoHunks \in Int
    BY DEF Threads!NoHunks
  <2>3. ~raced => cache' \in {Threads!NoHunks, saved}
    BY <2>1 DEF ThreadIInv, ThreadHunks
  <2>4. QED
    BY <1>1, <2>1, <2>2, <2>3, ThreadDrawn
<1>6. CASE Threads!FoundGitDir(s)
  <2> DEFINE r == [show[s] EXCEPT !.at = "commit"]
  <2>1. /\ r \in ThreadCalls /\ r.at = "commit" /\ r.with = show[s].with
    BY <1>1, ThreadGoes
  <2>2. /\ show' = [show EXCEPT ![s] = r] /\ show[s].at = "find"
        /\ changes' = IF show[s].update THEN show[s].with ELSE changes
        /\ <<made, remote, known, saved, cache, waiting, shown, editing, cmd, crossed, raced,
             gitFailed, late>>' =
           <<made, remote, known, saved, cache, waiting, shown, editing, cmd, crossed, raced,
             gitFailed, late>>
    BY <1>6 DEF Threads!FoundGitDir
  <2> HIDE DEF r
  <2>3. /\ show' \in [Threads!Shows -> ThreadCalls] /\ show'[s] = r
        /\ \A t \in Threads!Shows \ {s} : show'[t] = show[t]
        /\ Threads!Finding' = Threads!Finding \ {s}
        /\ InCalls' \subseteq InCalls \cup Ids(show[s].with) /\ Ids(show[s].with) \subseteq InCalls
    BY <1>1, <2>1, <2>2, ThreadSet
  <2>4. ThreadTypes'
    BY <1>1, <2>2, <2>3 DEF ThreadIInv, ThreadTypes
  <2>5. ThreadIds'
    <3>1. Ids(changes') \subseteq Ids(changes) \cup Ids(show[s].with)
      BY <2>2
    <3>2. InHand' \subseteq InHand
      BY <2>2, <2>3, <3>1 DEF InHand
    <3>3. QED
      BY <2>2, <3>2, ThreadIdsKept
  <2>6. ThreadShows'
    BY <2>1, <2>2, <2>3 DEF ThreadIInv, ThreadShows, Threads!Shows
  <2>7. ThreadUpdates'
    <3>1. SUFFICES ASSUME ~crossed PROVE ThreadUpdates'
      BY <2>2 DEF ThreadUpdates
    <3>2. CASE show[s].update
      <4>1. s \in Threads!Finding
        BY <2>2, <3>2 DEF Threads!Finding
      <4>2. Threads!Finding' = {} /\ show[s].with = known
        BY <2>3, <3>1, <4>1 DEF ThreadIInv, ThreadUpdates
      <4>3. QED
        BY <2>2, <3>2, <4>2 DEF ThreadUpdates
    <3>3. CASE ~show[s].update
      <4>1. s \notin Threads!Finding
        BY <3>3 DEF Threads!Finding
      <4>2. /\ Threads!Finding' = Threads!Finding
            /\ \A t \in Threads!Finding : show'[t] = show[t]
        BY <2>3, <4>1 DEF Threads!Finding
      <4>3. QED
        BY <2>2, <3>1, <3>3, <4>2 DEF ThreadIInv, ThreadUpdates
    <3>4. QED
      BY <3>2, <3>3
  <2>8. ThreadHunks'
    <3>1. \A t \in Threads!Shows : show'[t].at = "diff" => show[t].at = "diff" /\ show'[t] = show[t]
      BY <2>1, <2>3
    <3>2. show'[Threads!Save].at = "idle" => show[Threads!Save].at = "idle"
      BY <2>1, <2>3 DEF Threads!Shows
    <3>3. QED
      BY <2>2, <3>1, <3>2 DEF ThreadIInv, ThreadHunks
  <2>9. ThreadCommand'
    BY <2>1, <2>2, <2>3 DEF ThreadIInv, ThreadCommand
  <2>10. QED
    BY <2>4, <2>5, <2>6, <2>7, <2>8, <2>9 DEF ThreadIInv
<1>7. CASE Threads!RunDiff(s)
  <2> DEFINE r == [show[s] EXCEPT !.at = "diff", !.hunks = saved]
  <2>1. /\ r \in ThreadCalls /\ r.at = "diff" /\ r.with = show[s].with /\ r.hunks = saved
    BY <1>1 DEF ThreadCalls
  <2>2. /\ show' = [show EXCEPT ![s] = r] /\ show[s].at = "commit"
        /\ <<made, remote, known, changes, saved, cache, waiting, shown, editing, cmd, crossed,
             raced, gitFailed, late>>' =
           <<made, remote, known, changes, saved, cache, waiting, shown, editing, cmd, crossed,
             raced, gitFailed, late>>
    BY <1>7 DEF Threads!RunDiff
  <2> HIDE DEF r
  <2>3. /\ show' \in [Threads!Shows -> ThreadCalls] /\ show'[s] = r
        /\ \A t \in Threads!Shows \ {s} : show'[t] = show[t]
        /\ Threads!Finding' = Threads!Finding \ {s}
        /\ InCalls' \subseteq InCalls \cup Ids(show[s].with) /\ Ids(show[s].with) \subseteq InCalls
    BY <1>1, <2>1, <2>2, ThreadSet
  <2>4. ThreadTypes'
    BY <1>1, <2>2, <2>3 DEF ThreadIInv, ThreadTypes
  <2>5. ThreadIds'
    <3>1. InHand' \subseteq InHand
      BY <2>2, <2>3 DEF InHand
    <3>2. QED
      BY <2>2, <3>1, ThreadIdsKept
  <2>6. ThreadShows'
    BY <2>1, <2>2, <2>3 DEF ThreadIInv, ThreadShows, Threads!Shows
  <2>7. ThreadUpdates'
    <3>1. s \notin Threads!Finding
      BY <2>2 DEF Threads!Finding
    <3>2. /\ Threads!Finding' = Threads!Finding
          /\ \A t \in Threads!Finding : show'[t] = show[t]
      BY <2>3, <3>1 DEF Threads!Finding
    <3>3. QED
      BY <2>2, <3>2 DEF ThreadIInv, ThreadUpdates
  <2>8. ThreadHunks'
    <3>1. \A t \in Threads!Shows : show'[t].at = "diff" =>
            show'[t].hunks = saved \/ (show[t].at = "diff" /\ show'[t] = show[t])
      BY <2>1, <2>3
    <3>2. show'[Threads!Save].at = "idle" => show[Threads!Save].at = "idle"
      BY <2>1, <2>3 DEF Threads!Shows
    <3>3. QED
      BY <2>2, <3>1, <3>2 DEF ThreadIInv, ThreadHunks
  <2>9. ThreadCommand'
    BY <2>1, <2>2, <2>3 DEF ThreadIInv, ThreadCommand
  <2>10. QED
    BY <2>4, <2>5, <2>6, <2>7, <2>8, <2>9 DEF ThreadIInv
<1>8. QED
  BY <1>2, <1>3, <1>4, <1>5, <1>6, <1>7 DEF Threads!ShowStep

\* The file is saved: what waits for a redraw gets one.
LEMMA ThreadSaved ==
  ASSUME ThreadIInv, Threads!SaveFile
  PROVE  ThreadIInv'
<1>1. /\ <<made, remote, known, changes, shown, editing, cmd, crossed, gitFailed, late>>' =
         <<made, remote, known, changes, shown, editing, cmd, crossed, gitFailed, late>>
      /\ saved' = saved + 1 /\ cache' = Threads!NoHunks
      /\ raced' = \E s \in Threads!Shows : show[s].at = "diff"
  BY DEF Threads!SaveFile
<1>2. /\ show \in [Threads!Shows -> ThreadCalls] /\ Threads!Save \in Threads!Shows
      /\ saved' \in Nat /\ cache' \in Int /\ raced' \in BOOLEAN
  BY <1>1 DEF ThreadIInv, ThreadTypes, Threads!Shows, Threads!NoHunks
<1>3. CASE show[Threads!Save] = Threads!Done
  <2>0. /\ Threads!Start \in ThreadCalls /\ Threads!Start.at = "find"
        /\ Threads!Start.with = <<>> /\ ~Threads!Start.update
    BY ThreadCalled
  <2>1. show' = [show EXCEPT ![Threads!Save] = Threads!Start] /\ waiting' = waiting
    BY <1>3 DEF Threads!SaveFile
  <2>2. /\ show' \in [Threads!Shows -> ThreadCalls] /\ show'[Threads!Save] = Threads!Start
        /\ \A t \in Threads!Shows \ {Threads!Save} : show'[t] = show[t]
        /\ Threads!Finding' = Threads!Finding \ {Threads!Save}
        /\ InCalls' \subseteq InCalls \cup Ids(<<>>)
    BY <1>2, <2>0, <2>1, ThreadSet
  <2>3. ThreadTypes'
    BY <1>1, <1>2, <2>1, <2>2 DEF ThreadIInv, ThreadTypes
  <2>4. ThreadIds'
    <3>1. Ids(<<>>) = {}
      BY DEF Ids
    <3>2. InHand' \subseteq InHand
      BY <1>1, <2>2, <3>1 DEF InHand
    <3>3. QED
      BY <1>1, <3>2, ThreadIdsKept
  <2>5. ThreadShows'
    BY <1>2, <2>1, <2>2, ThreadCalled DEF ThreadIInv, ThreadShows
  <2>6. ThreadUpdates'
    <3>1. /\ Threads!Finding' = Threads!Finding
          /\ \A t \in Threads!Finding : show'[t] = show[t]
      BY <1>3, <2>2, ThreadCalled DEF Threads!Finding
    <3>2. QED
      BY <1>1, <3>1 DEF ThreadIInv, ThreadUpdates
  <2>7. ThreadHunks'
    <3>1. ~raced' => \A t \in Threads!Shows : show'[t].at # "diff"
      BY <1>1, <1>2, <2>2, ThreadCalled
    <3>2. show'[Threads!Save].at # "idle"
      BY <2>2, ThreadCalled
    <3>3. QED
      BY <1>1, <3>1, <3>2 DEF ThreadHunks
  <2>8. ThreadCommand'
    <3>1. show'[Threads!Save].at # "idle"
      BY <2>2, ThreadCalled
    <3>2. QED
      BY <1>1, <1>2, <3>1 DEF ThreadIInv, ThreadCommand
  <2>9. QED
    BY <2>3, <2>4, <2>5, <2>6, <2>7, <2>8 DEF ThreadIInv
<1>4. CASE show[Threads!Save] # Threads!Done
  <2>1. show' = show /\ waiting' = TRUE
    BY <1>4 DEF Threads!SaveFile
  <2>2. Threads!Finding' = Threads!Finding /\ InHand' = InHand
    BY <1>1, <2>1 DEF Threads!Finding, InHand, InCalls
  <2>3. show[Threads!Save].at # "idle"
    BY <1>2, <1>4 DEF ThreadIInv, ThreadShows
  <2>4. ThreadTypes'
    BY <1>1, <1>2, <2>1 DEF ThreadIInv, ThreadTypes
  <2>5. ThreadIds'
    BY <1>1, <2>2, ThreadIdsKept
  <2>6. ThreadShows' /\ ThreadHunks'
    BY <1>1, <2>1, <2>3 DEF ThreadIInv, ThreadShows, ThreadHunks
  <2>7. ThreadUpdates' /\ ThreadCommand'
    BY <1>1, <2>1, <2>2 DEF ThreadIInv, ThreadUpdates, ThreadCommand
  <2>8. QED
    BY <2>4, <2>5, <2>6, <2>7 DEF ThreadIInv
<1>5. QED
  BY <1>3, <1>4

\* An event calls showChanges; an update brings what has been fetched.
LEMMA ThreadCallStarts ==
  ASSUME ThreadIInv, NEW s \in Calls, NEW with \in Seq(Comments), NEW update \in BOOLEAN,
         Threads!Call(s, with, update),
         <<made, remote, changes, saved, cache, waiting, shown, raced, gitFailed, late>>' =
           <<made, remote, changes, saved, cache, waiting, shown, raced, gitFailed, late>>,
         update => with = remote /\ known' = remote /\ crossed' = (Threads!Finding # {}),
         update => cmd' = [cmd EXCEPT !.overtaken = cmd.ok],
         ~update => with = <<>> /\ known' = known /\ crossed' = crossed /\ cmd' = cmd
  PROVE  ThreadIInv'
<1> DEFINE r == [Threads!Start EXCEPT !.update = update, !.with = with]
<1>1. /\ r \in ThreadCalls /\ r.at = "find" /\ r.with = with /\ r.update = update
  BY ThreadCalled
<1>2. /\ show \in [Threads!Shows -> ThreadCalls] /\ s \in Threads!Shows
      /\ show' = [show EXCEPT ![s] = r] /\ show[s] = Threads!Done
      /\ cmd \in ThreadCommands /\ cmd.ok \in BOOLEAN
  BY DEF ThreadIInv, ThreadTypes, Threads!Shows, Threads!Call, ThreadCommands
<1> HIDE DEF r
<1>3. /\ show' \in [Threads!Shows -> ThreadCalls] /\ show'[s] = r
      /\ \A t \in Threads!Shows \ {s} : show'[t] = show[t]
      /\ Threads!Finding' = (Threads!Finding \ {s}) \cup (IF update THEN {s} ELSE {})
      /\ InCalls' \subseteq InCalls \cup Ids(with)
  BY <1>1, <1>2, ThreadSet
<1>4. s \notin Threads!Finding /\ \A t \in Threads!Finding : show'[t] = show[t]
  BY <1>2, <1>3, ThreadCalled DEF Threads!Finding
<1>5. /\ cmd' \in ThreadCommands /\ cmd'.kind = cmd.kind /\ cmd'.id = cmd.id
      /\ cmd'.ok = cmd.ok /\ (update => cmd'.overtaken = cmd.ok)
  <2>1. CASE update
    <3> DEFINE c == [cmd EXCEPT !.overtaken = cmd.ok]
    <3>1. /\ c \in ThreadCommands /\ c.kind = cmd.kind /\ c.id = cmd.id
          /\ c.ok = cmd.ok /\ c.overtaken = cmd.ok
      BY <1>2 DEF ThreadCommands
    <3> HIDE DEF c
    <3>2. cmd' = c
      BY <2>1 DEF c
    <3>3. QED
      BY <3>1, <3>2
  <2>2. CASE ~update
    BY <1>2, <2>2
  <2>3. QED
    BY <2>1, <2>2
<1>6. ThreadTypes'
  BY <1>3, <1>5 DEF ThreadIInv, ThreadTypes
<1>7. ThreadIds'
  <2>1. /\ known \in Seq(Comments) /\ remote \in Seq(Comments) /\ made \in Nat
        /\ \A i \in DOMAIN remote : remote[i] \in Comments
    BY DEF ThreadIInv, ThreadTypes
  <2>2. CASE update
    <3>1. \A i \in DOMAIN known' : known'[i].upd <= made'
      BY <2>2 DEF ThreadIInv, ThreadIds
    <3>2. Ids(with) \subseteq 0..made
      <4>1. \A i \in DOMAIN remote : remote[i].id \in Nat /\ remote[i].id <= made
        BY <2>1 DEF ThreadIInv, ThreadIds, Comments
      <4>2. QED
        BY <2>1, <2>2, <4>1 DEF Ids
    <3>3. InHand' \subseteq InHand \cup Ids(with)
      BY <1>3, <1>5 DEF InHand
    <3>4. InHand' \subseteq 0..made'
      BY <3>2, <3>3 DEF ThreadIInv, ThreadIds
    <3>5. Ids(remote') \subseteq Ids(known')
      BY <2>2
    <3>6. QED
      BY <3>1, <3>4, <3>5 DEF ThreadIInv, ThreadIds
  <2>3. CASE ~update
    <3>1. Ids(with) = {}
      BY <2>3 DEF Ids
    <3>2. InHand' \subseteq InHand
      BY <1>3, <2>3, <3>1 DEF InHand
    <3>3. QED
      BY <2>3, <3>2, ThreadIdsKept
  <2>4. QED
    BY <2>2, <2>3
<1>8. ThreadShows'
  <2>1. \A t \in Threads!Shows : show'[t].at = "idle" => show'[t] = Threads!Done
    BY <1>1, <1>3 DEF ThreadIInv, ThreadShows
  <2>2. waiting' => show'[Threads!Save].at # "idle"
    BY <1>1, <1>3 DEF ThreadIInv, ThreadShows, Threads!Shows
  <2>3. QED
    BY <2>1, <2>2 DEF ThreadShows
<1>9. ThreadUpdates'
  <2>1. CASE update
    BY <1>1, <1>3, <2>1 DEF ThreadUpdates
  <2>2. CASE ~update
    <3>1. Threads!Finding' = Threads!Finding
      BY <1>3, <1>4, <2>2
    <3>2. QED
      BY <1>4, <2>2, <3>1 DEF ThreadIInv, ThreadUpdates
  <2>3. QED
    BY <2>1, <2>2
<1>10. ThreadHunks'
  <2>1. \A t \in Threads!Shows : show'[t].at = "diff" => show[t].at = "diff" /\ show'[t] = show[t]
    BY <1>1, <1>3
  <2>2. show'[Threads!Save].at = "idle" => show[Threads!Save].at = "idle"
    BY <1>1, <1>3 DEF Threads!Shows
  <2>3. QED
    BY <2>1, <2>2 DEF ThreadIInv, ThreadHunks
<1>11. ThreadCommand'
  <2>1. ~ \A t \in Threads!Shows : show'[t].at = "idle"
    BY <1>1, <1>2, <1>3
  <2>2. cmd'.ok /\ ~cmd'.overtaken => known' # remote'
    BY <1>5 DEF ThreadIInv, ThreadCommand
  <2>3. QED
    BY <1>5, <2>1, <2>2 DEF ThreadIInv, ThreadCommand
<1>12. QED
  BY <1>6, <1>7, <1>8, <1>9, <1>10, <1>11 DEF ThreadIInv

LEMMA ThreadCommandRecords ==
  /\ Threads!NoCmd \in ThreadCommands /\ Threads!NoCmd.kind = "none" /\ ~Threads!NoCmd.ok
  /\ LET c == [Threads!NoCmd EXCEPT !.kind = "reply"] IN
       c \in ThreadCommands /\ c.kind = "reply" /\ ~c.ok
  /\ \A id \in Nat, kind \in {"discard", "update"} :
       LET c == [Threads!NoCmd EXCEPT !.kind = kind, !.id = id] IN
         c \in ThreadCommands /\ c.kind = kind /\ c.id = id /\ ~c.ok
  /\ \A d \in ThreadCommands :
       LET c == [d EXCEPT !.ok = TRUE] IN
         c \in ThreadCommands /\ c.kind = d.kind /\ c.id = d.id /\ c.ok /\ c.overtaken = d.overtaken
BY DEF ThreadCommands, Threads!NoCmd

\* A command takes a step that touches no call.
LEMMA ThreadCommandGoes ==
  ASSUME ThreadIInv, NEW c \in ThreadCommands, cmd' = c,
         <<known, changes, saved, cache, show, waiting, crossed, raced, gitFailed>>' =
           <<known, changes, saved, cache, show, waiting, crossed, raced, gitFailed>>,
         made' \in Nat, remote' \in Seq(Comments), late' \in BOOLEAN, ThreadIds',
         shown' = [comments |-> shown'.comments, hunks |-> shown.hunks, edit |-> shown.edit],
         shown.comments = <<>> => shown'.comments = <<>>, ThreadCommand'
  PROVE  ThreadIInv'
<1>1. /\ known' = known /\ changes' = changes /\ saved' = saved /\ cache' = cache
      /\ show' = show /\ waiting' = waiting /\ crossed' = crossed /\ raced' = raced
      /\ gitFailed' = gitFailed
  OBVIOUS
<1>2. shown'.hunks = shown.hunks
  OBVIOUS
<1>3. Threads!Finding' = Threads!Finding
  BY <1>1 DEF Threads!Finding
<1>4. ThreadTypes'
  <2>1. shown' = [comments |-> shown'.comments, hunks |-> shown'.hunks, edit |-> shown'.edit]
    OBVIOUS
  <2>2. QED
    BY <1>1, <2>1 DEF ThreadIInv, ThreadTypes
<1>5. ThreadShows' /\ ThreadUpdates'
  BY <1>1, <1>3 DEF ThreadIInv, ThreadShows, ThreadUpdates
<1>6. ThreadHunks'
  BY <1>1, <1>2 DEF ThreadIInv, ThreadHunks
<1>7. QED
  BY <1>4, <1>5, <1>6 DEF ThreadIInv

LEMMA ThreadAnswered ==
  ASSUME ThreadIInv, Threads!Answered
  PROVE  ThreadIInv'
<1> DEFINE c == [cmd EXCEPT !.ok = TRUE]
<1>1. /\ remote \in Seq(Comments) /\ known \in Seq(Comments) /\ made \in Nat
      /\ cmd \in ThreadCommands /\ late \in BOOLEAN
      /\ shown = [comments |-> shown.comments, hunks |-> shown.hunks, edit |-> shown.edit]
      /\ \A i, j \in DOMAIN remote : remote[i].id = remote[j].id => i = j
  BY DEF ThreadIInv, ThreadTypes, ThreadIds
<1>2. /\ c \in ThreadCommands /\ c.kind = cmd.kind /\ c.id = cmd.id /\ c.ok
      /\ c.overtaken = cmd.overtaken
  BY <1>1, ThreadCommandRecords
<1>3. /\ cmd' = c /\ cmd.kind # "none"
      /\ <<known, changes, saved, cache, show, waiting, shown, crossed, raced, gitFailed, late>>' =
         <<known, changes, saved, cache, show, waiting, shown, crossed, raced, gitFailed, late>>
  BY DEF Threads!Answered
<1> HIDE DEF c
<1>4. InHand' = InHand
  BY <1>2, <1>3 DEF InHand, InCalls
<1>5. made' \in Nat /\ remote' \in Seq(Comments) /\ ThreadIds' /\ known' # remote'
  <2>1. CASE cmd.kind = "reply"
    <3> DEFINE new == [id |-> made + 1, draft |-> TRUE, upd |-> made + 1]
    <3>1. new \in Comments /\ new.id = made + 1 /\ new.upd = made + 1
      BY <1>1 DEF Comments
    <3>2. remote' = Append(remote, new) /\ made' = made + 1
      BY <2>1 DEF Threads!Answered, Threads!Drafted
    <3> HIDE DEF new
    <3>3. QED
      BY <1>1, <1>3, <1>4, <3>1, <3>2, ThreadAdded
  <2>2. CASE cmd.kind # "reply"
    <3>1. PICK i \in DOMAIN remote :
            /\ remote[i].id = cmd.id
            /\ remote' = IF cmd.kind = "discard" THEN Threads!Without(remote, i)
                         ELSE Threads!Updated(remote, i)
      BY <2>2 DEF Threads!Answered, Threads!Drafts
    <3> DEFINE rest == Threads!Without(remote, i)
    <3>2. /\ rest \in Seq(Comments)
          /\ \A j \in DOMAIN rest : \E k \in DOMAIN remote : k # i /\ rest[j] = remote[k]
          /\ \A j, k \in DOMAIN rest : rest[j].id = rest[k].id => j = k
          /\ remote[i].id \notin Ids(rest) /\ Ids(rest) \subseteq Ids(remote)
      BY <1>1, TakenOut
    <3>3. remote[i] \in Comments /\ remote[i].id \in Nat /\ remote[i].id \in Ids(remote)
      <4>1. remote[i] \in Comments
        BY <1>1
      <4>2. QED
        BY <4>1 DEF Comments, Ids
    <3> HIDE DEF rest
    <3>4. CASE cmd.kind = "discard"
      <4>1. remote' = rest /\ made' = made
        BY <3>1, <3>4 DEF rest, Threads!Answered
      <4>2. cmd.id \in Ids(known)
        <5>1. cmd.id \in InHand
          BY <3>4 DEF InHand
        <5>2. QED
          BY <3>1, <3>3, <5>1 DEF ThreadIInv, ThreadIds
      <4>3. known' # remote'
        BY <1>3, <3>1, <3>2, <4>1, <4>2
      <4>4. ThreadIds'
        <5>1. \A j \in DOMAIN remote' : remote'[j].upd <= made' /\ remote'[j].id <= made'
          BY <3>2, <4>1 DEF ThreadIInv, ThreadIds
        <5>2. Ids(remote') \cap InHand' \subseteq Ids(known')
          BY <1>3, <1>4, <3>2, <4>1 DEF ThreadIInv, ThreadIds
        <5>3. QED
          BY <1>3, <1>4, <3>2, <4>1, <5>1, <5>2 DEF ThreadIInv, ThreadIds
      <4>5. QED
        BY <1>1, <3>2, <4>1, <4>3, <4>4
    <3>5. CASE cmd.kind # "discard"
      <4> DEFINE new == [id |-> remote[i].id, draft |-> TRUE, upd |-> made + 1]
      <4>1. new \in Comments /\ new.id = remote[i].id /\ new.upd = made + 1
        BY <1>1, <3>3 DEF Comments
      <4>2. remote' = Append(rest, new) /\ made' = made + 1
        BY <3>1, <3>5 DEF rest, Threads!Updated, Threads!Answered
      <4> HIDE DEF new
      <4>3. \A j \in DOMAIN rest : \E k \in DOMAIN remote : rest[j] = remote[k]
        BY <3>2
      <4>4. ThreadIds' /\ remote' \in Seq(Comments) /\ known' # remote'
        BY <1>3, <1>4, <3>2, <3>3, <4>1, <4>2, <4>3, ThreadChanged
      <4>5. QED
        BY <1>1, <4>2, <4>4
    <3>6. QED
      BY <3>4, <3>5
  <2>3. QED
    BY <2>1, <2>2
<1>6. ThreadCommand'
  BY <1>2, <1>3, <1>5 DEF ThreadCommand
<1>7. QED
  BY <1>1, <1>2, <1>3, <1>5, <1>6, ThreadCommandGoes

\* A command begins or is over.
LEMMA ThreadCommandTurns ==
  ASSUME ThreadIInv, NEW c \in ThreadCommands, cmd' = c, ~c.ok,
         c.kind \in {"discard", "update"} => c.id \in Ids(changes),
         <<made, remote, known, changes, saved, cache, show, waiting, crossed, raced, gitFailed>>' =
           <<made, remote, known, changes, saved, cache, show, waiting, crossed, raced, gitFailed>>,
         late' \in BOOLEAN,
         shown' = [comments |-> shown'.comments, hunks |-> shown.hunks, edit |-> shown.edit],
         shown.comments = <<>> => shown'.comments = <<>>,
         \/ c.kind = "reply"
         \/ shown'.comments = shown.comments /\ cmd.kind # "reply" /\ (late => late')
         \/ shown'.comments = shown.comments /\ cmd.kind = "reply" /\ late'
         \/ known # remote \/ late'
  PROVE  ThreadIInv'
<1>1. /\ made' = made /\ remote' = remote /\ known' = known /\ changes' = changes
      /\ show' = show
  OBVIOUS
<1>2. InHand' \subseteq InHand
  BY <1>1 DEF InHand, InCalls
<1>3. ThreadIds'
  BY <1>1, <1>2, ThreadIdsKept
<1>4. ThreadCommand'
  BY <1>1 DEF ThreadIInv, ThreadCommand
<1>5. made' \in Nat /\ remote' \in Seq(Comments)
  BY <1>1 DEF ThreadIInv, ThreadTypes
<1>6. QED
  BY <1>3, <1>4, <1>5, ThreadCommandGoes

LEMMA ThreadStep ==
  ASSUME ThreadIInv, [Threads!Next]_threadVars
  PROVE  ThreadIInv'
<1>1. /\ remote \in Seq(Comments) /\ changes \in Seq(Comments) /\ made \in Nat
      /\ cmd \in ThreadCommands /\ late \in BOOLEAN
      /\ shown = [comments |-> shown.comments, hunks |-> shown.hunks, edit |-> shown.edit]
  BY DEF ThreadIInv, ThreadTypes
<1>2. CASE Threads!RemoteComment
  <2> DEFINE new == [id |-> made + 1, draft |-> FALSE, upd |-> made + 1]
  <2>1. new \in Comments /\ new.id = made + 1 /\ new.upd = made + 1
    BY <1>1 DEF Comments
  <2>2. /\ remote' = Append(remote, new) /\ made' = made + 1
        /\ <<known, changes, saved, cache, show, waiting, shown, cmd, crossed, raced,
             gitFailed, late>>' =
           <<known, changes, saved, cache, show, waiting, shown, cmd, crossed, raced,
             gitFailed, late>>
    BY <1>2 DEF Threads!RemoteComment, Threads!Published
  <2> HIDE DEF new
  <2>3. InHand' = InHand
    BY <2>2 DEF InHand, InCalls
  <2>4. ThreadIds' /\ remote' \in Seq(Comments) /\ known' # remote'
    BY <2>1, <2>2, <2>3, ThreadAdded
  <2>5. ThreadCommand'
    BY <2>2, <2>4 DEF ThreadIInv, ThreadCommand
  <2>6. QED
    BY <1>1, <2>2, <2>4, <2>5, ThreadCommandGoes
<1>3. CASE Threads!SaveFile
  BY <1>3, ThreadSaved
<1>4. ASSUME NEW s \in Calls, Threads!Fetched(s) PROVE ThreadIInv'
  BY <1>1, <1>4, ThreadCallStarts DEF Threads!Fetched
<1>5. ASSUME NEW s \in Calls, Threads!EditDraft(s) PROVE ThreadIInv'
  <2>1. <<made, remote, known, changes, saved, cache, waiting, shown, cmd, crossed, raced,
          gitFailed, late>>' =
        <<made, remote, known, changes, saved, cache, waiting, shown, cmd, crossed, raced,
          gitFailed, late>>
    BY <1>5 DEF Threads!EditDraft
  <2>2. CASE Threads!Call(s, <<>>, FALSE)
    <3>1. <<>> \in Seq(Comments) /\ FALSE \in BOOLEAN
      OBVIOUS
    <3>2. /\ made' = made /\ remote' = remote /\ known' = known /\ cmd' = cmd /\ crossed' = crossed
          /\ <<made, remote, changes, saved, cache, waiting, shown, raced, gitFailed, late>>' =
             <<made, remote, changes, saved, cache, waiting, shown, raced, gitFailed, late>>
      BY <2>1
    <3>3. QED
      BY <2>2, <3>1, <3>2, ThreadCallStarts
  <2>3. CASE show' = show
    BY <2>1, <2>3 DEF ThreadIInv, ThreadTypes, ThreadIds, ThreadShows,
                      ThreadUpdates, ThreadHunks, ThreadCommand, InHand,
                      InCalls, Threads!Finding
  <2>4. QED
    BY <1>5, <2>2, <2>3 DEF Threads!EditDraft
<1>6. ASSUME NEW s \in Threads!Shows, Threads!ShowStep(s) PROVE ThreadIInv'
  BY <1>6, ThreadShowStep
<1>7. CASE Threads!Reply
  <2> DEFINE c == [Threads!NoCmd EXCEPT !.kind = "reply"]
  <2>1. c \in ThreadCommands /\ c.kind = "reply" /\ ~c.ok
    BY ThreadCommandRecords
  <2>2. /\ cmd' = c /\ shown' = [shown EXCEPT !.comments = Append(@, Threads!Tentative)]
        /\ shown.comments # <<>>
        /\ <<made, remote, known, changes, saved, cache, show, waiting, crossed, raced,
             gitFailed, late>>' =
           <<made, remote, known, changes, saved, cache, show, waiting, crossed, raced,
             gitFailed, late>>
    BY <1>7 DEF Threads!Reply
  <2> HIDE DEF c
  <2>3. shown' = [comments |-> shown'.comments, hunks |-> shown.hunks, edit |-> shown.edit]
    BY <1>1, <2>2
  <2>4. QED
    BY <1>1, <2>1, <2>2, <2>3, ThreadCommandTurns
<1>8. ASSUME NEW kind \in {"discard", "update"},
             Threads!OnDraft(kind) PROVE ThreadIInv'
  <2> DEFINE c == [Threads!NoCmd EXCEPT !.kind = kind, !.id = Threads!LastId(changes)]
  <2>1. Threads!LastId(changes) \in Ids(changes) /\ Threads!LastId(changes) \in Nat
    <3>1. changes # <<>> /\ Len(changes) \in DOMAIN changes
      BY <1>1, <1>8 DEF Threads!OnDraft
    <3>2. Threads!LastId(changes) = changes[Len(changes)].id /\ changes[Len(changes)] \in Comments
      BY <1>1, <3>1 DEF Threads!LastId, Threads!Last
    <3>3. QED
      BY <3>1, <3>2 DEF Ids, Comments
  <2>2. c \in ThreadCommands /\ c.kind = kind /\ c.id = Threads!LastId(changes) /\ ~c.ok
    <3> DEFINE last == Threads!LastId(changes)
    <3>1. last \in Nat
      BY <2>1
    <3> HIDE DEF last
    <3>2. LET d == [Threads!NoCmd EXCEPT !.kind = kind, !.id = last] IN
            d \in ThreadCommands /\ d.kind = kind /\ d.id = last /\ ~d.ok
      BY <3>1 DEF ThreadCommands, Threads!NoCmd
    <3>3. QED
      BY <3>2 DEF last
  <2>3. /\ cmd' = c /\ cmd = Threads!NoCmd
        /\ <<made, remote, known, changes, saved, cache, show, waiting, shown, crossed, raced,
             gitFailed, late>>' =
           <<made, remote, known, changes, saved, cache, show, waiting, shown, crossed, raced,
             gitFailed, late>>
    BY <1>8 DEF Threads!OnDraft
  <2>4. cmd.kind # "reply"
    BY <2>3, ThreadCommandRecords
  <2> HIDE DEF c
  <2>5. QED
    BY <1>1, <2>1, <2>2, <2>3, <2>4, ThreadCommandTurns
<1>9. CASE Threads!Answered
  BY <1>9, ThreadAnswered
<1>10. Threads!NoCmd \in ThreadCommands /\ Threads!NoCmd.kind = "none" /\ ~Threads!NoCmd.ok
  BY ThreadCommandRecords
<1>11. CASE Threads!CommandEnds
  <2>1. /\ cmd' = Threads!NoCmd /\ cmd.ok /\ late' = (late \/ cmd.overtaken)
        /\ <<made, remote, known, changes, saved, cache, show, waiting, crossed, raced, gitFailed>>' =
           <<made, remote, known, changes, saved, cache, show, waiting, crossed, raced, gitFailed>>
        /\ shown.comments = <<>> => shown' = shown
        /\ \/ shown' = shown
           \/ \E comments : shown' = [shown EXCEPT !.comments = comments]
    BY <1>11 DEF Threads!CommandEnds
  <2>2. shown' = [comments |-> shown'.comments, hunks |-> shown.hunks, edit |-> shown.edit]
    BY <1>1, <2>1
  <2>3. known # remote \/ late'
    BY <2>1 DEF ThreadIInv, ThreadCommand
  <2>4. late' \in BOOLEAN
    BY <1>1, <2>1 DEF ThreadCommands
  <2>5. QED
    BY <1>10, <2>1, <2>2, <2>3, <2>4, ThreadCommandTurns
<1>12. CASE Threads!CommandFails
  <2>1. /\ cmd' = Threads!NoCmd /\ late' = (late \/ cmd.kind = "reply")
        /\ <<made, remote, known, changes, saved, cache, show, waiting, shown, crossed, raced,
             gitFailed>>' =
           <<made, remote, known, changes, saved, cache, show, waiting, shown, crossed, raced,
             gitFailed>>
    BY <1>12 DEF Threads!CommandFails
  <2>2. QED
    BY <1>1, <1>10, <2>1, ThreadCommandTurns
<1>13. CASE UNCHANGED threadVars
  BY <1>13 DEF threadVars, ThreadIInv, ThreadTypes, ThreadIds, ThreadShows,
               ThreadUpdates, ThreadHunks, ThreadCommand, InHand, InCalls,
               Threads!Finding
<1>14. QED
  BY <1>2, <1>3, <1>4, <1>5, <1>6, <1>7, <1>8, <1>9, <1>11, <1>12, <1>13
     DEF Threads!Next, Threads!Command, Threads!CommandStep,
         Threads!DiscardDraft, Threads!UpdateDraft

\* Once all is quiet no call and no command is left to explain a difference.
LEMMA ThreadHolds ==
  ASSUME ThreadIInv
  PROVE  Threads!ShownIsKnown /\ Threads!PositionIsCurrent /\ Threads!CommandGivesWay
<1> SUFFICES ASSUME Threads!Quiet
             PROVE  /\ changes = known \/ crossed
                    /\ shown.comments # <<>> => shown.hunks = saved \/ raced \/ gitFailed
                    /\ shown.comments # changes => known # remote \/ late
  BY DEF Threads!ShownIsKnown, Threads!PositionIsCurrent, Threads!CommandGivesWay
<1>1. \A s \in Threads!Shows : show[s].at = "idle"
  BY ThreadCalled DEF Threads!Quiet
<1>2. Threads!Finding = {} /\ cmd.kind # "reply" /\ show[Threads!Save].at = "idle"
  BY <1>1, ThreadCommandRecords DEF Threads!Finding, Threads!Quiet, Threads!Shows
<1>3. QED
  BY <1>1, <1>2 DEF ThreadIInv, ThreadUpdates, ThreadHunks, ThreadCommand

-----------------------------------------------------------------------------
(* Formatting *)

FormatTexts == [edits : Nat, formatted : BOOLEAN]
FormatSteps == {"idle", "ignored", "args", "save", "exec"}
FormatRecords == [step : FormatSteps, doc : FormatDocs \cup {NoDoc}, force : BOOLEAN,
                  args : {"none", "hook", "default"}, asked : Seq(FormatTexts),
                  behind : BOOLEAN]

LEMMA FormatIdle == Format!Idle \in FormatRecords /\ Format!Idle.step = "idle"
BY DEF FormatRecords, FormatSteps, Format!Idle

LEMMA FormatInitially == Format!Init => FormatIInv
<1> SUFFICES ASSUME Format!Init PROVE FormatIInv
  OBVIOUS
<1>1. [edits |-> 0, formatted |-> FALSE] \in FormatTexts
  BY DEF FormatTexts
<1>2. /\ buffer \in [FormatDocs -> FormatTexts] /\ disk = buffer
      /\ call \in [FormatCalls -> FormatRecords]
      /\ \A c \in FormatCalls : call[c].step = "idle"
  BY <1>1, FormatIdle DEF Format!Init
<1>3. {buffer, disk} \subseteq [FormatDocs -> FormatTexts]
  BY <1>2
<1>4. /\ active \in FormatDocs
      /\ argsCache \in [FormatDocs -> {"none", "hook", "default"}]
  BY DEF Format!Init
<1> HIDE DEF Format!Init
<1>5. QED
  BY <1>2, <1>3, <1>4 DEF FormatIInv, FormatRecords, FormatSteps, FormatTexts

LEMMA FormatGoto ==
  ASSUME NEW r \in FormatRecords, NEW step \in FormatSteps
  PROVE  LET s == [r EXCEPT !.step = step] IN
           s \in FormatRecords /\ s.step = step /\ s.doc = r.doc
BY DEF FormatRecords, FormatSteps

LEMMA FormatArgs ==
  ASSUME NEW r \in FormatRecords, NEW args \in {"none", "hook", "default"}
  PROVE  LET s == [r EXCEPT !.step = "save", !.args = args] IN
           s \in FormatRecords /\ s.step = "save" /\ s.doc = r.doc
BY DEF FormatRecords, FormatSteps

LEMMA FormatBehind ==
  ASSUME NEW r \in FormatRecords, NEW b \in BOOLEAN
  PROVE  LET s == [r EXCEPT !.step = "exec", !.behind = b] IN
           s \in FormatRecords /\ s.step = "exec" /\ s.doc = r.doc /\ s.behind = b
BY DEF FormatRecords, FormatSteps

LEMMA FormattedText ==
  ASSUME NEW t \in FormatTexts
  PROVE  LET u == [t EXCEPT !.formatted = TRUE] IN u \in FormatTexts /\ u.edits = t.edits
BY DEF FormatTexts

\* A call goes to a step at which nothing is owed.
LEMMA FormatGoes ==
  ASSUME FormatIInv, NEW c \in FormatCalls, NEW r \in FormatRecords,
         call' = [call EXCEPT ![c] = r], r.step # "idle" => r.doc \in FormatDocs,
         r.step = "exec" /\ ~r.behind => disk'[r.doc].edits = buffer'[r.doc].edits,
         {buffer', disk'} \subseteq [FormatDocs -> FormatTexts],
         \A d \in FormatDocs :
           disk[d].edits = buffer[d].edits => disk'[d].edits = buffer'[d].edits,
         active' = active, argsCache' \in [FormatDocs -> {"none", "hook", "default"}]
  PROVE  FormatIInv'
<1>1. /\ call' \in [FormatCalls -> FormatRecords] /\ call'[c] = r
      /\ \A d \in FormatCalls \ {c} : call'[d] = call[d]
  BY DEF FormatIInv, FormatRecords, FormatSteps, FormatTexts
<1>2. ASSUME NEW d \in FormatCalls
      PROVE  LET doc == call'[d].doc IN
       /\ call'[d].step # "idle" => doc \in FormatDocs
       /\ call'[d].step = "exec" /\ ~call'[d].behind => disk'[doc].edits = buffer'[doc].edits
  <2>1. CASE d = c
    BY <1>1, <2>1
  <2>2. CASE d # c
    <3>1. call'[d] = call[d]
      BY <1>1, <2>2
    <3>2. /\ call[d].step # "idle" => call[d].doc \in FormatDocs
          /\ call[d].step = "exec" /\ ~call[d].behind
               => disk[call[d].doc].edits = buffer[call[d].doc].edits
      BY DEF FormatIInv
    <3>3. QED
      BY <3>1, <3>2
  <2>3. QED
    BY <2>1, <2>2
<1>3. active' \in FormatDocs
  BY DEF FormatIInv
<1>4. QED
  BY <1>1, <1>2, <1>3 DEF FormatIInv, FormatRecords, FormatSteps, FormatTexts

LEMMA FormatStep ==
  ASSUME FormatIInv, [Format!Next]_formatVars
  PROVE  FormatIInv'
<1>1. /\ call \in [FormatCalls -> FormatRecords]
      /\ argsCache \in [FormatDocs -> {"none", "hook", "default"}]
      /\ buffer \in [FormatDocs -> FormatTexts] /\ disk \in [FormatDocs -> FormatTexts]
      /\ active \in FormatDocs
      /\ FormatSteps = {"idle", "ignored", "args", "save", "exec"}
      /\ Format!Idle \in FormatRecords /\ Format!Idle.step = "idle"
      /\ \A c \in FormatCalls : call[c].step # "idle" => call[c].doc \in FormatDocs
  BY DEF FormatIInv, FormatRecords, FormatSteps, FormatTexts, Format!Idle
<1>2. ASSUME NEW d \in FormatDocs, Format!Edit(d) PROVE FormatIInv'
  <2>1. /\ buffer' \in [FormatDocs -> FormatTexts]
        /\ \A e \in FormatDocs \ {d} : buffer'[e] = buffer[e]
    BY <1>1, <1>2 DEF Format!Edit, FormatTexts
  <2>2. disk' = disk /\ active' = active /\ argsCache' = argsCache
    BY <1>2 DEF Format!Edit, Format!caches
  <2>3. ASSUME NEW c \in FormatCalls
        PROVE  /\ call'[c] \in FormatRecords
               /\ call'[c].step = call[c].step /\ call'[c].doc = call[c].doc
               /\ call[c].doc # d => call'[c].behind = call[c].behind
               /\ call[c].doc = d /\ call[c].step = "exec" => call'[c].behind
    <3>1. call[c] \in FormatRecords /\ (call[c].behind \/ call[c].step = "exec") \in BOOLEAN
      BY <1>1
    <3>2. call'[c] = IF call[c].doc = d
                     THEN [call[c] EXCEPT !.behind = call[c].behind \/ call[c].step = "exec"]
                     ELSE call[c]
      BY <1>2 DEF Format!Edit
    <3>3. CASE call[c].doc = d
      <4> DEFINE s == [call[c] EXCEPT !.behind = call[c].behind \/ call[c].step = "exec"]
      <4>1. /\ s \in FormatRecords /\ s.step = call[c].step /\ s.doc = call[c].doc
            /\ s.behind = (call[c].behind \/ call[c].step = "exec")
        BY <3>1 DEF FormatRecords, FormatSteps
      <4> HIDE DEF s
      <4>2. call'[c] = s
        BY <3>2, <3>3 DEF s
      <4>3. QED
        BY <4>1, <4>2, <3>3
    <3>4. CASE call[c].doc # d
      BY <3>1, <3>2, <3>4
    <3>5. QED
      BY <3>3, <3>4
  <2>4. call' \in [FormatCalls -> FormatRecords]
    <3>1. call' = [c \in FormatCalls |-> call'[c]]
      BY <1>2 DEF Format!Edit
    <3>2. QED
      BY <3>1, <2>3
  <2>5. ASSUME NEW c \in FormatCalls
        PROVE  LET doc == call'[c].doc IN
               /\ call'[c].step # "idle" => doc \in FormatDocs
               /\ call'[c].step = "exec" /\ ~call'[c].behind
                    => disk'[doc].edits = buffer'[doc].edits
    <3>1. /\ call[c].step # "idle" => call[c].doc \in FormatDocs
          /\ call[c].step = "exec" /\ ~call[c].behind
               => disk[call[c].doc].edits = buffer[call[c].doc].edits
      BY DEF FormatIInv
    <3>2. QED
      BY <3>1, <2>1, <2>2, <2>3
  <2>6. QED
    BY <1>1, <2>1, <2>2, <2>4, <2>5 DEF FormatIInv, FormatRecords, FormatSteps,
                                        FormatTexts
<1>3. ASSUME NEW d \in FormatDocs, Format!Switch(d) PROVE FormatIInv'
  BY <1>3 DEF FormatIInv, Format!Switch, Format!caches
<1>4. ASSUME Format!ChangeFiles PROVE FormatIInv'
  BY <1>4 DEF FormatIInv, Format!ChangeFiles, Format!caches
<1>5. ASSUME NEW c \in FormatCalls, NEW d \in FormatDocs, NEW force \in BOOLEAN,
             Format!ProvideReplace(c, d, force)
      PROVE  FormatIInv'
  <2> DEFINE step == IF force THEN "args" ELSE "ignored"
             asked == <<buffer[d]>>
             r == [Format!Idle EXCEPT !.step = step, !.doc = d, !.force = force,
                                      !.asked = asked]
  <2>0. asked \in Seq(FormatTexts)
    BY <1>1
  <2>4. step \in FormatSteps /\ step \in {"args", "ignored"}
    BY <1>1
  <2> HIDE DEF step, asked
  <2>5. r \in FormatRecords /\ r.step = step /\ r.doc = d
    BY <2>0, <2>4 DEF FormatRecords, FormatSteps, Format!Idle
  <2>1. /\ r \in FormatRecords /\ r.step \in {"args", "ignored"} /\ r.doc = d
    BY <2>4, <2>5
  <2>2. /\ call' = [call EXCEPT ![c] = r] /\ buffer' = buffer /\ disk' = disk
        /\ active' = active /\ argsCache' = argsCache
    BY <1>5 DEF Format!ProvideReplace, Format!caches, step, asked
  <2> HIDE DEF r
  <2>3. QED
    BY <1>1, <2>1, <2>2, FormatGoes
<1>6. ASSUME NEW c \in FormatCalls, buffer' = buffer, disk' = disk,
             active' = active,
             argsCache' \in [FormatDocs -> {"none", "hook", "default"}],
             \/ Format!Return(c)
             \/ call[c].step # "idle" /\ Format!Goto(c, "args")
             \/ call[c].step # "idle" /\ \E args \in {"none", "hook", "default"} :
                  call' = [call EXCEPT ![c].step = "save", ![c].args = args]
      PROVE  FormatIInv'
  <2>1. call[c] \in FormatRecords
    BY <1>1
  <2>2. PICK r \in FormatRecords :
          /\ call' = [call EXCEPT ![c] = r] /\ r.step # "exec"
          /\ r.step # "idle" => r.doc \in FormatDocs
    <3>1. CASE Format!Return(c)
      BY <1>1, <3>1 DEF Format!Return
    <3>2. CASE call[c].step # "idle" /\ Format!Goto(c, "args")
      <4> DEFINE r == [call[c] EXCEPT !.step = "args"]
      <4>1. r \in FormatRecords /\ r.step = "args" /\ r.doc = call[c].doc
        BY <2>1, FormatGoto DEF FormatSteps
      <4>2. call' = [call EXCEPT ![c] = r]
        BY <3>2 DEF Format!Goto
      <4> HIDE DEF r
      <4>3. QED
        BY <4>1, <4>2, <1>1, <3>2
    <3>3. ASSUME NEW args \in {"none", "hook", "default"}, call[c].step # "idle",
                 call' = [call EXCEPT ![c].step = "save", ![c].args = args]
          PROVE  \E r \in FormatRecords :
                   /\ call' = [call EXCEPT ![c] = r] /\ r.step # "exec"
                   /\ r.step # "idle" => r.doc \in FormatDocs
      <4> DEFINE r == [call[c] EXCEPT !.step = "save", !.args = args]
      <4>1. r \in FormatRecords /\ r.step = "save" /\ r.doc = call[c].doc
        BY <2>1, FormatArgs
      <4>2. call' = [call EXCEPT ![c] = r]
        BY <3>3
      <4> HIDE DEF r
      <4>3. QED
        BY <4>1, <4>2, <1>1, <3>3
    <3>4. QED
      BY <1>6, <3>1, <3>2, <3>3
  <2>3. QED
    BY <1>1, <1>6, <2>2, FormatGoes
<1>7. ASSUME NEW c \in FormatCalls, Format!IsPresubmitignored(c) PROVE FormatIInv'
  BY <1>1, <1>6, <1>7 DEF Format!IsPresubmitignored, Format!At
<1>8. ASSUME NEW c \in FormatCalls, NEW args \in {"none", "hook", "default"},
             call[c].step # "idle", Format!WithArgs(c, args),
             buffer' = buffer, disk' = disk, active' = active
      PROVE  FormatIInv'
  <2>1. argsCache' \in [FormatDocs -> {"none", "hook", "default"}]
    BY <1>1, <1>8 DEF Format!WithArgs
  <2>2. QED
    BY <1>6, <1>8, <2>1 DEF Format!WithArgs
<1>9. ASSUME NEW c \in FormatCalls, Format!CachedArgs(c) PROVE FormatIInv'
  BY <1>1, <1>8, <1>9 DEF Format!CachedArgs, Format!At
<1>10. ASSUME NEW c \in FormatCalls, Format!ForcedArgs(c) PROVE FormatIInv'
  BY <1>8, <1>10 DEF Format!ForcedArgs, Format!At
<1>11. ASSUME NEW c \in FormatCalls, Format!ConstructArgs(c) PROVE FormatIInv'
  BY <1>1, <1>6, <1>8, <1>11 DEF Format!ConstructArgs, Format!At
<1>12. ASSUME NEW c \in FormatCalls, Format!Save(c) PROVE FormatIInv'
  <2>1. /\ disk' \in [FormatDocs -> FormatTexts] /\ call[c] \in FormatRecords
        /\ call[c].doc \in FormatDocs
        /\ \A d \in FormatDocs : disk'[d] = IF d = active THEN buffer[d] ELSE disk[d]
        /\ buffer' = buffer /\ active' = active /\ argsCache' = argsCache
    BY <1>1, <1>12 DEF Format!Save, Format!At, Format!caches
  <2> DEFINE b == disk'[call[c].doc] # buffer[call[c].doc]
             r == [call[c] EXCEPT !.step = "exec", !.behind = b]
  <2>0. b \in BOOLEAN
    OBVIOUS
  <2> HIDE DEF b
  <2>2. /\ r \in FormatRecords /\ r.step = "exec" /\ r.doc = call[c].doc /\ r.behind = b
    <3>1. call[c] \in FormatRecords
      BY <2>1
    <3>2. QED
      BY <2>0, <3>1, FormatBehind
  <2>3. call' = [call EXCEPT ![c] = r]
    BY <1>12 DEF Format!Save, b
  <2> HIDE DEF r
  <2>4. \A d \in FormatDocs :
           disk[d].edits = buffer[d].edits => disk'[d].edits = buffer'[d].edits
    BY <2>1
  <2>5. QED
    BY <1>1, <2>1, <2>2, <2>3, <2>4, FormatGoes DEF b
<1>13. ASSUME NEW c \in FormatCalls, Format!ExitUnchanged(c) PROVE FormatIInv'
  BY <1>1, <1>6, <1>13 DEF Format!ExitUnchanged, Format!caches
<1>14. ASSUME NEW c \in FormatCalls, Format!ExitFailed(c) PROVE FormatIInv'
  BY <1>1, <1>6, <1>14 DEF Format!ExitFailed, Format!caches
<1>15. ASSUME NEW c \in FormatCalls, Format!ExitChanged(c) PROVE FormatIInv'
  <2>1. /\ call[c].doc \in FormatDocs /\ call' = [call EXCEPT ![c] = Format!Idle]
        /\ disk' = disk /\ active' = active /\ argsCache' = argsCache
        /\ \/ buffer' = buffer
           \/ buffer' = [buffer EXCEPT ![call[c].doc] = [disk[call[c].doc] EXCEPT !.formatted = TRUE]]
    BY <1>1, <1>15 DEF Format!ExitChanged, Format!At, Format!Return, Format!caches
  <2>2. /\ [disk[call[c].doc] EXCEPT !.formatted = TRUE] \in FormatTexts
        /\ [disk[call[c].doc] EXCEPT !.formatted = TRUE].edits = disk[call[c].doc].edits
    <3>1. disk[call[c].doc] \in FormatTexts
      BY <1>1, <2>1
    <3>2. QED
      BY <3>1, FormattedText
  <2>3. /\ buffer' \in [FormatDocs -> FormatTexts]
        /\ \A d \in FormatDocs :
             disk[d].edits = buffer[d].edits => disk'[d].edits = buffer'[d].edits
    BY <1>1, <2>1, <2>2
  <2>4. /\ {buffer', disk'} \subseteq [FormatDocs -> FormatTexts]
        /\ argsCache' \in [FormatDocs -> {"none", "hook", "default"}]
    BY <1>1, <2>1, <2>3
  <2>5. QED
    BY <2>1, <2>3, <2>4, FormatIdle, FormatGoes
<1>16. CASE UNCHANGED formatVars
  BY <1>16 DEF formatVars, FormatIInv
<1>17. QED
  BY <1>2, <1>3, <1>4, <1>5, <1>7, <1>9, <1>10, <1>11, <1>12, <1>13, <1>14,
     <1>15, <1>16 DEF Format!Next

\* Only a formatted file replaces a document, and has all that is in it.
LEMMA FormatKeeps ==
  ASSUME FormatIInv, Format!Next, NEW d \in FormatDocs, buffer'[d].edits < buffer[d].edits
  PROVE  \E c \in FormatCalls : call[c].doc = d /\ call[c].behind
<1>1. buffer \in [FormatDocs -> FormatTexts] /\ disk \in [FormatDocs -> FormatTexts]
  BY DEF FormatIInv, FormatTexts
<1>2. ASSUME NEW e \in FormatDocs, Format!Edit(e) PROVE FALSE
  <2>1. buffer'[d] = IF d = e THEN [edits |-> buffer[d].edits + 1, formatted |-> FALSE]
                     ELSE buffer[d]
    BY <1>1, <1>2 DEF Format!Edit
  <2>2. buffer[d].edits \in Nat
    BY <1>1 DEF FormatTexts
  <2>3. QED
    BY <2>1, <2>2
<1>3. ASSUME buffer' = buffer PROVE FALSE
  <2>1. buffer[d].edits \in Nat
    BY <1>1 DEF FormatTexts
  <2>2. QED
    BY <2>1, <1>3
<1>4. ASSUME NEW c \in FormatCalls, Format!ExitChanged(c)
      PROVE  call[c].doc = d /\ call[c].behind
  <2>1. /\ call[c].step = "exec" /\ call[c].doc \in FormatDocs
        /\ call[c].behind \/ disk[call[c].doc].edits = buffer[call[c].doc].edits
    BY <1>4 DEF FormatIInv, Format!ExitChanged, Format!At
  <2>2. buffer'[d] = IF d = call[c].doc THEN [disk[d] EXCEPT !.formatted = TRUE] ELSE buffer[d]
    BY <1>3, <1>4, <1>1 DEF Format!ExitChanged
  <2>3. disk[d].edits \in Nat /\ buffer[d].edits \in Nat /\ [disk[d] EXCEPT !.formatted = TRUE].edits = disk[d].edits
    BY <1>1 DEF FormatTexts
  <2>4. call[c].behind \in BOOLEAN
    BY DEF FormatIInv
  <2>5. QED
    BY <2>1, <2>2, <2>3, <2>4
<1>5. ASSUME NEW c \in FormatCalls,
             \/ Format!IsPresubmitignored(c) \/ Format!CachedArgs(c) \/ Format!ForcedArgs(c)
             \/ Format!ConstructArgs(c) \/ Format!Save(c) \/ Format!ExitUnchanged(c)
             \/ Format!ExitFailed(c)
      PROVE  buffer' = buffer
  BY <1>5 DEF Format!IsPresubmitignored, Format!CachedArgs, Format!ForcedArgs,
              Format!ConstructArgs, Format!Save, Format!ExitUnchanged,
              Format!ExitFailed
<1>6. ASSUME NEW c \in FormatCalls, NEW e \in FormatDocs, NEW force \in BOOLEAN,
             Format!ProvideReplace(c, e, force)
      PROVE  buffer' = buffer
  BY <1>6 DEF Format!ProvideReplace
<1>7. ASSUME NEW e \in FormatDocs, Format!Switch(e) PROVE buffer' = buffer
  BY <1>7 DEF Format!Switch
<1>8. ASSUME Format!ChangeFiles PROVE buffer' = buffer
  BY <1>8 DEF Format!ChangeFiles
<1>9. QED
  BY <1>2, <1>3, <1>4, <1>5, <1>6, <1>7, <1>8 DEF Format!Next
-----------------------------------------------------------------------------
(* The default formatter *)

LEMMA DefaultInitially == Default!Init => DefaultIInv
BY DEF Default!Init, DefaultIInv, DefaultSteps

LEMMA DefaultGoes ==
  ASSUME DefaultIInv, NEW a \in Additions, NEW step \in DefaultSteps, Default!Goto(a, step),
         chosen => step \notin {"find to set", "set"},
         chosen' = chosen, hasBeenSet => hasBeenSet'
  PROVE  DefaultIInv'
<1>1. addition \in [Additions -> DefaultSteps] /\ addition' = [addition EXCEPT ![a] = step]
  BY DEF DefaultIInv, Default!Goto
<1>2. QED
  BY <1>1 DEF DefaultIInv

LEMMA DefaultStep ==
  ASSUME DefaultIInv, [Default!Next]_defaultVars
  PROVE  DefaultIInv'
<1>1. {"new", "find to set", "find to ask", "set", "mark", "ask", "ask always", "done"} = DefaultSteps
  BY DEF DefaultSteps
<1> USE DEF Default!settings, Default!At
<1>2. ASSUME NEW a \in Additions, Default!Added(a) PROVE DefaultIInv'
  <2>1. hasBeenSet' = hasBeenSet /\ chosen' = chosen
    BY <1>2 DEF Default!Added
  <2>2. CASE Default!Goto(a, "done") \/ Default!Goto(a, "find to ask")
    BY <1>1, <2>1, <2>2, DefaultGoes
  <2>3. CASE ~hasBeenSet /\ Default!Goto(a, "find to set")
    <3>1. ~chosen
      BY <2>3 DEF DefaultIInv
    <3>2. QED
      BY <1>1, <2>1, <2>3, <3>1, DefaultGoes
  <2>4. QED
    BY <1>2, <2>2, <2>3 DEF Default!Added
<1>3. ASSUME NEW a \in Additions,
             \/ Default!NoCrOSFolder(a) \/ Default!Dismiss(a) \/ Default!MarkSet(a)
             \/ Default!AnswerNoMore(a) \/ \E yes \in BOOLEAN : Default!AnswerAlways(a, yes)
      PROVE  DefaultIInv'
  <2>1. Default!Goto(a, "done") /\ chosen' = chosen /\ (hasBeenSet => hasBeenSet')
    <3>1. CASE Default!MarkSet(a)
      BY <3>1 DEF Default!MarkSet
    <3>2. CASE Default!AnswerNoMore(a)
      BY <3>2 DEF Default!AnswerNoMore
    <3>3. ASSUME NEW yes \in BOOLEAN, Default!AnswerAlways(a, yes)
          PROVE  Default!Goto(a, "done") /\ chosen' = chosen /\ hasBeenSet' = hasBeenSet
      BY <3>3 DEF Default!AnswerAlways
    <3>4. CASE Default!NoCrOSFolder(a)
      BY <3>4 DEF Default!NoCrOSFolder
    <3>6. CASE Default!Dismiss(a)
      BY <3>6 DEF Default!Dismiss
    <3>5. QED
      BY <1>3, <3>1, <3>2, <3>3, <3>4, <3>6
  <2>2. QED
    BY <1>1, <2>1, DefaultGoes
<1>4. ASSUME NEW a \in Additions, Default!HasCrOSFolder(a) PROVE DefaultIInv'
  <2>1. hasBeenSet' = hasBeenSet /\ chosen' = chosen
    BY <1>4 DEF Default!HasCrOSFolder
  <2>2. CASE Default!At(a, "find to set") /\ Default!Goto(a, "set")
    <3>1. ~chosen
      BY <2>2 DEF DefaultIInv
    <3>2. QED
      BY <1>1, <2>1, <2>2, <3>1, DefaultGoes
  <2>3. CASE Default!Goto(a, "ask")
    BY <1>1, <2>1, <2>3, DefaultGoes
  <2>4. QED
    BY <1>4, <2>2, <2>3 DEF Default!HasCrOSFolder
<1>5. ASSUME NEW a \in Additions,
             Default!SetDefault(a) \/ Default!AnswerYes(a) PROVE DefaultIInv'
  <2>1. hasBeenSet' = hasBeenSet /\ chosen' = chosen
    BY <1>5 DEF Default!SetDefault, Default!AnswerYes
  <2>2. \/ Default!Goto(a, "mark") \/ Default!Goto(a, "done") \/ Default!Goto(a, "ask always")
    BY <1>5 DEF Default!SetDefault, Default!AnswerYes
  <2>3. QED
    BY <1>1, <2>1, <2>2, DefaultGoes
<1>6. ASSUME Default!Choose PROVE DefaultIInv'
  <2>1. addition' = addition /\ hasBeenSet' = hasBeenSet
        /\ chosen' = (hasBeenSet /\ Default!Underway = {})
    BY <1>6 DEF Default!Choose
  <2>2. ASSUME chosen', NEW a \in Additions PROVE addition[a] \in {"new", "done"}
    BY <2>1, <2>2 DEF Default!Underway
  <2>3. QED
    BY <2>1, <2>2 DEF DefaultIInv
<1>7. ASSUME Default!SwitchAlways PROVE DefaultIInv'
  BY <1>7 DEF Default!SwitchAlways, DefaultIInv
<1>8. CASE UNCHANGED defaultVars
  BY <1>8 DEF defaultVars, DefaultIInv
<1>9. QED
  BY <1>2, <1>3, <1>4, <1>5, <1>6, <1>7, <1>8 DEF Default!Next

\* What sets the formatter is the user's answer, or an addition at "set".
LEMMA DefaultStands ==
  ASSUME DefaultIInv, Default!Next, chosen, defaultFormatter = "other",
         defaultFormatter' = "chromiumide"
  PROVE  \E a \in Additions : Default!AnswerYes(a)
<1>1. ASSUME NEW a \in Additions
      PROVE  ~Default!SetDefault(a)
  BY DEF DefaultIInv, Default!SetDefault, Default!At
<1>2. QED
  BY <1>1 DEF Default!Next, Default!Added, Default!NoCrOSFolder,
              Default!Dismiss, Default!HasCrOSFolder, Default!MarkSet,
              Default!AnswerNoMore, Default!AnswerAlways, Default!Choose,
              Default!SwitchAlways, Default!settings

-----------------------------------------------------------------------------
(* Builds on save *)
BuildRecords == [does : {"build", "deploy"}, of : Watches \cup {Once}, label : Labels, saves : Nat]
BuildTypes ==
  /\ saves \in Nat /\ watch \in Watches \cup {0} /\ process \subseteq BuildRecords
  /\ hasBeenANewSave \in [Watches -> [Labels -> BOOLEAN]]
  /\ isBuilding \in [Watches -> [Labels -> BOOLEAN]]
  /\ tried \in [Watches -> [Labels -> Nat]]

\* A watch has one process of a label if it builds it, and none before it is
\* called.
OneBuild(w, l) ==
  /\ isBuilding[w][l] <=> Build!Builds(w, l) # {}
  /\ \A p, q \in Build!Builds(w, l) : p = q
  /\ w > watch => ~isBuilding[w][l]

\* The last save is in what was built, or is being built, or is remembered.
LastSaveIsIn(w, l) ==
  w = watch =>
    /\ ~isBuilding[w][l] => tried[w][l] = saves
    /\ ~hasBeenANewSave[w][l] => \A p \in Build!Builds(w, l) : p.saves = saves

BuildIInv ==
  BuildTypes /\ \A w \in Watches, l \in Labels : OneBuild(w, l) /\ LastSaveIsIn(w, l)

USE BuildAssumption

LEMMA BuildInitially == Build!Init => BuildIInv
BY DEF Build!Init, BuildIInv, BuildTypes, OneBuild, LastSaveIsIn, Build!Builds

\* Processes of build l of watch w are started, for a save that is the last.
LEMMA BuildStarts ==
  ASSUME NEW w, NEW ls \in SUBSET Labels, NEW v \in Watches, NEW l \in Labels,
         Build!BuildChromeDir(w, ls)
  PROVE  Build!Builds(v, l)' = Build!Builds(v, l) \cup
           (IF v = w /\ l \in ls
            THEN {[does |-> "build", of |-> w, label |-> l, saves |-> saves']} ELSE {})
BY DEF Build!BuildChromeDir, Build!Builds

LEMMA WatchStep ==
  ASSUME BuildIInv, NEW w \in Watches, Build!WatchBuild(w)
  PROVE  BuildIInv'
<1>1. /\ w = watch + 1 /\ watch' = w /\ saves' = saves /\ tried' = tried
      /\ hasBeenANewSave' = hasBeenANewSave /\ watch \in Nat /\ w \in Nat
      /\ isBuilding' = [isBuilding EXCEPT ![w] = [l \in Labels |-> TRUE]]
      /\ Build!BuildChromeDir(w, Labels)
  BY DEF Build!WatchBuild, Build!flags, BuildIInv, BuildTypes
<1>2. BuildTypes'
  BY <1>1 DEF BuildIInv, BuildTypes, BuildRecords, Build!BuildChromeDir
<1>3. ASSUME NEW v \in Watches, NEW l \in Labels
      PROVE  (OneBuild(v, l) /\ LastSaveIsIn(v, l))'
  <2>1. v \in Nat /\ OneBuild(v, l) /\ LastSaveIsIn(v, l)
    BY DEF BuildIInv
  <2>2. CASE v = w
    <3>1. Build!Builds(v, l) = {}
      BY <1>1, <2>1, <2>2 DEF OneBuild
    <3> DEFINE next == [does |-> "build", of |-> w, label |-> l, saves |-> saves']
    <3>2. Build!Builds(v, l)' = {next} /\ next.saves = saves'
      BY <1>1, <2>2, <3>1, BuildStarts
    <3>3. isBuilding'[v][l]
      BY <1>1, <2>2 DEF BuildIInv, BuildTypes
    <3> HIDE DEF next
    <3>4. QED
      BY <1>1, <2>2, <3>2, <3>3 DEF OneBuild, LastSaveIsIn
  <2>3. CASE v # w
    <3>1. Build!Builds(v, l)' = Build!Builds(v, l)
      BY <1>1, <2>3, BuildStarts
    <3>2. isBuilding'[v][l] = isBuilding[v][l]
      BY <1>1, <2>3 DEF BuildIInv, BuildTypes
    <3>3. QED
      BY <1>1, <2>1, <2>3, <3>1, <3>2 DEF OneBuild, LastSaveIsIn
  <2>4. QED
    BY <2>2, <2>3
<1>4. QED
  BY <1>2, <1>3 DEF BuildIInv

LEMMA SaveStep ==
  ASSUME BuildIInv, Build!OnSave
  PROVE  BuildIInv'
<1> DEFINE idle == {l \in Labels : ~isBuilding[watch][l]}
<1>1. /\ saves' = saves + 1 /\ watch' = watch /\ tried' = tried /\ saves \in Nat
      /\ watch \in Watches \cup {0}
  BY DEF Build!OnSave, BuildIInv, BuildTypes
<1>2. CASE watch = 0
  <2>1. /\ process' = process /\ isBuilding' = isBuilding
        /\ hasBeenANewSave' = hasBeenANewSave
    BY <1>2 DEF Build!OnSave, Build!flags
  <2>2. \A v \in Watches, l \in Labels : Build!Builds(v, l)' = Build!Builds(v, l)
    BY <2>1 DEF Build!Builds
  <2>3. QED
    BY <1>1, <1>2, <2>1, <2>2 DEF BuildIInv, BuildTypes, OneBuild, LastSaveIsIn
<1>3. CASE watch \in Watches
  <2>1. /\ hasBeenANewSave' = [hasBeenANewSave EXCEPT ![watch] = [l \in Labels |-> l \notin idle]]
        /\ isBuilding' = [isBuilding EXCEPT ![watch] = [l \in Labels |-> TRUE]]
        /\ Build!BuildChromeDir(watch, idle)
    BY <1>3 DEF Build!OnSave
  <2>2. BuildTypes'
    BY <1>1, <1>3, <2>1 DEF BuildIInv, BuildTypes, BuildRecords,
                            Build!BuildChromeDir
  <2>3. ASSUME NEW v \in Watches, NEW l \in Labels
        PROVE  (OneBuild(v, l) /\ LastSaveIsIn(v, l))'
    <3>1. v \in Nat /\ OneBuild(v, l) /\ LastSaveIsIn(v, l)
      BY DEF BuildIInv
    <3>2. CASE v = watch
      <4>1. isBuilding'[v][l] /\ (hasBeenANewSave'[v][l] <=> isBuilding[v][l])
        BY <1>3, <2>1, <3>2 DEF BuildIInv, BuildTypes
      <4> DEFINE next == [does |-> "build", of |-> v, label |-> l, saves |-> saves']
      <4>2. /\ next.saves = saves'
            /\ Build!Builds(v, l)' = IF isBuilding[v][l] THEN Build!Builds(v, l) ELSE {next}
        BY <2>1, <3>1, <3>2, BuildStarts DEF OneBuild
      <4> HIDE DEF next
      <4>3. QED
        BY <1>1, <3>1, <3>2, <4>1, <4>2 DEF OneBuild, LastSaveIsIn
    <3>3. CASE v # watch
      <4>0. idle \in SUBSET Labels /\ Build!BuildChromeDir(watch, idle)
        BY <2>1
      <4> HIDE DEF idle
      <4>1. Build!Builds(v, l)' = Build!Builds(v, l)
        BY <3>3, <4>0, BuildStarts
      <4> USE DEF idle
      <4>2. isBuilding'[v][l] = isBuilding[v][l]
        BY <2>1, <3>3 DEF BuildIInv, BuildTypes
      <4>3. QED
        BY <1>1, <3>1, <3>3, <4>1, <4>2 DEF OneBuild, LastSaveIsIn
    <3>4. QED
      BY <3>2, <3>3
  <2>4. QED
    BY <2>2, <2>3 DEF BuildIInv
<1>4. QED
  BY <1>1, <1>2, <1>3

\* The last process of a build has ended, and the next is started if a save
\* is remembered.
LEMMA CallbackStep ==
  ASSUME BuildIInv, NEW p \in process, NEW tasks, Build!Callback(p, tasks),
         saves' = saves, watch' = watch
  PROVE  BuildIInv'
<1>1. p \in BuildRecords
  BY DEF BuildIInv, BuildTypes
<1>2. CASE p.of = Once
  <2>1. /\ process' = process \ {p} /\ isBuilding' = isBuilding /\ tried' = tried
        /\ hasBeenANewSave' = hasBeenANewSave
    BY <1>2 DEF Build!Callback, Build!flags
  <2>2. \A v \in Watches, l \in Labels : Build!Builds(v, l)' = Build!Builds(v, l)
    BY <1>2, <2>1 DEF Build!Builds
  <2>3. QED
    BY <2>1, <2>2 DEF BuildIInv, BuildTypes, OneBuild, LastSaveIsIn
<1>3. CASE p.of \in Watches
  <2> DEFINE w == p.of
             m == p.label
             next == [does |-> "build", of |-> w, label |-> m, saves |-> saves]
             again == hasBeenANewSave[w][m]
  <2>1. /\ w \in Watches /\ m \in Labels /\ p \in Build!Builds(w, m)
        /\ again \in BOOLEAN /\ p.saves \in Nat /\ next \in BuildRecords
    <3>1. w \in Watches /\ m \in Labels /\ p.saves \in Nat
      BY <1>1, <1>3 DEF BuildRecords
    <3>2. next \in BuildRecords
      BY <3>1 DEF BuildIInv, BuildTypes, BuildRecords
    <3>3. again \in BOOLEAN
      <4>1. hasBeenANewSave \in [Watches -> [Labels -> BOOLEAN]]
        BY DEF BuildIInv, BuildTypes
      <4>2. hasBeenANewSave[w] \in [Labels -> BOOLEAN]
        BY <3>1, <4>1
      <4>3. QED
        BY <3>1, <4>2
    <3>4. QED
      BY <3>1, <3>2, <3>3 DEF Build!Builds
  <2>2. /\ tried' = [tried EXCEPT ![w][m] = p.saves]
        /\ hasBeenANewSave' = [hasBeenANewSave EXCEPT ![w][m] = FALSE]
        /\ isBuilding' = [isBuilding EXCEPT ![w][m] = again]
        /\ process' = (process \ {p}) \cup (IF again THEN {next} ELSE {})
    BY <1>3 DEF Build!Callback
  <2>3. BuildTypes'
    BY <2>1, <2>2 DEF BuildIInv, BuildTypes
  <2>4. ASSUME NEW v \in Watches, NEW l \in Labels
        PROVE  (OneBuild(v, l) /\ LastSaveIsIn(v, l))'
    <3>1. OneBuild(v, l) /\ LastSaveIsIn(v, l)
      BY DEF BuildIInv
    <3>2. CASE v = w /\ l = m
      <4>1. Build!Builds(v, l) = {p}
        BY <2>1, <3>1, <3>2 DEF OneBuild
      <4>2. Build!Builds(v, l)' = IF again THEN {next} ELSE {}
        BY <2>1, <2>2, <3>2, <4>1 DEF Build!Builds
      <4>3. /\ tried'[v][l] = p.saves /\ hasBeenANewSave'[v][l] = FALSE
            /\ isBuilding'[v][l] = again
        BY <2>1, <2>2, <3>2 DEF BuildIInv, BuildTypes
      <4>4. isBuilding[v][l] /\ (w = watch /\ ~again => p.saves = saves)
        BY <3>1, <3>2, <4>1 DEF OneBuild, LastSaveIsIn
      <4>5. next.saves = saves
        OBVIOUS
      <4> HIDE DEF next
      <4>6. QED
        BY <3>1, <3>2, <4>2, <4>3, <4>4, <4>5 DEF OneBuild, LastSaveIsIn
    <3>3. CASE ~(v = w /\ l = m)
      <4>1. Build!Builds(v, l)' = Build!Builds(v, l)
        BY <2>1, <2>2, <3>3 DEF Build!Builds
      <4>2. /\ tried'[v][l] = tried[v][l] /\ isBuilding'[v][l] = isBuilding[v][l]
            /\ hasBeenANewSave'[v][l] = hasBeenANewSave[v][l]
        BY <2>1, <2>2, <3>3 DEF BuildIInv, BuildTypes
      <4>3. QED
        BY <3>1, <4>1, <4>2 DEF OneBuild, LastSaveIsIn
    <3>4. QED
      BY <3>2, <3>3
  <2>5. QED
    BY <2>3, <2>4 DEF BuildIInv
<1>4. QED
  BY <1>1, <1>2, <1>3 DEF BuildRecords

LEMMA BuildStep ==
  ASSUME BuildIInv, [Build!Next]_buildVars
  PROVE  BuildIInv'
<1>1. CASE Build!Build
  <2>1. /\ saves' = saves /\ watch' = watch /\ isBuilding' = isBuilding
        /\ hasBeenANewSave' = hasBeenANewSave /\ tried' = tried
        /\ Build!BuildChromeDir(Once, Labels)
    BY <1>1 DEF Build!Build, Build!flags
  <2>2. BuildTypes'
    BY <2>1 DEF BuildIInv, BuildTypes, BuildRecords, Build!BuildChromeDir
  <2>3. \A v \in Watches, l \in Labels : Build!Builds(v, l)' = Build!Builds(v, l)
    BY <2>1, BuildStarts
  <2>4. ASSUME NEW v \in Watches, NEW l \in Labels
        PROVE  (OneBuild(v, l) /\ LastSaveIsIn(v, l))'
    <3>1. OneBuild(v, l) /\ LastSaveIsIn(v, l)
      BY DEF BuildIInv
    <3>2. QED
      BY <2>1, <2>3, <3>1 DEF OneBuild, LastSaveIsIn
  <2>5. QED
    BY <2>2, <2>4 DEF BuildIInv
<1>2. ASSUME NEW p \in process, Build!BuildExits(p) PROVE BuildIInv'
  <2> DEFINE q == [p EXCEPT !.does = "deploy"]
  <2>1. p \in BuildRecords
    BY DEF BuildIInv, BuildTypes
  <2>2. /\ q \in BuildRecords /\ q.of = p.of /\ q.label = p.label /\ q.saves = p.saves
    BY <2>1 DEF BuildRecords
  <2>3. /\ process' = (process \ {p}) \cup {q} /\ saves' = saves /\ watch' = watch
        /\ hasBeenANewSave' = hasBeenANewSave /\ isBuilding' = isBuilding /\ tried' = tried
    BY <1>2 DEF Build!BuildExits, Build!flags
  <2> HIDE DEF q
  <2>4. BuildTypes'
    BY <2>2, <2>3 DEF BuildIInv, BuildTypes
  <2>5. ASSUME NEW v \in Watches, NEW l \in Labels
        PROVE  (OneBuild(v, l) /\ LastSaveIsIn(v, l))'
    <3>1. OneBuild(v, l) /\ LastSaveIsIn(v, l)
      BY DEF BuildIInv
    <3>2. Build!Builds(v, l)' = IF p \in Build!Builds(v, l)
                                THEN (Build!Builds(v, l) \ {p}) \cup {q} ELSE Build!Builds(v, l)
      BY <2>2, <2>3 DEF Build!Builds
    <3>3. QED
      BY <2>2, <2>3, <3>1, <3>2 DEF OneBuild, LastSaveIsIn
  <2>6. QED
    BY <2>4, <2>5 DEF BuildIInv
<1>3. ASSUME NEW p \in process,
             Build!BuildFails(p) \/ Build!DeployExits(p) PROVE BuildIInv'
  BY <1>3, CallbackStep DEF Build!BuildFails, Build!DeployExits
<1>4. CASE UNCHANGED buildVars
  BY <1>4 DEF buildVars, BuildIInv, BuildTypes, OneBuild, LastSaveIsIn,
              Build!Builds
<1>5. QED
  BY <1>1, <1>2, <1>3, <1>4, WatchStep, SaveStep DEF Build!Next

\* One process or none is what the flag says.
LEMMA BuildHolds == BuildIInv => Build!FlagsTellTheBuilds
<1> SUFFICES ASSUME BuildIInv, NEW w \in Watches, NEW l \in Labels
             PROVE  /\ Cardinality(Build!Builds(w, l)) = IF isBuilding[w][l] THEN 1 ELSE 0
                    /\ w = watch /\ ~isBuilding[w][l] => tried[w][l] = saves
  BY DEF Build!FlagsTellTheBuilds, Build!Cardinality, Cardinality
<1>1. OneBuild(w, l) /\ LastSaveIsIn(w, l)
  BY DEF BuildIInv
<1>2. CASE isBuilding[w][l]
  <2>1. PICK p : Build!Builds(w, l) = {p}
    BY <1>1, <1>2 DEF OneBuild
  <2>2. QED
    BY <1>1, <1>2, <2>1, FS_Singleton DEF LastSaveIsIn
<1>3. CASE ~isBuilding[w][l]
  BY <1>1, <1>3, FS_EmptySet DEF OneBuild, LastSaveIsIn
<1>4. QED
  BY <1>2, <1>3

(* Induction over the numbers *)
\* Every set of numbers that is not empty has a smallest one: the initial
\* segments 0..k are finite sets, and so well-founded by inclusion.
LEMMA Smallest ==
  ASSUME NEW S \in SUBSET Nat, S # {}
  PROVE  \E m \in S : \A k \in S : m <= k
<1> DEFINE Upto == {0..k : k \in S}
<1>1. /\ Upto # {}
      /\ Upto \subseteq FiniteSubsetsOf(Nat)
  <2>1. \A k \in S : 0..k \in SUBSET Nat /\ IsFiniteSet(0..k)
    BY FS_Interval
  <2>2. \A k \in S : 0..k \in FiniteSubsetsOf(Nat)
    BY <2>1 DEF FiniteSubsetsOf
  <2>3. QED  BY <2>2
<1>2. PICK U \in Upto : \A V \in Upto : ~(<<V, U>> \in StrictSubsetOrdering(Nat))
  <2>1. IsWellFoundedOn(StrictSubsetOrdering(Nat), FiniteSubsetsOf(Nat))
    BY FS_StrictSubsetOrderingWellFounded, Zenon
  <2>2. QED  BY <1>1, <2>1, WFMin, Zenon
<1>3. PICK m \in S : U = 0..m  BY <1>2
<1>4. ASSUME NEW k \in S, k < m
      PROVE  FALSE
  <2>1. 0..k \in Upto  OBVIOUS
  <2>2. 0..k \subseteq 0..m /\ 0..k # 0..m  BY <1>4
  <2>3. <<0..k, 0..m>> \in StrictSubsetOrdering(Nat)
    BY <2>2 DEF StrictSubsetOrdering
  <2>4. QED  BY <1>2, <1>3, <2>1, <2>3
<1>5. QED  BY <1>4

\* Induction: a set with 0 and the successor of what is in it has every number.
LEMMA InductiveSet ==
  ASSUME NEW S \in SUBSET Nat, 0 \in S, \A n \in S : n + 1 \in S
  PROVE  S = Nat
<1>1. SUFFICES ASSUME Nat \ S # {} PROVE FALSE  OBVIOUS
<1>2. PICK m \in Nat \ S : \A k \in Nat \ S : m <= k  BY <1>1, Smallest
<1>3. m # 0 /\ m - 1 \in Nat  BY <1>2
<1>4. m - 1 \in S  BY <1>2, <1>3
<1>5. QED  BY <1>2, <1>4

\* A function on 0..n whose value at each number is made of the one before exists.
StepByStep(f, n, base, step) ==
  f[0] = base /\ \A m \in 1..n : f[m] = step[m][f[m - 1]]

LEMMA Recursion ==
  ASSUME NEW V, NEW base \in V, NEW step \in [Nat -> [V -> V]], NEW n \in Nat
  PROVE  \E f \in [0..n -> V] : StepByStep(f, n, base, step)
<1> DEFINE Takes(f, k) == f[0] = base /\ \A m \in 1..k : f[m] = step[m][f[m - 1]]
           Made == {k \in Nat : \E f \in [0..k -> V] : Takes(f, k)}
<1>1. 0 \in Made
  <2> DEFINE f == [m \in 0..0 |-> base]
  <2>1. f \in [0..0 -> V] /\ Takes(f, 0)
    OBVIOUS
  <2>2. QED
    BY <2>1
<1>2. ASSUME NEW k \in Made PROVE k + 1 \in Made
  <2>1. PICK f \in [0..k -> V] : Takes(f, k)
    OBVIOUS
  <2> DEFINE h == [m \in 0..(k + 1) |-> IF m = k + 1 THEN step[k + 1][f[k]] ELSE f[m]]
  <2>2. \A m \in 0..(k + 1) : h[m] \in V
    <3>1. f[k] \in V /\ step[k + 1] \in [V -> V]
      OBVIOUS
    <3>2. QED
      BY <3>1
  <2>3. h \in [0..(k + 1) -> V]
    BY <2>2
  <2>4. h[0] = base
    BY <2>1
  <2>5. ASSUME NEW m \in 1..(k + 1) PROVE h[m] = step[m][h[m - 1]]
    <3>1. CASE m = k + 1
      BY <3>1
    <3>2. CASE m # k + 1
      <4>1. m \in 1..k /\ m \in 0..(k + 1) /\ m - 1 \in 0..(k + 1) /\ m - 1 # k + 1
        BY <3>2
      <4>2. QED
        BY <2>1, <3>2, <4>1
    <3>3. QED
      BY <3>1, <3>2
  <2> HIDE DEF h
  <2>6. Takes(h, k + 1) /\ k + 1 \in Nat
    BY <2>4, <2>5
  <2>7. QED
    BY <2>3, <2>6
<1>3. n \in Made
  <2> HIDE DEF Made
  <2>1. Made \in SUBSET Nat
    BY DEF Made
  <2>2. QED
    BY <1>1, <1>2, <2>1, InductiveSet
<1>4. QED
  BY <1>3 DEF StepByStep

(* The line at which a comment is shown *)
LEMMA ShiftInit == Shifts!Init => ShiftIInv
BY ShiftAssumption DEF Shifts!Init, ShiftIInv, Shifts!Anchors

LEMMA ShiftStep == ShiftIInv /\ [Shifts!Next]_shiftVars => ShiftIInv'
<1> SUFFICES ASSUME ShiftIInv, [Shifts!Next]_shiftVars PROVE ShiftIInv'
  OBVIOUS
<1>1. CASE UNCHANGED shiftVars
  BY <1>1 DEF ShiftIInv, shiftVars, Shifts!Anchors
<1>2. ASSUME NEW l \in kept, Shifts!Drop(l) PROVE ShiftIInv'
  BY <1>2 DEF ShiftIInv, Shifts!Drop, Shifts!Anchors
<1>3. ASSUME NEW a \in Shifts!Anchors(kept), Shifts!Insert(a) PROVE ShiftIInv'
  BY <1>3, ShiftAssumption DEF ShiftIInv, Shifts!Insert, Shifts!Anchors
<1>4. QED
  BY <1>1, <1>2, <1>3 DEF Shifts!Next

\* How long the edited file is, line by line.
LEMMA LengthByLine ==
  ASSUME ShiftIInv
  PROVE  /\ Shifts!LengthUpTo[0] = inserted[0]
         /\ \A n \in 0..N : Shifts!LengthUpTo[n] \in Nat
         /\ \A n \in 1..N :
              Shifts!LengthUpTo[n] =
                IF n \in kept THEN Shifts!LengthUpTo[n - 1] + 1 + inserted[n]
                              ELSE Shifts!LengthUpTo[n - 1]
<1> DEFINE Add(n) == IF n \in kept THEN 1 ELSE 0
           Ins(n) == IF n \in Shifts!Anchors(kept) THEN inserted[n] ELSE 0
           step == [n \in Nat |-> [x \in Nat |-> x + Add(n) + Ins(n)]]
           Takes(f) == f = [n \in 0..N |-> (IF n = 0 THEN 0 ELSE f[n - 1]) + Add(n) + Ins(n)]
<1>1. \A n \in Nat : Add(n) \in Nat /\ Ins(n) \in Nat
  BY ShiftAssumption DEF ShiftIInv
<1>2. Add(0) = 0 /\ Ins(0) = inserted[0]
  BY DEF ShiftIInv, Shifts!Anchors
<1> HIDE DEF Add, Ins
<1>3. step \in [Nat -> [Nat -> Nat]]
  BY <1>1
<1>4. PICK f \in [0..N -> Nat] : StepByStep(f, N, Ins(0), step)
  <2> HIDE DEF step
  <2>1. Ins(0) \in Nat /\ N \in Nat
    BY <1>1, ShiftAssumption
  <2>2. QED
    BY <1>3, <2>1, Recursion
<1>5. Takes(f)
  <2>1. \A n \in 1..N : n - 1 \in 0..N /\ n \in Nat /\ f[n - 1] \in Nat
    BY ShiftAssumption
  <2>2. \A n \in 1..N : f[n] = f[n - 1] + Add(n) + Ins(n)
    BY <1>4, <2>1 DEF StepByStep
  <2>3. f[0] = 0 + Add(0) + Ins(0)
    BY <1>1, <1>2, <1>4 DEF StepByStep
  <2>4. \A n \in 0..N : f[n] = (IF n = 0 THEN 0 ELSE f[n - 1]) + Add(n) + Ins(n)
    BY <2>2, <2>3, ShiftAssumption
  <2>5. f = [n \in 0..N |-> f[n]]
    OBVIOUS
  <2>6. QED
    BY <2>4, <2>5
<1> DEFINE g == Shifts!LengthUpTo
<1>6. Takes(g)
  BY <1>5 DEF Shifts!LengthUpTo, Add, Ins
<1> HIDE DEF g
<1>7. \A n \in 0..N : g[n] = (IF n = 0 THEN 0 ELSE g[n - 1]) + Add(n) + Ins(n)
  BY <1>6
<1>8. g[0] = inserted[0] /\ \A n \in 1..N : g[n] = g[n - 1] + Add(n) + Ins(n)
  <2>1. g[0] = 0 + Add(0) + Ins(0) /\ Ins(0) \in Nat
    <3>1. 0 \in 0..N /\ Ins(0) \in Nat
      BY <1>1, ShiftAssumption
    <3>2. QED
      BY <1>7, <3>1
  <2>2. \A n \in 1..N : n \in 0..N /\ n # 0
    BY ShiftAssumption
  <2>3. QED
    BY <1>2, <1>7, <2>1, <2>2
<1> DEFINE Long == {n \in Nat : n <= N => g[n] \in Nat}
<1>9. 0 \in Long
  BY <1>1, <1>2, <1>8
<1>10. ASSUME NEW n \in Long PROVE n + 1 \in Long
  <2>1. SUFFICES ASSUME n + 1 <= N PROVE g[n + 1] \in Nat
    OBVIOUS
  <2>2. n + 1 \in 1..N /\ (n + 1) - 1 = n /\ g[n] \in Nat
    BY <2>1, ShiftAssumption
  <2>3. g[n + 1] = g[n] + Add(n + 1) + Ins(n + 1)
    BY <1>8, <2>2
  <2>4. Add(n + 1) \in Nat /\ Ins(n + 1) \in Nat
    <3>1. n + 1 \in Nat
      OBVIOUS
    <3>2. QED
      BY <1>1, <3>1
  <2>5. QED
    BY <2>2, <2>3, <2>4
<1>11. \A n \in 0..N : g[n] \in Nat
  <2> HIDE DEF Long
  <2>1. Long \in SUBSET Nat
    BY DEF Long
  <2>2. Long = Nat
    BY <1>9, <1>10, <2>1, InductiveSet
  <2>3. \A n \in 0..N : n \in Long /\ n <= N
    BY <2>2, ShiftAssumption
  <2>4. QED
    BY <2>3 DEF Long
<1>12. ASSUME NEW n \in 1..N
       PROVE  g[n] = IF n \in kept THEN g[n - 1] + 1 + inserted[n] ELSE g[n - 1]
  <2>1. /\ n - 1 \in 0..N /\ g[n - 1] \in Nat /\ n # 0
        /\ g[n] = g[n - 1] + Add(n) + Ins(n)
    BY <1>8, <1>11, ShiftAssumption
  <2>2. n \in Shifts!Anchors(kept) <=> n \in kept
    BY <2>1 DEF Shifts!Anchors
  <2>3. CASE n \in kept
    BY <2>1, <2>2, <2>3 DEF Add, Ins
  <2>4. CASE n \notin kept
    BY <2>1, <2>2, <2>4 DEF Add, Ins
  <2>5. QED
    BY <2>3, <2>4
<1>13. QED
  BY <1>8, <1>11, <1>12 DEF g

\* The next line after n that is kept, or the end.
NextKept(n) == CHOOSE x \in kept \cup {N + 1} : x > n /\ \A k \in kept : k > n => x <= k

LEMMA NextIsKept ==
  ASSUME ShiftIInv, NEW n \in 0..N
  PROVE  /\ NextKept(n) \in Nat /\ n < NextKept(n) /\ NextKept(n) <= N + 1
         /\ NextKept(n) \in kept \/ NextKept(n) = N + 1
         /\ \A k \in kept : n < k => NextKept(n) <= k
<1> DEFINE After == {x \in kept \cup {N + 1} : x > n}
<1>1. kept \subseteq 1..N /\ N \in Nat
  BY ShiftAssumption DEF ShiftIInv
<1>2. After \in SUBSET Nat /\ N + 1 \in After
  <2>1. \A x \in kept \cup {N + 1} : x \in Nat
    BY <1>1
  <2>2. N + 1 > n
    BY <1>1
  <2>3. QED
    BY <2>1, <2>2
<1>3. PICK m \in After : \A x \in After : m <= x
  <2>1. After # {}
    BY <1>2
  <2> HIDE DEF After
  <2>2. QED
    BY <1>2, <2>1, Smallest
<1>4. /\ NextKept(n) \in kept \cup {N + 1} /\ NextKept(n) > n
      /\ \A k \in kept : k > n => NextKept(n) <= k
  BY <1>3 DEF NextKept
<1>5. \A x \in kept \cup {N + 1} : x \in Nat /\ x <= N + 1
  BY <1>1
<1>6. QED
  BY <1>4, <1>5

\* The lines that are dropped after an anchor.
LEMMA DroppedLines ==
  ASSUME ShiftIInv, NEW a \in 0..N
  PROVE  /\ Shifts!DroppedAfter(a) = (a + 1)..(NextKept(a) - 1)
         /\ Shifts!Cardinality(Shifts!DroppedAfter(a)) = NextKept(a) - 1 - a
<1> DEFINE x == NextKept(a)
<1>1. /\ x \in Nat /\ a < x /\ x <= N + 1 /\ (x \in kept \/ x = N + 1)
      /\ \A k \in kept : a < k => x <= k
  BY NextIsKept
<1>2. kept \subseteq 1..N /\ N \in Nat
  BY ShiftAssumption DEF ShiftIInv
<1> HIDE DEF x
<1>3. ASSUME NEW l \in 1..N
      PROVE  (a < l /\ \A k \in kept : k > a => l < k) <=> a < l /\ l < x
  BY <1>1, <1>2
<1>4. Shifts!DroppedAfter(a) = {l \in 1..N : a < l /\ l < x}
  BY <1>3 DEF Shifts!DroppedAfter
<1>5. {l \in 1..N : a < l /\ l < x} = (a + 1)..(x - 1)
  BY <1>1, <1>2
<1>6. Cardinality((a + 1)..(x - 1)) = x - 1 - a
  <2>1. a + 1 \in Int /\ x - 1 \in Int
    BY <1>1
  <2>2. Cardinality((a + 1)..(x - 1)) = IF a + 1 > x - 1 THEN 0 ELSE (x - 1) - (a + 1) + 1
    BY <2>1, FS_Interval
  <2>3. QED
    BY <1>1, <2>2
<1>7. Shifts!Cardinality((a + 1)..(x - 1)) = Cardinality((a + 1)..(x - 1))
  BY DEF Shifts!Cardinality, Cardinality
<1>8. QED
  BY <1>4, <1>5, <1>6, <1>7 DEF x

AllHunks == [originalStart : Int, originalSize : Int, currentSize : Int]

\* What the hunk after an anchor adds to the shift of the comment: its size if it is
\* before the comment, and nothing if it is behind it.
Added(a) ==
  IF NextKept(a) <= line THEN inserted[a] - (NextKept(a) - 1 - a)
  ELSE IF a < line /\ inserted[a] < line - a THEN inserted[a] - (line - a)
  ELSE 0

LEMMA HunkAdds ==
  ASSUME ShiftIInv, NEW a \in Shifts!Anchors(kept)
  PROVE  /\ Shifts!HunkAfter(a) \in AllHunks
         /\ Shifts!HunkShift(Shifts!HunkAfter(a), line) = Added(a)
         /\ a \notin Shifts!Changed => Added(a) = 0
<1> DEFINE x == NextKept(a)
           size == x - 1 - a
           h == Shifts!HunkAfter(a)
<1>1. a \in 0..N /\ inserted[a] \in Nat /\ line \in Nat
  BY ShiftAssumption DEF ShiftIInv, Shifts!Anchors
<1>2. x \in Nat /\ a < x
  BY <1>1, NextIsKept
<1>3. /\ Shifts!DroppedAfter(a) = (a + 1)..(x - 1)
      /\ Shifts!Cardinality(Shifts!DroppedAfter(a)) = size
  BY <1>1, DroppedLines
<1> HIDE DEF x
<1>4. size \in Nat
  BY <1>1, <1>2
<1>5. h = [originalStart |-> IF size = 0 THEN a ELSE a + 1, originalSize |-> size,
           currentSize |-> inserted[a]]
  BY <1>3 DEF Shifts!HunkAfter
<1>6. h \in AllHunks
  BY <1>1, <1>4, <1>5 DEF AllHunks
<1> HIDE DEF h
<1>7. /\ h.originalStart = (IF size = 0 THEN a ELSE a + 1) /\ h.originalSize = size
      /\ h.currentSize = inserted[a]
      /\ Shifts!SizeDelta(h) = inserted[a] - size
  BY <1>5 DEF Shifts!SizeDelta
<1>8. Shifts!FollowsHunk(h, line) <=> x <= line
  BY <1>1, <1>2, <1>4, <1>7 DEF Shifts!FollowsHunk
<1>9. Shifts!WithinHunk(h, line) <=> a < line /\ line < x
  BY <1>1, <1>2, <1>4, <1>7 DEF Shifts!WithinHunk
<1>10. Shifts!HunkShift(h, line) = Added(a)
  <2>1. CASE x <= line
    <3>1. Shifts!FollowsHunk(h, line) /\ ~Shifts!WithinHunk(h, line)
      BY <1>1, <1>2, <1>8, <1>9, <2>1
    <3>2. Shifts!HunkShift(h, line) = Shifts!SizeDelta(h)
      BY <3>1 DEF Shifts!HunkShift
    <3>3. QED
      BY <1>7, <2>1, <3>2 DEF Added, x
  <2>2. CASE line < x /\ a < line
    <3>1. /\ ~Shifts!FollowsHunk(h, line) /\ Shifts!WithinHunk(h, line)
          /\ h.originalStart = a + 1
      BY <1>1, <1>2, <1>7, <1>8, <1>9, <2>2
    <3>2. line - (h.originalStart + h.currentSize) + 1 = line - a - inserted[a]
      BY <1>1, <1>7, <3>1
    <3>3. CASE inserted[a] < line - a
      <4>1. Shifts!SizeDelta(h) < 0 /\ line - a - inserted[a] > 0
        BY <1>1, <1>2, <1>7, <2>2, <3>3
      <4>2. Shifts!HunkShift(h, line) = -(line - a - inserted[a])
        BY <3>1, <3>2, <4>1 DEF Shifts!HunkShift
      <4>3. QED
        BY <1>1, <1>2, <2>2, <3>3, <4>2 DEF Added, x
    <3>4. CASE ~(inserted[a] < line - a)
      <4>1. ~(line - a - inserted[a] > 0)
        BY <1>1, <3>4
      <4>2. Shifts!HunkShift(h, line) = 0
        BY <3>1, <3>2, <4>1 DEF Shifts!HunkShift
      <4>3. QED
        BY <1>1, <1>2, <2>2, <3>4, <4>2 DEF Added, x
    <3>5. QED
      BY <3>3, <3>4
  <2>3. CASE line < x /\ ~(a < line)
    <3>1. ~Shifts!FollowsHunk(h, line) /\ ~Shifts!WithinHunk(h, line)
      BY <1>1, <1>2, <1>8, <1>9, <2>3
    <3>2. Shifts!HunkShift(h, line) = 0
      BY <3>1 DEF Shifts!HunkShift
    <3>3. QED
      BY <1>1, <1>2, <2>3, <3>2 DEF Added, x
  <2>4. QED
    BY <1>1, <1>2, <2>1, <2>2, <2>3
<1>11. ASSUME a \notin Shifts!Changed PROVE Added(a) = 0
  <2>1. Shifts!DroppedAfter(a) = {} /\ inserted[a] = 0
    BY <1>1, <1>11 DEF Shifts!Changed
  <2>2. x = a + 1
    <3>1. ~(a + 1 <= x - 1)
      <4>1. a + 1 <= x - 1 => a + 1 \in (a + 1)..(x - 1)
        BY <1>1, <1>2
      <4>2. QED
        BY <1>3, <2>1, <4>1
    <3>2. QED
      BY <1>1, <1>2, <3>1
  <2>3. QED
    BY <1>1, <2>1, <2>2 DEF Added, x
<1>12. QED
  BY <1>6, <1>10, <1>11 DEF h

LEMMA HunkShiftIsInt ==
  ASSUME NEW h \in AllHunks, NEW l \in Int
  PROVE  Shifts!HunkShift(h, l) \in Int
<1>1. h.originalStart \in Int /\ h.originalSize \in Int /\ h.currentSize \in Int
  BY DEF AllHunks
<1>2. Shifts!SizeDelta(h) \in Int /\ l - (h.originalStart + h.currentSize) + 1 \in Int
  BY <1>1 DEF Shifts!SizeDelta
<1>3. QED
  BY <1>2 DEF Shifts!HunkShift

\* The loop over the hunks, one by one.
LEMMA ShiftByHunk ==
  ASSUME NEW hunks \in Seq(AllHunks), NEW l \in Int
  PROVE  /\ Shifts!ShiftAfter(hunks, l)[0] = 0
         /\ \A i \in 0..Len(hunks) : Shifts!ShiftAfter(hunks, l)[i] \in Int
         /\ \A i \in 1..Len(hunks) :
              Shifts!ShiftAfter(hunks, l)[i] =
                Shifts!ShiftAfter(hunks, l)[i - 1] + Shifts!HunkShift(hunks[i], l)
<1> DEFINE m == Len(hunks)
           Add(i) == IF i \in 1..m THEN Shifts!HunkShift(hunks[i], l) ELSE 0
           step == [i \in Nat |-> [x \in Int |-> x + Add(i)]]
           Takes(f) == f = [i \in 0..m |-> IF i = 0 THEN 0
                                           ELSE f[i - 1] + Shifts!HunkShift(hunks[i], l)]
<1>1. m \in Nat /\ \A i \in Nat : Add(i) \in Int
  <2>1. m \in Nat /\ \A i \in 1..m : hunks[i] \in AllHunks
    BY ElementOfSeq
  <2>2. \A i \in 1..m : Shifts!HunkShift(hunks[i], l) \in Int
    BY <2>1, HunkShiftIsInt
  <2> HIDE DEF m
  <2>3. ASSUME NEW i \in Nat PROVE Add(i) \in Int
    <3>1. CASE i \in 1..m
      BY <2>2, <3>1
    <3>2. CASE i \notin 1..m
      BY <3>2
    <3>3. QED
      BY <3>1, <3>2
  <2>4. QED
    BY <2>1, <2>3
<1>2. \A i \in 1..m : Add(i) = Shifts!HunkShift(hunks[i], l)
  OBVIOUS
<1> HIDE DEF Add, m
<1>3. step \in [Nat -> [Int -> Int]]
  BY <1>1
<1>4. PICK f \in [0..m -> Int] : StepByStep(f, m, 0, step)
  <2> HIDE DEF step
  <2>1. 0 \in Int /\ m \in Nat
    BY <1>1
  <2>2. QED
    BY <1>3, <2>1, Recursion
<1>5. Takes(f)
  <2>1. \A i \in 1..m : i - 1 \in 0..m /\ i \in Nat /\ f[i - 1] \in Int
    BY <1>1
  <2>2. \A i \in 1..m : f[i] = f[i - 1] + Add(i)
    BY <1>4, <2>1 DEF StepByStep
  <2>3. f[0] = 0
    BY <1>4 DEF StepByStep
  <2>4. \A i \in 0..m : f[i] = IF i = 0 THEN 0 ELSE f[i - 1] + Shifts!HunkShift(hunks[i], l)
    BY <1>1, <1>2, <2>2, <2>3
  <2>5. f = [i \in 0..m |-> f[i]]
    OBVIOUS
  <2>6. QED
    BY <2>4, <2>5
<1> DEFINE g == Shifts!ShiftAfter(hunks, l)
<1>6. Takes(g)
  BY <1>5 DEF Shifts!ShiftAfter, m
<1> HIDE DEF g
<1>7. g[0] = 0 /\ \A i \in 1..m : g[i] = g[i - 1] + Add(i)
  <2>1. 0 \in 0..m /\ \A i \in 1..m : i \in 0..m /\ i # 0
    BY <1>1
  <2>2. QED
    BY <1>2, <1>6, <2>1
<1> DEFINE Whole == {i \in Nat : i <= m => g[i] \in Int}
<1>8. 0 \in Whole
  BY <1>7
<1>9. ASSUME NEW i \in Whole PROVE i + 1 \in Whole
  <2>1. SUFFICES ASSUME i + 1 <= m PROVE g[i + 1] \in Int
    OBVIOUS
  <2>2. i + 1 \in 1..m /\ i + 1 \in Nat /\ (i + 1) - 1 = i /\ g[i] \in Int
    BY <1>1, <2>1
  <2>3. g[i + 1] = g[i] + Add(i + 1) /\ Add(i + 1) \in Int
    BY <1>1, <1>7, <2>2
  <2>4. QED
    BY <2>2, <2>3
<1>10. \A i \in 0..m : g[i] \in Int
  <2> HIDE DEF Whole
  <2>1. Whole \in SUBSET Nat
    BY DEF Whole
  <2>2. Whole = Nat
    BY <1>8, <1>9, <2>1, InductiveSet
  <2>3. \A i \in 0..m : i \in Whole /\ i <= m
    BY <1>1, <2>2
  <2>4. QED
    BY <2>3 DEF Whole
<1>11. QED
  BY <1>2, <1>7, <1>10 DEF g, m

\* The shift of the comment by some hunks.
ShiftBy(hunks) == Shifts!ShiftAfter(hunks, line)[Len(hunks)]

LEMMA ShiftByOneMore ==
  ASSUME ShiftIInv, NEW hunks \in Seq(AllHunks), NEW h \in AllHunks
  PROVE  /\ ShiftBy(<<>>) = 0
         /\ ShiftBy(hunks) \in Int
         /\ ShiftBy(Append(hunks, h)) = ShiftBy(hunks) + Shifts!HunkShift(h, line)
<1> DEFINE more == Append(hunks, h)
           m == Len(hunks)
           f == Shifts!ShiftAfter(hunks, line)
           g == Shifts!ShiftAfter(more, line)
           None == Shifts!ShiftAfter(<<>>, line)
<1>1. line \in Int
  BY ShiftAssumption DEF ShiftIInv
<1>2. /\ more \in Seq(AllHunks) /\ Len(more) = m + 1 /\ m \in Nat
      /\ \A i \in 1..m : more[i] = hunks[i]
      /\ more[m + 1] = h
  BY AppendProperties
<1>3. None[0] = 0
  <2>1. <<>> \in Seq(AllHunks)
    OBVIOUS
  <2>2. QED
    BY <1>1, <2>1, ShiftByHunk
<1>4. /\ f[0] = 0 /\ \A i \in 0..m : f[i] \in Int
      /\ \A i \in 1..m : f[i] = f[i - 1] + Shifts!HunkShift(hunks[i], line)
  BY <1>1, ShiftByHunk
<1>5. /\ g[0] = 0 /\ \A i \in 0..(m + 1) : g[i] \in Int
      /\ \A i \in 1..(m + 1) : g[i] = g[i - 1] + Shifts!HunkShift(more[i], line)
  <2> HIDE DEF more, m
  <2>1. /\ g[0] = 0 /\ \A i \in 0..Len(more) : g[i] \in Int
        /\ \A i \in 1..Len(more) : g[i] = g[i - 1] + Shifts!HunkShift(more[i], line)
    BY <1>1, <1>2, ShiftByHunk
  <2>2. QED
    BY <1>2, <2>1
<1> HIDE DEF f, g, more, m
<1> DEFINE Same == {i \in Nat : i <= m => g[i] = f[i]}
<1>6. 0 \in Same
  BY <1>4, <1>5
<1>7. ASSUME NEW i \in Same PROVE i + 1 \in Same
  <2>1. SUFFICES ASSUME i + 1 <= m PROVE g[i + 1] = f[i + 1]
    OBVIOUS
  <2>2. i + 1 \in 1..m /\ i + 1 \in 1..(m + 1) /\ (i + 1) - 1 = i /\ g[i] = f[i]
    BY <1>2, <2>1
  <2>3. /\ g[i + 1] = g[i] + Shifts!HunkShift(more[i + 1], line)
        /\ f[i + 1] = f[i] + Shifts!HunkShift(hunks[i + 1], line)
        /\ more[i + 1] = hunks[i + 1]
    BY <1>2, <1>4, <1>5, <2>2
  <2>4. QED
    BY <2>2, <2>3
<1>8. g[m] = f[m]
  <2> HIDE DEF Same
  <2>1. Same \in SUBSET Nat
    BY DEF Same
  <2>2. Same = Nat
    BY <1>6, <1>7, <2>1, InductiveSet
  <2>3. m \in Same /\ m <= m
    BY <1>2, <2>2
  <2>4. QED
    BY <2>3 DEF Same
<1>9. g[m + 1] = f[m] + Shifts!HunkShift(h, line)
  <2>1. m + 1 \in 1..(m + 1) /\ (m + 1) - 1 = m
    BY <1>2
  <2>2. g[m + 1] = g[m] + Shifts!HunkShift(more[m + 1], line)
    BY <1>5, <2>1
  <2>3. QED
    BY <1>2, <1>8, <2>2
<1>10. ShiftBy(hunks) = f[m] /\ f[m] \in Int
  <2>1. m \in 0..m
    BY <1>2
  <2>2. QED
    BY <1>4, <2>1 DEF ShiftBy, f, m
<1>11. ShiftBy(more) = g[m + 1]
  BY <1>2 DEF ShiftBy, g
<1>12. ShiftBy(<<>>) = 0
  BY <1>3 DEF ShiftBy
<1>13. QED
  BY <1>9, <1>10, <1>11, <1>12 DEF more

\* The hunks, line by line, and the shift by those up to a line.
LEMMA HunksByLine ==
  ASSUME ShiftIInv
  PROVE  /\ \A n \in 0..N : Shifts!HunksUpTo[n] \in Seq(AllHunks)
         /\ ShiftBy(Shifts!HunksUpTo[0]) = Added(0)
         /\ \A n \in 1..N : ShiftBy(Shifts!HunksUpTo[n]) =
              ShiftBy(Shifts!HunksUpTo[n - 1]) + (IF n \in kept THEN Added(n) ELSE 0)
<1> DEFINE Own(n) == IF n \in Shifts!Changed THEN <<Shifts!HunkAfter(n)>> ELSE <<>>
           step == [n \in Nat |-> [s \in Seq(AllHunks) |-> s \o Own(n)]]
           Takes(f) == f = [n \in 0..N |-> (IF n = 0 THEN <<>> ELSE f[n - 1]) \o Own(n)]
<1>1. \A n \in Shifts!Changed : /\ n \in Shifts!Anchors(kept)
                               /\ Shifts!HunkAfter(n) \in AllHunks
  BY HunkAdds DEF Shifts!Changed
<1>2. \A n \in Nat : Own(n) \in Seq(AllHunks)
  BY <1>1
<1> HIDE DEF Own
<1>3. step \in [Nat -> [Seq(AllHunks) -> Seq(AllHunks)]]
  BY <1>2
<1>4. PICK f \in [0..N -> Seq(AllHunks)] : StepByStep(f, N, Own(0), step)
  <2> HIDE DEF step
  <2>1. Own(0) \in Seq(AllHunks) /\ N \in Nat
    BY <1>2, ShiftAssumption
  <2>2. QED
    BY <1>3, <2>1, Recursion
<1>5. Takes(f)
  <2>1. \A n \in 1..N : n - 1 \in 0..N /\ n \in Nat /\ f[n - 1] \in Seq(AllHunks)
    BY ShiftAssumption
  <2>2. \A n \in 1..N : f[n] = f[n - 1] \o Own(n)
    BY <1>4, <2>1 DEF StepByStep
  <2>3. f[0] = <<>> \o Own(0)
    <3>1. f[0] = Own(0) /\ Own(0) \in Seq(AllHunks)
      BY <1>2, <1>4 DEF StepByStep
    <3>2. QED
      BY <3>1, ConcatEmptySeq
  <2>4. ASSUME NEW n \in 0..N
        PROVE  f[n] = (IF n = 0 THEN <<>> ELSE f[n - 1]) \o Own(n)
    <3>1. CASE n = 0
      BY <2>3, <3>1
    <3>2. CASE n # 0
      <4>1. n \in 1..N
        BY <3>2, ShiftAssumption
      <4>2. QED
        BY <2>2, <3>2, <4>1
    <3>3. QED
      BY <3>1, <3>2
  <2>5. f = [n \in 0..N |-> f[n]]
    OBVIOUS
  <2>6. QED
    BY <2>4, <2>5
<1> DEFINE g == Shifts!HunksUpTo
<1>6. Takes(g)
  BY <1>5 DEF Shifts!HunksUpTo, Own
<1> HIDE DEF g
<1>7. g[0] = Own(0) /\ \A n \in 1..N : g[n] = g[n - 1] \o Own(n)
  <2>1. 0 \in 0..N /\ \A n \in 1..N : n \in 0..N /\ n # 0
    BY ShiftAssumption
  <2>2. g[0] = <<>> \o Own(0) /\ \A n \in 1..N : g[n] = g[n - 1] \o Own(n)
    BY <1>6, <2>1
  <2>3. Own(0) \in Seq(AllHunks)
    BY <1>2
  <2>4. QED
    BY <2>2, <2>3, ConcatEmptySeq
<1> DEFINE Whole == {n \in Nat : n <= N => g[n] \in Seq(AllHunks)}
<1>8. 0 \in Whole
  BY <1>2, <1>7
<1>9. ASSUME NEW n \in Whole PROVE n + 1 \in Whole
  <2>1. SUFFICES ASSUME n + 1 <= N PROVE g[n + 1] \in Seq(AllHunks)
    OBVIOUS
  <2>2. n + 1 \in 1..N /\ n + 1 \in Nat /\ (n + 1) - 1 = n /\ g[n] \in Seq(AllHunks)
    BY <2>1, ShiftAssumption
  <2>3. g[n + 1] = g[n] \o Own(n + 1) /\ Own(n + 1) \in Seq(AllHunks)
    BY <1>2, <1>7, <2>2
  <2>4. QED
    BY <2>2, <2>3, ConcatProperties
<1>10. \A n \in 0..N : g[n] \in Seq(AllHunks)
  <2> HIDE DEF Whole
  <2>1. Whole \in SUBSET Nat
    BY DEF Whole
  <2>2. Whole = Nat
    BY <1>8, <1>9, <2>1, InductiveSet
  <2>3. \A n \in 0..N : n \in Whole /\ n <= N
    BY <2>2, ShiftAssumption
  <2>4. QED
    BY <2>3 DEF Whole
<1>11. ASSUME NEW hunks \in Seq(AllHunks), NEW n \in 0..N
       PROVE  ShiftBy(hunks \o Own(n)) =
                ShiftBy(hunks) + (IF n \in Shifts!Anchors(kept) THEN Added(n) ELSE 0)
  <2>1. CASE n \in Shifts!Changed
    <3>1. /\ n \in Shifts!Anchors(kept) /\ Shifts!HunkAfter(n) \in AllHunks
          /\ Shifts!HunkShift(Shifts!HunkAfter(n), line) = Added(n)
      BY <1>1, <2>1, HunkAdds
    <3>2. hunks \o Own(n) = Append(hunks, Shifts!HunkAfter(n))
      BY <2>1, <3>1, AppendIsConcat DEF Own
    <3>3. QED
      BY <3>1, <3>2, ShiftByOneMore
  <2>2. CASE n \notin Shifts!Changed
    <3>1. hunks \o Own(n) = hunks
      BY <2>2, ConcatEmptySeq DEF Own
    <3>2. n \in Shifts!Anchors(kept) => Added(n) = 0
      BY <2>2, HunkAdds
    <3>3. ShiftBy(hunks) \in Int
      <4>1. [originalStart |-> 0, originalSize |-> 0, currentSize |-> 0] \in AllHunks
        BY DEF AllHunks
      <4>2. QED
        BY <4>1, ShiftByOneMore
    <3>4. QED
      BY <3>1, <3>2, <3>3
  <2>3. QED
    BY <2>1, <2>2
<1>12. ShiftBy(g[0]) = Added(0)
  <2>1. 0 \in 0..N /\ 0 \in Shifts!Anchors(kept) /\ <<>> \in Seq(AllHunks)
    BY ShiftAssumption DEF Shifts!Anchors
  <2>2. <<>> \o Own(0) = g[0]
    BY <1>2, <1>7, ConcatEmptySeq
  <2>3. /\ Shifts!HunkAfter(0) \in AllHunks
        /\ Shifts!HunkShift(Shifts!HunkAfter(0), line) = Added(0)
    BY <2>1, HunkAdds
  <2>4. line \in Int
    BY ShiftAssumption DEF ShiftIInv
  <2>5. ShiftBy(<<>>) = 0 /\ Added(0) \in Int
    BY <2>1, <2>3, <2>4, HunkShiftIsInt, ShiftByOneMore
  <2>6. ShiftBy(<<>> \o Own(0)) = ShiftBy(<<>>) + Added(0)
    BY <1>11, <2>1
  <2>7. QED
    BY <2>2, <2>5, <2>6
<1>13. ASSUME NEW n \in 1..N
       PROVE  ShiftBy(g[n]) = ShiftBy(g[n - 1]) + (IF n \in kept THEN Added(n) ELSE 0)
  <2>1. n \in 0..N /\ n - 1 \in 0..N /\ n # 0
    BY ShiftAssumption
  <2>2. g[n] = g[n - 1] \o Own(n) /\ g[n - 1] \in Seq(AllHunks)
    BY <1>7, <1>10, <2>1
  <2>3. n \in Shifts!Anchors(kept) <=> n \in kept
    BY <2>1 DEF Shifts!Anchors
  <2>4. ShiftBy(g[n - 1] \o Own(n)) =
          ShiftBy(g[n - 1]) + (IF n \in Shifts!Anchors(kept) THEN Added(n) ELSE 0)
    BY <1>11, <2>1, <2>2
  <2>5. QED
    BY <2>2, <2>3, <2>4
<1>14. QED
  BY <1>10, <1>12, <1>13 DEF g

\* The shift of the comment by the hunks up to a line.
Shifted(n) == ShiftBy(Shifts!HunksUpTo[n])

LEMMA ShiftedByLine ==
  ASSUME ShiftIInv
  PROVE  /\ Shifted(0) = Added(0)
         /\ \A n \in 0..N : Shifted(n) \in Int
         /\ \A n \in 1..N : Shifted(n) = Shifted(n - 1) + (IF n \in kept THEN Added(n) ELSE 0)
<1>1. /\ \A n \in 0..N : Shifts!HunksUpTo[n] \in Seq(AllHunks)
      /\ Shifted(0) = Added(0)
      /\ \A n \in 1..N : Shifted(n) = Shifted(n - 1) + (IF n \in kept THEN Added(n) ELSE 0)
  BY HunksByLine DEF Shifted
<1>2. [originalStart |-> 0, originalSize |-> 0, currentSize |-> 0] \in AllHunks
  BY DEF AllHunks
<1>3. \A n \in 0..N : Shifted(n) \in Int
  BY <1>1, <1>2, ShiftByOneMore DEF Shifted
<1>4. QED
  BY <1>1, <1>3

\* Before a kept line that the comment does not come before, every hunk moves the
\* comment: it is shifted by what the file has grown up to the next kept line.
LEMMA HunksBefore ==
  ASSUME ShiftIInv, NEW b \in kept, b <= line
  PROVE  \A n \in 0..(b - 1) : Shifted(n) = Shifts!LengthUpTo[n] - (NextKept(n) - 1)
<1> DEFINE Grown == {n \in Nat : n < b => Shifted(n) = Shifts!LengthUpTo[n] - (NextKept(n) - 1)}
<1>1. N \in Nat /\ kept \subseteq 1..N /\ line \in 1..N /\ b \in 1..N
  BY ShiftAssumption DEF ShiftIInv
<1>2. /\ Shifted(0) = Added(0)
      /\ \A n \in 0..N : Shifted(n) \in Int
      /\ \A n \in 1..N : Shifted(n) = Shifted(n - 1) + (IF n \in kept THEN Added(n) ELSE 0)
  BY ShiftedByLine
<1>3. /\ Shifts!LengthUpTo[0] = inserted[0]
      /\ \A n \in 0..N : Shifts!LengthUpTo[n] \in Nat
      /\ \A n \in 1..N :
           Shifts!LengthUpTo[n] = IF n \in kept THEN Shifts!LengthUpTo[n - 1] + 1 + inserted[n]
                                  ELSE Shifts!LengthUpTo[n - 1]
  BY LengthByLine
<1>4. \A n \in Shifts!Anchors(kept) : inserted[n] \in Nat
  BY ShiftAssumption DEF ShiftIInv
<1>5. ASSUME NEW n \in 0..N, n < b
      PROVE  /\ NextKept(n) \in Nat /\ NextKept(n) <= line
             /\ Added(n) = inserted[n] - (NextKept(n) - 1 - n)
  <2>1. NextKept(n) \in Nat /\ NextKept(n) <= b
    BY <1>5, NextIsKept
  <2>2. NextKept(n) <= line
    BY <1>1, <2>1
  <2>3. QED
    BY <2>1, <2>2 DEF Added
<1>6. 0 \in Grown
  <2>1. 0 \in 0..N /\ 0 < b /\ inserted[0] \in Nat
    BY <1>1, <1>4 DEF Shifts!Anchors
  <2>2. NextKept(0) \in Nat /\ Added(0) = inserted[0] - (NextKept(0) - 1 - 0)
    BY <1>5, <2>1
  <2>3. QED
    BY <1>2, <1>3, <2>1, <2>2
<1>7. ASSUME NEW n \in Grown PROVE n + 1 \in Grown
  <2>1. SUFFICES ASSUME n + 1 < b
                 PROVE  Shifted(n + 1) = Shifts!LengthUpTo[n + 1] - (NextKept(n + 1) - 1)
    OBVIOUS
  <2>2. n \in 0..N /\ n + 1 \in 0..N /\ n + 1 \in 1..N /\ (n + 1) - 1 = n /\ n < b
    BY <1>1, <2>1
  <2>3. /\ Shifted(n) = Shifts!LengthUpTo[n] - (NextKept(n) - 1)
        /\ Shifts!LengthUpTo[n] \in Nat /\ NextKept(n) \in Nat /\ NextKept(n + 1) \in Nat
    BY <1>3, <1>5, <2>1, <2>2
  <2>4. CASE n + 1 \in kept
    <3>1. NextKept(n) = n + 1
      <4>1. n < NextKept(n) /\ NextKept(n) <= n + 1
        BY <2>2, <2>4, NextIsKept
      <4>2. QED
        BY <2>2, <2>3, <4>1
    <3>2. Shifted(n + 1) = Shifted(n) + Added(n + 1)
      BY <1>2, <2>2, <2>4
    <3>3. Added(n + 1) = inserted[n + 1] - (NextKept(n + 1) - 1 - (n + 1))
      BY <1>5, <2>1, <2>2
    <3>4. /\ Shifts!LengthUpTo[n + 1] = Shifts!LengthUpTo[n] + 1 + inserted[n + 1]
          /\ inserted[n + 1] \in Nat
      BY <1>3, <1>4, <2>2, <2>4 DEF Shifts!Anchors
    <3>5. QED
      BY <2>2, <2>3, <3>1, <3>2, <3>3, <3>4
  <2>5. CASE n + 1 \notin kept
    <3>1. NextKept(n + 1) = NextKept(n)
      <4>1. /\ n < NextKept(n) /\ (NextKept(n) \in kept \/ NextKept(n) = N + 1)
            /\ \A k \in kept : n < k => NextKept(n) <= k
        BY <2>2, NextIsKept
      <4>2. /\ n + 1 < NextKept(n + 1) /\ NextKept(n + 1) <= N + 1
            /\ (NextKept(n + 1) \in kept \/ NextKept(n + 1) = N + 1)
            /\ \A k \in kept : n + 1 < k => NextKept(n + 1) <= k
        BY <2>2, NextIsKept
      <4>3. NextKept(n) # n + 1
        BY <1>1, <2>1, <2>5, <4>1
      <4>4. n + 1 < NextKept(n)
        BY <2>2, <2>3, <4>1, <4>3
      <4>5. NextKept(n + 1) <= NextKept(n)
        BY <1>1, <4>1, <4>2, <4>4
      <4>6. NextKept(n) <= NextKept(n + 1)
        <5>1. CASE NextKept(n + 1) \in kept
          BY <2>2, <2>3, <4>1, <4>2, <5>1
        <5>2. CASE NextKept(n + 1) = N + 1
          BY <2>2, <5>2, NextIsKept
        <5>3. QED
          BY <4>2, <5>1, <5>2
      <4>7. QED
        BY <2>3, <4>5, <4>6
    <3>2. Shifted(n + 1) = Shifted(n) + 0 /\ Shifted(n) \in Int
      BY <1>2, <2>2, <2>5
    <3>3. Shifts!LengthUpTo[n + 1] = Shifts!LengthUpTo[n]
      BY <1>3, <2>2, <2>5
    <3>4. QED
      BY <2>3, <3>1, <3>2, <3>3
  <2>6. QED
    BY <2>4, <2>5
<1>8. Grown = Nat
  <2> HIDE DEF Grown
  <2>1. Grown \in SUBSET Nat
    BY DEF Grown
  <2>2. QED
    BY <1>6, <1>7, <2>1, InductiveSet
<1>9. \A n \in 0..(b - 1) : n \in Grown /\ n < b
  <2> HIDE DEF Grown
  <2>1. QED
    BY <1>1, <1>8
<1>10. QED
  BY <1>9

\* Behind a line, if no line is kept from there to the comment, no hunk moves it.
LEMMA HunksBehind ==
  ASSUME ShiftIInv, NEW b \in 0..N, line < NextKept(b)
  PROVE  Shifted(N) = Shifted(b)
<1> DEFINE Still == {n \in Nat : b <= n /\ n <= N => Shifted(n) = Shifted(b)}
<1>1. N \in Nat /\ kept \subseteq 1..N /\ line \in 1..N
  BY ShiftAssumption DEF ShiftIInv
<1>2. /\ \A n \in 0..N : Shifted(n) \in Int
      /\ \A n \in 1..N : Shifted(n) = Shifted(n - 1) + (IF n \in kept THEN Added(n) ELSE 0)
  BY ShiftedByLine
<1>3. 0 \in Still
  BY <1>1
<1>4. ASSUME NEW n \in Still PROVE n + 1 \in Still
  <2>1. SUFFICES ASSUME b <= n + 1, n + 1 <= N PROVE Shifted(n + 1) = Shifted(b)
    OBVIOUS
  <2>2. CASE b = n + 1
    BY <2>2
  <2>3. CASE b # n + 1
    <3>1. b <= n /\ n \in 0..N /\ n + 1 \in 1..N /\ (n + 1) - 1 = n
      BY <1>1, <2>1, <2>3
    <3>2. Shifted(n) = Shifted(b) /\ Shifted(n) \in Int
      BY <1>1, <1>2, <3>1
    <3>3. ASSUME n + 1 \in kept PROVE Added(n + 1) = 0
      <4>1. NextKept(b) \in Nat /\ NextKept(b) <= n + 1
        BY <1>1, <3>1, <3>3, NextIsKept
      <4>2. line < n + 1
        BY <1>1, <4>1
      <4>3. NextKept(n + 1) \in Nat /\ n + 1 < NextKept(n + 1)
        BY <3>1, NextIsKept
      <4>4. ~(NextKept(n + 1) <= line) /\ ~(n + 1 < line)
        BY <1>1, <4>2, <4>3
      <4>5. QED
        BY <4>4 DEF Added
    <3>4. Shifted(n + 1) = Shifted(n) + (IF n + 1 \in kept THEN Added(n + 1) ELSE 0)
      BY <1>2, <3>1
    <3>5. QED
      BY <3>2, <3>3, <3>4
  <2>4. QED
    BY <2>2, <2>3
<1>5. Still = Nat
  <2> HIDE DEF Still
  <2>1. Still \in SUBSET Nat
    BY DEF Still
  <2>2. QED
    BY <1>3, <1>4, <2>1, InductiveSet
<1>6. N \in Still
  <2> HIDE DEF Still
  <2>1. QED
    BY <1>1, <1>5
<1>7. b <= N /\ N <= N
  BY <1>1
<1>8. QED
  BY <1>6, <1>7

\* A dropped line is after one anchor.
LEMMA DroppedAfterOne ==
  ASSUME ShiftIInv, line \notin kept
  PROVE  \E a \in Shifts!Anchors(kept) :
           /\ a < line /\ line \in Shifts!DroppedAfter(a)
           /\ \A b \in Shifts!Anchors(kept) : line \in Shifts!DroppedAfter(b) => b = a
<1> DEFINE Before == {a \in Shifts!Anchors(kept) : a < line}
           Far == {line - a : a \in Before}
<1>1. N \in Nat /\ kept \subseteq 1..N /\ line \in 1..N
  BY ShiftAssumption DEF ShiftIInv
<1>2. 0 \in Before /\ Before \subseteq 0..N
  <2>1. 0 \in Shifts!Anchors(kept) /\ 0 < line
    BY <1>1 DEF Shifts!Anchors
  <2>2. Shifts!Anchors(kept) \subseteq 0..N
    BY <1>1 DEF Shifts!Anchors
  <2>3. QED
    BY <2>1, <2>2
<1>3. Far \in SUBSET Nat /\ Far # {}
  <2>1. \A a \in Before : line - a \in Nat
    BY <1>1, <1>2
  <2>2. QED
    BY <1>2, <2>1
<1>4. PICK m \in Far : \A k \in Far : m <= k
  <2> HIDE DEF Far
  <2>1. QED
    BY <1>3, Smallest
<1>5. PICK a \in Before : m = line - a
  BY <1>4
<1>6. \A b \in Before : b <= a
  <2>1. \A b \in Before : line - a <= line - b
    BY <1>4, <1>5
  <2>2. QED
    BY <1>1, <1>2, <2>1
<1>7. ASSUME NEW k \in kept, k > a PROVE line < k
  <2>1. k \in Shifts!Anchors(kept) /\ k \in 1..N /\ a \in 0..N
    BY <1>1, <1>2 DEF Shifts!Anchors
  <2>2. ~(k < line)
    BY <1>6, <1>7, <2>1
  <2>3. QED
    BY <1>1, <2>1, <2>2
<1>8. line \in Shifts!DroppedAfter(a)
  BY <1>1, <1>7 DEF Shifts!DroppedAfter
<1>9. ASSUME NEW b \in Shifts!Anchors(kept), line \in Shifts!DroppedAfter(b)
      PROVE  b = a
  <2>1. b < line /\ \A k \in kept : k > b => line < k
    BY <1>9 DEF Shifts!DroppedAfter
  <2>2. b \in Before /\ b \in 0..N /\ a \in 0..N /\ a < line
    BY <1>2, <2>1
  <2>3. b <= a
    BY <1>6, <2>2
  <2>4. ~(b < a)
    <3>1. SUFFICES ASSUME b < a PROVE FALSE
      OBVIOUS
    <3>2. a \in kept
      BY <2>2, <3>1 DEF Shifts!Anchors
    <3>3. line < a
      BY <2>1, <3>1, <3>2
    <3>4. QED
      BY <1>1, <2>2, <3>3
  <2>5. QED
    BY <2>2, <2>3, <2>4
<1>10. QED
  BY <1>5, <1>8, <1>9

\* A comment is shown at its line, whatever the edit of the file.
LEMMA CommentShown == ShiftIInv => Shifts!CommentFollowsItsLine
<1> SUFFICES ASSUME ShiftIInv PROVE Shifts!CommentFollowsItsLine
  OBVIOUS
<1> DEFINE place == line + Shifted(N)
<1>1. N \in Nat /\ kept \subseteq 1..N /\ line \in 1..N /\ N \in 0..N
  BY ShiftAssumption DEF ShiftIInv
<1>2. /\ Shifted(0) = Added(0)
      /\ \A n \in 0..N : Shifted(n) \in Int
      /\ \A n \in 1..N : Shifted(n) = Shifted(n - 1) + (IF n \in kept THEN Added(n) ELSE 0)
  BY ShiftedByLine
<1>3. /\ Shifts!LengthUpTo[0] = inserted[0]
      /\ \A n \in 0..N : Shifts!LengthUpTo[n] \in Nat
      /\ \A n \in 1..N :
           Shifts!LengthUpTo[n] = IF n \in kept THEN Shifts!LengthUpTo[n - 1] + 1 + inserted[n]
                                  ELSE Shifts!LengthUpTo[n - 1]
  BY LengthByLine
<1>4. \A n \in Shifts!Anchors(kept) : inserted[n] \in Nat
  BY ShiftAssumption DEF ShiftIInv
<1>5. line + Shifts!GetShift(Shifts!Hunks, line) = IF place <= 0 THEN 1 ELSE place
  <2>1. Shifts!GetShift(Shifts!Hunks, line) =
          IF line + Shifted(N) <= 0 THEN -(line - 1) ELSE Shifted(N)
    BY DEF Shifts!GetShift, Shifts!Hunks, Shifted, ShiftBy
  <2>2. Shifted(N) \in Int /\ line \in Int
    BY <1>1, <1>2
  <2>3. QED
    BY <2>1, <2>2
<1>6. ASSUME NEW b \in kept, b <= line
      PROVE  /\ b \in 1..N /\ b - 1 \in 0..N
             /\ Shifted(b) = Shifts!LengthUpTo[b] - inserted[b] - b + Added(b)
             /\ Shifts!LengthUpTo[b] - inserted[b] = Shifts!LengthUpTo[b - 1] + 1
             /\ Shifts!LengthUpTo[b - 1] \in Nat
  <2>1. /\ b \in 1..N /\ b - 1 \in 0..N /\ b - 1 \in 0..(b - 1)
        /\ b \in Shifts!Anchors(kept)
    BY <1>1 DEF Shifts!Anchors
  <2>2. NextKept(b - 1) = b
    <3>1. NextKept(b - 1) \in Nat /\ b - 1 < NextKept(b - 1) /\ NextKept(b - 1) <= b
      BY <2>1, NextIsKept
    <3>2. QED
      BY <2>1, <3>1
  <2>3. Shifted(b - 1) = Shifts!LengthUpTo[b - 1] - (b - 1)
    BY <1>6, <2>1, <2>2, HunksBefore
  <2>4. Shifted(b) = Shifted(b - 1) + Added(b)
    BY <1>2, <2>1
  <2>5. /\ Shifts!LengthUpTo[b] = Shifts!LengthUpTo[b - 1] + 1 + inserted[b]
        /\ inserted[b] \in Nat /\ Shifts!LengthUpTo[b - 1] \in Nat
    BY <1>3, <1>4, <2>1
  <2>6. Added(b) \in Int
    <3>1. NextKept(b) \in Nat
      BY <1>1, <2>1, NextIsKept
    <3>2. QED
      BY <1>1, <2>1, <2>5, <3>1 DEF Added
  <2>7. QED
    BY <2>1, <2>3, <2>4, <2>5, <2>6
<1>7. CASE line \in kept
  <2>1. line < NextKept(line) /\ NextKept(line) \in Nat /\ line \in 0..N
    BY <1>1, NextIsKept
  <2>2. Added(line) = 0
    <3>1. ~(NextKept(line) <= line) /\ ~(line < line)
      BY <1>1, <2>1
    <3>2. QED
      BY <3>1 DEF Added
  <2>3. Shifted(N) = Shifted(line)
    BY <2>1, HunksBehind
  <2>4. /\ Shifted(line) = Shifts!LengthUpTo[line] - inserted[line] - line + Added(line)
        /\ Shifts!LengthUpTo[line] - inserted[line] = Shifts!LengthUpTo[line - 1] + 1
        /\ Shifts!LengthUpTo[line - 1] \in Nat
    BY <1>1, <1>6, <1>7
  <2>5. place = Shifts!LengthUpTo[line] - inserted[line] /\ ~(place <= 0)
    BY <1>1, <2>2, <2>3, <2>4
  <2>6. Shifts!Reference = Shifts!LengthUpTo[line] - inserted[line]
    BY <1>7 DEF Shifts!Reference, Shifts!NewPlace
  <2>7. QED
    BY <1>5, <2>5, <2>6 DEF Shifts!CommentFollowsItsLine
<1>8. CASE line \notin kept
  <2>1. PICK a \in Shifts!Anchors(kept) :
          /\ a < line /\ line \in Shifts!DroppedAfter(a)
          /\ \A b \in Shifts!Anchors(kept) : line \in Shifts!DroppedAfter(b) => b = a
    BY <1>8, DroppedAfterOne
  <2> DEFINE k == line - a
             least == IF k <= inserted[a] THEN k ELSE inserted[a]
             old == Shifts!LengthUpTo[a] - inserted[a]
  <2>2. a \in 0..N /\ inserted[a] \in Nat /\ k \in Nat
    BY <1>1, <1>4, <2>1 DEF Shifts!Anchors
  <2>3. line < NextKept(a) /\ NextKept(a) \in Nat
    <3>1. line \in (a + 1)..(NextKept(a) - 1)
      BY <2>1, <2>2, DroppedLines
    <3>2. NextKept(a) \in Nat
      BY <2>2, NextIsKept
    <3>3. QED
      BY <1>1, <2>2, <3>1, <3>2
  <2>4. Shifted(N) = Shifted(a)
    BY <2>2, <2>3, HunksBehind
  <2>5. Added(a) = least - k
    <3>1. ~(NextKept(a) <= line)
      BY <1>1, <2>3
    <3>2. QED
      BY <1>1, <2>1, <2>2, <3>1 DEF Added
  <2>6. Shifted(a) = old - a + (least - k) /\ old \in Int
    <3>1. CASE a = 0
      BY <1>2, <1>3, <2>2, <2>5, <3>1
    <3>2. CASE a # 0
      <4>1. a \in kept /\ a <= line
        BY <1>1, <2>1, <2>2, <3>2 DEF Shifts!Anchors
      <4>2. /\ Shifted(a) = old - a + Added(a)
            /\ old = Shifts!LengthUpTo[a - 1] + 1 /\ Shifts!LengthUpTo[a - 1] \in Nat
        BY <1>6, <4>1
      <4>3. QED
        BY <2>5, <4>2
    <3>3. QED
      BY <3>1, <3>2
  <2>7. place = old + least
    BY <1>1, <2>2, <2>4, <2>6
  <2>8. Shifts!Reference = Shifts!AtLeastOne(old + least)
    <3> DEFINE b == CHOOSE c \in Shifts!Anchors(kept) : line \in Shifts!DroppedAfter(c)
    <3>1. b = a
      BY <2>1
    <3>2. Shifts!Reference =
            Shifts!AtLeastOne(Shifts!NewPlace(b) + (IF line - b <= inserted[b] THEN line - b
                                                    ELSE inserted[b]))
      BY <1>8, Zenon DEF Shifts!Reference
    <3> HIDE DEF b
    <3>3. QED
      BY <3>1, <3>2 DEF Shifts!NewPlace
  <2>9. old + least \in Int
    BY <2>2, <2>6
  <2>10. Shifts!AtLeastOne(old + least) = IF place <= 0 THEN 1 ELSE place
    BY <2>7, <2>9 DEF Shifts!AtLeastOne
  <2>11. QED
    BY <1>5, <2>8, <2>10 DEF Shifts!CommentFollowsItsLine
<1>9. QED
  BY <1>7, <1>8

(* The lines painted as covered *)
\* The largest of one number and some of the elements of a sequence of numbers.
LEMMA LargestOf ==
  ASSUME NEW ns \in Seq(Nat), NEW b \in Nat,
         NEW S \in SUBSET ({b} \cup {ns[i] : i \in 1..Len(ns)}), b \in S
  PROVE  Coverage!Max(S) \in S /\ \A x \in S : Coverage!Max(S) >= x
<1> DEFINE Bounded == {n \in Nat : n <= Len(ns) =>
                         \E c \in Nat : b <= c /\ \A i \in 1..n : ns[i] <= c}
<1>1. 0 \in Bounded
  OBVIOUS
<1>2. ASSUME NEW n \in Bounded PROVE n + 1 \in Bounded
  <2>1. SUFFICES ASSUME n + 1 <= Len(ns)
                 PROVE  \E c \in Nat : b <= c /\ \A i \in 1..(n + 1) : ns[i] <= c
    OBVIOUS
  <2>2. PICK c \in Nat : b <= c /\ \A i \in 1..n : ns[i] <= c
    BY <2>1
  <2>3. ns[n + 1] \in Nat
    BY <2>1
  <2>4. \E e \in Nat : c <= e /\ ns[n + 1] <= e
    BY <2>3
  <2>5. PICK e \in Nat : c <= e /\ ns[n + 1] <= e
    BY <2>4
  <2>6. \A i \in 1..(n + 1) : ns[i] \in Nat /\ (i \in 1..n \/ i = n + 1)
    BY <2>1
  <2>7. ASSUME NEW i \in 1..(n + 1) PROVE ns[i] <= e
    <3>1. CASE i \in 1..n
      <4>1. ns[i] \in Nat /\ ns[i] <= c /\ c <= e
        BY <2>2, <2>5, <2>6, <3>1
      <4>2. QED
        BY <4>1
    <3>2. CASE i = n + 1
      BY <2>5, <3>2
    <3>3. QED
      BY <2>6, <3>1, <3>2
  <2>8. b <= e
    BY <2>2, <2>5
  <2>9. QED
    BY <2>5, <2>7, <2>8
<1>3. Bounded = Nat
  <2> HIDE DEF Bounded
  <2>1. Bounded \in SUBSET Nat  BY DEF Bounded
  <2>2. QED  BY <1>1, <1>2, <2>1, InductiveSet
<1>4. PICK c \in Nat : b <= c /\ \A i \in 1..Len(ns) : ns[i] <= c
  <2>1. Len(ns) \in Bounded
    <3>1. Len(ns) \in Nat
      OBVIOUS
    <3> HIDE DEF Bounded
    <3>2. QED
      BY <1>3, <3>1
  <2>2. Len(ns) <= Len(ns)
    OBVIOUS
  <2>3. QED
    BY <2>1, <2>2
<1>5. S \in SUBSET Nat /\ \A x \in S : x <= c
  <2>1. \A i \in 1..Len(ns) : ns[i] \in Nat
    OBVIOUS
  <2>2. QED
    BY <1>4, <2>1
<1> DEFINE Gap == {c - x : x \in S}
<1>6. Gap \in SUBSET Nat /\ Gap # {}
  BY <1>5
<1>7. PICK m \in Gap : \A k \in Gap : m <= k
  BY <1>6, Smallest
<1>8. PICK x \in S : m = c - x
  BY <1>7
<1>9. ASSUME NEW y \in S PROVE x >= y
  <2>1. c - y \in Gap
    OBVIOUS
  <2>2. c - x <= c - y
    BY <1>7, <1>8, <2>1
  <2>3. QED
    BY <1>5, <2>2
<1>10. QED
  BY <1>8, <1>9 DEF Coverage!Max
LEMMA CoverageInit == Coverage!Init => CoverageIInv
BY DEF Coverage!Init, CoverageIInv

LEMMA CoverageStep == CoverageIInv /\ [Coverage!Next]_paintVars => CoverageIInv'
<1> SUFFICES ASSUME CoverageIInv, [Coverage!Next]_paintVars PROVE CoverageIInv'
  OBVIOUS
<1>1. CASE UNCHANGED paintVars
  BY <1>1 DEF CoverageIInv, paintVars
<1>2. ASSUME NEW s \in Coverage!Segments, Coverage!Report(s) PROVE CoverageIInv'
  <2> DEFINE n == Len(segments)
  <2>1. /\ segments' = Append(segments, s)
        /\ segments # <<>> => segments[n].line <= s.line
    BY <1>2 DEF Coverage!Report, Coverage!Last
  <2>2. /\ segments \in Seq(Coverage!Segments) /\ n \in Nat
        /\ \A i, j \in 1..n : i <= j => segments[i].line <= segments[j].line
    BY DEF CoverageIInv
  <2>3. /\ segments' \in Seq(Coverage!Segments) /\ Len(segments') = n + 1
        /\ \A i \in 1..n : segments'[i] = segments[i]
        /\ segments'[n + 1] = s
    BY <2>1, <2>2, AppendProperties
  <2>4. \A i \in 1..n : segments[i].line \in Nat /\ segments[i].line <= s.line
    <3>1. \A i \in 1..n : segments[i].line \in Nat
      BY <2>2, CoverageAssumption DEF Coverage!Segments
    <3>2. s.line \in Nat
      BY CoverageAssumption DEF Coverage!Segments
    <3>3. ASSUME NEW i \in 1..n PROVE segments[i].line <= s.line
      <4>1. n \in 1..n /\ i <= n /\ segments # <<>>
        BY <2>2
      <4>2. segments[i].line <= segments[n].line /\ segments[n].line <= s.line
        BY <2>1, <2>2, <4>1
      <4>3. QED
        BY <3>1, <3>2, <4>1, <4>2
    <3>4. QED
      BY <3>1, <3>3
  <2>5. ASSUME NEW i \in 1..Len(segments'), NEW j \in 1..Len(segments'), i <= j
        PROVE  segments'[i].line <= segments'[j].line
    <3>1. CASE j \in 1..n
      <4>1. i \in 1..n
        BY <2>2, <2>3, <2>5, <3>1
      <4>2. QED
        BY <2>2, <2>3, <2>5, <3>1, <4>1
    <3>2. CASE j = n + 1 /\ i \in 1..n
      BY <2>3, <2>4, <3>2
    <3>3. CASE j = n + 1 /\ i = n + 1
      <4>1. s.line <= s.line
        BY CoverageAssumption DEF Coverage!Segments
      <4>2. QED
        BY <2>3, <3>3, <4>1
    <3>4. QED
      BY <2>2, <2>3, <2>5, <3>1, <3>2, <3>3
  <2>6. QED
    BY <2>3, <2>5 DEF CoverageIInv
<1>3. QED
  BY <1>1, <1>2 DEF Coverage!Next

\* What a segment is, in simple facts.
LEMMA SegmentFacts ==
  ASSUME CoverageIInv
  PROVE  /\ Len(segments) \in Nat /\ DOMAIN segments = 1..Len(segments)
         /\ \A i \in 1..Len(segments) :
              /\ segments[i] \in Coverage!Segments
              /\ segments[i].line \in 1..MaxLine /\ segments[i].count \in Nat
              /\ segments[i].counted \in BOOLEAN /\ segments[i].entry \in BOOLEAN
              /\ segments[i].gap \in BOOLEAN
<1>1. \A s \in Coverage!Segments :
        /\ s.line \in 1..MaxLine /\ s.count \in Nat /\ s.counted \in BOOLEAN
        /\ s.entry \in BOOLEAN /\ s.gap \in BOOLEAN
  <2> TAKE s \in Coverage!Segments
  <2>1. s \in [line : 1..MaxLine, count : Counts \cup {0}, counted : BOOLEAN,
               entry : BOOLEAN, gap : BOOLEAN]
    BY DEF Coverage!Segments
  <2>2. Counts \cup {0} \subseteq Nat
    BY CoverageAssumption
  <2>3. QED
    BY <2>1, <2>2
<1>2. segments \in Seq(Coverage!Segments)
  BY DEF CoverageIInv
<1>3. \A i \in 1..Len(segments) : segments[i] \in Coverage!Segments
  BY <1>2, ElementOfSeq
<1>4. QED
  BY <1>1, <1>2, <1>3, LenProperties

\* The segments up to line l are the first p of the report.
UpTo(l, p) ==
  /\ p \in 0..Len(segments)
  /\ \A i \in 1..Len(segments) : i <= p <=> segments[i].line <= l

LEMMA SegmentsUpTo ==
  ASSUME CoverageIInv, NEW l \in Nat
  PROVE  \E p : UpTo(l, p)
<1> DEFINE n == Len(segments)
           Later == {i \in 1..n : segments[i].line > l}
<1>1. /\ n \in Nat
      /\ \A i \in 1..n : segments[i].line \in Nat
      /\ \A i, j \in 1..n : i <= j => segments[i].line <= segments[j].line
  BY SegmentFacts, CoverageAssumption DEF CoverageIInv
<1> HIDE DEF n
<1>2. CASE Later = {}
  <2>1. \A i \in 1..n : i <= n /\ segments[i].line <= l
    BY <1>1, <1>2
  <2>2. n \in 0..n
    BY <1>1
  <2>3. QED
    BY <2>1, <2>2 DEF n, UpTo
<1>3. CASE Later # {}
  <2>1. Later \in SUBSET Nat
    OBVIOUS
  <2>2. PICK m \in Later : \A k \in Later : m <= k
    BY <1>3, <2>1, Smallest
  <2>3. m \in 1..n /\ segments[m].line > l
    BY <2>2
  <2>4. ASSUME NEW i \in 1..n PROVE i <= m - 1 <=> segments[i].line <= l
    <3>1. CASE i <= m - 1
      <4>1. i \notin Later
        BY <2>2, <2>3, <3>1
      <4>2. QED
        BY <1>1, <3>1, <4>1
    <3>2. CASE m <= i
      <4>1. segments[m].line <= segments[i].line
        BY <1>1, <2>3, <3>2
      <4>2. QED
        BY <1>1, <2>3, <3>2, <4>1
    <3>3. QED
      BY <2>3, <3>1, <3>2
  <2>5. m - 1 \in 0..n
    BY <1>1, <2>3
  <2>6. QED
    BY <2>4, <2>5 DEF n, UpTo
<1>4. QED
  BY <1>2, <1>3

\* Something that starts on the line, or goes on, was executed.
Busy(l) ==
  \E i \in Coverage!GoesOn(l) \cup Coverage!Regions(l) \cup Coverage!Gaps(l) :
    segments[i].count > 0

\* What is known after the turn for line l: which segments are left, which one
\* goes on, and that the lines up to l are counted.
Counted(l, acc) ==
  /\ \E p \in 0..Len(segments) :
       /\ UpTo(l, p)
       /\ acc.rest = SubSeq(segments, p + 1, Len(segments))
       /\ acc.wrapped = IF p = 0 THEN <<>> ELSE <<segments[p]>>
  /\ \A x \in acc.execCount :
       /\ x[1] \in 1..l /\ Coverage!Painted(x[1])
       /\ x[2] \in Nat /\ (x[2] > 0 <=> Busy(x[1]))
  /\ \A k \in 1..l : Coverage!Painted(k) => \E x \in acc.execCount : x[1] = k

\* The segments of the line are taken from the beginning of those that are left.
LEMMA SegmentsOfLine ==
  ASSUME CoverageIInv, NEW l \in Nat \ {0},
         NEW q, NEW p, UpTo(l - 1, q), UpTo(l, p)
  PROVE  LET rest == SubSeq(segments, q + 1, Len(segments))
             lineSegs == Coverage!InLine(rest, l)
         IN /\ q <= p
            /\ lineSegs \in Seq(Coverage!Segments) /\ Len(lineSegs) = p - q
            /\ \A i \in 1..(p - q) : lineSegs[i] = segments[q + i]
            /\ SubSeq(rest, Len(lineSegs) + 1, Len(rest)) = SubSeq(segments, p + 1, Len(segments))
<1> DEFINE n == Len(segments)
           rest == SubSeq(segments, q + 1, n)
           m == p - q
<1>1. /\ n \in Nat /\ segments \in Seq(Coverage!Segments)
      /\ \A i \in 1..n : segments[i] \in Coverage!Segments /\ segments[i].line \in Nat
  BY SegmentFacts, CoverageAssumption DEF CoverageIInv
<1> HIDE DEF n
<1>2. \A i \in 1..n : (i <= q <=> segments[i].line <= l - 1) /\ (i <= p <=> segments[i].line <= l)
  BY DEF n, UpTo
<1>3. q \in 0..n /\ p \in 0..n
  BY DEF n, UpTo
<1>4. q <= p
  <2>1. SUFFICES ASSUME q > p PROVE FALSE
    BY <1>3
  <2>2. q \in 1..n
    BY <1>1, <1>3, <2>1
  <2>3. segments[q].line <= l - 1 /\ ~(segments[q].line <= l)
    BY <1>2, <1>3, <2>1, <2>2
  <2>4. QED
    BY <1>1, <1>3, <2>1, <2>2, <2>3
<1>5. m \in Nat /\ m <= n - q
  BY <1>1, <1>3, <1>4
<1>6. /\ rest \in Seq(Coverage!Segments) /\ Len(rest) = n - q
      /\ \A i \in 1..(n - q) : rest[i] = segments[q + i]
  <2>1. /\ q + 1 \in Int /\ n \in Int
        /\ \A i \in (q + 1)..n : segments[i] \in Coverage!Segments
    BY <1>1, <1>3
  <2>2. /\ rest \in Seq(Coverage!Segments)
        /\ Len(rest) = IF q + 1 <= n THEN n - (q + 1) + 1 ELSE 0
        /\ \A i \in 1..(n - (q + 1) + 1) : rest[i] = segments[q + 1 + i - 1]
    BY <2>1, SubSeqProperties DEF n
  <2>3. Len(rest) = n - q
    BY <1>1, <1>3, <2>2
  <2>4. ASSUME NEW i \in 1..(n - q) PROVE rest[i] = segments[q + i]
    <3>1. i \in 1..(n - (q + 1) + 1) /\ q + 1 + i - 1 = q + i
      BY <1>1, <1>3
    <3>2. rest[i] = segments[q + 1 + i - 1]
      BY <2>2, <3>1
    <3>3. QED
      BY <3>1, <3>2
  <2>5. QED
    BY <2>2, <2>3, <2>4
<1> HIDE DEF rest
<1> DEFINE Fits(k) == /\ \A i \in 1..k : rest[i].line = l
                      /\ k < Len(rest) => rest[k + 1].line # l
<1>7. \A i \in 1..(n - q) : rest[i].line = l <=> i <= m
  <2> TAKE i \in 1..(n - q)
  <2>1. q + i \in 1..n /\ q + i > q
    BY <1>1, <1>3
  <2>2. /\ segments[q + i].line \in Nat /\ ~(segments[q + i].line <= l - 1)
        /\ q + i <= p <=> segments[q + i].line <= l
    BY <1>1, <1>2, <1>3, <2>1
  <2>3. q + i <= p <=> i <= m
    BY <1>3
  <2>4. QED
    BY <1>6, <2>2, <2>3
<1>8. m \in 0..Len(rest) /\ Fits(m)
  <2>1. m \in 0..Len(rest)
    BY <1>1, <1>3, <1>5, <1>6
  <2>2. \A i \in 1..m : i \in 1..(n - q) /\ i <= m
    BY <1>1, <1>3, <1>5
  <2>3. m < Len(rest) => m + 1 \in 1..(n - q) /\ ~(m + 1 <= m)
    BY <1>1, <1>3, <1>5, <1>6
  <2>4. QED
    BY <1>7, <2>1, <2>2, <2>3
<1>9. ASSUME NEW k \in 0..Len(rest), Fits(k) PROVE k = m
  <2>1. CASE k < m
    <3>1. k + 1 \in 1..(n - q) /\ k + 1 <= m /\ k < Len(rest)
      BY <1>1, <1>3, <1>5, <1>6, <2>1
    <3>2. QED
      BY <1>7, <1>9, <3>1
  <2>2. CASE k > m
    <3>1. k \in 1..(n - q) /\ k \in 1..k /\ ~(k <= m)
      BY <1>1, <1>3, <1>5, <1>6, <2>2
    <3>2. QED
      BY <1>7, <1>9, <3>1
  <2>3. QED
    BY <1>5, <1>6, <2>1, <2>2
<1>10. (CHOOSE k \in 0..Len(rest) : Fits(k)) = m
  <2> HIDE DEF Fits, m
  <2>1. QED
    BY <1>8, <1>9
<1> DEFINE lineSegs == Coverage!InLine(rest, l)
<1>11. lineSegs = SubSeq(rest, 1, m)
  BY <1>10 DEF Coverage!InLine
<1> HIDE DEF lineSegs
<1>12. /\ lineSegs \in Seq(Coverage!Segments) /\ Len(lineSegs) = m
       /\ \A i \in 1..m : lineSegs[i] = segments[q + i]
  <2>1. /\ 1 \in Int /\ m \in Int
        /\ \A i \in 1..m : rest[i] \in Coverage!Segments
    <3>1. \A i \in 1..m : i \in 1..Len(rest)
      BY <1>1, <1>3, <1>5, <1>6
    <3>2. QED
      BY <1>5, <1>6, <3>1, ElementOfSeq
  <2>2. /\ lineSegs \in Seq(Coverage!Segments)
        /\ Len(lineSegs) = IF 1 <= m THEN m - 1 + 1 ELSE 0
        /\ \A i \in 1..(m - 1 + 1) : lineSegs[i] = rest[1 + i - 1]
    BY <1>11, <2>1, SubSeqProperties
  <2>3. Len(lineSegs) = m
    BY <1>5, <2>2
  <2>4. ASSUME NEW i \in 1..m PROVE lineSegs[i] = segments[q + i]
    <3>1. i \in 1..(m - 1 + 1) /\ 1 + i - 1 = i /\ i \in 1..(n - q)
      BY <1>1, <1>3, <1>5
    <3>2. QED
      BY <1>6, <2>2, <3>1
  <2>5. QED
    BY <2>2, <2>3, <2>4
<1>13. SubSeq(rest, Len(lineSegs) + 1, Len(rest)) = SubSeq(segments, p + 1, n)
  <2> DEFINE a == SubSeq(rest, m + 1, Len(rest))
             b == SubSeq(segments, p + 1, n)
  <2>1. /\ a \in Seq(Coverage!Segments) /\ Len(a) = n - p
        /\ \A i \in 1..(n - p) : a[i] = rest[m + i]
    <3>1. /\ m + 1 \in Int /\ Len(rest) \in Int
          /\ \A i \in (m + 1)..Len(rest) : i \in 1..Len(rest)
      BY <1>1, <1>3, <1>5, <1>6
    <3>2. \A i \in (m + 1)..Len(rest) : rest[i] \in Coverage!Segments
      BY <1>6, <3>1, ElementOfSeq
    <3> HIDE DEF m
    <3>3. /\ a \in Seq(Coverage!Segments)
          /\ Len(a) = IF m + 1 <= Len(rest) THEN Len(rest) - (m + 1) + 1 ELSE 0
          /\ \A i \in 1..(Len(rest) - (m + 1) + 1) : a[i] = rest[m + 1 + i - 1]
      BY <3>1, <3>2, SubSeqProperties
    <3> HIDE DEF a
    <3>4. /\ Len(rest) - (m + 1) + 1 = n - p
          /\ m + 1 <= Len(rest) <=> p + 1 <= n
      BY <1>1, <1>3, <1>6 DEF m
    <3>5. Len(a) = n - p
      BY <1>1, <1>3, <3>3, <3>4
    <3>6. \A i \in 1..(n - p) : m + 1 + i - 1 = m + i
      BY <1>5
    <3>7. QED
      BY <3>3, <3>4, <3>5, <3>6
  <2>2. /\ b \in Seq(Coverage!Segments) /\ Len(b) = n - p
        /\ \A i \in 1..(n - p) : b[i] = segments[p + i]
    <3>1. /\ p + 1 \in Int /\ n \in Int
          /\ \A i \in (p + 1)..n : segments[i] \in Coverage!Segments
      BY <1>1, <1>3
    <3>2. /\ b \in Seq(Coverage!Segments)
          /\ Len(b) = IF p + 1 <= n THEN n - (p + 1) + 1 ELSE 0
          /\ \A i \in 1..(n - (p + 1) + 1) : b[i] = segments[p + 1 + i - 1]
      BY <3>1, SubSeqProperties
    <3> HIDE DEF b
    <3>3. Len(b) = n - p /\ n - (p + 1) + 1 = n - p
      BY <1>1, <1>3, <3>2
    <3>4. \A i \in 1..(n - p) : p + 1 + i - 1 = p + i
      BY <1>3
    <3>5. QED
      BY <3>2, <3>3, <3>4
  <2> HIDE DEF a, b
  <2>3. ASSUME NEW i \in 1..(n - p) PROVE a[i] = b[i]
    <3>1. m + i \in 1..(n - q) /\ q + (m + i) = p + i
      BY <1>1, <1>3, <1>5
    <3>2. QED
      BY <1>6, <2>1, <2>2, <3>1
  <2>4. a = b
    <3>1. Len(a) = Len(b) /\ \A i \in 1..Len(a) : a[i] = b[i]
      BY <2>1, <2>2, <2>3
    <3>2. QED
      BY <2>1, <2>2, <3>1, SeqEqual
  <2>5. QED
    BY <1>12, <2>4 DEF a, b
<1>14. QED
  BY <1>4, <1>12, <1>13 DEF n, rest, lineSegs

\* What starts on a line and what goes on, as places in the report.
LEMMA PlacesOfLine ==
  ASSUME CoverageIInv, NEW l \in Nat \ {0},
         NEW q, NEW p, UpTo(l - 1, q), UpTo(l, p)
  PROVE  /\ Coverage!Starts(l) = (q + 1)..p
         /\ Coverage!GoesOn(l) = IF q = 0 THEN {} ELSE {q}
<1> DEFINE n == Len(segments)
<1>1. /\ n \in Nat /\ DOMAIN segments = 1..n
      /\ \A i \in 1..n : segments[i].line \in Nat
  BY SegmentFacts, CoverageAssumption
<1> HIDE DEF n
<1>2. /\ q \in 0..n /\ p \in 0..n
      /\ \A i \in 1..n : (i <= q <=> segments[i].line <= l - 1) /\ (i <= p <=> segments[i].line <= l)
  BY DEF n, UpTo
<1>3. \A i \in 1..n : segments[i].line < l <=> i <= q
  BY <1>1, <1>2
<1>4. \A i \in 1..n : segments[i].line = l <=> ~(i <= q) /\ i <= p
  BY <1>1, <1>2
<1>5. Coverage!Starts(l) = {i \in 1..n : ~(i <= q) /\ i <= p}
  BY <1>1, <1>4 DEF Coverage!Starts
<1>6. Coverage!Starts(l) = (q + 1)..p
  <2>1. \A i : i \in 1..n /\ ~(i <= q) /\ i <= p <=> i \in (q + 1)..p
    BY <1>1, <1>2
  <2>2. QED
    BY <1>5, <2>1
<1>7. Coverage!GoesOn(l) = {i \in 1..n : i <= q /\ \A j \in 1..n : j <= q => j <= i}
  BY <1>1, <1>3 DEF Coverage!GoesOn
<1>8. \A i \in 1..n : (i <= q /\ \A j \in 1..n : j <= q => j <= i) <=> i = q
  <2> TAKE i \in 1..n
  <2>1. ASSUME i <= q, \A j \in 1..n : j <= q => j <= i PROVE i = q
    <3>1. q \in 1..n
      BY <1>1, <1>2, <2>1
    <3>2. q <= i
      BY <1>2, <2>1, <3>1
    <3>3. QED
      BY <1>1, <1>2, <2>1, <3>2
  <2>2. ASSUME i = q PROVE i <= q /\ \A j \in 1..n : j <= q => j <= i
    BY <1>1, <1>2, <2>2
  <2>3. QED
    BY <2>1, <2>2
<1>9. QED
  BY <1>1, <1>2, <1>6, <1>7, <1>8

\* The guards and the count of a line, from its segments, are those of the report.
LEMMA LineCount ==
  ASSUME CoverageIInv, NEW l \in Nat \ {0}, NEW q \in Nat, NEW p \in 0..Len(segments), q <= p,
         Coverage!Starts(l) = (q + 1)..p,
         Coverage!GoesOn(l) = IF q = 0 THEN {} ELSE {q},
         NEW lineSegs \in Seq(Coverage!Segments), Len(lineSegs) = p - q,
         \A i \in 1..(p - q) : lineSegs[i] = segments[q + i],
         NEW wrapped, wrapped = IF q = 0 THEN <<>> ELSE <<segments[q]>>
  PROVE  /\ segments # <<>> /\ l <= Coverage!Last(segments).line =>
              (Coverage!IsCoverable(lineSegs, wrapped) <=> Coverage!Painted(l))
         /\ Coverage!LineExecCount(lineSegs, wrapped) \in Nat
         /\ Coverage!LineExecCount(lineSegs, wrapped) > 0 <=> Busy(l)
<1> DEFINE n == Len(segments)
           m == p - q
<1>1. /\ n \in Nat
      /\ \A i \in 1..n : /\ segments[i].count \in Nat /\ segments[i].counted \in BOOLEAN
                         /\ segments[i].entry \in BOOLEAN /\ segments[i].gap \in BOOLEAN
  BY SegmentFacts
<1>2. /\ m \in Nat /\ p \in 0..n /\ q \in 0..n
      /\ DOMAIN lineSegs = 1..m
      /\ \A i \in 1..m : q + i \in 1..n /\ q + i \in Coverage!Starts(l)
                         /\ lineSegs[i] = segments[q + i]
  BY LenProperties
<1>3. \A j \in Coverage!Starts(l) : j - q \in 1..m /\ q + (j - q) = j
  OBVIOUS
<1> HIDE DEF n, m
<1>4. Coverage!IsStartOfSkippedRegion(lineSegs) <=> Coverage!Skipped(l)
  <2>1. CASE m = 0
    <3>1. lineSegs = <<>> /\ Coverage!Starts(l) = {}
      BY <1>2, <2>1 DEF m
    <3>2. QED
      BY <3>1 DEF Coverage!IsStartOfSkippedRegion, Coverage!Skipped
  <2>2. CASE m # 0
    <3>1. /\ lineSegs # <<>> /\ lineSegs[1] = segments[q + 1] /\ q + 1 \in Coverage!Starts(l)
      BY <1>2, <2>2 DEF m
    <3>2. \A i \in Coverage!Starts(l) : (\A j \in Coverage!Starts(l) : i <= j) <=> i = q + 1
      <4>1. \A i \in Coverage!Starts(l) : i \in Int /\ q + 1 <= i
        OBVIOUS
      <4>2. ASSUME NEW i \in Coverage!Starts(l), \A j \in Coverage!Starts(l) : i <= j
            PROVE  i = q + 1
        <5>1. i <= q + 1 /\ q + 1 <= i /\ i \in Int
          BY <3>1, <4>1, <4>2
        <5>2. QED
          BY <5>1
      <4>3. QED
        BY <4>1, <4>2
    <3>3. Coverage!Skipped(l) <=> ~segments[q + 1].counted /\ segments[q + 1].entry
      BY <3>1, <3>2 DEF Coverage!Skipped
    <3>4. QED
      BY <3>1, <3>3 DEF Coverage!IsStartOfSkippedRegion
  <2>3. QED
    BY <2>1, <2>2
<1>5. Coverage!HasStartOfNewInstrumentedRegion(lineSegs) <=> Coverage!Regions(l) # {}
  <2>1. ASSUME Coverage!HasStartOfNewInstrumentedRegion(lineSegs)
        PROVE  Coverage!Regions(l) # {}
    <3>1. PICK i \in 1..m : ~lineSegs[i].gap /\ lineSegs[i].counted /\ lineSegs[i].entry
      BY <1>2, <2>1 DEF Coverage!HasStartOfNewInstrumentedRegion,
                        Coverage!IsStartOfInstrumentedRegion
    <3>2. q + i \in Coverage!Regions(l)
      BY <1>2, <3>1 DEF Coverage!Regions
    <3>3. QED
      BY <3>2
  <2>2. ASSUME NEW j \in Coverage!Regions(l)
        PROVE  Coverage!HasStartOfNewInstrumentedRegion(lineSegs)
    <3>1. j \in Coverage!Starts(l) /\ segments[j].counted /\ segments[j].entry /\ ~segments[j].gap
      BY DEF Coverage!Regions
    <3>2. j - q \in 1..m /\ lineSegs[j - q] = segments[j]
      BY <1>2, <1>3, <3>1
    <3>3. QED
      BY <1>2, <3>1, <3>2 DEF Coverage!HasStartOfNewInstrumentedRegion,
                              Coverage!IsStartOfInstrumentedRegion
  <2>3. QED
    BY <2>1, <2>2
<1>6. /\ wrapped # <<>> <=> q # 0
      /\ q # 0 => wrapped[1] = segments[q] /\ q \in 1..n
  BY <1>2
<1>7. wrapped # <<>> /\ wrapped[1].counted <=> \E i \in Coverage!GoesOn(l) : segments[i].counted
  BY <1>6
<1>8. segments # <<>> /\ l <= Coverage!Last(segments).line =>
        (Coverage!IsCoverable(lineSegs, wrapped) <=> Coverage!Painted(l))
  BY <1>4, <1>5, <1>7 DEF Coverage!IsCoverable, Coverage!Painted
<1> DEFINE b == IF wrapped = <<>> THEN 0 ELSE wrapped[1].count
           Of == {s.count : s \in {x \in Coverage!ToSet(lineSegs) :
                                     Coverage!IsStartOfInstrumentedRegion(x)}}
           S == {b} \cup Of
<1>9. b \in Nat /\ (b > 0 <=> \E i \in Coverage!GoesOn(l) : segments[i].count > 0)
  BY <1>1, <1>6
<1>10. \A c : c \in Of <=> \E j \in Coverage!Regions(l) \cup Coverage!Gaps(l) : c = segments[j].count
  <2> TAKE c
  <2>1. ASSUME c \in Of
        PROVE  \E j \in Coverage!Regions(l) \cup Coverage!Gaps(l) : c = segments[j].count
    <3>1. PICK i \in 1..m : lineSegs[i].counted /\ lineSegs[i].entry /\ c = lineSegs[i].count
      BY <1>2, <2>1 DEF Coverage!ToSet, Coverage!IsStartOfInstrumentedRegion
    <3>2. q + i \in Coverage!Regions(l) \cup Coverage!Gaps(l)
      BY <1>1, <1>2, <3>1 DEF Coverage!Regions, Coverage!Gaps
    <3>3. QED
      BY <1>2, <3>1, <3>2
  <2>2. ASSUME NEW j \in Coverage!Regions(l) \cup Coverage!Gaps(l), c = segments[j].count
        PROVE  c \in Of
    <3>1. j \in Coverage!Starts(l) /\ segments[j].counted /\ segments[j].entry
      BY DEF Coverage!Regions, Coverage!Gaps
    <3>2. j - q \in 1..m /\ lineSegs[j - q] = segments[j]
      BY <1>2, <1>3, <3>1
    <3>3. QED
      BY <1>2, <2>2, <3>1, <3>2 DEF Coverage!ToSet, Coverage!IsStartOfInstrumentedRegion
  <2>3. QED
    BY <2>1, <2>2
<1> DEFINE ns == [i \in 1..m |-> lineSegs[i].count]
<1>11. /\ ns \in Seq(Nat) /\ Len(ns) = m
       /\ Of \subseteq {ns[i] : i \in 1..Len(ns)}
  <2>1. \A i \in 1..m : lineSegs[i].count \in Nat
    BY <1>1, <1>2
  <2>2. ns \in Seq(Nat) /\ Len(ns) = m
    <3>1. m \in Nat
      BY <1>2
    <3>2. ns \in [1..m -> Nat]
      BY <2>1
    <3>3. QED
      BY <3>1, <3>2
  <2>3. QED
    BY <1>2, <2>2 DEF Coverage!ToSet
<1> HIDE DEF b, Of, ns
<1>12. S \in SUBSET ({b} \cup {ns[i] : i \in 1..Len(ns)}) /\ b \in S
  BY <1>11
<1>13. Coverage!Max(S) \in S /\ \A x \in S : Coverage!Max(S) >= x
  BY <1>9, <1>11, <1>12, LargestOf
<1>14. S \subseteq Nat
  <2>1. \A i \in 1..Len(ns) : ns[i] \in Nat
    BY <1>11
  <2>2. QED
    BY <1>9, <1>12, <2>1
<1>15. Coverage!LineExecCount(lineSegs, wrapped) = Coverage!Max(S)
  BY DEF Coverage!LineExecCount, b, Of
<1>16. Busy(l) <=> \E x \in S : x > 0
  <2>1. (\E x \in Of : x > 0) <=>
          \E j \in Coverage!Regions(l) \cup Coverage!Gaps(l) : segments[j].count > 0
    BY <1>10
  <2>2. (\E x \in S : x > 0) <=> b > 0 \/ \E x \in Of : x > 0
    OBVIOUS
  <2>3. QED
    BY <1>9, <2>1, <2>2 DEF Busy
<1>17. QED
  <2> HIDE DEF S
  <2>1. Coverage!Max(S) \in Nat /\ (Coverage!Max(S) > 0 <=> \E x \in S : x > 0)
    <3> DEFINE c == Coverage!Max(S)
    <3>1. c \in S /\ \A x \in S : c >= x
      BY <1>13
    <3> HIDE DEF c
    <3>2. \A x \in S : x \in Nat
      BY <1>14
    <3>3. c \in Nat /\ (c > 0 <=> \E x \in S : x > 0)
      BY <3>1, <3>2
    <3>4. QED
      BY <3>3 DEF c
  <2>2. QED
    BY <1>8, <1>15, <1>16, <2>1

\* One turn of the loop.
LEMMA CountedTurn ==
  ASSUME CoverageIInv, NEW l \in Nat, NEW acc, Counted(l, acc), segments # <<>>,
         l + 1 <= Coverage!Last(segments).line
  PROVE  Counted(l + 1, Coverage!CountLine(acc, l + 1))
<1> DEFINE n == Len(segments)
           k == l + 1
           next == Coverage!CountLine(acc, k)
<1>1. PICK q \in 0..n : /\ UpTo(l, q)
                       /\ acc.rest = SubSeq(segments, q + 1, n)
                       /\ acc.wrapped = IF q = 0 THEN <<>> ELSE <<segments[q]>>
  BY DEF Counted
<1>2. k \in Nat \ {0} /\ k - 1 = l
  OBVIOUS
<1>3. PICK p : UpTo(k, p)
  BY <1>2, SegmentsUpTo
<1>4. n \in Nat /\ q \in 0..n /\ p \in 0..n
  BY <1>1, <1>3, SegmentFacts DEF UpTo
<1> DEFINE lineSegs == Coverage!InLine(acc.rest, k)
           wrapped == acc.wrapped
<1> HIDE DEF n, k
<1>5. /\ q <= p
      /\ lineSegs \in Seq(Coverage!Segments) /\ Len(lineSegs) = p - q
      /\ \A i \in 1..(p - q) : lineSegs[i] = segments[q + i]
      /\ SubSeq(acc.rest, Len(lineSegs) + 1, Len(acc.rest)) = SubSeq(segments, p + 1, n)
  <2>1. acc.rest = SubSeq(segments, q + 1, Len(segments))
    BY <1>1 DEF n
  <2>2. LET rest == SubSeq(segments, q + 1, Len(segments))
            own == Coverage!InLine(rest, k)
        IN /\ q <= p
           /\ own \in Seq(Coverage!Segments) /\ Len(own) = p - q
           /\ \A i \in 1..(p - q) : own[i] = segments[q + i]
           /\ SubSeq(rest, Len(own) + 1, Len(rest)) = SubSeq(segments, p + 1, Len(segments))
    <3>1. UpTo(k - 1, q) /\ UpTo(k, p)
      BY <1>1, <1>2, <1>3
    <3>2. QED
      BY <1>2, <3>1, SegmentsOfLine
  <2>3. QED
    BY <2>1, <2>2 DEF n
<1>6. /\ Coverage!Starts(k) = (q + 1)..p
      /\ Coverage!GoesOn(k) = IF q = 0 THEN {} ELSE {q}
  BY <1>1, <1>2, <1>3, PlacesOfLine
<1> HIDE DEF lineSegs
<1> DEFINE c == Coverage!LineExecCount(lineSegs, wrapped)
<1>7. /\ Coverage!IsCoverable(lineSegs, wrapped) <=> Coverage!Painted(k)
      /\ c \in Nat /\ (c > 0 <=> Busy(k))
  <2>1. q \in Nat /\ p \in 0..Len(segments)
    BY <1>1, <1>3, <1>4 DEF n, UpTo
  <2>2. k <= Coverage!Last(segments).line
    BY DEF k
  <2>3. QED
    BY <1>1, <1>2, <1>5, <1>6, <2>1, <2>2, LineCount
<1> HIDE DEF c, wrapped
<1>8. /\ next.rest = SubSeq(segments, p + 1, n)
      /\ next.wrapped = Coverage!NextWrapped(lineSegs, wrapped)
      /\ next.execCount = IF Coverage!Painted(k) THEN acc.execCount \cup {<<k, c>>}
                                                  ELSE acc.execCount
  BY <1>5, <1>7 DEF Coverage!CountLine, lineSegs, c, wrapped
<1>9. next.wrapped = IF p = 0 THEN <<>> ELSE <<segments[p]>>
  <2>1. CASE p = q
    <3>1. lineSegs = <<>>
      BY <1>5, <2>1, <1>4
    <3>2. QED
      BY <1>1, <1>8, <2>1, <3>1 DEF Coverage!NextWrapped, wrapped
  <2>2. CASE p # q
    <3>1. /\ lineSegs # <<>> /\ p - q \in 1..(p - q) /\ q + (p - q) = p /\ p # 0
      BY <1>4, <1>5, <2>2
    <3>2. Coverage!Last(lineSegs) = segments[p]
      BY <1>5, <3>1 DEF Coverage!Last
    <3>3. QED
      BY <1>8, <3>1, <3>2 DEF Coverage!NextWrapped
  <2>3. QED
    BY <2>1, <2>2
<1> HIDE DEF next
<1>10. ASSUME NEW x \in next.execCount
       PROVE  /\ x[1] \in 1..k /\ Coverage!Painted(x[1])
              /\ x[2] \in Nat /\ (x[2] > 0 <=> Busy(x[1]))
  <2>1. CASE x \in acc.execCount
    <3>1. /\ x[1] \in 1..l /\ Coverage!Painted(x[1])
          /\ x[2] \in Nat /\ (x[2] > 0 <=> Busy(x[1]))
      BY <2>1 DEF Counted
    <3>2. 1..l \subseteq 1..k
      BY DEF k
    <3>3. QED
      BY <3>1, <3>2
  <2>2. CASE x = <<k, c>> /\ Coverage!Painted(k)
    <3>1. x[1] = k /\ x[2] = c /\ k \in 1..k
      BY <1>2, <2>2
    <3>2. QED
      BY <1>7, <2>2, <3>1
  <2>3. QED
    BY <1>8, <2>1, <2>2
<1>11. ASSUME NEW e \in 1..k, Coverage!Painted(e)
       PROVE  \E x \in next.execCount : x[1] = e
  <2>1. CASE e \in 1..l
    <3>1. PICK x \in acc.execCount : x[1] = e
      BY <1>11, <2>1 DEF Counted
    <3>2. QED
      BY <1>8, <3>1
  <2>2. CASE e = k
    <3>1. <<k, c>> \in next.execCount /\ <<k, c>>[1] = k
      BY <1>8, <1>11, <2>2
    <3>2. QED
      BY <2>2, <3>1
  <2>3. QED
    BY <2>1, <2>2 DEF k
<1>12. QED
  <2>1. Counted(k, next)
    BY <1>3, <1>8, <1>9, <1>10, <1>11 DEF Counted, n, UpTo
  <2>2. QED
    BY <2>1 DEF k, next

\* There is a function that takes the turns one by one.
LEMMA TurnsTaken ==
  ASSUME NEW segs, NEW n \in Nat
  PROVE  LET after == Coverage!Turns(segs, n) IN
         /\ after[0] = [rest |-> segs, wrapped |-> <<>>, execCount |-> {}]
         /\ \A l \in 1..n : after[l] = Coverage!CountLine(after[l - 1], l)
<1> DEFINE Start == [rest |-> segs, wrapped |-> <<>>, execCount |-> {}]
           Takes(f, m) == f = [l \in 0..m |-> IF l = 0 THEN Start
                                              ELSE Coverage!CountLine(f[l - 1], l)]
           Made == {m \in Nat : \E f : Takes(f, m)}
<1>1. 0 \in Made
  <2> DEFINE f == [l \in 0..0 |-> Start]
  <2>1. Takes(f, 0)
    OBVIOUS
  <2>2. QED
    BY <2>1
<1>2. ASSUME NEW m \in Made PROVE m + 1 \in Made
  <2>1. PICK f : Takes(f, m)
    OBVIOUS
  <2> DEFINE h == [l \in 0..(m + 1) |-> IF l = m + 1 THEN Coverage!CountLine(f[m], m + 1)
                                        ELSE f[l]]
  <2>2. ASSUME NEW l \in 0..(m + 1)
        PROVE  h[l] = IF l = 0 THEN Start ELSE Coverage!CountLine(h[l - 1], l)
    <3>1. CASE l = m + 1
      <4>1. l - 1 = m /\ h[m] = f[m] /\ l # 0
        BY <3>1
      <4>2. QED
        BY <3>1, <4>1
    <3>2. CASE l # m + 1 /\ l # 0
      <4>1. l \in 0..m /\ l - 1 \in 0..(m + 1) /\ l - 1 # m + 1
        BY <3>2
      <4>2. h[l] = f[l] /\ h[l - 1] = f[l - 1]
        BY <3>2, <4>1
      <4>3. f[l] = Coverage!CountLine(f[l - 1], l)
        BY <2>1, <3>2, <4>1
      <4>4. QED
        BY <3>2, <4>2, <4>3
    <3>3. CASE l # m + 1 /\ l = 0
      <4>1. h[l] = f[l] /\ f[l] = Start
        BY <2>1, <3>3
      <4>2. QED
        BY <3>3, <4>1
    <3>4. QED
      BY <3>1, <3>2, <3>3
  <2> HIDE DEF Start
  <2>3. h = [l \in 0..(m + 1) |-> h[l]]
    OBVIOUS
  <2> HIDE DEF h
  <2>4. Takes(h, m + 1)
    BY <2>2, <2>3
  <2>5. QED
    BY <2>4
<1>3. n \in Made
  <2> HIDE DEF Made
  <2>1. Made \in SUBSET Nat
    BY DEF Made
  <2>2. QED
    BY <1>1, <1>2, <2>1, InductiveSet
<1>4. PICK f : Takes(f, n)
  BY <1>3
<1>5. Takes(Coverage!Turns(segs, n), n)
  BY <1>4 DEF Coverage!Turns
<1>6. QED
  <2> DEFINE after == Coverage!Turns(segs, n)
  <2>1. after = [l \in 0..n |-> IF l = 0 THEN Start ELSE Coverage!CountLine(after[l - 1], l)]
    BY <1>5
  <2> HIDE DEF after, Start
  <2>2. after[0] = Start /\ \A l \in 1..n : after[l] = Coverage!CountLine(after[l - 1], l)
    BY <2>1
  <2>3. QED
    BY <2>2 DEF after, Start

\* The lines are painted as the report has them, but for executed gaps.
LEMMA LinesPainted == CoverageIInv => Coverage!LinesAreRight
<1> SUFFICES ASSUME CoverageIInv, NEW l \in 1..MaxLine,
                    ~\E i \in Coverage!Gaps(l) : segments[i].count > 0
             PROVE  Coverage!PaintedRight(l)
  BY DEF Coverage!LinesAreRight
<1> DEFINE n == Len(segments)
           last == IF segments = <<>> THEN 0 ELSE Coverage!Last(segments).line
           after == Coverage!Turns(segments, last)
           count == after[last].execCount
<1>1. last \in Nat /\ n \in Nat /\ (segments # <<>> => n \in 1..n /\ last = segments[n].line)
  <2>1. segments # <<>> => n \in 1..n
    BY DEF CoverageIInv
  <2>2. QED
    BY <2>1, SegmentFacts, CoverageAssumption DEF Coverage!Last
<1> HIDE DEF last
<1>2. /\ after[0] = [rest |-> segments, wrapped |-> <<>>, execCount |-> {}]
      /\ \A k \in 1..last : after[k] = Coverage!CountLine(after[k - 1], k)
  BY <1>1, TurnsTaken
<1> HIDE DEF after
<1> DEFINE Done == {k \in Nat : k <= last => Counted(k, after[k])}
<1>3. 0 \in Done
  <2>1. UpTo(0, 0)
    BY SegmentFacts, CoverageAssumption DEF UpTo
  <2>2. SubSeq(segments, 0 + 1, Len(segments)) = segments
    BY SubSeqFull DEF CoverageIInv
  <2>3. /\ after[0].rest = segments /\ after[0].wrapped = <<>> /\ after[0].execCount = {}
    BY <1>2
  <2>4. Counted(0, after[0])
    BY <2>1, <2>2, <2>3, SegmentFacts DEF Counted
  <2>5. QED
    BY <2>4
<1>4. ASSUME NEW k \in Done PROVE k + 1 \in Done
  <2>1. SUFFICES ASSUME k + 1 <= last PROVE Counted(k + 1, after[k + 1])
    OBVIOUS
  <2>2. Counted(k, after[k]) /\ k \in Nat
    BY <1>1, <2>1
  <2>3. segments # <<>> /\ last = Coverage!Last(segments).line
    BY <2>1, <2>2 DEF last
  <2>4. Counted(k + 1, Coverage!CountLine(after[k], k + 1))
    BY <2>1, <2>2, <2>3, CountedTurn
  <2>5. k + 1 \in 1..last /\ (k + 1) - 1 = k
    BY <1>1, <2>1, <2>2
  <2>6. QED
    BY <1>2, <2>4, <2>5
<1>5. Counted(last, after[last])
  <2> HIDE DEF Done
  <2>1. Done \in SUBSET Nat
    BY DEF Done
  <2>2. last \in Done
    BY <1>1, <1>3, <1>4, <2>1, InductiveSet
  <2>3. QED
    BY <1>1, <2>2 DEF Done
<1>6. /\ l \in Coverage!LlvmToLineFormat(segments).covered
           <=> \E x \in count : x[1] = l /\ x[2] > 0
      /\ l \in Coverage!LlvmToLineFormat(segments).uncovered
           <=> \E x \in count : x[1] = l /\ x[2] = 0
  BY DEF Coverage!LlvmToLineFormat, last, after
<1> HIDE DEF count
<1>7. \A x \in count : /\ x[1] \in 1..last /\ Coverage!Painted(x[1])
                       /\ x[2] \in Nat /\ (x[2] > 0 <=> Busy(x[1]))
  BY <1>5 DEF Counted, count
<1>8. Coverage!Painted(l) => \E x \in count : x[1] = l
  <2>1. Coverage!Painted(l) => l \in 1..last
    BY <1>1 DEF Coverage!Painted, last
  <2>2. QED
    BY <1>5, <2>1 DEF Counted, count
<1>9. Busy(l) <=> Coverage!Executed(l)
  BY DEF Busy, Coverage!Executed
<1>10. QED
  BY <1>6, <1>7, <1>8, <1>9 DEF Coverage!PaintedRight

LEMMA HookInit == Hook!Init => HookIInv
  BY DEF Hook!Init, HookIInv, Hook!TypeOK

LEMMA HookStep == HookIInv /\ [Hook!Next]_hookVars => HookIInv'
<1>1. SUFFICES ASSUME HookIInv, [Hook!Next]_hookVars PROVE HookIInv'
  OBVIOUS
<1>2. hook \in Seq(Hook!Options)
  BY <1>1 DEF HookIInv, Hook!TypeOK
<1>3. \A o \in Hook!Options : Append(hook, o) \in Seq(Hook!Options)
  <2> DEFINE S == Hook!Options
  <2>1. hook \in Seq(S)
    BY <1>2
  <2> HIDE DEF S
  <2>2. \A o \in S : Append(hook, o) \in Seq(S)
    BY <2>1
  <2>3. QED
    BY <2>2 DEF S
<1>4. hook' \in Seq(Hook!Options)
  BY <1>1, <1>2, <1>3 DEF Hook!Next, hookVars
<1>5. QED
  BY <1>4 DEF HookIInv, Hook!TypeOK

-----------------------------------------------------------------------------
DocumentsIInv ==
  /\ GitIInv /\ ThreadIInv /\ FormatIInv /\ DefaultIInv /\ BuildIInv
  /\ ShiftIInv /\ CoverageIInv /\ HookIInv

\* The inductive invariants hold of every component at once, whichever of them
\* runs, for any constants that meet the assumptions.
THEOREM DocumentsInvariance == MCSpec => []DocumentsIInv
<1>1. MCInit => DocumentsIInv
  BY GitInitially, ThreadInitially, FormatInitially, DefaultInitially,
     BuildInitially, ShiftInit, CoverageInit, HookInit DEF MCInit, DocumentsIInv
<1>2. DocumentsIInv /\ [MCNext]_MCvars => DocumentsIInv'
  <2>1. SUFFICES ASSUME DocumentsIInv, [MCNext]_MCvars PROVE DocumentsIInv'
    OBVIOUS
  <2>2. /\ [Git!Next]_gitVars /\ [Threads!Next]_threadVars
        /\ [Format!Next]_formatVars /\ [Default!Next]_defaultVars
        /\ [Build!Next]_buildVars /\ [Shifts!Next]_shiftVars /\ [Coverage!Next]_paintVars
        /\ [Hook!Next]_hookVars
    BY <2>1 DEF MCNext, MCvars
  <2>3. QED
    BY <2>1, <2>2, GitStep, ThreadStep, FormatStep, DefaultStep, BuildStep,
       ShiftStep, CoverageStep, HookStep DEF DocumentsIInv
<1>3. QED
  BY <1>1, <1>2, PTL DEF MCSpec

\* The watchers of HEAD are those of the visible directories, and these have open
\* documents (git_dirs/watcher.ts:20), for any documents, directories and events.
THEOREM Watched == MCSpec => []WatchedIsVisibleIsOpen
<1>1. GitIInv => WatchedIsVisibleIsOpen
  BY DEF GitIInv, GitAlone, GitUntangled, WatchedIsVisibleIsOpen
<1>2. QED
  BY <1>1, DocumentsInvariance, PTL DEF DocumentsIInv

\* Once all is quiet the editor shows what was fetched, where the file has it
\* (gerrit.ts, showChanges), for any number of calls, saves and comments.
THEOREM Thread == MCSpec => []ThreadIsRight
<1>1. ThreadIInv => ThreadIsRight
  BY ThreadHolds DEF ThreadIsRight
<1>2. QED
  BY <1>1, DocumentsInvariance, PTL DEF DocumentsIInv

\* A comment is shown at its line (comment_thread.ts, getShift), and lines are
\* painted as the report has them (llvm_json_parser.ts:43), for a file of any length
\* and any edit of it, and for a report of any number of segments and lines.
THEOREM LinesFollow == MCSpec => []LinesAreRight
<1>1. ShiftIInv /\ CoverageIInv => LinesAreRight
  BY CommentShown, LinesPainted DEF LinesAreRight
<1>2. QED
  BY <1>1, DocumentsInvariance, PTL DEF DocumentsIInv

\* The command on a document has every option of the hook up to the "--", in order
\* and with its patterns resolved, and nothing of what selects other files
\* (formatting_edit_provider.ts:264), for a hook with any number of options.
THEOREM OptionsStay == MCSpec => []OptionsSurvive
<1>1. HookIInv => OptionsSurvive
  BY Hook!HookRight DEF HookIInv, OptionsSurvive
<1>2. QED
  BY <1>1, DocumentsInvariance, PTL DEF DocumentsIInv

\* The flags of a watch tell what it builds, and what it has built is current
\* (chromium_build.ts:319), for any labels, watches, saves and builds.
THEOREM BuildsAreTold == MCSpec => []FlagsTellTheBuilds
<1>1. BuildIInv => FlagsTellTheBuilds
  BY BuildHolds DEF FlagsTellTheBuilds
<1>2. QED
  BY <1>1, DocumentsInvariance, PTL DEF DocumentsIInv

\* Formatting loses only what was typed behind it (formatting_edit_provider.ts),
\* and who has chosen another formatter keeps it until asked
\* (default_formatter.ts:69), for any documents, calls and additions.
THEOREM Formatters == MCSpec => FormatterObeys
<1> DEFINE Keeps == \A d \in FormatDocs : buffer'[d].edits < buffer[d].edits =>
                      \E c \in FormatCalls : call[c].doc = d /\ call[c].behind
           Stands == chosen /\ defaultFormatter = "other" /\ defaultFormatter' = "chromiumide"
                       => \E a \in Additions : Default!AnswerYes(a)
<1>1. DocumentsIInv /\ [MCNext]_MCvars => [Keeps]_(Format!vars)
  <2>1. SUFFICES ASSUME DocumentsIInv, [MCNext]_MCvars, Format!vars' # Format!vars
                 PROVE  Keeps
    OBVIOUS
  <2>2. Format!Next
    BY <2>1 DEF MCNext, MCvars, formatVars, Format!vars
  <2>3. QED
    BY <2>1, <2>2, FormatKeeps DEF DocumentsIInv
<1>2. DocumentsIInv /\ [MCNext]_MCvars => [Stands]_(Default!vars)
  <2>1. SUFFICES ASSUME DocumentsIInv, [MCNext]_MCvars, Default!vars' # Default!vars
                 PROVE  Stands
    OBVIOUS
  <2>2. Default!Next
    BY <2>1 DEF MCNext, MCvars, defaultVars, Default!vars
  <2>3. QED
    BY <2>1, <2>2, DefaultStands DEF DocumentsIInv
<1>3. QED
  BY <1>1, <1>2, DocumentsInvariance, PTL DEF MCSpec, FormatterObeys,
                                              Format!KeepsText,
                                              Default!ChoiceStands
=============================================================================
