-------------------------------- MODULE Lint --------------------------------
(***************************************************************************)
(* Linting: a document is linted when its editor is first activated and    *)
(* when it is saved.  A run goes through the linters of the language one   *)
(* by one, each a process that reads the file on disk, and puts all it has *)
(* found into the diagnostic collection at its end.  Nothing cancels a run *)
(* and nothing keeps two runs of one document apart.                       *)
(***************************************************************************)
EXTENDS Naturals, Sequences, FiniteSets

CONSTANTS
  Docs,      \* documents
  Language,  \* their languageId
  Has,       \* what each document has around it, see Needs
  Runs,      \* runs of updateDiagnostics
  NoDoc,     \* no document
  MaxSaves,  \* bound: how often documents are saved
  MaxToggles \* bound: how often linting is switched on and off

VARIABLES
  enabled,    \* the setting lint.enabled
  active,     \* the active editor's document
  open,       \* documents that are open
  activated,  \* alreadyActivated of the TextEditorsWatcher
  saved,      \* how often each was saved: the content on disk
  toggles,    \* counts the changes of the setting
  run,        \* the runs: their document, linters to go, and findings
  collection, \* the diagnostics of each document
  status,     \* of the background task
  goWarningShown, \* the user has been told that go is missing
  crossed     \* documents whose runs crossed something, see Crosses

vars == <<enabled, active, open, activated, saved, toggles, run, collection, status, goWarningShown, crossed>>
editors == <<active, open, activated, saved>>

Idle == [doc |-> NoDoc, todo |-> <<>>, found |-> {}, asks |-> FALSE]
RunsOf(d) == {r \in Runs : run[r].doc = d}
Nothing == [d \in Docs |-> {}]

-----------------------------------------------------------------------------
(* The linters *)

\* languageToLintConfigs
Linters(language) ==
  CASE language = "cpp" -> <<"cros lint", "libchrome check">>
    [] language = "go" -> <<"cros lint", "tast lint">>
    [] language \in {"gn", "python", "shellscript"} -> <<"cros lint">>
    [] OTHER -> <<>>

\* What `command` looks for; without one of them the linter is not applied.
Needs(linter, language) ==
  CASE linter = "cros lint" -> {"source dir", "cros exe", "PRESUBMIT.cfg", "cros lint hook", "parsable hook"}
                               \cup (IF language = "go" THEN {"chroot"} ELSE {})
    [] linter = "libchrome check" -> {"source dir", "libchrome user"}
    [] linter = "tast lint" -> {"tast file", "chroot", "go", "source dir"}

IgnoreEmptyDiagnostics(linter, language) ==
  linter = "tast lint" \/ (linter = "cros lint" /\ language \in {"gn", "python"})

\* A reported problem: the file it names, which is told by its base name
\* alone, and the line, which may be 0 or missing.
Wordings(language) ==
  CASE language = "cpp" -> {"line", "line 0"}
    [] language = "shellscript" -> {"line", "no line", "trailing blank lines"}
    [] OTHER -> {"line"}
Reports(language) == [file : {"itself", "namesake", "other"}, wording : Wordings(language)]
Placed(wording) ==
  CASE wording = "line" -> "the line" [] wording = "trailing blank lines" -> "last line" [] OTHER -> "first line"
SameFile(file) == file # "other"
Parse(reports) == {Placed(p.wording) : p \in {q \in reports : SameFile(q.file)}}
-----------------------------------------------------------------------------
(* updateDiagnosticsWrapper *)

Begun(d) == [doc |-> d, todo |-> Linters(Language[d]), found |-> {}, asks |-> FALSE]
Linted(d) == Linters(Language[d]) # <<>> /\ "not generated" \in Has[d]

\* `activate` lints the document in front.
Init ==
  /\ enabled = TRUE
  /\ active \in Docs \cup {NoDoc}
  /\ open = {active} \ {NoDoc} /\ activated = open
  /\ saved = [d \in Docs |-> 0] /\ toggles = 0
  /\ LET idle == [r \in Runs |-> Idle] IN
     IF active # NoDoc /\ Linted(active) THEN \E r \in Runs : run = [idle EXCEPT ![r] = Begun(active)]
     ELSE run = idle
  /\ collection = Nothing
  /\ status = "ok" /\ goWarningShown = FALSE
  /\ crossed = {}

\* A run on document d begins, or all is cleared when linting is off.
Update(d) ==
  CASE ~enabled -> collection' = Nothing /\ UNCHANGED run
    [] enabled /\ Linted(d) ->
         /\ \E r \in Runs : run[r] = Idle /\ run' = [run EXCEPT ![r] = Begun(d)]
         /\ UNCHANGED collection
    [] OTHER -> UNCHANGED <<run, collection>>

\* A run of d meets another one, the closing of d or the switch, or it is of
\* a document the watcher does not know and will not report as closed.
Crosses(d) == RunsOf(d) # {} \/ d \notin activated'

Running(r, linter) == run[r].todo # <<>> /\ Head(run[r].todo) = linter /\ ~run[r].asks
Missing(r, linter) == Needs(linter, Language[run[r].doc]) \ Has[run[r].doc]
Skip(r) == run' = [run EXCEPT ![r].todo = Tail(@), ![r].asks = FALSE]

\* The run's next linter is not to be applied to the document.
NotApplying(r) ==
  /\ \E linter \in {"cros lint", "libchrome check", "tast lint"} :
       /\ Running(r, linter) /\ Missing(r, linter) # {}
       /\ linter = "tast lint" => Missing(r, linter) \ {"source dir"} # {"go"} \/ goWarningShown
  /\ Skip(r)
  /\ UNCHANGED <<enabled, editors, toggles, collection, status, goWarningShown, crossed>>

\* checkForGo tells the user, once, and the run waits for the answer.
CheckForGo(r) ==
  /\ Running(r, "tast lint") /\ Missing(r, "tast lint") \ {"source dir"} = {"go"} /\ ~goWarningShown
  /\ goWarningShown' = TRUE
  /\ run' = [run EXCEPT ![r].asks = TRUE]
  /\ UNCHANGED <<enabled, editors, toggles, collection, status, crossed>>

Answer(r) ==
  /\ run[r].asks
  /\ Skip(r)
  /\ UNCHANGED <<enabled, editors, toggles, collection, status, goWarningShown, crossed>>

Applying(r) == \E linter \in {"cros lint", "libchrome check", "tast lint"} : Running(r, linter) /\ Missing(r, linter) = {}

\* Its process reports on the content on disk.
Exec(r, reports) ==
  /\ Applying(r)
  /\ LET linter == Head(run[r].todo) IN
     run' = [run EXCEPT ![r].todo = Tail(@),
                        ![r].found = @ \cup {<<linter, place, saved[run[r].doc]>> : place \in Parse(reports)}]
  /\ UNCHANGED <<enabled, editors, toggles, collection, status, goWarningShown, crossed>>

\* The run ends with nothing set, as when the process cannot be run.
Abandon(r) ==
  /\ Applying(r)
  /\ status' = "error"
  /\ run' = [run EXCEPT ![r] = Idle]

ExecFails(r) ==
  /\ Abandon(r)
  /\ UNCHANGED <<enabled, editors, toggles, collection, goWarningShown, crossed>>

\* A non-zero exit without diagnostics, which some linters may do.
MissingDiagnostics(r) ==
  /\ Abandon(r)
  /\ ~IgnoreEmptyDiagnostics(Head(run[r].todo), Language[run[r].doc])
  /\ UNCHANGED <<enabled, editors, toggles, collection, goWarningShown, crossed>>

\* mutant: what is found is added to the diagnostics
AddDiagnostics(r) ==
  /\ run[r].doc # NoDoc /\ run[r].todo = <<>>
  /\ collection' = [collection EXCEPT ![run[r].doc] = @ \cup run[r].found]
  /\ status' = "ok"
  /\ run' = [run EXCEPT ![r] = Idle]
  /\ UNCHANGED <<enabled, editors, toggles, goWarningShown, crossed>>
\* The last linter is done.
SetDiagnostics(r) ==
  /\ run[r].doc # NoDoc /\ run[r].todo = <<>>
  /\ collection' = [collection EXCEPT ![run[r].doc] = run[r].found]
  /\ status' = "ok"
  /\ run' = [run EXCEPT ![r] = Idle]
  /\ UNCHANGED <<enabled, editors, toggles, goWarningShown, crossed>>
-----------------------------------------------------------------------------
(* Editors and settings *)

\* onDidChangeActiveTextEditor; the watcher reports a document's first.
ActivateEditor(d) ==
  /\ active # d
  /\ active' = d /\ open' = open \cup {d} /\ activated' = activated \cup {d}
  /\ crossed' = IF RunsOf(d) # {} THEN crossed \cup {d} ELSE crossed
  /\ IF d \in activated THEN UNCHANGED <<run, collection>> ELSE Update(d)
  /\ UNCHANGED <<enabled, saved, toggles, status, goWarningShown>>

\* A document is opened but not shown, as by an edit over many files.
OpenUnseen(d) ==
  /\ d \notin open
  /\ open' = open \cup {d}
  /\ UNCHANGED <<enabled, active, activated, saved, toggles, run, collection, status, goWarningShown, crossed>>

Save(d) ==
  /\ d \in open /\ saved[d] < MaxSaves
  /\ saved' = [saved EXCEPT ![d] = @ + 1]
  /\ UNCHANGED activated
  /\ crossed' = IF Crosses(d) THEN crossed \cup {d} ELSE crossed
  /\ Update(d)
  /\ UNCHANGED <<enabled, active, open, toggles, status, goWarningShown>>

\* onDidCloseTextDocument: reported if it was activated.
Close(d) ==
  /\ d \in open
  /\ open' = open \ {d} /\ activated' = activated \ {d}
  /\ active' = IF active = d THEN NoDoc ELSE active
  /\ collection' = IF d \in activated THEN [collection EXCEPT ![d] = {}] ELSE collection
  /\ crossed' = IF RunsOf(d) # {} THEN crossed \cup {d} ELSE crossed
  /\ UNCHANGED <<enabled, saved, toggles, run, status, goWarningShown>>

Toggle ==
  /\ toggles < MaxToggles
  /\ toggles' = toggles + 1
  /\ enabled' = ~enabled
  /\ crossed' = crossed \cup {d \in Docs : RunsOf(d) # {}}
  /\ IF enabled THEN collection' = Nothing /\ UNCHANGED run
     ELSE UNCHANGED collection /\
          IF active = NoDoc \/ ~Linted(active) THEN UNCHANGED run
          ELSE \E r \in Runs : run[r] = Idle /\ run' = [run EXCEPT ![r] = Begun(active)]
  /\ UNCHANGED <<editors, status, goWarningShown>>

Next ==
  \/ \E d \in Docs : ActivateEditor(d) \/ OpenUnseen(d) \/ Save(d) \/ Close(d)
  \/ \E r \in Runs : \/ NotApplying(r) \/ CheckForGo(r) \/ Answer(r)
                     \/ ExecFails(r) \/ MissingDiagnostics(r) \/ SetDiagnostics(r)
                     \/ /\ run[r].doc # NoDoc
                        /\ \E reports \in {{}} \cup {{p} : p \in Reports(Language[run[r].doc])} : Exec(r, reports)
  \/ Toggle

Spec == Init /\ [][Next]_vars
-----------------------------------------------------------------------------
TypeOK ==
  /\ enabled \in BOOLEAN /\ active \in Docs \cup {NoDoc}
  /\ activated \subseteq open /\ open \subseteq Docs /\ crossed \subseteq Docs
  /\ \A r \in Runs : run[r].doc \in Docs \cup {NoDoc}
  /\ status \in {"ok", "error"}

\* The diagnostics of a document are of the content last linted, one version
\* of it for all linters, and a document that is closed or linted no more has
\* none, unless runs have crossed.
DiagnosticsAreOfOneLint ==
  \A d \in Docs \ crossed :
    /\ \A x, y \in collection[d] : x[3] = y[3]
    /\ collection[d] # {} => enabled /\ d \in open
    /\ RunsOf(d) # {} => \A r \in RunsOf(d) : \A x \in run[r].found : x[3] = saved[d]

\* "Empty all diagnostics if user switched off linting" (lint/index.ts:49).
\* It is not so for the runs the switch finds under way.
OffIsEmpty == ~enabled => collection = Nothing
=============================================================================
