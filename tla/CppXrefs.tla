------------------------------ MODULE CppXrefs ------------------------------
(***************************************************************************)
(* C++ cross references: `CppXrefs` (common/cpp_xrefs/cpp_xrefs.ts) reacts *)
(* to documents being opened or saved and to the user's command by asking  *)
(* a `GenericCompdbGenerator` (generic_compdb_generator.ts) whether a      *)
(* compilation database is wanted, and generates it as a job of a          *)
(* JobManager.  The core generator is platform2 (the other two do less:    *)
(* kernel never throws, chromium has no board).                            *)
(*                                                                         *)
(* Each `await` splits a handler: what was read before it may be stale.    *)
(* A request is one event; its document stands for a compdb path.          *)
(***************************************************************************)
EXTENDS Naturals, Sequences, FiniteSets

CONSTANTS
  Requests,     \* events: a document is opened, saved, or the command is run
  Paths,        \* compdb paths
  PathOf,       \* PathOf[r]: the compdb path of the document of r
  ScopeOf,      \* ScopeOf[r]: core.generationScope of the document of r
  Forced,       \* the requests made with the forceGenerate command
  Boards        \* values of config.board once it is set

Scopes == {"Unsupported", "Always", "InitOnly"}

ASSUME RequestsAssumption ==
  /\ PathOf \in [Requests -> Paths]
  /\ ScopeOf \in [Requests -> Scopes]
  /\ Forced \subseteq Requests
  /\ "none" \notin Boards

VARIABLES
  tasks, running, executing, settled, outcome, offered,   \* the JobManager
  phase,        \* where the handler of each request is
  board,        \* the board core.generate reads for a request
  states,       \* GenericCompdbGenerator.generationStates
  config,       \* config.board
  compdb,       \* the board of the database on disk at each path
  clangd,       \* clangdActivated
  status,       \* the task's entry in the status bar
  errorShown,   \* an error message with an Ignore button is on the screen
  ignored,      \* ignoredErrors has the error kind
  threw,        \* history: paths left Generating because core.generate was rejected
  outdated      \* history: paths being generated when the board last changed

jobVars == <<tasks, running, executing, settled, outcome, offered>>
genVars == <<board, states, config, compdb>>
uiVars == <<clangd, status, errorShown, ignored>>
historyVars == <<threw, outdated>>
vars == <<jobVars, phase, genVars, uiVars, historyVars>>

JM == INSTANCE JobManager WITH Jobs <- Requests

InJob == {"compdbPath", "prompt", "core", "restart"}
Phases == {"idle", "scope", "state", "clangd", "queued", "closed"} \cup InJob

Init ==
  /\ JM!Init
  /\ phase = [r \in Requests |-> "idle"]
  /\ board = [r \in Requests |-> "none"]
  /\ states = [p \in Paths |-> "undefined"]
  /\ config = "none"
  /\ compdb = [p \in Paths |-> "none"]
  /\ clangd = FALSE
  /\ status = "none"
  /\ errorShown = FALSE
  /\ ignored = FALSE
  /\ threw = {}
  /\ outdated = {}

Goto(r, p) == phase' = [phase EXCEPT ![r] = p]

(***************************************************************************)
(* What happens in the turn in which JobManager.handle() runs: a job that  *)
(* is started sets the status and calls generator.generate, which awaits   *)
(* compdbPath; the handlers of cancelled jobs return.  `queued` holds the  *)
(* request whose job is being offered, if any.                             *)
(***************************************************************************)
\* mutant: setTask is called next to offer() and not by the job
JobsMovedEarlyStatus(queued) ==
  LET started == executing' \ executing IN
  /\ phase' = [q \in Requests |->
                 IF q \in started THEN "compdbPath"
                 ELSE IF outcome'[q] = "cancelled" THEN "closed"
                 ELSE IF q \in queued THEN "queued" ELSE phase[q]]
  /\ status' = IF queued # {} THEN "RUNNING" ELSE status

JobsMoved(queued) ==
  LET started == executing' \ executing IN
  /\ phase' = [q \in Requests |->
                 IF q \in started THEN "compdbPath"
                 ELSE IF outcome'[q] = "cancelled" THEN "closed"
                 ELSE IF q \in queued THEN "queued" ELSE phase[q]]
  /\ status' = IF started # {} THEN "RUNNING" ELSE status

\* A document becomes active or is saved, or the command is run.
Touch(r) ==
  /\ phase[r] = "idle"
  /\ Goto(r, "scope")
  /\ UNCHANGED <<jobVars, genVars, uiVars, historyVars>>

\* shouldGenerate: core.generationScope returns.
ScopeKnown(r) ==
  /\ phase[r] = "scope"
  /\ Goto(r, IF ScopeOf[r] = "Unsupported" THEN "closed"
             ELSE IF ScopeOf[r] = "Always" THEN "clangd" ELSE "state")
  /\ UNCHANGED <<jobVars, genVars, uiVars, historyVars>>

\* shouldGenerate after core.compdbPath has returned, and the answers on
\* which maybeGenerate goes on.
ShouldGenerate(p) ==
  CASE states[p] = "undefined" -> "Yes"
    [] states[p] = "Generated" -> IF compdb[p] = "none" THEN "Yes"
                                                        ELSE "NoNeedNoChange"
    [] states[p] = "Generating" -> "NoGenerating"
    [] states[p] = "Failed" -> "NoHasFailed"

Accepted(r, answer) ==
  answer = "Yes" \/ (r \in Forced /\ answer \in {"NoHasFailed", "NoNeedNoChange"})

StateKnown(r) ==
  /\ phase[r] = "state"
  /\ Goto(r, IF Accepted(r, ShouldGenerate(PathOf[r])) THEN "clangd" ELSE "closed")
  /\ UNCHANGED <<jobVars, genVars, uiVars, historyVars>>

\* ensureClangdIsActivated: the extension is not installed.
ClangdMissing(r) ==
  /\ phase[r] = "clangd"
  /\ ~clangd
  /\ Goto(r, "closed")
  /\ UNCHANGED <<jobVars, genVars, uiVars, historyVars>>

\* ensureClangdIsActivated returns true and the job is offered.
ClangdReady(r) ==
  /\ phase[r] = "clangd"
  /\ clangd' = TRUE
  /\ JM!Offer(r)
  /\ JobsMoved({r})
  /\ UNCHANGED <<genVars, errorShown, ignored, historyVars>>

\* generate: compdbPath returns and core.generate starts by reading the
\* board, for which it prompts the user when none is configured.
CompdbPathKnown(r) ==
  /\ phase[r] = "compdbPath"
  /\ states' = [states EXCEPT ![PathOf[r]] = "Generating"]
  /\ board' = [board EXCEPT ![r] = config]
  /\ Goto(r, IF config = "none" THEN "prompt" ELSE "core")
  /\ threw' = threw \ {PathOf[r]}
  /\ outdated' = outdated \ {PathOf[r]}
  /\ UNCHANGED <<jobVars, config, compdb, uiVars>>

Overtaken == {PathOf[r] : r \in {q \in Requests : phase[q] = "core"}}

\* mutant: the generation states are reset only while one is in progress
ConfigChangesKeepingRunning(b) ==
  /\ config' = b
  /\ states' = [p \in Paths |-> IF Overtaken = {} THEN states[p] ELSE "undefined"]
  /\ outdated' = Overtaken
  /\ threw' = {}

\* config.board.onDidChange: the generator forgets what it has generated.
ConfigChanges(b) ==
  /\ config' = b
  /\ states' = [p \in Paths |-> "undefined"]
  /\ outdated' = Overtaken
  /\ threw' = {}

\* The user answers the prompt of getOrPromptToSelectDefaultBoard.
BoardPicked(r, b) ==
  /\ phase[r] = "prompt"
  /\ IF b = config THEN UNCHANGED <<config, states, historyVars>>
                 ELSE ConfigChanges(b)
  /\ board' = [board EXCEPT ![r] = b]
  /\ Goto(r, "core")
  /\ UNCHANGED <<jobVars, compdb, uiVars>>

\* core.generate has written the database; clangd.restart is awaited.
CoreSucceeds(r) ==
  /\ phase[r] = "core"
  /\ compdb' = [compdb EXCEPT ![PathOf[r]] = board[r]]
  /\ states' = [states EXCEPT ![PathOf[r]] = "Generated"]
  /\ Goto(r, "restart")
  /\ UNCHANGED <<jobVars, board, config, uiVars, historyVars>>

\* mutant: an early return leaves the state as it is
CoreFailsUnrecorded(r) ==
  /\ phase[r] \in {"prompt", "core"}
  /\ IF ignored THEN UNCHANGED <<status, errorShown>>
                ELSE status' = "ERROR" /\ errorShown' = TRUE
  /\ JM!TaskSettles(r, "resolved")
  /\ Goto(r, "closed")
  /\ UNCHANGED <<genVars, clangd, ignored, historyVars>>

\* core.generate returns an ErrorDetails (no board was picked, a command
\* failed): the job reports it, unless the user chose to ignore its kind.
CoreFails(r) ==
  /\ phase[r] \in {"prompt", "core"}
  /\ states' = [states EXCEPT ![PathOf[r]] = "Failed"]
  /\ IF ignored THEN UNCHANGED <<status, errorShown>>
                ELSE status' = "ERROR" /\ errorShown' = TRUE
  /\ JM!TaskSettles(r, "resolved")
  /\ Goto(r, "closed")
  /\ UNCHANGED <<board, config, compdb, clangd, ignored, historyVars>>

(***************************************************************************)
(* Something in the job throws an error that is not an ErrorDetails:       *)
(* compdbPath, JSON.parse of the database in compdbService.generate, or    *)
(* the command clangd.restart.  The catch clause of the job then throws    *)
(* itself, on `...rawError.buttons`, and the job is rejected.              *)
(***************************************************************************)
JobThrows(r) ==
  /\ phase[r] \in {"compdbPath", "core", "restart"}
  /\ JM!TaskSettles(r, "rejected")
  /\ Goto(r, "closed")
  /\ threw' = IF states[PathOf[r]] = "Generating" THEN threw \cup {PathOf[r]} ELSE threw
  /\ UNCHANGED <<genVars, uiVars, outdated>>

\* mutant: the task is not marked as done
ClangdRestartedSilently(r) ==
  /\ phase[r] = "restart"
  /\ JM!TaskSettles(r, "resolved")
  /\ Goto(r, "closed")
  /\ UNCHANGED <<genVars, uiVars, historyVars>>

\* clangd has been restarted: the job is over.
ClangdRestarted(r) ==
  /\ phase[r] = "restart"
  /\ status' = "OK"
  /\ JM!TaskSettles(r, "resolved")
  /\ Goto(r, "closed")
  /\ UNCHANGED <<genVars, clangd, errorShown, ignored, historyVars>>

HandleResumes(r) ==
  /\ JM!HandleResumes(r)
  /\ JobsMoved({})
  /\ UNCHANGED <<genVars, clangd, errorShown, ignored, historyVars>>

\* The user presses Ignore on the error message.
IgnorePressed ==
  /\ errorShown
  /\ errorShown' = FALSE
  /\ ignored' = TRUE
  /\ UNCHANGED <<jobVars, phase, genVars, clangd, status, historyVars>>

\* The user picks another default board.
BoardChanges(b) ==
  /\ b # config
  /\ ConfigChanges(b)
  /\ UNCHANGED <<jobVars, phase, board, compdb, uiVars>>

\* The user removes a compilation database.
CompdbRemoved(p) ==
  /\ compdb[p] # "none"
  /\ compdb' = [compdb EXCEPT ![p] = "none"]
  /\ UNCHANGED <<jobVars, phase, board, states, config, uiVars, historyVars>>

JobEnds(r) ==
  CoreFails(r) \/ JobThrows(r) \/ ClangdRestarted(r)

Handler(r) ==
  \/ ScopeKnown(r)
  \/ StateKnown(r)
  \/ ClangdMissing(r)
  \/ ClangdReady(r)
  \/ CompdbPathKnown(r)
  \/ \E b \in Boards : BoardPicked(r, b)
  \/ CoreSucceeds(r)
  \/ JobEnds(r)
  \/ HandleResumes(r)

Next ==
  \/ \E r \in Requests : Touch(r) \/ Handler(r)
  \/ IgnorePressed
  \/ \E b \in Boards : BoardChanges(b)
  \/ \E p \in Paths : CompdbRemoved(p)

Spec == Init /\ [][Next]_vars

(***************************************************************************)
(* Handlers go on: the prompt for a board has a timeout of 30 s and the    *)
(* list behind it closes with the loss of focus; the commands are assumed  *)
(* to end.  The user is not obliged to do anything.                        *)
(***************************************************************************)
FairSpec == Spec /\ \A r \in Requests : WF_vars(Handler(r))
-----------------------------------------------------------------------------
\* Types of the variables that are not the JobManager's.
TypeOK ==
  /\ phase \in [Requests -> Phases]
  /\ board \in [Requests -> Boards \cup {"none"}]
  /\ states \in [Paths -> {"undefined", "Generating", "Generated", "Failed"}]
  /\ config \in Boards \cup {"none"}
  /\ compdb \in [Paths -> Boards \cup {"none"}]
  /\ clangd \in BOOLEAN
  /\ status \in {"none", "RUNNING", "OK", "ERROR"}
  /\ errorShown \in BOOLEAN
  /\ ignored \in BOOLEAN
  /\ threw \subseteq Paths
  /\ outdated \subseteq Paths

\* "Generating the database is time consuming [...], so we ensure it to run
\* only one at a time" (cpp_xrefs.ts:185): handlers inside the job exclude
\* each other whatever their documents are.
OneGeneration ==
  \A q, r \in Requests : phase[q] \in InJob /\ phase[r] \in InJob => q = r

\* While a job is at work the status bar shows its spinner: the end of one
\* job does not overwrite the RUNNING of the next.
SpinnerWhileBusy == executing # {} => status = "RUNNING"

\* onDidChangeConfig "fires when a config change that requires compdb
\* regeneration arises" (generic_compdb_generator.ts:123): a database that
\* is not to be regenerated was made for the current board, but for one
\* that was being made when the board changed.
GeneratedForBoard ==
  \A p \in Paths :
    states[p] = "Generated" /\ compdb[p] # "none"
      => compdb[p] = config \/ p \in outdated

\* The state Generating makes shouldGenerate refuse the path, so it must
\* not outlive the generation; it does when core.generate is rejected.
GeneratingIsGenerated ==
  \A p \in Paths :
    states[p] = "Generating" =>
      \/ \E r \in Requests : PathOf[r] = p /\ phase[r] \in {"prompt", "core"}
      \/ p \in threw

\* The spinner stops with the last job, unless an error that the user has
\* chosen to ignore or an unexpected one ended a job.
SpinnerStops ==
  ~running /\ ~ignored /\ (\A r \in Requests : outcome[r] # "rejected")
    => status # "RUNNING"

\* One generation at a time, and what is recorded of a database is so
\* (cpp_xrefs.ts:187, generic_compdb_generator.ts:87).
GenerationsAreRecorded == OneGeneration /\ GeneratedForBoard /\ GeneratingIsGenerated

\* The status bar tells whether a job is at work (cpp_xrefs.ts:232).
SpinnerIsRight == SpinnerWhileBusy /\ SpinnerStops

\* Every event handler returns, so onDidMaybeGenerate is fired: no request
\* is left in the job queue by the cancellations and failures of others.
EveryTouchHandled ==
  \A r \in Requests : phase[r] = "scope" ~> phase[r] = "closed"
-----------------------------------------------------------------------------
(***************************************************************************)
(* What the comments say and the code does not do.                         *)
(***************************************************************************)
\* onDidChangeConfig "fires when a config change that requires compdb
\* regeneration arises" (generic_compdb_generator.ts:123): a database that
\* is not to be regenerated was made for the current board.
GeneratedForCurrentBoard ==
  \A p \in Paths :
    states[p] = "Generated" /\ compdb[p] # "none" => compdb[p] = config

\* The generator "keeps track of the results of past compdb generation
\* attempts and don't run needless computations after success or failure"
\* (generic_compdb_generator.ts:18).
NoNeedlessGeneration ==
  [][\A r \in Requests \ Forced :
       CompdbPathKnown(r) /\ ScopeOf[r] = "InitOnly"
         => ShouldGenerate(PathOf[r]) = "Yes"]_vars

\* "If there are running tasks, then they are shown as a separate item with
\* a spinner icon" (bg_task_status.ts:214): no spinner when nothing runs.
SpinnerOnlyWhileBusy == ~running => status # "RUNNING"

\* "If the operation is run by user, execute it even when an error was
\* observed before or no change is expected" (cpp_xrefs.ts:126).
UserRunHonoured ==
  [][\A r \in Forced : StateKnown(r) /\ ~running => phase'[r] = "clangd"]_vars

\* "Returning Yes, `generate` will be called with the same document"
\* (types.ts:55).
AcceptedIsGenerated ==
  [][\A r \in Requests : phase[r] = "queued" => phase'[r] # "closed"]_vars
=============================================================================
