----------------------------- MODULE GtestRuns -----------------------------
(***************************************************************************)
(* A run of gtest cases from VS Code's Testing view: the tree of cases     *)
(* parsed from the open files, the request that picks some of them, and    *)
(* the three runners: of platform2 packages in the chroot, of Chromium's   *)
(* test targets, and of Chromium for Android through autotest.py.          *)
(*                                                                         *)
(* A runner marks each case in VS Code's TestRun and ends the run.  A case *)
(* lives in homes: packages for platform2, test targets for Chromium.      *)
(***************************************************************************)
EXTENDS Naturals, FiniteSets

CONSTANTS
  Cases,     \* test cases of the open file
  SuiteOf,   \* the suite of each
  Parameterized,  \* those with parameters
  Homes,     \* packages or test targets
  MaxEdits   \* bound: how often the file is edited

VARIABLES
  kind,      \* the runner: "platform2", "direct" or "autotest"
  homes,     \* where each case is found
  tree,      \* the cases in the tree
  edits,     \* counts the file's edits
  request,   \* the cases the run is for
  at,        \* what the runner waits for
  todo,      \* homes to be run
  tests,     \* cases of the home being run, still to be run
  mark,      \* each case's mark in the TestRun
  cancelled  \* the run's token

vars == <<kind, homes, tree, edits, request, at, todo, tests, mark, cancelled>>
frame == <<kind, homes, tree, edits, request, cancelled>>

Results == {"passed", "failed", "skipped", "errored"}
Suites == {SuiteOf[c] : c \in Cases}

Init ==
  /\ kind \in {"platform2", "direct", "autotest"}
  /\ homes \in [Cases -> SUBSET Homes]
  /\ kind = "platform2" => \A c \in Cases : Cardinality(homes[c]) <= 1
  /\ tree = {} /\ edits = 0
  /\ request = {}
  /\ at = "idle"
  /\ todo = {} /\ tests = {}
  /\ mark = [c \in Cases |-> "none"]
  /\ cancelled = FALSE
-----------------------------------------------------------------------------
(* GtestWorkspace and the request *)

\* The file is opened, edited or closed: its items are thrown away and made
\* anew from what the parser finds in it.
Update(found) ==
  /\ edits < MaxEdits
  /\ edits' = edits + 1
  /\ tree' = found
  /\ UNCHANGED <<kind, homes, request, at, todo, tests, mark, cancelled>>

\* matchingTestCases of the file, of a suite and of a case: nothing excluded,
\* and something included on the way down; no `include` stands for all.
Matches(c, include, exclude) ==
  LET path == {"file", SuiteOf[c], c} IN
  /\ path \cap exclude = {}
  /\ include = {} \/ path \cap include # {}

\* runHandler: a run is created and its output is shown.
RunHandler(include, exclude) ==
  /\ at = "idle"
  /\ tree # {}
  /\ request' = {c \in tree : Matches(c, include, exclude)}
  /\ at' = "output"
  /\ UNCHANGED <<kind, homes, tree, edits, todo, tests, mark, cancelled>>

Cancel ==
  /\ at \notin {"idle", "ended"} /\ ~cancelled
  /\ cancelled' = TRUE
  /\ UNCHANGED <<kind, homes, tree, edits, request, at, todo, tests, mark>>

Marked(cases, m) == [c \in Cases |-> IF c \in cases THEN m ELSE mark[c]]

\* AbstractRunner.run: a run cancelled by now is left to VS Code; else the
\* runner goes on to its first step.
Run ==
  /\ at = "output"
  /\ at' = CASE cancelled -> "left"
             [] kind = "platform2" -> "packages"
             [] request = {} -> "ended"
             [] kind = "direct" -> "targets"
             [] kind = "autotest" -> "script"
  /\ mark' = IF cancelled THEN mark
             ELSE CASE kind = "platform2" -> mark
                    [] kind = "direct" -> Marked(request, "enqueued")
                    [] kind = "autotest" -> Marked(request, "started")
  /\ UNCHANGED <<frame, todo, tests>>
-----------------------------------------------------------------------------
(* Runner of platform2 *)

\* packageToTests: a case in no package is skipped.  Counting the tests of no
\* package throws, and the run is never ended.
PackageToTests ==
  /\ at = "packages"
  /\ mark' = [c \in Cases |-> IF c \notin request THEN mark[c]
                              ELSE IF homes[c] = {} THEN "skipped" ELSE "enqueued"]
  /\ todo' = UNION {homes[c] : c \in request}
  /\ at' = IF todo' = {} THEN "left" ELSE "compile"
  /\ UNCHANGED <<frame, tests>>

InHome(h) == {c \in request : h \in homes[c]}

\* The next package is compiled.
CompileOrThrow(h) ==
  /\ at = "compile" /\ h \in todo
  /\ todo' = todo \ {h}
  /\ \/ /\ ~cancelled
        /\ at' = "collect" /\ tests' = InHome(h)
        /\ UNCHANGED mark
     \/ /\ mark' = Marked(InHome(h), "failed")
        /\ UNCHANGED <<at, tests>>
  /\ UNCHANGED frame

\* collectGtests: cases in no executable found fail; a cancelled collection
\* finds none.
CollectGtests(found) ==
  /\ at = "collect" /\ found \subseteq tests
  /\ cancelled => found = {}
  /\ mark' = Marked(tests \ found, "failed")
  /\ tests' = found
  /\ at' = "test"
  /\ UNCHANGED <<frame, todo>>

\* The next test is started, under the debugger or not.
StartTest(c) ==
  /\ at = "test" /\ c \in tests
  /\ mark' = [mark EXCEPT ![c] = "started"]
  /\ tests' = tests \ {c}
  /\ at' = "running"
  /\ UNCHANGED <<frame, todo>>

\* mutant: a cancelled test is left as it is
TestEndsUnlessCancelled(c, ok) ==
  /\ at = "running" /\ mark[c] = "started"
  /\ mark' = IF cancelled THEN mark ELSE [mark EXCEPT ![c] = IF ok THEN "passed" ELSE "failed"]
  /\ at' = "test"
  /\ UNCHANGED <<frame, todo, tests>>

\* It has ended: what was cancelled meanwhile counts as skipped.
TestEnds(c, ok) ==
  /\ at = "running" /\ mark[c] = "started"
  /\ mark' = [mark EXCEPT ![c] = IF cancelled THEN "skipped" ELSE IF ok THEN "passed" ELSE "failed"]
  /\ at' = "test"
  /\ UNCHANGED <<frame, todo, tests>>

PackageDone ==
  /\ at = "test" /\ tests = {}
  /\ at' = "compile"
  /\ UNCHANGED <<frame, todo, tests, mark>>
-----------------------------------------------------------------------------
(* DirectRunner of Chromium *)

\* Each of these may fail, and ends the run then.
Aborts ==
  /\ at \in {"targets", "build", "list", "run"}
  /\ at' = "ended"
  /\ UNCHANGED <<frame, todo, tests, mark>>

GetTestTargetNames ==
  /\ at = "targets" /\ ~cancelled
  /\ todo' = UNION {homes[c] : c \in request}
  /\ at' = "build"
  /\ UNCHANGED <<frame, tests, mark>>

BuildTestTargets ==
  /\ at = "build" /\ ~cancelled
  /\ at' = "list"
  /\ UNCHANGED <<frame, todo, tests, mark>>

\* The tests of the next target are listed, and its cases started.
ExtractAllTestNames(h) ==
  /\ at = "list" /\ ~cancelled /\ h \in todo
  /\ todo' = todo \ {h}
  /\ tests' = InHome(h)
  /\ mark' = Marked(InHome(h), "started")
  /\ at' = "run"
  /\ UNCHANGED frame

\* mutant: the results of the target are taken for all cases of the request
ProcessAllResults(result) ==
  /\ at = "run" /\ ~cancelled
  /\ mark' = [c \in Cases |-> IF c \in request \ Parameterized THEN result[c] ELSE mark[c]]
  /\ tests' = {}
  /\ at' = "list"
  /\ UNCHANGED <<frame, todo>>

\* processTestResult: the results of a target, which may lack some.  A case with parameters has
\* results of its instances only, which are items of their own.
ProcessTestResults(result) ==
  /\ at = "run" /\ ~cancelled
  /\ mark' = [c \in Cases |-> IF c \in tests \ Parameterized THEN result[c] ELSE mark[c]]
  /\ tests' = {}
  /\ at' = "list"
  /\ UNCHANGED <<frame, todo>>

-----------------------------------------------------------------------------
\* AutotestRunner: one command runs all; a status other than 0 is an error too.
Autotest ==
  /\ at = "script"
  /\ \E m \in {"passed", "errored"} :
       /\ cancelled => m = "errored"
       /\ mark' = Marked(request, m)
  /\ at' = "ended"
  /\ UNCHANGED <<frame, todo, tests>>

\* doRun has gone through all homes: the run is ended.
End ==
  /\ at \in {"compile", "list"} /\ todo = {}
  /\ at' = "ended"
  /\ UNCHANGED <<frame, todo, tests, mark>>

Next ==
  \/ \E found \in SUBSET Cases : Update(found) \/ CollectGtests(found)
  \/ \E include, exclude \in SUBSET ({"file"} \cup Suites \cup Cases) :
       /\ Cardinality(include) <= 1 /\ Cardinality(exclude) <= 1
       /\ RunHandler(include, exclude)
  \/ Cancel \/ Run \/ PackageToTests \/ PackageDone
  \/ \E h \in todo : CompileOrThrow(h) \/ ExtractAllTestNames(h)
  \/ \E c \in Cases : StartTest(c) \/ \E ok \in BOOLEAN : TestEnds(c, ok)
  \/ Aborts \/ GetTestTargetNames \/ BuildTestTargets
  \/ \E result \in [Cases -> {"passed", "failed", "skipped", "started"}] : ProcessTestResults(result)
  \/ Autotest \/ End

Spec == Init /\ [][Next]_vars
-----------------------------------------------------------------------------
TypeOK ==
  /\ tree \subseteq Cases /\ request \subseteq Cases /\ edits \in 0 .. MaxEdits
  /\ at \in {"idle", "output", "left", "ended", "packages", "compile", "collect", "test", "running",
             "targets", "build", "list", "run", "script"}
  /\ todo \subseteq Homes /\ tests \subseteq Cases
  /\ mark \in [Cases -> {"none", "enqueued", "started"} \cup Results]
  /\ cancelled \in BOOLEAN

(***************************************************************************)
(* A run of platform2 or of autotest that ends has a result for each test  *)
(* of the request and for no other, whatever failed, was missing or was    *)
(* cancelled on the way; DirectRunner promises that of a target whose      *)
(* results came in.                                                        *)
(***************************************************************************)
EveryTestIsAnswered ==
  at = "ended" =>
    /\ kind # "direct" => \A c \in request : mark[c] \in Results
    /\ \A c \in Cases \ request : mark[c] = "none"

(***************************************************************************)
(* A failure stands: within a run no later step turns a failed test into   *)
(* one that passed or was skipped, unless the test is in several targets,  *)
(* where the last one wins.                                                *)
(***************************************************************************)
FailureStands ==
  [][\A c \in Cases :
       mark[c] = "failed" /\ Cardinality(homes[c]) <= 1 => mark'[c] = "failed"]_vars

(***************************************************************************)
(* "if (this.cancellation.isCancellationRequested) skipped": a test that   *)
(* the user cancelled is not reported as failed.                           *)
(***************************************************************************)
CancelledIsNotFailed ==
  [][cancelled => \A c \in Cases : mark'[c] = "failed" => mark[c] = "failed"]_vars
=============================================================================
