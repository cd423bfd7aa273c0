------------------------------- MODULE MCTools ------------------------------
(***************************************************************************)
(* Commands for devices and checks of documents: the system log, the image *)
(* pickers, checking, flashing and deploying, linters and the              *)
(* spellchecker, runs of tests, the output directories of Chromium, and    *)
(* what downloads and authorizes the tools. `part` is the one that runs.   *)
(***************************************************************************)
EXTENDS Integers, Sequences, SequenceTheorems, FiniteSetTheorems, TLC, TLAPS

CONSTANTS
  d1, d2, k1, crosfleet, spell, Ascii, Wide, Patterns, Invalid, CopyMax, MaxBytes, Majors,
  Local, Skews, Builds, DeviceMajors, MaxSkew, MaxChanges, Docs, Language, Has, Runs, NoDoc,
  MaxSaves, MaxToggles, Dirs, Files, Checks, None, SpellMaxChanges, Callers, PackageOf,
  Nobody, Calls, Sockets, MaxLog, MaxLapses,
  case1, case2, Cases, SuiteOf, Parameterized, Homes, MaxEdits,
  Names, Inside, Views, Pickers, GnOutputs, Host, NoLink, NotALink, MaxOutEvents

VARIABLES
  part,  \* the component that runs
  tail, file, readByte, readLine, stream, inbox, entries, filter, clipboard, disposed,
  halved,
  kind, maxSkew, archive, visible, listens, mode, items, asked, pending, failed, busy,
  result,
  command, at, debugFlag, local, device, changes, input, image, suggested, outcome,
  cancelled, deployed,
  enabled, active, open, activated, saved, toggles, run, collection, status, goWarningShown,
  crossed,
  version, spellChanges, check, diagnostics, spellStatus, tmp, cache, shown, upset,
  cipdAt, waiting, holder, initialized, inits, installed,
  certified, lapses, log, call,
  runner, homes, tree, edits, request, gtestAt, todoHomes, tests, mark, runCancelled,
  dirs, link, outCache, lists, outCall, order, done, pick, owed, outCrossed, outEvents

Syslog == INSTANCE Syslog
Picker == INSTANCE ImagePickers
Device == INSTANCE DeviceCommands
  WITH Majors <- DeviceMajors
Lint == INSTANCE Lint
Spell == INSTANCE Spellchecker
  WITH MaxChanges <- SpellMaxChanges, changes <- spellChanges, status <- spellStatus
Cipd == INSTANCE Cipd
  WITH at <- cipdAt
Gcert == INSTANCE Gcert
Gtest == INSTANCE GtestRuns
  WITH kind <- runner, at <- gtestAt, todo <- todoHomes, cancelled <- runCancelled
Out == INSTANCE OutputDirectories
  WITH MaxEvents <- MaxOutEvents, cache <- outCache,
       call <- outCall, crossed <- outCrossed, events <- outEvents

\* Nobody, NoDoc, None, NoLink and NotALink are none of the others; versions are
\* numbers; there are finitely many packages, test targets and calls of a view;
\* the one-byte characters of a log are none of the others.
ASSUME ToolsAssumption ==
  /\ Nobody \notin Callers /\ NoDoc \notin Docs /\ None \notin Dirs \cup Files
  /\ Majors \subseteq Int /\ Local \in Int /\ Skews \subseteq Nat
  /\ DeviceMajors \subseteq Int /\ MaxSkew \in Int
  /\ IsFiniteSet(Homes)
  /\ IsFiniteSet(Views) /\ Inside \subseteq Names
  /\ NoLink \notin Names /\ NotALink \notin Names /\ NoLink # NotALink
  /\ Ascii \cap {"nl", "lead", "trail", "wide", "U+FFFD"} = {} /\ CopyMax \in Nat

Parts == {"syslog", "pickers", "device", "lint", "spell", "cipd", "gcert", "gtest",
          "out"}
MCInit ==
  /\ part \in Parts
  /\ Syslog!Init
  /\ Picker!Init /\ (part # "pickers" => kind = "flash" /\ maxSkew = 1 /\ archive = {})
  /\ Device!Init /\ (part # "device" => command = "flash" /\ debugFlag = "on" /\ local = 0 /\ device = [type |-> "unknown", major |-> 1])
  /\ Lint!Init /\ (part # "lint" => active = NoDoc)
  /\ Spell!Init /\ (part # "spell" => check[k1] # Spell!Idle)
  /\ Cipd!Init
  /\ Gcert!Init /\ (part # "gcert" => ~certified)
  /\ Gtest!Init /\ (part # "gtest" => runner = "direct" /\ homes = [c \in Cases |-> {}])
  /\ Out!Init /\ (part # "out" => dirs = {} /\ link = NoLink)

syslogVars == <<tail, file, readByte, readLine, stream, inbox, entries, filter, clipboard,
    disposed, halved>>
pickersVars == <<kind, maxSkew, archive, visible, listens, mode, items, asked, pending,
    failed, busy, result>>
deviceVars == <<command, at, debugFlag, local, device, changes, input, image, suggested,
    outcome, cancelled, deployed>>
lintVars == <<enabled, active, open, activated, saved, toggles, run, collection, status,
    goWarningShown, crossed>>
spellVars == <<version, spellChanges, check, diagnostics, spellStatus, tmp, cache, shown,
    upset>>
cipdVars == <<cipdAt, waiting, holder, initialized, inits, installed>>
gcertVars == <<certified, lapses, log, call>>
gtestVars == <<runner, homes, tree, edits, request, gtestAt, todoHomes, tests, mark,
    runCancelled>>
outVars == <<dirs, link, outCache, lists, outCall, order, done, pick, owed, outCrossed,
    outEvents>>

MCNext ==
  \/ /\ part = "syslog" /\ Syslog!Next
     /\ UNCHANGED <<part, pickersVars, deviceVars, lintVars, spellVars, cipdVars,
          gcertVars, gtestVars, outVars>>
  \/ /\ part = "pickers" /\ Picker!Next
     /\ UNCHANGED <<part, syslogVars, deviceVars, lintVars, spellVars, cipdVars,
          gcertVars, gtestVars, outVars>>
  \/ /\ part = "device" /\ Device!Next
     /\ UNCHANGED <<part, syslogVars, pickersVars, lintVars, spellVars, cipdVars,
          gcertVars, gtestVars, outVars>>
  \/ /\ part = "lint" /\ Lint!Next
     /\ UNCHANGED <<part, syslogVars, pickersVars, deviceVars, spellVars, cipdVars,
          gcertVars, gtestVars, outVars>>
  \/ /\ part = "spell" /\ Spell!Next
     /\ UNCHANGED <<part, syslogVars, pickersVars, deviceVars, lintVars, cipdVars,
          gcertVars, gtestVars, outVars>>
  \/ /\ part = "cipd" /\ Cipd!Next
     /\ UNCHANGED <<part, syslogVars, pickersVars, deviceVars, lintVars, spellVars,
          gcertVars, gtestVars, outVars>>
  \/ /\ part = "gcert" /\ Gcert!Next
     /\ UNCHANGED <<part, syslogVars, pickersVars, deviceVars, lintVars, spellVars,
          cipdVars, gtestVars, outVars>>
  \/ /\ part = "gtest" /\ Gtest!Next
     /\ UNCHANGED <<part, syslogVars, pickersVars, deviceVars, lintVars, spellVars,
          cipdVars, gcertVars, outVars>>
  \/ /\ part = "out" /\ Out!Next
     /\ UNCHANGED <<part, syslogVars, pickersVars, deviceVars, lintVars, spellVars,
          cipdVars, gcertVars, gtestVars>>

MCvars == <<part, syslogVars, pickersVars, deviceVars, lintVars, spellVars, cipdVars,
            gcertVars, gtestVars, outVars>>
MCSpec == MCInit /\ [][MCNext]_MCvars
-----------------------------------------------------------------------------
\* States that differ by the names of these alone are the same.
MCSymmetry == Permutations(Runs) \cup Permutations(Calls)

\* Two documents of Go: one with all that its linters need, and one whose hook
\* does not run cros lint and for which there is no go.
Everything == {"source dir", "cros exe", "PRESUBMIT.cfg", "cros lint hook", "parsable hook",
               "tast file", "chroot", "not generated", "go"}
MCLanguage == [d \in {d1, d2} |-> "go"]
MCHas == [d \in {d1, d2} |-> IF d = d1 THEN Everything ELSE Everything \ {"cros lint hook", "go"}]

\* Packages of the callers of the repository.
MCPackageOf == [c \in Callers |-> CASE c = crosfleet -> "crosfleet" [] c = spell -> "spellchecker"
                                    [] OTHER -> "dirmd"]

\* What `gn args` prints: the list of a build for the host, or an error.
MCGnOutputs ==
  {[ran |-> TRUE, list |-> list, noise |-> FALSE, remote |-> TRUE, target |-> "", host |-> ""] :
     list \in BOOLEAN}

\* Two test cases, of different suites.
MCSuiteOf == [c \in {case1, case2} |-> IF c = case1 THEN "A" ELSE "B"]

\* What is shown as a line of the log is that line (syslog/panel.ts:156).
ShownIsLogged == part = "syslog" => Syslog!ShownIsLogged

\* The pickers list all that was asked for, and a suggested image passes the check
\* (suggest_image.ts:172, flash_device.ts:177, deploy_package.ts:117).
SuggestionsAreRight ==
  /\ part = "pickers" => Picker!ListIsComplete
  /\ part = "device" => Device!SuggestionPasses

\* The diagnostics are of one content, the last checked (lint/index.ts:92,
\* spellchecker.ts).
DiagnosticsAreCurrent ==
  /\ part = "lint" => Lint!DiagnosticsAreOfOneLint
  /\ part = "spell" => Spell!DiagnosticsAreCurrent

\* A binary is used once it is there, and who is told so has a certificate
\* (cipd.ts, gcert.ts).
ToolsAreReady ==
  /\ part = "cipd" => Cipd!InitializedOnce
  /\ part = "gcert" => Gcert!CertifiedIfTold

\* A run of tests that ends has a result for each test, and a failed test stays
\* failed (platform2_gtest/runner.ts, chromium/gtest/direct_runner.ts).
EveryTestIsAnswered ==
  /\ [](part = "gtest" => Gtest!EveryTestIsAnswered)
  /\ Gtest!FailureStands

\* The view of output directories is the disk, once all is quiet, and the link is
\* not lost (output_directories.ts:26, 426).
ViewIsDisk ==
  /\ [](part = "out" => Out!ViewIsDisk)
  /\ Out!LinkIsKept
-----------------------------------------------------------------------------
(***************************************************************************)
(* Theorems about the components, for any documents, calls, versions and   *)
(* numbers of runs: an inductive invariant for each but the log, whose     *)
(* lines are made by a fold.                                               *)
(***************************************************************************)
\* A call that looks, initializes or installs has the mutex; the repository
\* was initialized at most once, and by who is past that.
CipdIInv ==
  /\ cipdAt \in [Callers -> {"idle", "called", "init", "install", "done", "failed"}]
  /\ initialized \in BOOLEAN /\ inits = (IF initialized THEN 1 ELSE 0)
  /\ \A c \in Callers :
       /\ cipdAt[c] \in {"init", "install"} => holder = c
       /\ cipdAt[c] = "init" => ~initialized
       /\ cipdAt[c] \in {"install", "done"} => initialized
       /\ cipdAt[c] = "done" => PackageOf[c] \in installed

\* Who was told is certified or was.
GcertSteps == {"idle", "status", "prompt", "socket", "gcert", "log", "returned"}
GcertResults == {"none", "true", "true, unknown", "true, asked", "false", "throws"}
GcertCalls == [step : GcertSteps, force : BOOLEAN, ask : BOOLEAN, useSshAuthSock : BOOLEAN,
               prevSize : Nat, since : BOOLEAN, result : GcertResults]
GcertIInv ==
  /\ call \in [Calls -> GcertCalls]
  /\ log \in Nat /\ certified \in BOOLEAN
  /\ Gcert!CertifiedIfTold

\* Runs of the linters, and documents under the watcher's eyes.
LinterNames == {"cros lint", "libchrome check", "tast lint"}
Findings == LinterNames \X {"the line", "first line", "last line"} \X Nat
LintRuns == [doc : Docs \cup {NoDoc}, todo : Seq(LinterNames), found : SUBSET Findings,
             asks : BOOLEAN]
LintTypes ==
  /\ run \in [Runs -> LintRuns]
  /\ \A r \in Runs : run[r].asks => run[r].todo # <<>>
  /\ saved \in [Docs -> Nat]
  /\ collection \in [Docs -> SUBSET Findings]
  /\ enabled \in BOOLEAN
  /\ active \in Docs \cup {NoDoc} /\ (active # NoDoc => active \in activated)
  /\ activated \subseteq open

\* Nothing has crossed the runs of d: there is one at most, all it has found is
\* of the content on disk, and what was shown before is of one content.
LintedAlone(d) ==
  /\ \A r, s \in Lint!RunsOf(d) : r = s
  /\ \A r \in Lint!RunsOf(d) : /\ enabled /\ d \in activated
                               /\ \A x \in run[r].found : x[3] = saved[d]
  /\ \A x, y \in collection[d] : x[3] = y[3]
  /\ collection[d] # {} => enabled /\ d \in activated

LintIInv == LintTypes /\ \A d \in Docs \ crossed : LintedAlone(d)

\* Nothing has upset the checks of t: there is one at most, of what is there
\* now, and its result will be.
CheckedAlone(t) ==
  /\ \A c, d \in Spell!ChecksOf(t) : c = d
  /\ \A c \in Spell!ChecksOf(t) :
       /\ check[c].step \in {"message", "spell", "read"}
       /\ version[t] = spellChanges[t]
       /\ check[c].step = "read" \/ (check[c].step = "spell" /\ t \in Dirs)
            => check[c].read = spellChanges[t]
  /\ Spell!ChecksOf(t) = {} => diagnostics[t] = version[t]

SpellChecks ==
  [of : Spell!Targets \cup {None}, step : {"idle", "message", "spell", "read"}, read : Nat]

SpellIInv ==
  /\ check \in [Checks -> SpellChecks]
  /\ \A c \in Checks : check[c].of = None => check[c].step = "idle"
  /\ {version, spellChanges, diagnostics} \subseteq [Spell!Targets -> Nat]
  /\ \A t \in Spell!Targets \ upset : CheckedAlone(t)

\* The suggestions are shown in three stages; the items are those of all the
\* answers there are.
PickersIInv ==
  /\ maxSkew \in Skews /\ archive \subseteq Majors \X Builds
  /\ asked \subseteq Int /\ pending \subseteq asked
  /\ listens \in BOOLEAN /\ busy \in BOOLEAN
  /\ ~busy => pending = {}
  /\ failed = {} => items = {i \in archive : i[1] \in asked \ pending}
  /\ kind = "suggest" =>
       /\ mode \in {"loading", "load all", "versions", "oops"}
       /\ mode = "loading" <=> ~listens
       /\ mode = "loading" => asked = {Local} /\ pending = {Local}
       /\ mode = "load all" => asked = {Local} /\ pending = {}
       /\ mode \in {"versions", "oops"} => asked = {Local} \cup Picker!Others

\* An image that was suggested is one that the check accepts, and nothing else
\* is picked once it is on the device.
DeviceIInv ==
  /\ at = "pick suggested" => Device!HasSuggestions
  /\ suggested =>
       /\ debugFlag # "error" /\ local # 0
       /\ image \in Device!SuggestedImages(Device!ValidPrebuiltImageTypes)
  /\ outcome = "flashed from suggestion" => suggested /\ at \in {"checked", "deploy", "end"}
  /\ local \in Int

\* Runs of tests. A case of the request waits for a home to be run, is one of
\* the tests of the home that is run, is the one running, or has its result; a
\* case with one home at most goes through these once.
GtestTypes ==
  /\ tree \subseteq Cases /\ request \subseteq Cases
  /\ todoHomes \subseteq Homes /\ tests \subseteq request
  /\ homes \in [Cases -> SUBSET Homes]
  /\ mark \in [Cases -> {"none", "enqueued", "started"} \cup Gtest!Results]
  /\ runner \in {"platform2", "direct", "autotest"}
  /\ runner = "platform2" => \A c \in Cases : Cardinality(homes[c]) <= 1

\* The steps of each runner.
GtestSteps ==
  /\ gtestAt \in {"packages", "compile", "collect", "test", "running"} => runner = "platform2"
  /\ gtestAt \in {"targets", "build", "list", "run"} => runner = "direct"
  /\ gtestAt = "script" => runner = "autotest"
  /\ gtestAt \in {"idle", "output", "packages", "targets", "build", "script"} => tests = {}
  /\ gtestAt \in {"idle", "output", "packages"} => \A c \in Cases : mark[c] = "none"
  /\ gtestAt \in {"targets", "build"} => \A c \in Cases : mark[c] \in {"none", "enqueued"}
  /\ gtestAt = "script" => \A c \in Cases : mark[c] \in {"none", "started"}

Waits(c) == c \in request /\ homes[c] \cap todoHomes # {}

\* The packages of platform2, and a run that has ended.
GtestAnswers ==
  /\ \A c \in Cases \ request : mark[c] = "none"
  /\ gtestAt \in {"compile", "collect", "test", "running"} =>
       /\ \A c \in request :
            \/ mark[c] \in Gtest!Results \/ Waits(c) \/ c \in tests
            \/ gtestAt = "running" /\ mark[c] = "started"
       /\ \A c, d \in request : mark[c] = "started" /\ mark[d] = "started" => c = d
       /\ gtestAt # "running" => \A c \in request : mark[c] # "started"
       /\ \A c \in request : Waits(c) => mark[c] = "enqueued" /\ c \notin tests
       /\ \A c \in tests : mark[c] = "enqueued"
       /\ gtestAt = "compile" => tests = {}
  /\ gtestAt = "ended" /\ runner # "direct" =>
       \A c \in request : mark[c] \in Gtest!Results

\* A case of DirectRunner in one target, or in none.
GtestTargets ==
  gtestAt \in {"list", "run"} =>
    \A c \in request : Cardinality(homes[c]) <= 1 =>
      /\ Waits(c) => mark[c] # "failed" /\ c \notin tests
      /\ c \in tests => mark[c] # "failed"

GtestIInv == GtestTypes /\ GtestSteps /\ GtestAnswers /\ GtestTargets
-----------------------------------------------------------------------------
(* The repository of binaries *)

LEMMA CipdInitially == Cipd!Init => CipdIInv
BY DEF Cipd!Init, CipdIInv

LEMMA CipdStep ==
  ASSUME CipdIInv, [Cipd!Next]_cipdVars
  PROVE  CipdIInv'
<1> USE DEF CipdIInv, Cipd!Goto, Cipd!Release
<1>1. ASSUME NEW c \in Callers, Cipd!EnsurePackage(c) PROVE CipdIInv'
  BY <1>1, ToolsAssumption DEF Cipd!EnsurePackage
<1>2. ASSUME NEW c \in Callers, Cipd!Look(c) PROVE CipdIInv'
  BY <1>2 DEF Cipd!Look
<1>3. ASSUME NEW c \in Callers, Cipd!CipdInit(c) PROVE CipdIInv'
  BY <1>3 DEF Cipd!CipdInit
<1>4. ASSUME NEW c \in Callers, Cipd!CipdInstall(c) PROVE CipdIInv'
  BY <1>4 DEF Cipd!CipdInstall
<1>5. ASSUME NEW c \in Callers, Cipd!CipdFails(c) PROVE CipdIInv'
  BY <1>5 DEF Cipd!CipdFails
<1>6. ASSUME NEW c \in Callers, Cipd!Return(c) PROVE CipdIInv'
  BY <1>6 DEF Cipd!Return
<1>7. CASE UNCHANGED cipdVars
  BY <1>7 DEF cipdVars
<1>8. QED
  BY <1>1, <1>2, <1>3, <1>4, <1>5, <1>6, <1>7 DEF Cipd!Next
-----------------------------------------------------------------------------
(* Certificates *)

LEMMA GcertInitially == Gcert!Init => GcertIInv
BY DEF Gcert!Init, Gcert!Idle, GcertIInv, GcertCalls, GcertSteps, GcertResults,
       Gcert!CertifiedIfTold

\* The updates of a call that there are.
LEMMA GcertRecords ==
  ASSUME NEW r \in GcertCalls, NEW step \in GcertSteps
  PROVE  /\ LET s == [r EXCEPT !.step = step] IN
              s \in GcertCalls /\ s.result = r.result /\ s.since = r.since
         /\ \A told \in GcertResults :
              LET s == [r EXCEPT !.step = step, !.result = told] IN
                s \in GcertCalls /\ s.result = told
         /\ \A b \in BOOLEAN :
              LET s == [r EXCEPT !.step = step, !.useSshAuthSock = b] IN
                s \in GcertCalls /\ s.result = r.result /\ s.since = r.since
         /\ \A n \in Nat :
              LET s == [r EXCEPT !.step = step, !.prevSize = n] IN
                s \in GcertCalls /\ s.result = r.result /\ s.since = r.since
BY DEF GcertCalls

\* A call that is not told so afterwards, or was before, is as it should be.
LEMMA GcertMoves ==
  ASSUME GcertIInv, NEW c \in Calls, NEW r \in GcertCalls, call' = [call EXCEPT ![c] = r],
         log' \in Nat, certified' \in BOOLEAN, certified => certified',
         r.result = "true" =>
           certified' \/ (call[c].result = "true" /\ r.since = call[c].since)
  PROVE  GcertIInv'
BY DEF GcertIInv, Gcert!CertifiedIfTold

LEMMA GcertStep ==
  ASSUME GcertIInv, [Gcert!Next]_gcertVars
  PROVE  GcertIInv'
<1>0. /\ \A c \in Calls : call[c] \in GcertCalls
      /\ log \in Nat /\ certified \in BOOLEAN
      /\ {"status", "prompt", "socket", "gcert", "log", "returned"} \subseteq GcertSteps
      /\ GcertResults = {"none", "true", "true, unknown", "true, asked", "false", "throws"}
  BY DEF GcertIInv, GcertSteps, GcertResults
<1>1. CASE Gcert!Lapse
  <2>1. ASSUME NEW r \in GcertCalls PROVE [r EXCEPT !.since = TRUE] \in GcertCalls
    BY DEF GcertCalls
  <2>2. ASSUME NEW c \in Calls PROVE call'[c] \in GcertCalls /\ call'[c].since
    BY <1>0, <1>1, <2>1 DEF Gcert!Lapse, GcertCalls
  <2>3. QED
    BY <1>1, <2>2 DEF Gcert!Lapse, GcertIInv, Gcert!CertifiedIfTold
<1>2. CASE Gcert!Log \/ Gcert!Rotate
  BY <1>2 DEF Gcert!Log, Gcert!Rotate, GcertIInv, Gcert!CertifiedIfTold
<1>3. ASSUME NEW c \in Calls, NEW force \in BOOLEAN, NEW ask \in BOOLEAN,
             Gcert!EnsureOrRunGcert(c, force, ask)
      PROVE  GcertIInv'
  <2> DEFINE r == [Gcert!Idle EXCEPT !.step = "status", !.force = force, !.ask = ask]
  <2>1. r \in GcertCalls /\ r.result = "none"
    BY DEF GcertCalls, GcertSteps, GcertResults, Gcert!Idle
  <2>2. QED
    BY <1>0, <1>3, <2>1, GcertMoves DEF Gcert!EnsureOrRunGcert, Gcert!others
<1>4. ASSUME NEW c \in Calls,
             \/ \E step \in GcertSteps \ {"idle"} : Gcert!Goto(c, step)
             \/ \E told \in GcertResults \ {"true"} : Gcert!Return(c, told)
             \/ \E step \in GcertSteps, b \in BOOLEAN :
                  call' = [call EXCEPT ![c].step = step, ![c].useSshAuthSock = b]
             \/ \E step \in GcertSteps :
                  call' = [call EXCEPT ![c].step = step, ![c].prevSize = log],
             Gcert!others' = Gcert!others
      PROVE  GcertIInv'
  <2>1. UNCHANGED <<certified, log>>
    BY <1>4 DEF Gcert!others
  <2>2. \E r \in GcertCalls :
          /\ call' = [call EXCEPT ![c] = r]
          /\ r.result = "true" => call[c].result = "true" /\ r.since = call[c].since
    <3>1. CASE \E step \in GcertSteps : Gcert!Goto(c, step)
      <4>1. PICK step \in GcertSteps : Gcert!Goto(c, step)
        BY <3>1
      <4> DEFINE r == [call[c] EXCEPT !.step = step]
      <4>2. call[c] \in GcertCalls /\ step \in GcertSteps /\ log \in Nat
        BY <1>0, <4>1
      <4>3. r \in GcertCalls /\ r.result = call[c].result /\ r.since = call[c].since
        BY <4>2, GcertRecords
      <4>4. call' = [call EXCEPT ![c] = r]
        BY <4>1 DEF Gcert!Goto
      <4> HIDE DEF r
      <4>5. QED
        BY <4>3, <4>4
    <3>2. CASE \E told \in GcertResults \ {"true"} : Gcert!Return(c, told)
      <4>1. PICK told \in GcertResults \ {"true"} : Gcert!Return(c, told)
        BY <3>2
      <4> DEFINE r == [call[c] EXCEPT !.step = "returned", !.result = told]
      <4>2. r \in GcertCalls /\ r.result # "true"
        BY <1>0, <4>1, GcertRecords, ZenonT(60)
      <4>3. call' = [call EXCEPT ![c] = r]
        BY <4>1 DEF Gcert!Return
      <4> HIDE DEF r
      <4>4. QED
        BY <4>2, <4>3
    <3>3. CASE \E step \in GcertSteps, b \in BOOLEAN :
                 call' = [call EXCEPT ![c].step = step, ![c].useSshAuthSock = b]
      <4>1. PICK step \in GcertSteps, b \in BOOLEAN :
                 call' = [call EXCEPT ![c].step = step, ![c].useSshAuthSock = b]
        BY <3>3
      <4> DEFINE r == [call[c] EXCEPT !.step = step, !.useSshAuthSock = b]
      <4>2. call[c] \in GcertCalls /\ step \in GcertSteps /\ b \in BOOLEAN
        BY <1>0, <4>1
      <4>3. r \in GcertCalls /\ r.result = call[c].result /\ r.since = call[c].since
        BY <4>2, GcertRecords, ZenonT(60)
      <4>4. call' = [call EXCEPT ![c] = r]
        BY <4>1
      <4> HIDE DEF r
      <4>5. QED
        BY <4>3, <4>4
    <3>4. CASE \E step \in GcertSteps :
                 call' = [call EXCEPT ![c].step = step, ![c].prevSize = log]
      <4>1. PICK step \in GcertSteps :
                 call' = [call EXCEPT ![c].step = step, ![c].prevSize = log]
        BY <3>4
      <4> DEFINE r == [call[c] EXCEPT !.step = step, !.prevSize = log]
      <4>2. call[c] \in GcertCalls /\ step \in GcertSteps /\ log \in Nat
        BY <1>0, <4>1
      <4>3. r \in GcertCalls /\ r.result = call[c].result /\ r.since = call[c].since
        BY <4>2, GcertRecords, ZenonT(60)
      <4>4. call' = [call EXCEPT ![c] = r]
        BY <4>1
      <4> HIDE DEF r
      <4>5. QED
        BY <4>3, <4>4
    <3>5. QED
      BY <1>4, <3>1, <3>2, <3>3, <3>4
  <2>3. QED
    BY <1>0, <2>1, <2>2, GcertMoves
<1>5. ASSUME NEW c \in Calls, Gcert!Return(c, "true"), certified' = TRUE, log' = log
      PROVE  GcertIInv'
  <2> DEFINE r == [call[c] EXCEPT !.step = "returned", !.result = "true"]
  <2>1. call' = [call EXCEPT ![c] = r]
    BY <1>5 DEF Gcert!Return
  <2>2. r \in GcertCalls
    BY <1>0, GcertRecords
  <2> HIDE DEF r
  <2>3. certified' \in BOOLEAN /\ log' \in Nat /\ certified'
    BY <1>0, <1>5
  <2>4. QED
    BY <2>1, <2>2, <2>3, GcertMoves
<1>6. CASE \E c \in Calls : \/ Gcert!GcertstatusNotFound(c) \/ Gcert!GenericFailure(c)
                            \/ Gcert!Answer(c) \/ Gcert!GcertFails(c)
  BY <1>0, <1>4, <1>6 DEF Gcert!GcertstatusNotFound, Gcert!GenericFailure, Gcert!Answer,
                          Gcert!GcertFails, GcertSteps
<1>7. CASE \E c \in Calls : Gcert!Success(c)
  BY <1>0, <1>4, <1>5, <1>7 DEF Gcert!Success, Gcert!Prompt, Gcert!others
<1>8. CASE \E c \in Calls, u \in BOOLEAN : Gcert!ExpiredOrNotFound(c, u)
  BY <1>0, <1>4, <1>8 DEF Gcert!ExpiredOrNotFound, Gcert!Prompt
<1>9. CASE \E c \in Calls, n \in 0..Sockets : Gcert!AskSshAuthSock(c, n)
  BY <1>0, <1>4, <1>9 DEF Gcert!AskSshAuthSock
<1>10. CASE \E c \in Calls : Gcert!GcertSucceeds(c)
  BY <1>5, <1>10 DEF Gcert!GcertSucceeds
<1>11. CASE \E c \in Calls : Gcert!ReadLog(c)
  BY <1>0, <1>4, <1>11 DEF Gcert!ReadLog
<1>12. CASE UNCHANGED gcertVars
  BY <1>12 DEF gcertVars, GcertIInv, Gcert!CertifiedIfTold
<1>13. QED
  BY <1>1, <1>2, <1>3, <1>6, <1>7, <1>8, <1>9, <1>10, <1>11, <1>12 DEF Gcert!Next
-----------------------------------------------------------------------------
(* Flashing with a suggested image *)

LEMMA DeviceInitially == Device!Init => DeviceIInv
BY ToolsAssumption DEF Device!Init, DeviceIInv

LEMMA DeviceStep ==
  ASSUME DeviceIInv, [Device!Next]_deviceVars
  PROVE  DeviceIInv'
<1> USE DEF DeviceIInv, Device!checkout, Device!others, Device!Goes, Device!Ends
<1>1. ASSUME NEW i, Device!DeviceChanges(i) PROVE DeviceIInv'
  BY <1>1 DEF Device!DeviceChanges, Device!HasSuggestions, Device!SuggestedImages,
              Device!ValidPrebuiltImageTypes
<1>2. ASSUME NEW i, Device!PickSuggested(i) PROVE DeviceIInv'
  BY <1>2 DEF Device!PickSuggested, Device!HasSuggestions, Device!SuggestedImages,
              Device!ValidPrebuiltImageTypes
<1>3. ASSUME NEW i, Device!PickImage(i) PROVE DeviceIInv'
  BY <1>3 DEF Device!PickImage
<1>4. CASE Device!PromptTargets
  BY <1>4 DEF Device!PromptTargets, Device!SuggestedImages,
              Device!ValidPrebuiltImageTypes
<1>5. CASE Device!Check
  BY <1>5 DEF Device!Check, Device!SuggestedImages, Device!ValidPrebuiltImageTypes
<1>6. CASE Device!Report
  BY <1>6 DEF Device!Report, Device!HasSuggestions, Device!SuggestedImages,
              Device!ValidPrebuiltImageTypes
<1>7. CASE Device!QuitPicker
  BY <1>7 DEF Device!QuitPicker, Device!SuggestedImages,
              Device!ValidPrebuiltImageTypes
<1>8. CASE Device!FlashImageToDevice
  BY <1>8 DEF Device!FlashImageToDevice, Device!SuggestedImages,
              Device!ValidPrebuiltImageTypes
<1>9. CASE Device!AfterCheck
  <2>1. UNCHANGED <<debugFlag, local, input, image, suggested, outcome>>
    BY <1>9 DEF Device!AfterCheck
  <2>2. at = "checked" /\ at' \in {"end", "deploy"}
    BY <1>9 DEF Device!AfterCheck
  <2>3. QED
    BY <2>1, <2>2 DEF Device!SuggestedImages, Device!ValidPrebuiltImageTypes
<1>10. CASE Device!CrosDeploy
  BY <1>10 DEF Device!CrosDeploy, Device!SuggestedImages,
               Device!ValidPrebuiltImageTypes
<1>11. CASE UNCHANGED deviceVars
  BY <1>11 DEF deviceVars, Device!HasSuggestions, Device!SuggestedImages,
               Device!ValidPrebuiltImageTypes
<1>12. QED
  BY <1>1, <1>2, <1>3, <1>4, <1>5, <1>6, <1>7, <1>8, <1>9, <1>10, <1>11
     DEF Device!Next

\* The types and versions that are suggested pass both halves of the check.
LEMMA SuggestedPass == DeviceIInv => Device!SuggestionPasses
<1> SUFFICES ASSUME DeviceIInv, suggested, image.type # "local"
             PROVE  Device!Passed(image)
  BY DEF DeviceIInv, Device!SuggestionPasses
<1> DEFINE types == Device!ValidPrebuiltImageTypes
<1>1. /\ image.type \in types /\ image.major \in DeviceMajors
      /\ image.major - local <= MaxSkew /\ local - image.major <= MaxSkew
      /\ debugFlag # "error" /\ local # 0
  BY DEF DeviceIInv, Device!SuggestedImages
<1>2. image.type \in {"release", "postsubmit", "snapshot"}
  BY <1>1 DEF Device!ValidPrebuiltImageTypes
<1>3. image # Device!NoImage
  BY <1>2 DEF Device!NoImage
<1>4. Device!DebugFlagAndImageTypeMatch(image.type)
  BY <1>1 DEF Device!ValidPrebuiltImageTypes, Device!DebugFlagAndImageTypeMatch
<1>5. Device!CheckUseFlags(image) = "PASSED"
  BY <1>1, <1>2, <1>3, <1>4 DEF Device!CheckUseFlags
<1>6. Device!CheckCrosVersion(image) = "PASSED"
  BY <1>1, <1>3 DEF Device!CheckCrosVersion
<1>7. QED
  BY <1>5, <1>6 DEF Device!Passed
-----------------------------------------------------------------------------
(* The pickers *)

\* The local version and the others are the range.
LEMMA OthersAreTheRange ==
  ASSUME NEW m \in Int, maxSkew \in Nat
  PROVE  m \in {Local} \cup Picker!Others <=> m - Local <= maxSkew /\ Local - m <= maxSkew
<1>1. ASSUME m \in Picker!Others PROVE m - Local <= maxSkew /\ Local - m <= maxSkew
  BY <1>1, ToolsAssumption DEF Picker!Others
<1>2. ASSUME m - Local <= maxSkew, m > Local PROVE m \in Picker!Others
  <2>1. Local + maxSkew - m \in 0..(maxSkew - 1)
    BY <1>2, ToolsAssumption
  <2>2. m = Local + maxSkew - (Local + maxSkew - m)
    BY ToolsAssumption
  <2>3. QED
    BY <2>1, <2>2 DEF Picker!Others
<1>3. ASSUME Local - m <= maxSkew, m < Local PROVE m \in Picker!Others
  <2>1. Local - m - 1 \in 0..(maxSkew - 1)
    BY <1>3, ToolsAssumption
  <2>2. m = Local - (Local - m - 1) - 1
    BY ToolsAssumption
  <2>3. QED
    BY <2>1, <2>2 DEF Picker!Others
<1>4. QED
  BY <1>1, <1>2, <1>3, ToolsAssumption

LEMMA OthersAreOthers ==
  ASSUME maxSkew \in Nat
  PROVE  Picker!Others \subseteq Int /\ Local \notin Picker!Others
BY ToolsAssumption DEF Picker!Others

LEMMA PickersInitially == Picker!Init => PickersIInv
BY ToolsAssumption DEF Picker!Init, Picker!Images, PickersIInv

LEMMA PickersStep ==
  ASSUME PickersIInv, [Picker!Next]_pickersVars
  PROVE  PickersIInv'
<1>0. maxSkew \in Nat /\ Picker!Others \subseteq Int /\ Local \notin Picker!Others
  BY ToolsAssumption, OthersAreOthers DEF PickersIInv
<1> USE DEF PickersIInv, Picker!world, Picker!Listed, Picker!OfMajor
<1>1. ASSUME NEW ok \in BOOLEAN, Picker!FirstListed(ok) PROVE PickersIInv'
  BY <1>1 DEF Picker!FirstListed
<1>2. CASE Picker!LoadAllVersions
  <2>1. /\ asked = {Local} /\ pending = {} /\ asked' = {Local} \cup Picker!Others
        /\ pending' = Picker!Others /\ asked' \ pending' = {Local}
    BY <1>0, <1>2 DEF Picker!LoadAllVersions
  <2>2. Picker!Others' = Picker!Others
    BY <1>2 DEF Picker!LoadAllVersions, Picker!Others
  <2>3. QED
    BY <1>0, <1>2, <2>1, <2>2, ToolsAssumption DEF Picker!LoadAllVersions
<1>3. ASSUME NEW m \in Majors, NEW ok \in BOOLEAN, Picker!MoreListed(m, ok)
      PROVE  PickersIInv'
  <2>1. Picker!Others' = Picker!Others
    BY <1>3 DEF Picker!MoreListed, Picker!Others
  <2>2. failed' = {} => items' = {i \in archive : i[1] \in asked \ (pending \ {m})}
    BY <1>3 DEF Picker!MoreListed
  <2>3. QED
    BY <1>3, <2>1, <2>2 DEF Picker!MoreListed
<1>4. ASSUME NEW m \in Majors, NEW ok \in BOOLEAN, Picker!PatternListed(m, ok)
      PROVE  PickersIInv'
  BY <1>4 DEF Picker!PatternListed, Picker!Added
<1>5. ASSUME NEW m \in Majors, Picker!ChangeValue(m) PROVE PickersIInv'
  <2>1. m \in Int
    BY ToolsAssumption
  <2>2. QED
    BY <1>5, <2>1 DEF Picker!ChangeValue
<1>6. CASE Picker!ClearValue
  BY <1>6 DEF Picker!ClearValue
<1>7. ASSUME NEW i, Picker!Accept(i) PROVE PickersIInv'
  BY <1>7 DEF Picker!Accept, Picker!Others
<1>8. CASE Picker!ReturnToImageTypeSelection \/ Picker!Hide
  <2>1. UNCHANGED <<kind, maxSkew, archive, listens, mode, items, asked, pending, failed, busy>>
    BY <1>8 DEF Picker!ReturnToImageTypeSelection, Picker!Hide
  <2>2. QED
    BY <2>1 DEF Picker!Others
<1>9. CASE UNCHANGED pickersVars
  BY <1>9 DEF pickersVars, Picker!Others
<1>10. QED
  BY <1>1, <1>2, <1>3, <1>4, <1>5, <1>6, <1>7, <1>8, <1>9 DEF Picker!Next

\* The stages of the suggestions, and the answers there are, make the list.
LEMMA PickersListAll == PickersIInv => Picker!ListIsComplete
<1> SUFFICES ASSUME PickersIInv, listens, ~busy, failed = {}
             PROVE  items = IF kind = "suggest" /\ mode \in {"versions", "oops"}
                            THEN Picker!InRange
                            ELSE UNION {Picker!OfMajor(m) : m \in asked}
  BY DEF Picker!ListIsComplete
<1>1. items = {i \in archive : i[1] \in asked}
  BY DEF PickersIInv
<1>2. UNION {Picker!OfMajor(m) : m \in asked} = items
  BY <1>1 DEF Picker!OfMajor
<1>3. CASE kind = "suggest" /\ mode \in {"versions", "oops"}
  <2>1. asked = {Local} \cup Picker!Others /\ maxSkew \in Nat
    BY <1>3, ToolsAssumption DEF PickersIInv
  <2>2. \A i \in archive : i[1] \in Int
    BY ToolsAssumption DEF PickersIInv
  <2>3. \A i \in archive : i[1] \in asked <=> i[1] - Local <= maxSkew /\ Local - i[1] <= maxSkew
    BY <2>1, <2>2, OthersAreTheRange
  <2>4. QED
    BY <1>1, <1>3, <2>3 DEF Picker!InRange
<1>4. QED
  BY <1>2, <1>3
-----------------------------------------------------------------------------
(* The spellchecker *)

LEMMA SpellInitially == Spell!Init => SpellIInv
<1> SUFFICES ASSUME Spell!Init PROVE SpellIInv
  OBVIOUS
<1>1. PICK begun \in [Dirs -> Checks] :
        /\ \A d, e \in Dirs : begun[d] = begun[e] => d = e
        /\ check = [c \in Checks |-> IF \E d \in Dirs : begun[d] = c
                                     THEN Spell!Began(CHOOSE d \in Dirs : begun[d] = c)
                                     ELSE Spell!Idle]
  BY DEF Spell!Init
<1>2. ASSUME NEW d \in Dirs
      PROVE  /\ check[begun[d]] \in SpellChecks /\ check[begun[d]].of = d
             /\ check[begun[d]].step = "message"
  <2>1. check[begun[d]] = Spell!Began(d)
    BY <1>1, <1>2
  <2>2. Spell!Began(d) = [of |-> d, step |-> "message", read |-> 0]
    BY DEF Spell!Began
  <2>3. [of |-> d, step |-> "message", read |-> 0] \in SpellChecks
    BY DEF SpellChecks, Spell!Targets
  <2>4. QED
    BY <2>1, <2>2, <2>3
<1>3. ASSUME NEW c \in Checks, ~\E d \in Dirs : begun[d] = c PROVE check[c] = Spell!Idle
  BY <1>1, <1>3
<1>4. ASSUME NEW t \in Spell!Targets, NEW c \in Checks, check[c].of = t
      PROVE  t \in Dirs /\ c = begun[t] /\ check[c].step = "message"
  <2>1. c \in {begun[d] : d \in Dirs}
    BY <1>3, <1>4, ToolsAssumption DEF Spell!Idle, Spell!Targets
  <2>2. PICK d \in Dirs : c = begun[d]
    BY <2>1
  <2>3. check[c].of = d /\ check[c].step = "message"
    BY <1>2, <2>2
  <2>4. QED
    BY <1>4, <2>2, <2>3
<1>5. ASSUME NEW t \in Dirs PROVE begun[t] \in Spell!ChecksOf(t)
  BY <1>1, <1>2, <1>5 DEF Spell!ChecksOf, Spell!Began
<1>6. ASSUME NEW c \in Checks
      PROVE  check[c] \in SpellChecks
  <2>1. CASE \E d \in Dirs : begun[d] = c
    BY <1>2, <2>1
  <2>2. CASE ~\E d \in Dirs : begun[d] = c
    BY <1>3, <2>2 DEF Spell!Idle, SpellChecks
  <2>3. QED
    BY <2>1, <2>2
<1>7. ASSUME NEW t \in Spell!Targets PROVE CheckedAlone(t)
  <2>1. /\ \A c, d \in Spell!ChecksOf(t) : c = d
        /\ \A c \in Spell!ChecksOf(t) : check[c].step = "message"
        /\ Spell!ChecksOf(t) = {} => t \notin Dirs
    BY <1>4, <1>5 DEF Spell!ChecksOf
  <2>2. version[t] = spellChanges[t] /\ diagnostics[t] = 0
        /\ (t \notin Dirs => version[t] = 0)
    BY DEF Spell!Init
  <2>3. QED
    BY <2>1, <2>2 DEF CheckedAlone
<1>8. {version, spellChanges, diagnostics} \subseteq [Spell!Targets -> Nat]
  BY DEF Spell!Init
<1>9. QED
  <2>1. check \in [Checks -> SpellChecks]
    BY <1>1, <1>6
  <2>2. \A c \in Checks : check[c].of = None => check[c].step = "idle"
    <3>1. ASSUME NEW c \in Checks, \E d \in Dirs : begun[d] = c, check[c].of = None
          PROVE  FALSE
      BY <1>2, <3>1, ToolsAssumption
    <3>2. QED
      BY <1>3, <3>1 DEF Spell!Idle
  <2>3. QED
    BY <1>7, <1>8, <2>1, <2>2 DEF SpellIInv

\* A step of a check that moves on is one of that check alone.
LEMMA SpellStep ==
  ASSUME SpellIInv, [Spell!Next]_spellVars
  PROVE  SpellIInv'
<1> DEFINE T == Spell!Targets
           R == SpellChecks
<1>0. /\ check \in [Checks -> R] /\ version \in [T -> Nat]
      /\ spellChanges \in [T -> Nat] /\ diagnostics \in [T -> Nat]
      /\ None \notin T
      /\ \A c \in Checks : check[c].of = None => check[c].step = "idle"
      /\ \A t \in T \ upset : CheckedAlone(t)
  BY ToolsAssumption DEF SpellIInv, Spell!Targets
<1>1. ASSUME NEW t \in T, Spell!Change(t) PROVE SpellIInv'
  <2>1. PICK c \in Checks : check[c] = Spell!Idle /\ check' = [check EXCEPT ![c] = Spell!Began(t)]
    BY <1>1 DEF Spell!Change, Spell!Refresh
  <2>2. /\ spellChanges' = [spellChanges EXCEPT ![t] = @ + 1] /\ diagnostics' = diagnostics
        /\ version' = [version EXCEPT ![t] = spellChanges[t] + 1]
        /\ upset' = IF Spell!ChecksOf(t) # {} THEN upset \cup {t} ELSE upset
    BY <1>0, <1>1 DEF Spell!Change, Spell!Meet
  <2>3. /\ Spell!Began(t) \in R /\ Spell!Began(t).of = t
        /\ Spell!Began(t).step = IF t \in Dirs THEN "message" ELSE "spell"
    BY DEF Spell!Began, SpellChecks
  <2>4. ASSUME NEW u \in T \ upset', u # t PROVE CheckedAlone(u)'
    <3>1. Spell!ChecksOf(u)' = Spell!ChecksOf(u)
      BY <1>0, <2>1, <2>3, <2>4 DEF Spell!ChecksOf, Spell!Idle
    <3>2. c \notin Spell!ChecksOf(u)
      BY <1>0, <2>1, <2>4 DEF Spell!ChecksOf, Spell!Idle
    <3>3. CheckedAlone(u)
      BY <1>0, <2>2, <2>4
    <3>4. QED
      BY <1>0, <2>1, <2>2, <2>4, <3>1, <3>2, <3>3 DEF CheckedAlone, Spell!ChecksOf
  <2>5. ASSUME t \notin upset' PROVE CheckedAlone(t)'
    <3>1. Spell!ChecksOf(t) = {}
      BY <2>2, <2>5
    <3>2. Spell!ChecksOf(t)' = {c} /\ check'[c] = Spell!Began(t)
      BY <1>0, <2>1, <2>3, <3>1 DEF Spell!ChecksOf
    <3>3. version'[t] = spellChanges'[t]
      BY <1>0, <2>2
    <3>4. QED
      BY <2>3, <3>2, <3>3 DEF CheckedAlone
  <2>6. /\ check' \in [Checks -> R]
        /\ {version', spellChanges', diagnostics'} \subseteq [T -> Nat]
        /\ \A d \in Checks : check'[d].of = None => check'[d].step = "idle"
    BY <1>0, <2>1, <2>2, <2>3
  <2>7. QED
    BY <2>4, <2>5, <2>6 DEF SpellIInv
<1>2. ASSUME NEW t \in T, Spell!Gone(t) PROVE SpellIInv'
  BY <1>0, <1>2 DEF Spell!Gone, Spell!Meet, CheckedAlone, Spell!ChecksOf, SpellIInv
<1>3. ASSUME NEW c \in Checks, NEW r \in R, check[c].step # "idle",
             check' = [check EXCEPT ![c] = r],
             \/ r = Spell!Idle /\ check[c].of \in upset'
             \/ /\ r.of = check[c].of
                /\ r.step \in {"spell", "read"}
                /\ check[c].of \in T \ upset => r.read = spellChanges[r.of] \/ (r.step = "spell" /\ r.of \notin Dirs),
             upset \subseteq upset', UNCHANGED <<version, spellChanges, diagnostics>>
      PROVE  SpellIInv'
  <2>1. ASSUME NEW u \in T \ upset' PROVE CheckedAlone(u)'
    <3>1. u \notin upset /\ CheckedAlone(u)
      BY <1>0, <1>3, <2>1
    <3>2. CASE check[c].of # u
      <4>1. Spell!ChecksOf(u)' = Spell!ChecksOf(u) /\ c \notin Spell!ChecksOf(u)
        BY <1>0, <1>3, <3>2, <2>1 DEF Spell!ChecksOf, Spell!Idle
      <4>2. QED
        BY <1>0, <1>3, <3>1, <4>1 DEF CheckedAlone, Spell!ChecksOf
    <3>3. CASE check[c].of = u
      <4>1. r.of = u /\ r.step \in {"spell", "read"}
            /\ (r.read = spellChanges[u] \/ (r.step = "spell" /\ u \notin Dirs))
        BY <1>3, <2>1, <3>1, <3>3
      <4>2. Spell!ChecksOf(u)' = Spell!ChecksOf(u) /\ c \in Spell!ChecksOf(u) /\ check'[c] = r
        BY <1>0, <1>3, <3>3, <4>1 DEF Spell!ChecksOf
      <4>3. \A d \in Spell!ChecksOf(u) : d = c
        BY <3>1, <4>2 DEF CheckedAlone
      <4>4. QED
        BY <1>3, <3>1, <4>1, <4>2, <4>3 DEF CheckedAlone
    <3>4. QED
      BY <3>2, <3>3
  <2>2. /\ check' \in [Checks -> R]
        /\ \A d \in Checks : check'[d].of = None => check'[d].step = "idle"
    BY <1>0, <1>3 DEF Spell!Idle
  <2>3. QED
    BY <1>0, <1>3, <2>1, <2>2 DEF SpellIInv
<1>4. Spell!Idle \in R
  BY DEF Spell!Idle, SpellChecks
<1>5. ASSUME NEW c \in Checks, Spell!End(c), Spell!Fail(c), check[c].step # "idle",
             UNCHANGED <<version, spellChanges, diagnostics>>
      PROVE  SpellIInv'
  <2>1. check' = [check EXCEPT ![c] = Spell!Idle] /\ upset' = upset \cup {check[c].of}
    BY <1>5 DEF Spell!End, Spell!Fail
  <2>2. QED
    BY <1>3, <1>4, <1>5, <2>1
<1>6. ASSUME NEW c \in Checks,
             Spell!MessageFails(c) \/ Spell!ExecFails(c) \/ Spell!OutputFails(c)
      PROVE  SpellIInv'
  BY <1>5, <1>6 DEF Spell!MessageFails, Spell!ExecFails, Spell!OutputFails
<1>7. ASSUME NEW c \in Checks, Spell!GetCommitMessage(c) PROVE SpellIInv'
  <2> DEFINE r == [check[c] EXCEPT !.step = "spell", !.read = spellChanges[check[c].of]]
  <2>1. check[c].of \in T
    BY <1>0, <1>7 DEF Spell!GetCommitMessage, SpellChecks
  <2>2. r \in R /\ r.of = check[c].of /\ r.step = "spell" /\ r.read = spellChanges[r.of]
    BY <1>0, <2>1 DEF SpellChecks
  <2>3. check' = [check EXCEPT ![c] = r] /\ check[c].step = "message"
    BY <1>7 DEF Spell!GetCommitMessage
  <2> HIDE DEF r
  <2>4. QED
    BY <1>3, <1>7, <2>2, <2>3 DEF Spell!GetCommitMessage
<1>8. ASSUME NEW c \in Checks, Spell!Exec(c) PROVE SpellIInv'
  <2> DEFINE r == [check[c] EXCEPT !.step = "read",
                                   !.read = IF check[c].of \in Dirs THEN @
                                            ELSE spellChanges[check[c].of]]
  <2>1. check[c].of \in T /\ check[c].step = "spell"
    BY <1>0, <1>8 DEF Spell!Exec, SpellChecks
  <2>2. /\ r \in R /\ r.of = check[c].of /\ r.step = "read"
        /\ r.read = IF check[c].of \in Dirs THEN check[c].read ELSE spellChanges[check[c].of]
    BY <1>0, <2>1 DEF SpellChecks
  <2>3. check' = [check EXCEPT ![c] = r]
    BY <1>8 DEF Spell!Exec
  <2> HIDE DEF r
  <2>4. check[c].of \in T \ upset => r.read = spellChanges[r.of]
    BY <1>0, <2>1, <2>2 DEF CheckedAlone, Spell!ChecksOf
  <2>5. QED
    BY <1>3, <1>8, <2>1, <2>2, <2>3, <2>4 DEF Spell!Exec
<1>9. ASSUME NEW c \in Checks, Spell!RefreshDiagnostics(c) PROVE SpellIInv'
  <2>1. check[c].of \in T /\ check[c].read \in Nat /\ check[c].step = "read"
    BY <1>0, <1>9 DEF Spell!RefreshDiagnostics, SpellChecks
  <2>2. /\ check' = [check EXCEPT ![c] = Spell!Idle]
        /\ diagnostics' = [diagnostics EXCEPT ![check[c].of] = check[c].read]
        /\ UNCHANGED <<version, spellChanges, upset>>
    BY <1>9 DEF Spell!RefreshDiagnostics, Spell!End
  <2>3. ASSUME NEW u \in T \ upset PROVE CheckedAlone(u)'
    <3>1. CheckedAlone(u)
      BY <1>0, <2>3
    <3>2. CASE check[c].of # u
      <4>1. Spell!ChecksOf(u)' = Spell!ChecksOf(u) /\ c \notin Spell!ChecksOf(u)
        BY <1>0, <2>2, <3>2 DEF Spell!ChecksOf, Spell!Idle
      <4>2. QED
        BY <1>0, <2>1, <2>2, <3>1, <3>2, <4>1 DEF CheckedAlone, Spell!ChecksOf
    <3>3. CASE check[c].of = u
      <4>1. c \in Spell!ChecksOf(u) /\ \A d \in Spell!ChecksOf(u) : d = c
        BY <3>1, <3>3 DEF CheckedAlone, Spell!ChecksOf
      <4>2. Spell!ChecksOf(u)' = {}
        BY <1>0, <2>2, <4>1 DEF Spell!ChecksOf, Spell!Idle
      <4>3. diagnostics'[u] = version'[u]
        BY <1>0, <2>1, <2>2, <3>1, <3>3, <4>1 DEF CheckedAlone
      <4>4. QED
        BY <4>2, <4>3 DEF CheckedAlone
    <3>4. QED
      BY <3>2, <3>3
  <2>4. /\ check' \in [Checks -> R] /\ diagnostics' \in [T -> Nat]
        /\ \A d \in Checks : check'[d].of = None => check'[d].step = "idle"
    BY <1>0, <1>4, <2>1, <2>2 DEF Spell!Idle
  <2>5. QED
    BY <1>0, <2>2, <2>3, <2>4 DEF SpellIInv
<1>10. ASSUME NEW d \in Dirs, Spell!ProvideTextDocumentContent(d) PROVE SpellIInv'
  BY <1>10 DEF Spell!ProvideTextDocumentContent, SpellIInv, CheckedAlone, Spell!ChecksOf
<1>11. CASE UNCHANGED spellVars
  BY <1>11 DEF spellVars, SpellIInv, CheckedAlone, Spell!ChecksOf
<1>12. QED
  BY <1>1, <1>2, <1>6, <1>7, <1>8, <1>9, <1>10, <1>11 DEF Spell!Next

\* What was checked alone is what is shown.
LEMMA SpellShows == SpellIInv => Spell!DiagnosticsAreCurrent
BY DEF SpellIInv, CheckedAlone, Spell!DiagnosticsAreCurrent
-----------------------------------------------------------------------------
(* The linters *)

LEMMA LinterLists ==
  /\ \A language : Lint!Linters(language) \in Seq(LinterNames)
  /\ \A w : Lint!Placed(w) \in {"the line", "first line", "last line"}
<1>1. ASSUME NEW language PROVE Lint!Linters(language) \in Seq(LinterNames)
  <2>1. {"cros lint", "libchrome check", "tast lint"} \subseteq LinterNames
    BY DEF LinterNames
  <2>2. /\ \A a, b \in LinterNames : <<a, b>> \in Seq(LinterNames)
        /\ \A a \in LinterNames : <<a>> \in Seq(LinterNames)
        /\ <<>> \in Seq(LinterNames)
    OBVIOUS
  <2>3. QED
    BY <2>1, <2>2 DEF Lint!Linters
<1>2. ASSUME NEW w PROVE Lint!Placed(w) \in {"the line", "first line", "last line"}
  BY DEF Lint!Placed
<1>3. QED
  BY <1>1, <1>2

\* A run that has begun, and one that is idle.
LEMMA LintRecords ==
  ASSUME NEW todo \in Seq(LinterNames), NEW e \in Docs \cup {NoDoc}
  PROVE  LET r == [doc |-> e, todo |-> todo, found |-> {}, asks |-> FALSE] IN
           r \in LintRuns /\ r.doc = e /\ r.found = {} /\ ~r.asks
BY DEF LintRuns

LEMMA LintIdle == Lint!Idle \in LintRuns /\ Lint!Idle.doc = NoDoc /\ ~Lint!Idle.asks
<1>1. <<>> \in Seq(LinterNames)
  OBVIOUS
<1>2. QED
  BY <1>1, LintRecords DEF Lint!Idle

LEMMA LintBegun ==
  ASSUME NEW d \in Docs
  PROVE  /\ Lint!Begun(d) \in LintRuns /\ Lint!Begun(d).doc = d
         /\ Lint!Begun(d).found = {} /\ ~Lint!Begun(d).asks
<1>1. Lint!Linters(Language[d]) \in Seq(LinterNames)
  BY LinterLists
<1>2. QED
  BY <1>1, LintRecords DEF Lint!Begun

LEMMA LintInitially == Lint!Init => LintIInv
<1> SUFFICES ASSUME Lint!Init PROVE LintIInv
  OBVIOUS
<1> DEFINE idle == [r \in Runs |-> Lint!Idle]
<1>1. /\ Lint!Idle \in LintRuns /\ Lint!Idle.doc = NoDoc /\ ~Lint!Idle.asks
      /\ \A d \in Docs : /\ Lint!Begun(d) \in LintRuns /\ Lint!Begun(d).doc = d
                         /\ Lint!Begun(d).found = {} /\ ~Lint!Begun(d).asks
  BY LintBegun, LintIdle
<1>2. /\ active \in Docs \cup {NoDoc} /\ open = {active} \ {NoDoc} /\ activated = open
      /\ enabled = TRUE /\ saved = [d \in Docs |-> 0] /\ collection = [d \in Docs |-> {}]
      /\ crossed = {}
  BY DEF Lint!Init, Lint!Nothing
<1>3. \/ run = idle
      \/ active # NoDoc /\ \E r \in Runs : run = [idle EXCEPT ![r] = Lint!Begun(active)]
  BY DEF Lint!Init
<1>4. /\ run \in [Runs -> LintRuns] /\ \A r \in Runs : ~run[r].asks
      /\ \A r, s \in Runs : run[r].doc # NoDoc /\ run[s].doc # NoDoc => r = s
      /\ \A r \in Runs : run[r].doc # NoDoc => run[r].doc = active /\ run[r].found = {}
  <2>1. CASE run = idle
    BY <1>1, <2>1
  <2>2. CASE active # NoDoc /\ \E r \in Runs : run = [idle EXCEPT ![r] = Lint!Begun(active)]
    <3>1. PICK r \in Runs : run = [idle EXCEPT ![r] = Lint!Begun(active)]
      BY <2>2
    <3>2. active \in Docs
      BY <1>2, <2>2
    <3>3. run[r] = Lint!Begun(active) /\ \A s \in Runs \ {r} : run[s] = Lint!Idle
      BY <3>1
    <3>4. run \in [Runs -> LintRuns]
      BY <1>1, <3>1, <3>2
    <3>5. QED
      BY <1>1, <3>2, <3>3, <3>4
  <2>3. QED
    BY <1>3, <2>1, <2>2
<1>5. LintTypes
  BY <1>2, <1>4 DEF LintTypes
<1>6. ASSUME NEW d \in Docs PROVE LintedAlone(d)
  BY <1>2, <1>4, ToolsAssumption DEF LintedAlone, Lint!RunsOf
<1>7. QED
  BY <1>5, <1>6 DEF LintIInv

\* A run that goes on finds what is of the content on disk.
LEMMA LintGoesOn ==
  ASSUME LintIInv, NEW r \in Runs, NEW q \in LintRuns, run' = [run EXCEPT ![r] = q],
         q.doc = run[r].doc, q.asks => q.todo # <<>>,
         \A x \in q.found : x \in run[r].found \/ x[3] = saved[run[r].doc],
         UNCHANGED <<enabled, Lint!editors, collection, crossed>>
  PROVE  LintIInv'
<1>1. UNCHANGED <<active, open, activated, saved>>
  BY DEF Lint!editors
<1>2. LintTypes'
  BY <1>1 DEF LintIInv, LintTypes
<1>3. ASSUME NEW d \in Docs \ crossed' PROVE LintedAlone(d)'
  <2>1. LintedAlone(d) /\ run \in [Runs -> LintRuns]
    BY <1>3 DEF LintIInv, LintTypes
  <2>2. Lint!RunsOf(d)' = Lint!RunsOf(d)
    BY <2>1 DEF Lint!RunsOf
  <2>3. ASSUME NEW s \in Lint!RunsOf(d), NEW x \in run'[s].found PROVE x[3] = saved[d]
    <3>1. CASE s = r
      <4>1. run'[s] = q /\ run[r].doc = d
        BY <2>1, <2>3, <3>1 DEF Lint!RunsOf
      <4>2. x \in run[r].found \/ x[3] = saved[d]
        BY <2>3, <4>1
      <4>3. QED
        BY <2>1, <2>3, <3>1, <4>2 DEF LintedAlone
    <3>2. CASE s # r
      <4>1. run'[s] = run[s]
        BY <2>1, <2>3, <3>2 DEF Lint!RunsOf
      <4>2. QED
        BY <2>1, <2>3, <4>1 DEF LintedAlone
    <3>3. QED
      BY <3>1, <3>2
  <2>4. QED
    BY <1>1, <2>1, <2>2, <2>3 DEF LintedAlone
<1>4. QED
  BY <1>2, <1>3 DEF LintIInv

\* A run that ends leaves the diagnostics, or replaces those of its document.
LEMMA LintEnds ==
  ASSUME LintIInv, NEW r \in Runs, run' = [run EXCEPT ![r] = Lint!Idle],
         UNCHANGED <<enabled, Lint!editors, crossed>>,
         \/ collection' = collection
         \/ /\ run[r].doc # NoDoc
            /\ collection' = [collection EXCEPT ![run[r].doc] = run[r].found]
  PROVE  LintIInv'
<1>1. UNCHANGED <<active, open, activated, saved>>
  BY DEF Lint!editors
<1>2. run \in [Runs -> LintRuns] /\ run[r].doc \in Docs \cup {NoDoc}
      /\ run[r].found \in SUBSET Findings /\ collection \in [Docs -> SUBSET Findings]
  BY DEF LintIInv, LintTypes, LintRuns
<1>3. LintTypes'
  BY <1>1, <1>2, LintIdle DEF LintIInv, LintTypes
<1>4. ASSUME NEW d \in Docs \ crossed' PROVE LintedAlone(d)'
  <2>1. LintedAlone(d)
    BY <1>4 DEF LintIInv
  <2>2. /\ Lint!RunsOf(d)' \subseteq Lint!RunsOf(d)
        /\ \A s \in Lint!RunsOf(d)' : run'[s] = run[s]
    BY <1>2, <1>4, LintIdle, ToolsAssumption DEF Lint!RunsOf
  <2>3. CASE collection'[d] = collection[d]
    BY <1>1, <2>1, <2>2, <2>3 DEF LintedAlone
  <2>4. CASE run[r].doc = d /\ collection'[d] = run[r].found
    <3>1. r \in Lint!RunsOf(d)
      BY <2>4 DEF Lint!RunsOf
    <3>2. enabled /\ d \in activated /\ \A x \in collection'[d] : x[3] = saved[d]
      BY <2>1, <2>4, <3>1 DEF LintedAlone
    <3>3. QED
      BY <1>1, <2>1, <2>2, <3>2 DEF LintedAlone
  <2>5. QED
    BY <1>2, <1>4, <2>3, <2>4
<1>5. QED
  BY <1>3, <1>4 DEF LintIInv

\* A run of d that begins is the only one of d, or something has crossed it.
LEMMA LintBegins ==
  ASSUME LintIInv, LintTypes', NEW d \in Docs, NEW r \in Runs, run[r] = Lint!Idle,
         run' = [run EXCEPT ![r] = Lint!Begun(d)], collection' = collection,
         enabled', activated \subseteq activated', crossed \subseteq crossed',
         \A e \in Docs \ {d} : saved'[e] = saved[e],
         d \notin crossed' => Lint!RunsOf(d) = {} /\ d \in activated'
  PROVE  LintIInv'
<1>1. run \in [Runs -> LintRuns]
  BY DEF LintIInv, LintTypes
<1>2. ASSUME NEW e \in Docs \ crossed' PROVE LintedAlone(e)'
  <2>1. LintedAlone(e)
    BY <1>2 DEF LintIInv
  <2>2. CASE e = d
    <3>1. Lint!RunsOf(d)' = {r} /\ run'[r].found = {}
      BY <1>1, <1>2, <2>2, LintBegun DEF Lint!RunsOf
    <3>2. QED
      BY <1>2, <2>1, <2>2, <3>1 DEF LintedAlone
  <2>3. CASE e # d
    <3>1. Lint!RunsOf(e)' = Lint!RunsOf(e) /\ \A s \in Lint!RunsOf(e) : run'[s] = run[s]
      BY <1>1, <1>2, <2>3, LintBegun, LintIdle, ToolsAssumption DEF Lint!RunsOf
    <3>2. QED
      BY <1>2, <2>1, <2>3, <3>1 DEF LintedAlone
  <2>4. QED
    BY <2>2, <2>3
<1>3. QED
  BY <1>2 DEF LintIInv

\* Runs go on, and the diagnostics stay or are cleared.
LEMMA LintStays ==
  ASSUME LintIInv, LintTypes', run' = run, crossed \subseteq crossed',
         \A d \in Docs \ crossed' :
           /\ collection'[d] \in {{}, collection[d]}
           /\ \/ enabled' = enabled /\ (d \in activated => d \in activated')
              \/ Lint!RunsOf(d) = {} /\ collection'[d] = {}
           /\ saved'[d] = saved[d] \/ Lint!RunsOf(d) = {}
  PROVE  LintIInv'
<1>1. ASSUME NEW d \in Docs \ crossed' PROVE LintedAlone(d)'
  <2>1. LintedAlone(d) /\ Lint!RunsOf(d)' = Lint!RunsOf(d)
    BY <1>1 DEF LintIInv, Lint!RunsOf
  <2>2. QED
    BY <1>1, <2>1 DEF LintedAlone
<1>2. QED
  BY <1>1 DEF LintIInv

\* What an update of the diagnostics does: a run begins, all is cleared, or
\* nothing happens.
LEMMA LintUpdates ==
  ASSUME LintIInv, NEW d \in Docs, Lint!Update(d), enabled' = enabled,
         saved' \in [Docs -> Nat], active' \in Docs \cup {NoDoc},
         active' # NoDoc => active' \in activated', activated' \subseteq open',
         activated \subseteq activated', crossed \subseteq crossed',
         \A e \in Docs \ {d} : saved'[e] = saved[e],
         d \notin crossed' => Lint!RunsOf(d) = {} /\ d \in activated'
  PROVE  LintIInv'
<1>0. /\ run \in [Runs -> LintRuns] /\ collection \in [Docs -> SUBSET Findings]
      /\ enabled \in BOOLEAN /\ \A r \in Runs : run[r].asks => run[r].todo # <<>>
  BY DEF LintIInv, LintTypes
<1>1. CASE ~enabled
  <2>1. collection' = [e \in Docs |-> {}] /\ run' = run
    BY <1>1 DEF Lint!Update, Lint!Nothing
  <2>2. LintTypes'
    BY <1>0, <2>1 DEF LintTypes
  <2>3. QED
    BY <2>1, <2>2, LintStays
<1>2. CASE enabled /\ Lint!Linted(d)
  <2>1. PICK r \in Runs : run[r] = Lint!Idle /\ run' = [run EXCEPT ![r] = Lint!Begun(d)]
    BY <1>2 DEF Lint!Update
  <2>2. collection' = collection
    BY <1>2 DEF Lint!Update
  <2>3. LintTypes'
    BY <1>0, <2>1, <2>2, LintBegun DEF LintTypes
  <2>4. enabled'
    BY <1>2
  <2>5. QED
    BY <2>1, <2>2, <2>3, <2>4, LintBegins
<1>3. CASE enabled /\ ~Lint!Linted(d)
  <2>1. collection' = collection /\ run' = run
    BY <1>3 DEF Lint!Update
  <2>2. LintTypes'
    BY <1>0, <2>1 DEF LintTypes
  <2>3. QED
    BY <2>1, <2>2, LintStays
<1>4. QED
  BY <1>1, <1>2, <1>3

LEMMA LintStep ==
  ASSUME LintIInv, [Lint!Next]_lintVars
  PROVE  LintIInv'
<1>0. /\ run \in [Runs -> LintRuns] /\ saved \in [Docs -> Nat]
      /\ collection \in [Docs -> SUBSET Findings] /\ enabled \in BOOLEAN
      /\ active \in Docs \cup {NoDoc} /\ (active # NoDoc => active \in activated)
      /\ activated \subseteq open /\ \A r \in Runs : run[r].asks => run[r].todo # <<>>
      /\ \A r \in Runs : /\ run[r].doc \in Docs \cup {NoDoc} /\ run[r].todo \in Seq(LinterNames)
                         /\ run[r].found \in SUBSET Findings
  BY DEF LintIInv, LintTypes, LintRuns
<1>1. ASSUME NEW r \in Runs, Lint!Skip(r), run[r].todo # <<>>,
             UNCHANGED <<enabled, Lint!editors, collection, crossed>>
      PROVE  LintIInv'
  <2> DEFINE q == [run[r] EXCEPT !.todo = Tail(@), !.asks = FALSE]
  <2>0. Tail(run[r].todo) \in Seq(LinterNames) /\ run[r] \in LintRuns
    BY <1>0, <1>1
  <2>1. q \in LintRuns /\ q.doc = run[r].doc /\ q.found = run[r].found /\ ~q.asks
    BY <2>0 DEF LintRuns
  <2>2. run' = [run EXCEPT ![r] = q]
    BY <1>1 DEF Lint!Skip
  <2> HIDE DEF q
  <2>3. QED
    BY <1>1, <2>1, <2>2, LintGoesOn
<1>2. ASSUME NEW r \in Runs, Lint!NotApplying(r) \/ Lint!Answer(r) PROVE LintIInv'
  BY <1>0, <1>1, <1>2 DEF Lint!NotApplying, Lint!Answer, Lint!Running
<1>3. ASSUME NEW r \in Runs, Lint!CheckForGo(r) PROVE LintIInv'
  <2> DEFINE q == [run[r] EXCEPT !.asks = TRUE]
  <2>1. q \in LintRuns /\ q.doc = run[r].doc /\ q.found = run[r].found /\ q.todo = run[r].todo
    BY <1>0 DEF LintRuns
  <2>2. run' = [run EXCEPT ![r] = q] /\ run[r].todo # <<>>
    BY <1>3 DEF Lint!CheckForGo, Lint!Running
  <2> HIDE DEF q
  <2>3. UNCHANGED <<enabled, Lint!editors, collection, crossed>>
    BY <1>3 DEF Lint!CheckForGo
  <2>4. QED
    BY <2>1, <2>2, <2>3, LintGoesOn
<1>4. ASSUME NEW r \in Runs, NEW reports, run[r].doc # NoDoc, Lint!Exec(r, reports)
      PROVE  LintIInv'
  <2> DEFINE new == {<<Head(run[r].todo), place, saved[run[r].doc]>> :
                       place \in Lint!Parse(reports)}
             q == [run[r] EXCEPT !.todo = Tail(@), !.found = @ \cup new]
  <2>1. run[r].todo # <<>> /\ ~run[r].asks
    BY <1>4 DEF Lint!Exec, Lint!Applying, Lint!Running
  <2>2. /\ Head(run[r].todo) \in LinterNames /\ Tail(run[r].todo) \in Seq(LinterNames)
        /\ saved[run[r].doc] \in Nat
    BY <1>0, <1>4, <2>1
  <2>3. Lint!Parse(reports) \subseteq {"the line", "first line", "last line"}
    BY LinterLists DEF Lint!Parse
  <2>4. new \subseteq Findings /\ \A x \in new : x[3] = saved[run[r].doc]
    <3>1. ASSUME NEW x \in new PROVE x \in Findings /\ x[3] = saved[run[r].doc]
      <4>1. PICK place \in Lint!Parse(reports) :
              x = <<Head(run[r].todo), place, saved[run[r].doc]>>
        OBVIOUS
      <4>2. place \in {"the line", "first line", "last line"}
        BY <2>3
      <4>3. QED
        BY <2>2, <4>1, <4>2 DEF Findings
    <3>2. QED
      BY <3>1
  <2>5. run' = [run EXCEPT ![r] = q]
    BY <1>4 DEF Lint!Exec
  <2> HIDE DEF new
  <2>6. q \in LintRuns /\ q.doc = run[r].doc /\ q.found = run[r].found \cup new /\ ~q.asks
    BY <1>0, <2>1, <2>2, <2>4 DEF LintRuns
  <2> HIDE DEF q
  <2>7. UNCHANGED <<enabled, Lint!editors, collection, crossed>>
    BY <1>4 DEF Lint!Exec
  <2>8. QED
    BY <2>4, <2>5, <2>6, <2>7, LintGoesOn
<1>5. ASSUME NEW r \in Runs, Lint!ExecFails(r) \/ Lint!MissingDiagnostics(r)
      PROVE  LintIInv'
  BY <1>5, LintEnds DEF Lint!ExecFails, Lint!MissingDiagnostics, Lint!Abandon
<1>6. ASSUME NEW r \in Runs, Lint!SetDiagnostics(r) PROVE LintIInv'
  BY <1>6, LintEnds DEF Lint!SetDiagnostics
<1>7. ASSUME NEW d \in Docs, Lint!ActivateEditor(d) PROVE LintIInv'
  <2>1. /\ active' = d /\ open' = open \cup {d} /\ activated' = activated \cup {d}
        /\ UNCHANGED <<enabled, saved>> /\ crossed \subseteq crossed'
        /\ d \notin crossed' => Lint!RunsOf(d) = {}
    BY <1>7 DEF Lint!ActivateEditor
  <2>2. CASE d \in activated
    <3>1. run' = run /\ collection' = collection
      BY <1>7, <2>2 DEF Lint!ActivateEditor
    <3>2. LintTypes'
      BY <1>0, <2>1, <3>1 DEF LintTypes
    <3>3. QED
      BY <2>1, <3>1, <3>2, LintStays
  <2>3. CASE d \notin activated
    BY <1>0, <1>7, <2>1, <2>3, LintUpdates DEF Lint!ActivateEditor
  <2>4. QED
    BY <2>2, <2>3
<1>8. ASSUME NEW d \in Docs, Lint!OpenUnseen(d) PROVE LintIInv'
  <2>1. UNCHANGED <<enabled, active, activated, saved, run, collection, crossed>>
        /\ open \subseteq open'
    BY <1>8 DEF Lint!OpenUnseen
  <2>2. LintTypes'
    BY <1>0, <2>1 DEF LintTypes
  <2>3. QED
    BY <2>1, <2>2, LintStays
<1>9. ASSUME NEW d \in Docs, Lint!Save(d) PROVE LintIInv'
  <2>1. /\ saved' = [saved EXCEPT ![d] = @ + 1] /\ Lint!Update(d)
        /\ UNCHANGED <<enabled, active, open, activated>> /\ crossed \subseteq crossed'
        /\ d \notin crossed' => Lint!RunsOf(d) = {} /\ d \in activated'
    BY <1>9 DEF Lint!Save, Lint!Crosses
  <2>2. saved' \in [Docs -> Nat] /\ \A e \in Docs \ {d} : saved'[e] = saved[e]
    BY <1>0, <2>1
  <2>3. QED
    BY <1>0, <2>1, <2>2, LintUpdates
<1>10. ASSUME NEW d \in Docs, Lint!Close(d) PROVE LintIInv'
  <2>1. /\ open' = open \ {d} /\ activated' = activated \ {d}
        /\ active' = IF active = d THEN NoDoc ELSE active
        /\ collection' = IF d \in activated THEN [collection EXCEPT ![d] = {}] ELSE collection
        /\ crossed \subseteq crossed' /\ (d \notin crossed' => Lint!RunsOf(d) = {})
        /\ UNCHANGED <<enabled, saved, run>>
    BY <1>10 DEF Lint!Close
  <2>2. LintTypes'
    BY <1>0, <2>1 DEF LintTypes
  <2>3. ASSUME d \notin crossed' PROVE Lint!RunsOf(d) = {} /\ collection'[d] = {}
    <3>1. LintedAlone(d)
      BY <2>1, <2>3 DEF LintIInv
    <3>2. QED
      BY <1>0, <2>1, <2>3, <3>1 DEF LintedAlone
  <2>4. \A e \in Docs \ {d} : collection'[e] = collection[e]
    BY <1>0, <2>1
  <2>5. QED
    BY <1>0, <2>1, <2>2, <2>3, <2>4, LintStays
<1>11. ASSUME Lint!Toggle PROVE LintIInv'
  <2>1. /\ enabled' = ~enabled /\ UNCHANGED <<active, open, activated, saved>>
        /\ crossed \subseteq crossed' /\ \A d \in Docs \ crossed' : Lint!RunsOf(d) = {}
    BY <1>11 DEF Lint!Toggle, Lint!editors
  <2>2. CASE enabled
    <3>1. collection' = [d \in Docs |-> {}] /\ run' = run
      BY <1>11, <2>2 DEF Lint!Toggle, Lint!Nothing
    <3>2. LintTypes'
      BY <1>0, <2>1, <3>1 DEF LintTypes
    <3>3. QED
      BY <2>1, <3>1, <3>2, LintStays
  <2>3. CASE ~enabled /\ run' = run
    <3>1. collection' = collection
      BY <1>11, <2>3 DEF Lint!Toggle
    <3>2. LintTypes'
      BY <1>0, <2>1, <2>3, <3>1 DEF LintTypes
    <3>3. \A d \in Docs \ crossed' : collection'[d] = {}
      BY <2>1, <2>3, <3>1 DEF LintIInv, LintedAlone
    <3>4. QED
      BY <2>1, <2>3, <3>1, <3>2, <3>3, LintStays
  <2>4. CASE ~enabled /\ run' # run
    <3>1. active # NoDoc /\ collection' = collection
          /\ \E r \in Runs : run[r] = Lint!Idle /\ run' = [run EXCEPT ![r] = Lint!Begun(active)]
      BY <1>11, <2>4 DEF Lint!Toggle
    <3>2. PICK r \in Runs : run[r] = Lint!Idle /\ run' = [run EXCEPT ![r] = Lint!Begun(active)]
      BY <3>1
    <3>3. active \in Docs /\ active \in activated
      BY <1>0, <3>1
    <3>4. LintTypes'
      BY <1>0, <2>1, <3>1, <3>2, <3>3, LintBegun DEF LintTypes
    <3>5. enabled'
      BY <2>1, <2>4
    <3>6. QED
      BY <2>1, <3>1, <3>2, <3>3, <3>4, <3>5, LintBegins
  <2>5. QED
    BY <2>2, <2>3, <2>4
<1>12. CASE UNCHANGED lintVars
  <2>1. UNCHANGED <<enabled, active, open, activated, saved, run, collection, crossed>>
    BY <1>12 DEF lintVars
  <2>2. LintTypes'
    BY <1>0, <2>1 DEF LintTypes
  <2>3. QED
    BY <2>1, <2>2, LintStays
<1>13. QED
  BY <1>2, <1>3, <1>4, <1>5, <1>6, <1>7, <1>8, <1>9, <1>10, <1>11, <1>12
     DEF Lint!Next

\* The diagnostics of a document that nothing has crossed are of one content.
LEMMA LintHolds == LintIInv => Lint!DiagnosticsAreOfOneLint
BY DEF LintIInv, LintTypes, LintedAlone, Lint!DiagnosticsAreOfOneLint
-----------------------------------------------------------------------------
(* Runs of tests *)

USE ToolsAssumption DEF Gtest!frame, Gtest!Marked, Gtest!InHome, Gtest!Results

\* The cardinality that the instance speaks of.
LEMMA SameCardinality == \A S : Gtest!Cardinality(S) = Cardinality(S)
BY DEF Gtest!Cardinality, Cardinality

LEMMA GtestInitially == Gtest!Init => GtestIInv
<1> SUFFICES ASSUME Gtest!Init PROVE GtestIInv
  OBVIOUS
<1>1. GtestTypes /\ GtestSteps
  <2>1. GtestTypes
    <3>1. runner \in {"platform2", "direct", "autotest"} /\ homes \in [Cases -> SUBSET Homes]
      BY DEF Gtest!Init
    <3>2. runner = "platform2" => \A c \in Cases : Cardinality(homes[c]) <= 1
      BY SameCardinality DEF Gtest!Init
    <3>3. QED  BY <3>1, <3>2 DEF Gtest!Init, GtestTypes
  <2>2. GtestSteps
    BY DEF Gtest!Init, GtestSteps
  <2>3. QED  BY <2>1, <2>2
<1>2. GtestAnswers /\ GtestTargets
  BY DEF Gtest!Init, GtestAnswers, GtestTargets
<1>3. QED  BY <1>1, <1>2 DEF GtestIInv

\* A case in one home is in no other.
LEMMA OneHome ==
  ASSUME GtestTypes, NEW c \in Cases, Cardinality(homes[c]) <= 1, NEW h \in homes[c]
  PROVE  homes[c] = {h}
<1>1. /\ IsFiniteSet(homes[c])
      /\ Cardinality(homes[c]) \in Nat
  BY FS_Subset, FS_CardinalityType DEF GtestTypes
<1>2. IsFiniteSet({h}) /\ Cardinality({h}) = 1
  BY FS_Singleton
<1>3. {h} \subseteq homes[c]
  OBVIOUS
<1>4. Cardinality({h}) <= Cardinality(homes[c])
  BY <1>1, <1>3, FS_Subset
<1>5. QED
  BY <1>1, <1>2, <1>3, <1>4, FS_Subset

\* The run and its request.
LEMMA GtestRequestStep ==
  ASSUME GtestIInv
  PROVE  /\ \A found \in SUBSET Cases : Gtest!Update(found) => GtestIInv'
         /\ \A include, exclude : Gtest!RunHandler(include, exclude) => GtestIInv'
         /\ Gtest!Cancel \/ Gtest!Run => GtestIInv'
<1> USE DEF GtestIInv, GtestTypes, GtestSteps, GtestAnswers, GtestTargets, Waits
<1>1. ASSUME NEW found \in SUBSET Cases, Gtest!Update(found) PROVE GtestIInv'
  BY <1>1 DEF Gtest!Update
<1>2. ASSUME NEW include, NEW exclude, Gtest!RunHandler(include, exclude) PROVE GtestIInv'
  BY <1>2 DEF Gtest!RunHandler
<1>3. CASE Gtest!Cancel
  BY <1>3 DEF Gtest!Cancel
<1>4. CASE Gtest!Run
  <2>1. GtestTypes'
    BY <1>4 DEF Gtest!Run
  <2>2. GtestSteps' /\ GtestTargets'
    BY <1>4 DEF Gtest!Run
  <2>3. GtestAnswers'
    BY <1>4 DEF Gtest!Run
  <2>4. QED  BY <2>1, <2>2, <2>3
<1>5. QED  BY <1>1, <1>2, <1>3, <1>4

\* The runner of platform2.
LEMMA GtestPackagesStep ==
  ASSUME GtestIInv
  PROVE  /\ Gtest!PackageToTests \/ Gtest!PackageDone => GtestIInv'
         /\ \A h \in todoHomes : Gtest!CompileOrThrow(h) => GtestIInv'
         /\ \A found \in SUBSET Cases : Gtest!CollectGtests(found) => GtestIInv'
         /\ \A c \in Cases : Gtest!StartTest(c) => GtestIInv'
         /\ \A c \in Cases, ok \in BOOLEAN : Gtest!TestEnds(c, ok) => GtestIInv'
<1> USE DEF GtestIInv
<1>1. CASE Gtest!PackageToTests
  <2>1. GtestTypes'
    BY <1>1 DEF Gtest!PackageToTests, GtestTypes
  <2>2. GtestSteps' /\ GtestTargets'
    BY <1>1 DEF Gtest!PackageToTests, GtestSteps, GtestTargets
  <2>3. \A c \in request : /\ mark'[c] \in {"skipped", "enqueued"}
                            /\ mark'[c] = "skipped" => homes[c] = {}
    BY <1>1 DEF Gtest!PackageToTests, GtestTypes
  <2>4. tests = {}
    BY <1>1 DEF Gtest!PackageToTests, GtestSteps
  <2>5. GtestAnswers'
    BY <1>1, <2>3, <2>4
       DEF Gtest!PackageToTests, GtestTypes, GtestSteps, GtestAnswers, Waits
  <2>6. QED  BY <2>1, <2>2, <2>5
<1>2. CASE Gtest!PackageDone
  BY <1>2 DEF Gtest!PackageDone, GtestTypes, GtestSteps, GtestAnswers, GtestTargets, Waits
<1>3. ASSUME NEW h \in todoHomes, Gtest!CompileOrThrow(h) PROVE GtestIInv'
  <2>1. \A c \in request : h \in homes[c] => homes[c] = {h}
    BY <1>3, OneHome DEF Gtest!CompileOrThrow, GtestTypes, GtestSteps
  <2>2. GtestTypes'
    BY <1>3 DEF Gtest!CompileOrThrow, GtestTypes
  <2>3. GtestSteps' /\ GtestTargets'
    BY <1>3 DEF Gtest!CompileOrThrow, GtestSteps, GtestTargets
  <2>4. GtestAnswers'
    BY <1>3, <2>1
       DEF Gtest!CompileOrThrow, GtestTypes, GtestSteps, GtestAnswers, Waits
  <2>5. QED  BY <2>2, <2>3, <2>4
<1>4. ASSUME NEW found \in SUBSET Cases, Gtest!CollectGtests(found) PROVE GtestIInv'
  <2>1. GtestTypes'
    BY <1>4 DEF Gtest!CollectGtests, GtestTypes
  <2>2. GtestSteps' /\ GtestTargets'
    BY <1>4 DEF Gtest!CollectGtests, GtestSteps, GtestTargets
  <2>3. GtestAnswers'
    BY <1>4 DEF Gtest!CollectGtests, GtestTypes, GtestSteps, GtestAnswers, Waits
  <2>4. QED  BY <2>1, <2>2, <2>3
<1>5. ASSUME NEW c \in Cases, Gtest!StartTest(c) PROVE GtestIInv'
  BY <1>5 DEF Gtest!StartTest, GtestTypes, GtestSteps, GtestAnswers, GtestTargets, Waits
<1>6. ASSUME NEW c \in Cases, NEW ok \in BOOLEAN, Gtest!TestEnds(c, ok) PROVE GtestIInv'
  <2>1. GtestTypes'
    BY <1>6 DEF Gtest!TestEnds, GtestTypes
  <2>2. GtestSteps' /\ GtestTargets'
    BY <1>6 DEF Gtest!TestEnds, GtestSteps, GtestTargets
  <2>3. GtestAnswers'
    BY <1>6 DEF Gtest!TestEnds, GtestTypes, GtestSteps, GtestAnswers, Waits
  <2>4. QED  BY <2>1, <2>2, <2>3
<1>7. QED  BY <1>1, <1>2, <1>3, <1>4, <1>5, <1>6

GtestReports == [Cases -> {"passed", "failed", "skipped", "started"}]

\* The runners of Chromium.
LEMMA GtestTargetsStep ==
  ASSUME GtestIInv
  PROVE  /\ Gtest!Aborts \/ Gtest!GetTestTargetNames \/ Gtest!BuildTestTargets => GtestIInv'
         /\ \A h \in todoHomes : Gtest!ExtractAllTestNames(h) => GtestIInv'
         /\ \A results \in GtestReports : Gtest!ProcessTestResults(results) => GtestIInv'
         /\ Gtest!Autotest \/ Gtest!End => GtestIInv'
<1> USE DEF GtestIInv
<1>1. CASE Gtest!Aborts
  BY <1>1 DEF Gtest!Aborts, GtestTypes, GtestSteps, GtestAnswers, GtestTargets
<1>2. CASE Gtest!GetTestTargetNames
  BY <1>2 DEF Gtest!GetTestTargetNames, GtestTypes, GtestSteps, GtestAnswers, GtestTargets
<1>3. CASE Gtest!BuildTestTargets
  <2>1. tests = {}
    BY <1>3 DEF Gtest!BuildTestTargets, GtestSteps
  <2>2. QED
    BY <1>3, <2>1
       DEF Gtest!BuildTestTargets, GtestTypes, GtestSteps, GtestAnswers, GtestTargets
<1>4. ASSUME NEW h \in todoHomes, Gtest!ExtractAllTestNames(h) PROVE GtestIInv'
  <2>1. \A c \in request : h \in homes[c] /\ Cardinality(homes[c]) <= 1 => homes[c] = {h}
    BY OneHome DEF GtestTypes
  <2>2. GtestTypes'
    BY <1>4 DEF Gtest!ExtractAllTestNames, GtestTypes
  <2>3. GtestSteps' /\ GtestAnswers'
    BY <1>4 DEF Gtest!ExtractAllTestNames, GtestTypes, GtestSteps, GtestAnswers
  <2>4. GtestTargets'
    BY <1>4, <2>1 DEF Gtest!ExtractAllTestNames, GtestTypes, GtestTargets, Waits
  <2>5. QED  BY <2>2, <2>3, <2>4
<1>5. ASSUME NEW results \in GtestReports, Gtest!ProcessTestResults(results) PROVE GtestIInv'
  <2>1. GtestTypes'
    BY <1>5 DEF Gtest!ProcessTestResults, GtestTypes, GtestReports
  <2>2. GtestSteps' /\ GtestAnswers'
    BY <1>5 DEF Gtest!ProcessTestResults, GtestTypes, GtestSteps, GtestAnswers
  <2>3. GtestTargets'
    BY <1>5 DEF Gtest!ProcessTestResults, GtestTypes, GtestTargets, Waits
  <2>4. QED  BY <2>1, <2>2, <2>3
<1>6. CASE Gtest!Autotest
  BY <1>6 DEF Gtest!Autotest, GtestTypes, GtestSteps, GtestAnswers, GtestTargets
<1>7. CASE Gtest!End
  BY <1>7 DEF Gtest!End, GtestTypes, GtestSteps, GtestAnswers, GtestTargets, Waits
<1>8. QED  BY <1>1, <1>2, <1>3, <1>4, <1>5, <1>6, <1>7

LEMMA GtestStep == GtestIInv /\ [Gtest!Next]_gtestVars => GtestIInv'
<1> SUFFICES ASSUME GtestIInv, [Gtest!Next]_gtestVars PROVE GtestIInv'
  OBVIOUS
<1>1. CASE UNCHANGED gtestVars
  BY <1>1
     DEF gtestVars, GtestIInv, GtestTypes, GtestSteps, GtestAnswers, GtestTargets, Waits
<1>2. CASE Gtest!Next
  BY <1>2, GtestRequestStep, GtestPackagesStep, GtestTargetsStep
     DEF Gtest!Next, GtestReports
<1>3. QED  BY <1>1, <1>2

\* A test that failed stays failed.
LEMMA GtestFailures ==
  ASSUME GtestIInv, [Gtest!Next]_gtestVars,
         NEW c \in Cases, mark[c] = "failed", Cardinality(homes[c]) <= 1
  PROVE  mark'[c] = "failed"
<1> USE DEF GtestIInv, GtestTypes
<1>1. /\ c \in request
      /\ gtestAt \notin {"idle", "output", "packages", "targets", "build", "script"}
  BY DEF GtestAnswers, GtestSteps
<1>2. gtestAt \in {"compile", "collect", "test", "running", "list", "run"} =>
        c \notin tests /\ ~Waits(c)
  BY <1>1 DEF GtestAnswers, GtestTargets
<1>3. ASSUME NEW h \in todoHomes 
      PROVE  Gtest!CompileOrThrow(h) \/ Gtest!ExtractAllTestNames(h) => mark'[c] = "failed"
  BY <1>1, <1>2 DEF Gtest!CompileOrThrow, Gtest!ExtractAllTestNames, Waits
<1>4. ASSUME NEW found \in SUBSET Cases
      PROVE  Gtest!CollectGtests(found) => mark'[c] = "failed"
  BY <1>1, <1>2 DEF Gtest!CollectGtests
<1>5. ASSUME NEW d \in Cases PROVE Gtest!StartTest(d) => mark'[c] = "failed"
  BY <1>1, <1>2 DEF Gtest!StartTest
<1>6. ASSUME NEW d \in Cases, NEW ok \in BOOLEAN
      PROVE  Gtest!TestEnds(d, ok) => mark'[c] = "failed"
  BY <1>1 DEF Gtest!TestEnds
<1>7. ASSUME NEW results \in GtestReports
      PROVE  Gtest!ProcessTestResults(results) => mark'[c] = "failed"
  BY <1>1, <1>2 DEF Gtest!ProcessTestResults
<1>8. QED
  BY <1>1, <1>3, <1>4, <1>5, <1>6, <1>7
     DEF gtestVars, Gtest!Next, GtestReports, Gtest!Update, Gtest!RunHandler, Gtest!Cancel,
         Gtest!Run, Gtest!PackageToTests, Gtest!PackageDone, Gtest!Aborts, Gtest!GetTestTargetNames,
         Gtest!BuildTestTargets, Gtest!Autotest, Gtest!End

HIDE DEF Gtest!frame, Gtest!Marked, Gtest!InHome, Gtest!Results

\* What gn args tells, and the lists and calls that there are.
OutGn == {"unknown", "error", "warnings", "unknown OS"} \cup Out!Systems
OutLists == [nodes : SUBSET Names, target : Names \cup {NoLink}, cancelled : BOOLEAN,
             gn : [Names -> OutGn]]
OutCallRecords ==
  [at : {"idle", "queued", "top", "sub", "ended"}, list : {0} \cup Out!Ids,
   tops : SUBSET SUBSET Names, reads : SUBSET {Inside}]
OutTypes ==
  /\ dirs \subseteq Names
  /\ link \in Names \cup {NoLink, NotALink}
  /\ outCache \in {0} \cup Out!Ids
  /\ lists \in [Out!Ids -> OutLists]
  /\ outCall \in [Views -> OutCallRecords]
  /\ order \in Seq(Views) /\ done \in Seq(Views)
  /\ pick \in [Pickers -> [at : {"idle", "unlink", "symlink", "refresh"},
                           target : Names \cup {NoLink}]]
  /\ outCrossed \in BOOLEAN

\* The calls in a sequence, none of them twice.
Distinct(ks) == \A i, j \in 1..Len(ks) : ks[i] = ks[j] => i = j
In(v, s) == \E i \in 1..Len(s) : s[i] = v

\* A call waits, builds or has ended as the sequences say.
OutCalls ==
  /\ Distinct(order) /\ Distinct(done)
  /\ \A v \in Views :
       LET c == outCall[v] IN
       /\ c.at = "ended" <=> In(v, done)
       /\ c.at \in {"queued", "top", "sub"} <=> In(v, order)
       /\ c.at \in {"top", "sub"} <=> order # <<>> /\ v = order[1]
       /\ c.at \in {"idle", "queued"} => c.list = 0
       /\ c.at # "sub" => c.tops = {} /\ c.reads = {}

\* What is built is not shown, nor somebody else's.
OutBuilt ==
  \A v \in Views : outCall[v].at \in {"top", "sub"} =>
    /\ outCall[v].list \notin {0, outCache}
    /\ \A w \in Views : outCall[w].list = outCall[v].list => w = v

\* A command has picked a directory, and there is no such command while the
\* link is a directory itself.
OutPicks ==
  \A p \in Pickers : /\ pick[p].at = "idle" => pick[p] = Out!NoPick
                     /\ pick[p].at # "idle" => pick[p].target \in Names /\ link # NotALink

\* No command has changed the link, or removed it, and has still to refresh.
Settled ==
  \A p \in Pickers : /\ pick[p].at # "refresh"
                     /\ pick[p].at = "symlink" => link # NoLink

LinkTarget == IF link \in dirs THEN link ELSE NoLink
Right(list) == list.nodes = dirs /\ list.target = LinkTarget /\ ~list.cancelled
RightSoFar(list, c) ==
  /\ c.tops \subseteq Out!Tops
  /\ list.nodes = dirs \ UNION c.tops
  /\ list.target = IF Inside \in c.tops \/ c.reads # {} THEN NoLink ELSE LinkTarget
  /\ c.reads # {} => link \in dirs /\ Inside \notin c.tops
  /\ ~list.cancelled

OutFresh ==
  ~outCrossed /\ Settled =>
    /\ outCache # 0 => Right(lists[outCache])
    /\ \A v \in Views :
         LET c == outCall[v] IN
         /\ c.at = "ended" /\ c.list # 0 => Right(lists[c.list])
         /\ c.at = "top" => lists[c.list] = Out!Empty
         /\ c.at = "sub" => RightSoFar(lists[c.list], c)

OutIInv == OutTypes /\ OutCalls /\ OutBuilt /\ OutPicks /\ OutFresh

LEMMA OutEmpty == Out!Empty \in OutLists /\ Out!NoCall \in OutCallRecords
BY DEF Out!Empty, OutLists, OutGn, Out!NoCall, OutCallRecords

\* A list that is neither shown nor made by a call is left, once none is shown.
LEMMA FreshId ==
  ASSUME OutTypes, outCache = 0
  PROVE  Out!NewId \in Out!Ids /\ Out!NewId \notin Out!Used
<1> DEFINE f == [i \in Out!Ids |-> CHOOSE v \in Views : outCall[v].list = i]
<1>1. /\ Cardinality(Views) \in Nat /\ Out!Cardinality(Views) = Cardinality(Views)
      /\ IsFiniteSet(Out!Ids) /\ Cardinality(Views) < Cardinality(Out!Ids)
  <2>1. Cardinality(Views) \in Nat /\ Out!Cardinality(Views) = Cardinality(Views)
    BY FS_CardinalityType DEF Out!Cardinality, Cardinality
  <2>2. QED
    BY <2>1, FS_Interval DEF Out!Ids
<1>2. \E i \in Out!Ids : i \notin Out!Used
  <2> SUFFICES ASSUME \A i \in Out!Ids : i \in Out!Used PROVE FALSE
    OBVIOUS
  <2>1. \A i \in Out!Ids : i # 0 /\ \E v \in Views : outCall[v].list = i
    BY <1>1 DEF Out!Used, Out!Ids
  <2>2. f \in [Out!Ids -> Views] /\ \A i \in Out!Ids : outCall[f[i]].list = i
    BY <2>1
  <2> HIDE DEF f
  <2>3. \E i, j \in Out!Ids : i # j /\ f[i] = f[j]
    BY <1>1, <2>2, FS_PigeonHole
  <2>4. QED
    BY <2>2, <2>3
<1>3. QED
  BY <1>2 DEF Out!NewId

\* Queues of calls.
LEMMA QueueAppend ==
  ASSUME NEW s \in Seq(Views), NEW x \in Views
  PROVE  /\ Append(s, x) \in Seq(Views) /\ Append(s, x) # <<>>
         /\ \A v : In(v, Append(s, x)) <=> In(v, s) \/ v = x
         /\ Distinct(s) /\ ~In(x, s) => Distinct(Append(s, x))
         /\ s # <<>> => Append(s, x)[1] = s[1]
<1>1. /\ Append(s, x) \in Seq(Views) /\ Append(s, x) # <<>>
      /\ Len(s) \in Nat /\ Len(Append(s, x)) = Len(s) + 1
      /\ \A i \in 1..Len(s) : Append(s, x)[i] = s[i]
      /\ Append(s, x)[Len(s) + 1] = x
  BY AppendProperties, LenProperties
<1>2. \A v : In(v, Append(s, x)) <=> In(v, s) \/ v = x
  BY <1>1 DEF In
<1>3. Distinct(s) /\ ~In(x, s) => Distinct(Append(s, x))
  BY <1>1 DEF In, Distinct
<1>4. s # <<>> => Append(s, x)[1] = s[1]
  BY <1>1, EmptySeq
<1>5. QED
  BY <1>1, <1>2, <1>3, <1>4

LEMMA QueueTail ==
  ASSUME NEW s \in Seq(Views), s # <<>>, Distinct(s)
  PROVE  /\ Tail(s) \in Seq(Views) /\ Distinct(Tail(s))
         /\ Head(s) = s[1] /\ s[1] \in Views /\ In(s[1], s)
         /\ \A v : In(v, Tail(s)) <=> In(v, s) /\ v # s[1]
<1>1. /\ Tail(s) \in Seq(Views) /\ Head(s) = s[1] /\ Head(s) \in Views
      /\ Len(s) \in Nat /\ Len(s) > 0 /\ Len(Tail(s)) = Len(s) - 1
      /\ \A i \in 1..Len(Tail(s)) : Tail(s)[i] = s[i + 1]
  BY HeadTailProperties, LenProperties, EmptySeq
<1>2. Distinct(Tail(s))
  BY <1>1 DEF Distinct
<1>3. In(s[1], s)
  BY <1>1 DEF In
<1>4. ASSUME NEW v PROVE In(v, Tail(s)) <=> In(v, s) /\ v # s[1]
  <2>1. ASSUME In(v, Tail(s)) PROVE In(v, s) /\ v # s[1]
    BY <1>1, <2>1 DEF In, Distinct
  <2>2. ASSUME In(v, s), v # s[1] PROVE In(v, Tail(s))
    <3>1. PICK i \in 1..Len(s) : s[i] = v
      BY <2>2 DEF In
    <3>2. i - 1 \in 1..Len(Tail(s)) /\ Tail(s)[i - 1] = v
      BY <1>1, <2>2, <3>1
    <3>3. QED
      BY <3>2 DEF In
  <2>3. QED
    BY <2>1, <2>2
<1>5. QED
  BY <1>1, <1>2, <1>3, <1>4

LEMMA QueueConcat ==
  ASSUME NEW s \in Seq(Views), NEW t \in Seq(Views), Distinct(s), Distinct(t),
         \A v : ~(In(v, s) /\ In(v, t))
  PROVE  /\ s \o t \in Seq(Views) /\ Distinct(s \o t)
         /\ \A v : In(v, s \o t) <=> In(v, s) \/ In(v, t)
<1>1. /\ s \o t \in Seq(Views) /\ Len(s) \in Nat /\ Len(t) \in Nat
      /\ Len(s \o t) = Len(s) + Len(t)
      /\ \A i \in 1..(Len(s) + Len(t)) :
           (s \o t)[i] = IF i <= Len(s) THEN s[i] ELSE t[i - Len(s)]
  BY ConcatProperties, LenProperties
<1>2. ASSUME NEW v PROVE In(v, s \o t) <=> In(v, s) \/ In(v, t)
  <2>1. ASSUME NEW i \in 1..Len(s \o t) PROVE In((s \o t)[i], s) \/ In((s \o t)[i], t)
    <3>1. CASE i <= Len(s)
      BY <1>1, <3>1 DEF In
    <3>2. CASE i > Len(s)
      <4>1. i - Len(s) \in 1..Len(t) /\ (s \o t)[i] = t[i - Len(s)]
        BY <1>1, <3>2
      <4>2. QED
        BY <4>1 DEF In
    <3>3. QED
      BY <1>1, <3>1, <3>2
  <2>2. In(v, s) => In(v, s \o t)
    BY <1>1 DEF In
  <2>3. ASSUME In(v, t) PROVE In(v, s \o t)
    <3>1. PICK i \in 1..Len(t) : t[i] = v
      BY <2>3 DEF In
    <3>2. i + Len(s) \in 1..Len(s \o t) /\ (s \o t)[i + Len(s)] = v
      BY <1>1, <3>1
    <3>3. QED
      BY <3>2 DEF In
  <2>4. QED
    BY <2>1, <2>2, <2>3 DEF In
<1>3. Distinct(s \o t)
  <2> SUFFICES ASSUME NEW i \in 1..Len(s \o t), NEW j \in 1..Len(s \o t),
                      (s \o t)[i] = (s \o t)[j]
               PROVE  i = j
    BY DEF Distinct
  <2>1. CASE i <= Len(s) /\ j <= Len(s)
    BY <1>1, <2>1 DEF Distinct
  <2>2. CASE i > Len(s) /\ j > Len(s)
    <3>1. /\ i - Len(s) \in 1..Len(t) /\ j - Len(s) \in 1..Len(t)
          /\ t[i - Len(s)] = t[j - Len(s)]
      BY <1>1, <2>2
    <3>2. QED
      BY <1>1, <3>1 DEF Distinct
  <2>3. \A k \in 1..Len(s \o t) : (k <= Len(s) => In((s \o t)[k], s))
                                 /\ (k > Len(s) => In((s \o t)[k], t))
    <3>1. ASSUME NEW k \in 1..Len(s \o t), k > Len(s) PROVE In((s \o t)[k], t)
      <4>1. k - Len(s) \in 1..Len(t) /\ (s \o t)[k] = t[k - Len(s)]
        BY <1>1, <3>1
      <4>2. QED
        BY <4>1 DEF In
    <3>2. ASSUME NEW k \in 1..Len(s \o t), k <= Len(s) PROVE In((s \o t)[k], s)
      BY <1>1, <3>2 DEF In
    <3>3. QED
      BY <3>1, <3>2
  <2>4. QED
    BY <1>1, <2>1, <2>2, <2>3
<1>4. QED
  BY <1>1, <1>2, <1>3

\* The mutex handles the calls in q: with a list that is shown, they are given
\* it; else the first begins to build one.
LEMMA OutHandles ==
  ASSUME OutTypes, NEW q \in Seq(Views), NEW told \in Seq(Views),
         NEW c \in [Views -> OutCallRecords], Distinct(q), Distinct(told),
         \A v \in Views : /\ c[v].at = "ended" <=> In(v, told)
                          /\ c[v].at = "queued" => In(v, q)
                          /\ In(v, q) => c[v].at = "queued" \/ (v = q[1] /\ c[v].at = "idle")
                          /\ c[v].at \notin {"top", "sub"}
                          /\ c[v].at \in {"idle", "queued"} => c[v].list = 0
                          /\ c[v].tops = {} /\ c[v].reads = {}
                          /\ c[v].list # 0 => c[v].list \in Out!Used,
         ~outCrossed /\ Settled =>
           /\ outCache # 0 => Right(lists[outCache])
           /\ \A v \in Views : c[v].at = "ended" /\ c[v].list # 0 => Right(lists[c[v].list]),
         Out!Handle(q, told), outCall' = Out!Called(q, c),
         UNCHANGED <<dirs, link, outCache, pick, outCrossed>>
  PROVE  (OutTypes /\ OutCalls /\ OutBuilt /\ OutFresh)'
<1>0. DOMAIN q = 1..Len(q) /\ 0 \notin Out!Ids
  BY LenProperties, FS_CardinalityType DEF Out!Ids, Out!Cardinality, Cardinality
<1>1. CASE q = <<>>
  <2>1. outCall' = c /\ order' = <<>> /\ done' = told /\ lists' = lists
    BY <1>0, <1>1, EmptySeq DEF Out!Handle, Out!Called
  <2>2. \A v : ~In(v, q)
    BY <1>1, EmptySeq DEF In
  <2>3. OutTypes'
    BY <1>1, <2>1 DEF OutTypes
  <2>4. OutCalls'
    BY <1>1, <2>1, <2>2 DEF OutCalls
  <2>5. OutBuilt'
    BY <2>1 DEF OutBuilt
  <2>6. OutFresh'
    BY <2>1 DEF OutFresh, Settled, Right, LinkTarget
  <2>7. QED
    BY <2>3, <2>4, <2>5, <2>6
<1>2. CASE q # <<>> /\ outCache # 0
  <2>1. /\ order' = <<>> /\ done' = told \o q /\ lists' = lists
        /\ outCall' = [v \in Views |-> IF In(v, q) THEN [c[v] EXCEPT !.at = "ended", !.list = outCache]
                                       ELSE c[v]]
    <3>1. \A v : In(v, q) <=> \E i \in DOMAIN q : q[i] = v
      BY <1>0 DEF In
    <3>2. outCall' = [v \in Views |-> IF \E i \in DOMAIN q : q[i] = v
                                      THEN [c[v] EXCEPT !.at = "ended", !.list = outCache]
                                      ELSE c[v]]
      BY <1>2 DEF Out!Called
    <3>3. order' = <<>> /\ done' = told \o q /\ lists' = lists
      BY <1>2 DEF Out!Handle
    <3>4. outCall' = [v \in Views |-> IF In(v, q)
                                      THEN [c[v] EXCEPT !.at = "ended", !.list = outCache]
                                      ELSE c[v]]
      <4> DEFINE ended(v) == [c[v] EXCEPT !.at = "ended", !.list = outCache]
      <4>1. outCall' = [v \in Views |-> IF \E i \in DOMAIN q : q[i] = v THEN ended(v) ELSE c[v]]
        BY <3>2
      <4> HIDE DEF ended
      <4>2. \A v \in Views : (IF \E i \in DOMAIN q : q[i] = v THEN ended(v) ELSE c[v])
                              = (IF In(v, q) THEN ended(v) ELSE c[v])
        BY <3>1, Zenon
      <4>3. outCall' = [v \in Views |-> IF In(v, q) THEN ended(v) ELSE c[v]]
        BY <4>1, <4>2, Zenon
      <4>4. QED
        BY <4>3 DEF ended
    <3>5. QED
      BY <3>3, <3>4, Zenon
  <2>2. \A v \in Views : /\ In(v, q) => /\ outCall'[v] \in OutCallRecords
                                        /\ outCall'[v].at = "ended" /\ outCall'[v].list = outCache
                                        /\ outCall'[v].tops = {} /\ outCall'[v].reads = {}
                         /\ ~In(v, q) => outCall'[v] = c[v]
    <3> SUFFICES ASSUME NEW v \in Views
                 PROVE  /\ In(v, q) => /\ outCall'[v] \in OutCallRecords
                                       /\ outCall'[v].at = "ended" /\ outCall'[v].list = outCache
                                       /\ outCall'[v].tops = {} /\ outCall'[v].reads = {}
                        /\ ~In(v, q) => outCall'[v] = c[v]
      OBVIOUS
    <3> DEFINE e == [c[v] EXCEPT !.at = "ended", !.list = outCache]
    <3>1. outCall'[v] = IF In(v, q) THEN e ELSE c[v]
      BY <2>1
    <3>2. e \in OutCallRecords /\ e.at = "ended" /\ e.list = outCache
          /\ e.tops = {} /\ e.reads = {}
      <4>1. c[v] \in OutCallRecords /\ c[v].tops = {} /\ c[v].reads = {}
            /\ outCache \in {0} \cup Out!Ids
        BY DEF OutTypes
      <4>2. QED
        BY <4>1 DEF OutCallRecords
    <3> HIDE DEF e
    <3>3. QED
      BY <3>1, <3>2
  <2>3. \A v : ~(In(v, told) /\ In(v, q))
    <3>1. \A v : In(v, q) => v \in Views
      BY ElementOfSeq DEF In
    <3>2. QED
      BY <3>1
  <2>4. /\ done' \in Seq(Views) /\ Distinct(done')
        /\ \A v : In(v, done') <=> In(v, told) \/ In(v, q)
    BY <2>1, <2>3, QueueConcat
  <2>5. <<>> \in Seq(Views) /\ Distinct(<<>>) /\ \A v : ~In(v, <<>>)
    BY DEF In, Distinct
  <2>6. OutTypes'
    <3>1. outCall' \in [Views -> OutCallRecords]
      BY <2>1, <2>2
    <3>2. QED
      BY <2>1, <2>4, <2>5, <3>1 DEF OutTypes
  <2>7. OutCalls'
    <3>1. \A v \in Views : /\ outCall'[v].at = "ended" <=> In(v, done')
                           /\ outCall'[v].at \notin {"queued", "top", "sub"}
                           /\ outCall'[v].at \in {"idle", "queued"} => outCall'[v].list = 0
                           /\ outCall'[v].tops = {} /\ outCall'[v].reads = {}
      BY <2>2, <2>4
    <3>2. QED
      BY <2>1, <2>4, <2>5, <3>1 DEF OutCalls
  <2>8. OutBuilt'
    BY <2>2 DEF OutBuilt
  <2>9. OutFresh'
    BY <2>1, <2>2 DEF OutFresh, Settled, Right, LinkTarget
  <2>10. QED
    BY <2>6, <2>7, <2>8, <2>9
<1>3. CASE q # <<>> /\ outCache = 0
  <2> DEFINE id == Out!NewId
  <2>1. /\ order' = q /\ done' = told /\ lists' = [lists EXCEPT ![id] = Out!Empty]
        /\ outCall' = [v \in Views |-> IF v = q[1] THEN Out!Building(id) ELSE c[v]]
    BY <1>3 DEF Out!Handle, Out!Called
  <2>2. id \in Out!Ids /\ id # 0 /\ id \notin Out!Used
    BY <1>0, <1>3, FreshId
  <2>3. q[1] \in Views /\ In(q[1], q)
    BY <1>3, QueueTail
  <2> HIDE DEF id
  <2>4. \A v \in Views : /\ v = q[1] => /\ outCall'[v] \in OutCallRecords
                                        /\ outCall'[v].at = "top" /\ outCall'[v].list = id
                                        /\ outCall'[v].tops = {} /\ outCall'[v].reads = {}
                         /\ v # q[1] => outCall'[v] = c[v] /\ c[v].list # id
    <3> DEFINE e == Out!Building(id)
    <3>1. /\ e \in OutCallRecords /\ e.at = "top" /\ e.list = id
          /\ e.tops = {} /\ e.reads = {}
      BY <2>2 DEF OutCallRecords, Out!Building, Out!NoCall
    <3>2. outCall' = [v \in Views |-> IF v = q[1] THEN e ELSE c[v]]
      BY <2>1
    <3> HIDE DEF e
    <3>3. QED
      BY <2>2, <3>1, <3>2
  <2>5. lists' \in [Out!Ids -> OutLists] /\ lists'[id] = Out!Empty
        /\ \A i \in Out!Ids \ {id} : lists'[i] = lists[i]
    BY <2>1, <2>2, OutEmpty DEF OutTypes
  <2>6. OutTypes'
    BY <2>1, <2>4, <2>5 DEF OutTypes
  <2>7. OutCalls'
    <3>1. ASSUME NEW v \in Views, v # q[1], In(v, q) PROVE outCall'[v].at = "queued"
      BY <2>4, <3>1
    <3>2. QED
      BY <1>3, <2>1, <2>3, <2>4, <3>1 DEF OutCalls
  <2>8. OutBuilt'
    BY <1>3, <2>2, <2>4 DEF OutBuilt
  <2>9. OutFresh'
    BY <1>3, <2>1, <2>2, <2>4, <2>5
       DEF OutFresh, Settled, Right, LinkTarget, Out!Used, OutTypes, OutCallRecords
  <2>10. QED
    BY <2>6, <2>7, <2>8, <2>9
<1>4. QED
  BY <1>1, <1>2, <1>3

\* The job of the call that builds ends, with the list or with none.
LEMMA OutJobEnds ==
  ASSUME OutIInv, NEW v \in Views, outCall[v].at = "sub",
         NEW ended \in OutCallRecords, ended.at = "ended", ended.tops = {}, ended.reads = {},
         ended.list \in {0, outCall[v].list},
         ~outCrossed /\ Settled /\ ended.list # 0 => Right(lists[ended.list]),
         Out!JobEnds(v, ended), UNCHANGED <<dirs, link, outCache, pick, outCrossed>>
  PROVE  OutIInv'
<1> DEFINE q == Tail(order)
           told == Append(done, v)
           c == [outCall EXCEPT ![v] = ended]
<1>1. /\ order \in Seq(Views) /\ done \in Seq(Views) /\ outCall \in [Views -> OutCallRecords]
      /\ order # <<>> /\ v = order[1] /\ Distinct(order) /\ Distinct(done) /\ ~In(v, done)
  BY DEF OutIInv, OutTypes, OutCalls
<1>2. /\ q \in Seq(Views) /\ Distinct(q)
      /\ \A w : In(w, q) <=> In(w, order) /\ w # v
  BY <1>1, QueueTail
<1>3. /\ told \in Seq(Views) /\ Distinct(told)
      /\ \A w : In(w, told) <=> In(w, done) \/ w = v
  BY <1>1, QueueAppend
<1>4. c \in [Views -> OutCallRecords] /\ c[v] = ended /\ \A w \in Views \ {v} : c[w] = outCall[w]
  BY <1>1
<1>5. Out!Handle(q, told) /\ outCall' = Out!Called(q, c)
  BY DEF Out!JobEnds
<1>6. \A w \in Views : outCall[w].list # 0 => outCall[w].list \in Out!Used
  BY DEF Out!Used
<1> HIDE DEF q, told, c
<1>7. \A w \in Views : /\ c[w].at = "ended" <=> In(w, told)
                       /\ c[w].at = "queued" => In(w, q)
                       /\ In(w, q) => c[w].at = "queued" \/ (w = q[1] /\ c[w].at = "idle")
                       /\ c[w].at \notin {"top", "sub"}
                       /\ c[w].at \in {"idle", "queued"} => c[w].list = 0
                       /\ c[w].tops = {} /\ c[w].reads = {}
                       /\ c[w].list # 0 => c[w].list \in Out!Used
  <2> SUFFICES ASSUME NEW w \in Views
               PROVE  /\ c[w].at = "ended" <=> In(w, told)
                      /\ c[w].at = "queued" => In(w, q)
                      /\ In(w, q) => c[w].at = "queued"
                      /\ c[w].at \notin {"top", "sub"}
                      /\ c[w].at \in {"idle", "queued"} => c[w].list = 0
                      /\ c[w].tops = {} /\ c[w].reads = {}
                      /\ c[w].list # 0 => c[w].list \in Out!Used
    OBVIOUS
  <2>1. CASE w = v
    BY <1>2, <1>3, <1>4, <1>6, <2>1
  <2>2. CASE w # v
    BY <1>1, <1>2, <1>3, <1>4, <1>6, <2>2 DEF OutIInv, OutTypes, OutCalls, OutCallRecords
  <2>3. QED
    BY <2>1, <2>2
<1>8. ~outCrossed /\ Settled =>
        /\ outCache # 0 => Right(lists[outCache])
        /\ \A w \in Views : c[w].at = "ended" /\ c[w].list # 0 => Right(lists[c[w].list])
  BY <1>4 DEF OutIInv, OutFresh
<1>9. (OutTypes /\ OutCalls /\ OutBuilt /\ OutFresh)'
  BY <1>1, <1>2, <1>3, <1>4, <1>5, <1>7, <1>8, OutHandles DEF OutIInv
<1>10. QED
  BY <1>9 DEF OutIInv, OutPicks

\* The calls of getChildren.
LEMMA OutGetChildren ==
  ASSUME OutIInv, NEW v \in Views, Out!GetChildren(v)
  PROVE  OutIInv'
<1>1. /\ order \in Seq(Views) /\ done \in Seq(Views) /\ outCall \in [Views -> OutCallRecords]
      /\ outCall[v].at = "idle" /\ outCall[v].list = 0
      /\ outCall[v].tops = {} /\ outCall[v].reads = {}
      /\ Distinct(order) /\ Distinct(done) /\ ~In(v, done) /\ ~In(v, order)
  BY DEF OutIInv, OutTypes, OutCalls, Out!GetChildren, Out!NoCall
<1>2. UNCHANGED <<dirs, link, outCache, pick, outCrossed>>
  BY DEF Out!GetChildren
<1>3. CASE order = <<>>
  <2> DEFINE q == <<v>>
  <2>1. q \in Seq(Views) /\ Distinct(q) /\ q[1] = v /\ \A w : In(w, q) <=> w = v
    BY DEF In, Distinct
  <2>2. Out!Handle(q, done) /\ outCall' = Out!Called(q, outCall)
    BY <1>3 DEF Out!GetChildren
  <2> HIDE DEF q
  <2>3. \A w : ~In(w, order)
    BY <1>3 DEF In
  <2>4. \A w \in Views : /\ outCall[w].at = "ended" <=> In(w, done)
                         /\ outCall[w].at \in {"idle", "ended"}
                         /\ outCall[w].at = "idle" => outCall[w].list = 0
                         /\ outCall[w].tops = {} /\ outCall[w].reads = {}
                         /\ outCall[w].list # 0 => outCall[w].list \in Out!Used
    BY <1>1, <2>3 DEF OutIInv, OutCalls, OutCallRecords, Out!Used
  <2>5. ~outCrossed /\ Settled =>
          /\ outCache # 0 => Right(lists[outCache])
          /\ \A w \in Views : outCall[w].at = "ended" /\ outCall[w].list # 0
                                => Right(lists[outCall[w].list])
    BY DEF OutIInv, OutFresh
  <2>6. \A w \in Views : /\ outCall[w].at = "queued" => In(w, q)
                         /\ In(w, q) => outCall[w].at = "queued" \/ (w = q[1] /\ outCall[w].at = "idle")
                         /\ outCall[w].at \notin {"top", "sub"}
                         /\ outCall[w].at \in {"idle", "queued"} => outCall[w].list = 0
    BY <1>1, <2>1, <2>4
  <2>7. (OutTypes /\ OutCalls /\ OutBuilt /\ OutFresh)'
    BY <1>1, <1>2, <2>1, <2>2, <2>4, <2>5, <2>6, OutHandles DEF OutIInv
  <2>8. QED
    BY <1>2, <2>7 DEF OutIInv, OutPicks
<1>4. CASE order # <<>>
  <2>1. /\ order' = Append(order, v) /\ done' = done /\ lists' = lists
        /\ outCall' = [outCall EXCEPT ![v].at = "queued"]
    BY <1>4 DEF Out!GetChildren
  <2>2. /\ order' \in Seq(Views) /\ order' # <<>> /\ Distinct(order') /\ order'[1] = order[1]
        /\ \A w : In(w, order') <=> In(w, order) \/ w = v
    BY <1>1, <1>4, <2>1, QueueAppend
  <2>3. /\ outCall' \in [Views -> OutCallRecords]
        /\ outCall'[v].at = "queued" /\ outCall'[v].list = 0
        /\ outCall'[v].tops = {} /\ outCall'[v].reads = {}
        /\ \A w \in Views \ {v} : outCall'[w] = outCall[w]
    <3> DEFINE e == [outCall[v] EXCEPT !.at = "queued"]
    <3>1. e \in OutCallRecords /\ e.at = "queued" /\ e.list = 0 /\ e.tops = {} /\ e.reads = {}
      <4>1. outCall[v] \in OutCallRecords
        BY <1>1
      <4>2. QED
        BY <1>1, <4>1 DEF OutCallRecords
    <3>2. outCall' = [outCall EXCEPT ![v] = e]
      BY <2>1
    <3> HIDE DEF e
    <3>3. QED
      BY <1>1, <3>1, <3>2
  <2>4. order[1] # v
    BY <1>1, <1>4, QueueTail
  <2>5. OutTypes'
    BY <1>2, <2>1, <2>2, <2>3 DEF OutIInv, OutTypes
  <2>6. OutCalls'
    BY <1>1, <1>4, <2>1, <2>2, <2>3, <2>4 DEF OutIInv, OutCalls
  <2>7. OutBuilt'
    BY <1>1, <1>2, <2>3 DEF OutIInv, OutBuilt
  <2>8. OutFresh'
    <3> SUFFICES ASSUME ~outCrossed, Settled PROVE OutFresh'
      BY <1>2 DEF OutFresh, Settled
    <3>1. outCache # 0 => Right(lists[outCache])'
      BY <1>2, <2>1 DEF OutIInv, OutFresh, Right, LinkTarget
    <3>2. ASSUME NEW w \in Views \ {v}
          PROVE  /\ outCall[w].at = "ended" /\ outCall[w].list # 0 => Right(lists[outCall[w].list])'
                 /\ outCall[w].at = "top" => lists[outCall[w].list] = Out!Empty
                 /\ outCall[w].at = "sub" => RightSoFar(lists[outCall[w].list], outCall[w])'
      BY <1>2, <2>1, <2>3, <3>2
         DEF OutIInv, OutFresh, Right, RightSoFar, LinkTarget, Out!Tops
    <3>3. QED
      BY <1>2, <2>1, <2>3, <3>1, <3>2 DEF OutFresh
  <2>9. OutPicks'
    BY <1>2 DEF OutIInv, OutPicks
  <2>10. QED
    BY <2>5, <2>6, <2>7, <2>8, <2>9 DEF OutIInv
<1>5. QED
  BY <1>3, <1>4

\* A build goes on: one call has its record and its list changed.
LEMMA OutGoesOn ==
  ASSUME OutIInv, NEW v \in Views, outCall[v].at \in {"top", "sub"},
         NEW c \in OutCallRecords, c.at = "sub", c.list = outCall[v].list,
         NEW list \in OutLists, outCall' = [outCall EXCEPT ![v] = c],
         lists' = [lists EXCEPT ![c.list] = list],
         ~outCrossed /\ Settled => RightSoFar(list, c),
         UNCHANGED <<dirs, link, outCache, order, done, pick, outCrossed>>
  PROVE  OutIInv'
<1>1. /\ outCall \in [Views -> OutCallRecords] /\ lists \in [Out!Ids -> OutLists]
      /\ c.list \in Out!Ids /\ c.list # outCache /\ c.list # 0
      /\ \A w \in Views \ {v} : outCall[w].list # c.list
  BY DEF OutIInv, OutTypes, OutBuilt, OutCallRecords
<1>2. /\ outCall'[v] = c /\ \A w \in Views \ {v} : outCall'[w] = outCall[w]
      /\ lists'[c.list] = list /\ \A i \in Out!Ids \ {c.list} : lists'[i] = lists[i]
      /\ outCall' \in [Views -> OutCallRecords] /\ lists' \in [Out!Ids -> OutLists]
  BY <1>1
<1>3. OutTypes'
  BY <1>2 DEF OutIInv, OutTypes
<1>4. OutCalls'
  BY <1>2 DEF OutIInv, OutCalls
<1>5. OutBuilt'
  BY <1>1, <1>2 DEF OutIInv, OutBuilt
<1>6. OutFresh'
  <2> SUFFICES ASSUME ~outCrossed, Settled PROVE OutFresh'
    BY DEF OutFresh, Settled
  <2>1. /\ outCache # 0 => lists'[outCache] = lists[outCache]
        /\ \A w \in Views \ {v} : outCall[w].list # 0 =>
             lists'[outCall[w].list] = lists[outCall[w].list]
    BY <1>1, <1>2 DEF OutIInv, OutTypes, OutCallRecords
  <2>2. outCache # 0 => Right(lists[outCache])'
    BY <2>1 DEF OutIInv, OutFresh, Right, LinkTarget
  <2>3. ASSUME NEW w \in Views \ {v}
        PROVE  /\ outCall'[w].at = "ended" /\ outCall'[w].list # 0 => Right(lists[outCall[w].list])'
               /\ outCall'[w].at \notin {"top", "sub"}
    BY <1>1, <1>2, <2>1, <2>3 DEF OutIInv, OutCalls, OutFresh, Right, LinkTarget
  <2>4. RightSoFar(lists[outCall[v].list], outCall[v])'
    BY <1>2 DEF RightSoFar, LinkTarget, Out!Tops
  <2>5. QED
    BY <1>2, <2>2, <2>3, <2>4 DEF OutFresh
<1>7. OutPicks'
  BY DEF OutIInv, OutPicks
<1>8. QED
  BY <1>3, <1>4, <1>5, <1>6, <1>7 DEF OutIInv

\* One call has its record changed in part.
LEMMA OutRecords ==
  ASSUME OutIInv, NEW v \in Views
  PROVE  /\ outCall[v] \in OutCallRecords /\ outCall[v].list \in {0} \cup Out!Ids
         /\ outCall[v].tops \subseteq SUBSET Names /\ outCall[v].reads \subseteq {Inside}
         /\ outCall[v].list # 0 => lists[outCall[v].list] \in OutLists
         /\ outCache # 0 => lists[outCache] \in OutLists
         /\ outCall[v].at \in {"top", "sub"} =>
              /\ outCall[v].list \in Out!Ids
              /\ ~outCrossed /\ Settled /\ outCall[v].at = "top" => lists[outCall[v].list] = Out!Empty
              /\ ~outCrossed /\ Settled /\ outCall[v].at = "sub" =>
                   RightSoFar(lists[outCall[v].list], outCall[v])
BY DEF OutIInv, OutTypes, OutBuilt, OutFresh, OutCallRecords

LEMMA OutFindTops ==
  ASSUME OutIInv, NEW v \in Views, Out!FindTopLevelOutDirNames(v)
  PROVE  OutIInv'
<1> DEFINE c == [outCall[v] EXCEPT !.at = "sub", !.tops = Out!Tops]
           list == lists[c.list]
<1>0. Out!Tops \subseteq SUBSET Names
  BY DEF Out!Tops, OutIInv, OutTypes
<1>1. /\ c \in OutCallRecords /\ c.at = "sub" /\ c.list = outCall[v].list
      /\ c.tops = Out!Tops /\ c.reads = {}
  <2>1. outCall[v].reads = {} /\ outCall[v] \in OutCallRecords
    BY OutRecords DEF OutIInv, OutCalls, Out!FindTopLevelOutDirNames, Out!At
  <2>2. QED
    BY <1>0, <2>1 DEF OutCallRecords
<1>2. outCall' = [outCall EXCEPT ![v] = c] /\ outCall[v].at = "top"
  BY DEF Out!FindTopLevelOutDirNames, Out!At
<1> HIDE DEF c
<1>3. list \in OutLists /\ lists' = [lists EXCEPT ![c.list] = list]
      /\ (~outCrossed /\ Settled => list = Out!Empty)
  BY <1>1, <1>2, OutRecords DEF Out!FindTopLevelOutDirNames, OutIInv, OutTypes
<1> HIDE DEF list
<1>4. ~outCrossed /\ Settled => RightSoFar(list, c)
  <2>1. dirs \subseteq UNION Out!Tops /\ (Inside \notin Out!Tops => link = NoLink)
    BY DEF Out!Tops
  <2>2. dirs \subseteq Names
    BY DEF OutIInv, OutTypes
  <2>3. QED
    BY <1>1, <1>3, <2>1, <2>2 DEF RightSoFar, LinkTarget, Out!Empty
<1>5. UNCHANGED <<dirs, link, outCache, order, done, pick, outCrossed>>
  BY DEF Out!FindTopLevelOutDirNames
<1>6. QED
  BY <1>1, <1>2, <1>3, <1>4, <1>5, OutGoesOn

LEMMA OutReadDirectory ==
  ASSUME OutIInv, NEW v \in Views, NEW top, Out!ReadDirectory(v, top)
  PROVE  OutIInv'
<1> DEFINE linked == top = Inside /\ link \in dirs
           reads == IF linked THEN {Inside} ELSE outCall[v].reads
           c == [outCall[v] EXCEPT !.tops = @ \ {top}, !.reads = reads]
           old == lists[outCall[v].list]
           list == [old EXCEPT !.nodes = @ \cup (top \cap dirs)]
<1>1. outCall[v].at = "sub" /\ top \in outCall[v].tops /\ top \in Out!Tops
  BY DEF Out!ReadDirectory, Out!At
<1>2. /\ c \in OutCallRecords /\ c.at = "sub" /\ c.list = outCall[v].list
      /\ c.tops = outCall[v].tops \ {top} /\ c.reads = reads
  BY <1>1, OutRecords DEF OutCallRecords
<1>3. /\ list \in OutLists /\ list.nodes = old.nodes \cup (top \cap dirs)
      /\ list.target = old.target /\ list.cancelled = old.cancelled
  <2>1. old \in OutLists /\ dirs \subseteq Names
    BY <1>1, OutRecords DEF OutIInv, OutTypes, OutBuilt
  <2>2. QED
    BY <2>1 DEF OutLists
<1>4. outCall' = [outCall EXCEPT ![v] = c]
  BY DEF Out!ReadDirectory
<1>5. lists' = [lists EXCEPT ![outCall[v].list] = list]
  BY DEF Out!ReadDirectory
<1>6. ~outCrossed /\ Settled => RightSoFar(old, outCall[v])
  BY <1>1, OutRecords
<1> HIDE DEF c, list, old
<1>7. ~outCrossed /\ Settled => RightSoFar(list, c)
  <2> SUFFICES ASSUME ~outCrossed, Settled PROVE RightSoFar(list, c)
    OBVIOUS
  <2>1. \A n \in top \cap dirs : n \notin UNION c.tops
    <3>1. \A s \in Out!Tops : s = Inside \/ \E n \in dirs \ Inside : s = {n}
      BY DEF Out!Tops
    <3>2. ASSUME NEW s \in Out!Tops, NEW t \in Out!Tops, NEW n \in s \cap t PROVE s = t
      <4>1. CASE s = Inside \/ t = Inside
        BY <3>1, <4>1
      <4>2. CASE s # Inside /\ t # Inside
        BY <3>1, <4>2
      <4>3. QED
        BY <4>1, <4>2
    <3>3. c.tops \subseteq Out!Tops \ {top}
      BY <1>2, <1>6 DEF RightSoFar
    <3>4. QED
      BY <1>1, <3>2, <3>3
  <2>2. list.nodes = dirs \ UNION c.tops
    BY <1>1, <1>2, <1>3, <1>6, <2>1 DEF RightSoFar
  <2>3. list.target = IF Inside \in c.tops \/ c.reads # {} THEN NoLink ELSE LinkTarget
    BY <1>1, <1>2, <1>3, <1>6 DEF RightSoFar, LinkTarget
  <2>4. QED
    BY <1>2, <1>3, <1>6, <2>2, <2>3 DEF RightSoFar
<1>8. UNCHANGED <<dirs, link, outCache, order, done, pick, outCrossed>>
  BY DEF Out!ReadDirectory
<1>9. QED
  BY <1>1, <1>2, <1>3, <1>4, <1>5, <1>7, <1>8, OutGoesOn

LEMMA OutReadLink ==
  ASSUME OutIInv, NEW v \in Views, Out!ReadLink(v)
  PROVE  OutIInv'
<1> DEFINE c == [outCall[v] EXCEPT !.reads = {}]
           old == lists[outCall[v].list]
           list == IF link \in Names THEN [old EXCEPT !.target = link]
                                        ELSE [old EXCEPT !.nodes = old.nodes \ Inside]
<1>1. outCall[v].at = "sub" /\ outCall[v].reads # {}
  BY DEF Out!ReadLink, Out!At
<1>2. /\ c \in OutCallRecords /\ c.at = "sub" /\ c.list = outCall[v].list
      /\ c.tops = outCall[v].tops /\ c.reads = {}
  BY <1>1, OutRecords DEF OutCallRecords
<1>3. /\ list \in OutLists
      /\ link \in Names => list.nodes = old.nodes /\ list.target = link
                             /\ list.cancelled = old.cancelled
  <2>1. old \in OutLists
    BY <1>1, OutRecords DEF OutIInv, OutBuilt
  <2>2. [old EXCEPT !.nodes = old.nodes \ Inside] \in OutLists
    BY <2>1 DEF OutLists
  <2>3. link \in Names =>
          LET e == [old EXCEPT !.target = link] IN
          e \in OutLists /\ e.nodes = old.nodes /\ e.target = link /\ e.cancelled = old.cancelled
    BY <2>1 DEF OutLists
  <2>4. QED
    BY <2>2, <2>3
<1>4. outCall' = [outCall EXCEPT ![v] = c]
  BY DEF Out!ReadLink
<1>5. lists' = [lists EXCEPT ![outCall[v].list] = list]
  BY DEF Out!ReadLink
<1>6. ~outCrossed /\ Settled => RightSoFar(old, outCall[v])
  BY <1>1, OutRecords
<1> HIDE DEF c, list, old
<1>7. ~outCrossed /\ Settled => RightSoFar(list, c)
  <2>1. dirs \subseteq Names
    BY DEF OutIInv, OutTypes
  <2>2. QED
    BY <1>1, <1>2, <1>3, <1>6, <2>1 DEF RightSoFar, LinkTarget
<1>8. UNCHANGED <<dirs, link, outCache, order, done, pick, outCrossed>>
  BY DEF Out!ReadLink
<1>9. QED
  BY <1>1, <1>2, <1>3, <1>4, <1>5, <1>7, <1>8, OutGoesOn

LEMMA OutBuildEnds ==
  ASSUME OutIInv, NEW v \in Views
  PROVE  /\ Out!BuildNodeCache(v) => OutIInv'
         /\ \A top : Out!ReadDirectoryFails(v, top) => OutIInv'
<1>1. ASSUME Out!BuildNodeCache(v) PROVE OutIInv'
  <2> DEFINE ended == [outCall[v] EXCEPT !.at = "ended"]
  <2>1. outCall[v].at = "sub" /\ outCall[v].tops = {} /\ outCall[v].reads = {}
    BY <1>1 DEF Out!BuildNodeCache, Out!At
  <2>2. /\ ended \in OutCallRecords /\ ended.at = "ended" /\ ended.list = outCall[v].list
        /\ ended.tops = {} /\ ended.reads = {}
    BY <2>1, OutRecords DEF OutCallRecords
  <2>3. Out!JobEnds(v, ended) /\ UNCHANGED <<dirs, link, outCache, pick, outCrossed>>
    BY <1>1 DEF Out!BuildNodeCache
  <2> HIDE DEF ended
  <2>4. ~outCrossed /\ Settled => Right(lists[ended.list])
    <3>1. dirs \ UNION outCall[v].tops = dirs /\ Inside \notin outCall[v].tops
      BY <2>1
    <3>2. ~outCrossed /\ Settled => RightSoFar(lists[outCall[v].list], outCall[v])
      BY <2>1, OutRecords
    <3>3. QED
      BY <2>1, <2>2, <3>1, <3>2 DEF RightSoFar, Right
  <2>5. QED
    BY <2>1, <2>2, <2>3, <2>4, OutJobEnds
<1>2. ASSUME NEW top, Out!ReadDirectoryFails(v, top) PROVE OutIInv'
  <2> DEFINE ended == [Out!NoCall EXCEPT !.at = "ended"]
  <2>1. outCall[v].at = "sub"
    BY <1>2 DEF Out!ReadDirectoryFails, Out!At
  <2>2. /\ ended \in OutCallRecords /\ ended.at = "ended" /\ ended.list = 0
        /\ ended.tops = {} /\ ended.reads = {}
    BY DEF OutCallRecords, Out!NoCall
  <2>3. Out!JobEnds(v, ended) /\ UNCHANGED <<dirs, link, outCache, pick, outCrossed>>
    BY <1>2 DEF Out!ReadDirectoryFails
  <2> HIDE DEF ended
  <2>4. QED
    BY <2>1, <2>2, <2>3, OutJobEnds
<1>3. QED
  BY <1>1, <1>2

\* Lists that are used are kept.
LEMMA OutAlive ==
  ASSUME OutTypes, NEW used
  PROVE  /\ Out!Alive(used) \in [Out!Ids -> OutLists]
         /\ \A i \in Out!Ids : i \in used => Out!Alive(used)[i] = lists[i]
BY OutEmpty DEF OutTypes, Out!Alive

LEMMA OutTold ==
  ASSUME OutIInv, Out!Told
  PROVE  OutIInv'
<1> DEFINE v == Head(done)
<1>1. /\ done # <<>> /\ done' = Tail(done) /\ outCall' = [outCall EXCEPT ![v] = Out!NoCall]
      /\ outCache' = (IF outCall[v].list # 0 THEN outCall[v].list ELSE outCache)
      /\ lists' = Out!Alive({outCache'} \cup {outCall'[w].list : w \in Views})
      /\ UNCHANGED <<dirs, link, order, pick, outCrossed>>
  BY DEF Out!Told
<1>2. /\ v \in Views /\ In(v, done) /\ outCall[v].at = "ended"
      /\ done' \in Seq(Views) /\ Distinct(done')
      /\ \A w : In(w, done') <=> In(w, done) /\ w # v
  <2>1. done \in Seq(Views) /\ Distinct(done)
    BY DEF OutIInv, OutTypes, OutCalls
  <2>2. v = done[1] /\ v \in Views /\ In(v, done) /\ done' \in Seq(Views) /\ Distinct(done')
        /\ \A w : In(w, done') <=> In(w, done) /\ w # v
    BY <1>1, <2>1, QueueTail
  <2>3. QED
    BY <2>2 DEF OutIInv, OutCalls
<1> HIDE DEF v
<1>3. /\ outCall'[v] = Out!NoCall /\ \A w \in Views \ {v} : outCall'[w] = outCall[w]
      /\ outCall' \in [Views -> OutCallRecords]
      /\ Out!NoCall.at = "idle" /\ Out!NoCall.list = 0
      /\ Out!NoCall.tops = {} /\ Out!NoCall.reads = {}
  BY <1>1, <1>2, OutEmpty DEF OutIInv, OutTypes, Out!NoCall
<1>4. outCache' \in {0} \cup Out!Ids
  BY <1>1, <1>2, OutRecords DEF OutIInv, OutTypes
<1>5. /\ lists' \in [Out!Ids -> OutLists]
      /\ outCache' # 0 => lists'[outCache'] = lists[outCache']
      /\ \A w \in Views : outCall'[w].list # 0 => lists'[outCall'[w].list] = lists[outCall'[w].list]
  <2>1. \A w \in Views : outCall'[w].list \in {0} \cup Out!Ids
    BY <1>3 DEF OutCallRecords
  <2>2. QED
    BY <1>1, <1>4, <2>1, OutAlive DEF OutIInv
<1>6. OutTypes'
  BY <1>1, <1>2, <1>3, <1>4, <1>5 DEF OutIInv, OutTypes
<1>7. OutCalls'
  BY <1>1, <1>2, <1>3 DEF OutIInv, OutCalls
<1>8. OutBuilt'
  BY <1>1, <1>2, <1>3 DEF OutIInv, OutBuilt
<1>9. OutFresh'
  <2> SUFFICES ASSUME ~outCrossed, Settled PROVE OutFresh'
    BY <1>1 DEF OutFresh, Settled
  <2>1. outCache' # 0 => Right(lists[outCache'])
    BY <1>1, <1>2 DEF OutIInv, OutFresh
  <2>2. outCache' # 0 => Right(lists[outCache])'
    BY <1>1, <1>5, <2>1 DEF Right, LinkTarget
  <2>3. ASSUME NEW w \in Views \ {v}
        PROVE  /\ outCall[w].at = "ended" /\ outCall[w].list # 0 => Right(lists[outCall[w].list])'
               /\ outCall[w].at = "top" => lists'[outCall[w].list] = Out!Empty
               /\ outCall[w].at = "sub" => RightSoFar(lists[outCall[w].list], outCall[w])'
    <3>1. outCall[w].at \in {"top", "sub"} => outCall[w].list # 0
      BY DEF OutIInv, OutBuilt
    <3>2. outCall[w].list # 0 => lists'[outCall[w].list] = lists[outCall[w].list]
      BY <1>3, <1>5
    <3>3. outCall'[w] = outCall[w] /\ UNCHANGED <<dirs, link>>
      BY <1>1, <1>3
    <3>4. outCall[w].at = "ended" /\ outCall[w].list # 0 => Right(lists[outCall[w].list])'
      BY <3>2, <3>3 DEF OutIInv, OutFresh, Right, LinkTarget
    <3>5. outCall[w].at = "top" => lists'[outCall[w].list] = Out!Empty
      BY <3>1, <3>2 DEF OutIInv, OutFresh
    <3>6. outCall[w].at = "sub" => RightSoFar(lists[outCall[w].list], outCall[w])'
      BY <3>1, <3>2, <3>3 DEF OutIInv, OutFresh, RightSoFar, LinkTarget, Out!Tops
    <3>7. QED
      BY <3>4, <3>5, <3>6
  <2>4. QED
    BY <1>3, <2>2, <2>3 DEF OutFresh
<1>10. OutPicks'
  BY <1>1 DEF OutIInv, OutPicks
<1>11. QED
  BY <1>6, <1>7, <1>8, <1>9, <1>10 DEF OutIInv

LEMMA OutReadGnArgs ==
  ASSUME OutIInv, NEW i \in Out!Ids, NEW n \in Names, Out!ReadGnArgs(i, n)
  PROVE  OutIInv'
<1>1. PICK out \in GnOutputs :
        lists' = [lists EXCEPT ![i].gn[n] = Out!GnArgsInfo(out, lists[i].cancelled)]
  BY DEF Out!ReadGnArgs
<1> DEFINE info == Out!GnArgsInfo(out, lists[i].cancelled)
           list == [lists[i] EXCEPT !.gn[n] = info]
<1>2. info \in OutGn
  BY DEF Out!GnArgsInfo, Out!TargetOs, OutGn
<1>3. /\ list \in OutLists /\ list.nodes = lists[i].nodes /\ list.target = lists[i].target
      /\ list.cancelled = lists[i].cancelled
  <2>1. lists[i] \in OutLists
    BY DEF OutIInv, OutTypes
  <2> HIDE DEF info
  <2>2. QED
    BY <1>2, <2>1 DEF OutLists
<1>4. lists' = [lists EXCEPT ![i] = list]
  BY <1>1
<1> HIDE DEF info, list
<1>5. lists' \in [Out!Ids -> OutLists] /\ lists'[i] = list
      /\ \A j \in Out!Ids \ {i} : lists'[j] = lists[j]
  BY <1>3, <1>4 DEF OutIInv, OutTypes
<1>6. UNCHANGED <<dirs, link, outCache, outCall, order, done, pick, outCrossed>>
  BY DEF Out!ReadGnArgs
<1>7. \A v \in Views : outCall[v].at \in {"top", "sub"} => outCall[v].list # i
  BY DEF Out!ReadGnArgs, Out!At, OutIInv, OutBuilt
<1>8. OutTypes'
  BY <1>5, <1>6 DEF OutIInv, OutTypes
<1>9. (OutCalls /\ OutBuilt /\ OutPicks)'
  BY <1>6 DEF OutIInv, OutCalls, OutBuilt, OutPicks
<1>10. OutFresh'
  <2> SUFFICES ASSUME ~outCrossed, Settled PROVE OutFresh'
    BY <1>6 DEF OutFresh, Settled
  <2>1. ASSUME NEW j \in Out!Ids, Right(lists[j]) PROVE Right(lists[j])'
    BY <1>3, <1>5, <1>6, <2>1 DEF Right, LinkTarget
  <2>2. ASSUME NEW v \in Views
        PROVE  /\ outCall[v].at = "ended" /\ outCall[v].list # 0 => Right(lists[outCall[v].list])'
               /\ outCall[v].at = "top" => lists'[outCall[v].list] = Out!Empty
               /\ outCall[v].at = "sub" => RightSoFar(lists[outCall[v].list], outCall[v])'
    <3>1. outCall[v].at = "ended" /\ outCall[v].list # 0 => Right(lists[outCall[v].list])'
      BY <1>6, <2>1, OutRecords DEF OutIInv, OutFresh
    <3>2. outCall[v].at \in {"top", "sub"} => lists'[outCall[v].list] = lists[outCall[v].list]
      BY <1>5, <1>7, OutRecords
    <3>3. QED
      BY <1>6, <3>1, <3>2, OutRecords DEF RightSoFar, LinkTarget, Out!Tops
  <2>3. outCache # 0 => Right(lists[outCache])'
    BY <1>6, <2>1 DEF OutIInv, OutFresh, OutTypes
  <2>4. QED
    BY <1>6, <2>2, <2>3 DEF OutFresh
<1>11. QED
  BY <1>8, <1>9, <1>10 DEF OutIInv

\* A refresh: if no call is in flight, there is no list left that could be old.
LEMMA OutRefresh ==
  ASSUME OutIInv, Out!DoRefresh, UNCHANGED <<dirs, link, outCall, order, done>>,
         pick' \in [Pickers -> [at : {"idle", "unlink", "symlink", "refresh"},
                                target : Names \cup {NoLink}]],
         OutPicks'
  PROVE  OutIInv'
<1>1. /\ outCache' = 0 /\ outCrossed' = Out!InFlight
      /\ lists' = LET held == Out!Alive({outCall[v].list : v \in Views}) IN
                  IF outCache = 0 THEN held
                  ELSE [held EXCEPT ![outCache].cancelled = \E v \in Views : outCall[v].list = outCache]
  BY DEF Out!DoRefresh
<1> DEFINE held == Out!Alive({outCall[v].list : v \in Views})
           b == \E v \in Views : outCall[v].list = outCache
<1>2. held \in [Out!Ids -> OutLists]
  BY OutAlive DEF OutIInv
<1> HIDE DEF held
<1>3. lists' \in [Out!Ids -> OutLists]
  <2>1. CASE outCache = 0
    BY <1>1, <1>2, <2>1 DEF held
  <2>2. CASE outCache # 0
    <3>1. lists' = [held EXCEPT ![outCache] = [held[outCache] EXCEPT !.cancelled = b]]
      BY <1>1, <2>2 DEF held
    <3>2. outCache \in Out!Ids /\ held[outCache] \in OutLists /\ b \in BOOLEAN
      BY <1>2, <2>2 DEF OutIInv, OutTypes
    <3> HIDE DEF b
    <3>3. [held[outCache] EXCEPT !.cancelled = b] \in OutLists
      BY <3>2 DEF OutLists
    <3>4. QED
      BY <1>2, <3>1, <3>2, <3>3
  <2>3. QED
    BY <2>1, <2>2
<1>4. OutTypes'
  BY <1>1, <1>3 DEF OutIInv, OutTypes, Out!InFlight
<1>5. (OutCalls /\ OutBuilt)'
  BY <1>1 DEF OutIInv, OutCalls, OutBuilt
<1>6. OutFresh'
  <2> SUFFICES ASSUME ~outCrossed' PROVE OutFresh'
    BY DEF OutFresh
  <2>1. order = <<>> /\ done = <<>>
    BY <1>1 DEF Out!InFlight
  <2>2. \A v : ~In(v, order) /\ ~In(v, done)
    BY <2>1 DEF In
  <2>3. \A v \in Views : outCall[v].at \notin {"ended", "top", "sub"}
    BY <2>2 DEF OutIInv, OutCalls
  <2>4. QED
    BY <1>1, <2>3 DEF OutFresh
<1>7. QED
  BY <1>4, <1>5, <1>6 DEF OutIInv

\* The user's steps.
LEMMA OutUserStep ==
  ASSUME OutIInv
  PROVE  /\ Out!Refresh => OutIInv'
         /\ \A n \in Names : Out!DiskChanges(n) => OutIInv'
<1>1. ASSUME Out!Refresh PROVE OutIInv'
  <2>1. Out!DoRefresh /\ UNCHANGED <<dirs, link, outCall, order, done, pick>>
    BY <1>1 DEF Out!Refresh
  <2>2. OutPicks'
    BY <2>1 DEF OutIInv, OutPicks
  <2>3. pick' \in [Pickers -> [at : {"idle", "unlink", "symlink", "refresh"},
                               target : Names \cup {NoLink}]]
    BY <2>1 DEF OutIInv, OutTypes
  <2>4. QED
    BY <2>1, <2>2, <2>3, OutRefresh
<1>2. ASSUME NEW n \in Names, Out!DiskChanges(n) PROVE OutIInv'
  <2>1. /\ dirs' \subseteq Names /\ outCrossed'
        /\ UNCHANGED <<link, outCache, lists, outCall, order, done, pick>>
    BY <1>2 DEF Out!DiskChanges, OutIInv, OutTypes
  <2>2. QED
    BY <2>1 DEF OutIInv, OutTypes, OutCalls, OutBuilt, OutPicks, OutFresh
<1>3. QED
  BY <1>1, <1>2

\* The link and what is picked change, and a refresh is owed if the link does.
LEMMA OutPicked ==
  ASSUME OutIInv, link' \in Names \cup {NoLink, NotALink},
         pick' \in [Pickers -> [at : {"idle", "unlink", "symlink", "refresh"},
                                target : Names \cup {NoLink}]],
         OutPicks', Settled' => Settled /\ link' = link,
         UNCHANGED <<dirs, outCache, lists, outCall, order, done, outCrossed>>
  PROVE  OutIInv'
<1>1. OutTypes'
  BY DEF OutIInv, OutTypes
<1>2. (OutCalls /\ OutBuilt)'
  BY DEF OutIInv, OutCalls, OutBuilt
<1>3. OutFresh'
  <2> SUFFICES ASSUME ~outCrossed', Settled' PROVE OutFresh'
    BY DEF OutFresh
  <2>1. OutFresh /\ ~outCrossed /\ Settled /\ link' = link
    BY DEF OutIInv
  <2>2. QED
    BY <2>1 DEF OutFresh, Right, RightSoFar, LinkTarget, Out!Tops
<1>4. QED
  BY <1>1, <1>2, <1>3 DEF OutIInv

\* The steps of setCurrentLink.
LEMMA OutPickStep ==
  ASSUME OutIInv, NEW p \in Pickers
  PROVE  /\ Out!SetCurrentLink(p) => OutIInv'
         /\ Out!Unlink(p) => OutIInv'
         /\ Out!Symlink(p) => OutIInv'
         /\ Out!PickRefreshes(p) => OutIInv'
<1> DEFINE Picks == [at : {"idle", "unlink", "symlink", "refresh"}, target : Names \cup {NoLink}]
<1>0. /\ pick \in [Pickers -> Picks] /\ link \in Names \cup {NoLink, NotALink}
      /\ Out!NoPick \in Picks /\ Out!NoPick.at = "idle"
      /\ \A q \in Pickers : /\ pick[q].at = "idle" => pick[q] = Out!NoPick
                            /\ pick[q].at # "idle" => pick[q].target \in Names /\ link # NotALink
  BY DEF OutIInv, OutTypes, OutPicks, Out!NoPick
<1>1. ASSUME Out!SetCurrentLink(p) PROVE OutIInv'
  <2>1. PICK n \in lists[outCache].nodes :
          Out!Picks(p, "idle", IF link = NotALink THEN Out!NoPick
                               ELSE [at |-> IF link = NoLink THEN "symlink" ELSE "unlink",
                                     target |-> n])
    BY <1>1 DEF Out!SetCurrentLink
  <2>2. outCache # 0 /\ UNCHANGED <<dirs, link, outCache, lists, outCall, order, done, outCrossed>>
    BY <1>1 DEF Out!SetCurrentLink
  <2>3. n \in Names
    <3>1. lists[outCache] \in OutLists
      BY <2>2 DEF OutIInv, OutTypes
    <3>2. QED
      BY <3>1 DEF OutLists
  <2> DEFINE to == IF link = NotALink THEN Out!NoPick
                   ELSE [at |-> IF link = NoLink THEN "symlink" ELSE "unlink", target |-> n]
  <2>4. /\ to \in Picks /\ to.at # "refresh"
        /\ to.at = "idle" => to = Out!NoPick
        /\ to.at # "idle" => to.target \in Names /\ link # NotALink
    BY <1>0, <2>3
  <2>5. pick' = [pick EXCEPT ![p] = to] /\ pick[p].at = "idle"
    BY <2>1 DEF Out!Picks
  <2> HIDE DEF to
  <2>6. pick' \in [Pickers -> Picks] /\ pick'[p] = to /\ \A q \in Pickers \ {p} : pick'[q] = pick[q]
    BY <1>0, <2>4, <2>5
  <2>7. OutPicks'
    BY <1>0, <2>2, <2>4, <2>6 DEF OutPicks
  <2>8. Settled' => Settled
    BY <2>2, <2>5, <2>6 DEF Settled
  <2>9. QED
    BY <1>0, <2>2, <2>6, <2>7, <2>8, OutPicked
<1>2. ASSUME Out!Unlink(p) PROVE OutIInv'
  <2> DEFINE to == IF link = NoLink THEN Out!NoPick ELSE [pick[p] EXCEPT !.at = "symlink"]
  <2>1. /\ pick[p].at = "unlink" /\ pick' = [pick EXCEPT ![p] = to] /\ link' = NoLink
        /\ UNCHANGED <<dirs, outCache, lists, outCall, order, done, outCrossed>>
    BY <1>2 DEF Out!Unlink, Out!Picks
  <2>2. /\ to \in Picks
        /\ link = NoLink => to = Out!NoPick
        /\ link # NoLink => to.at = "symlink" /\ to.target = pick[p].target
    <3>1. pick[p] \in Picks
      BY <1>0
    <3>2. QED
      BY <1>0, <3>1
  <2> HIDE DEF to
  <2>3. pick' \in [Pickers -> Picks] /\ pick'[p] = to /\ \A q \in Pickers \ {p} : pick'[q] = pick[q]
    BY <1>0, <2>1, <2>2
  <2>4. OutPicks'
    BY <1>0, <2>1, <2>2, <2>3, ToolsAssumption DEF OutPicks
  <2>5. Settled' => Settled /\ link' = link
    BY <1>0, <2>1, <2>2, <2>3 DEF Settled
  <2>6. QED
    BY <1>0, <2>1, <2>3, <2>4, <2>5, OutPicked
<1>3. ASSUME Out!Symlink(p) PROVE OutIInv'
  <2> DEFINE to == IF link = NoLink THEN [pick[p] EXCEPT !.at = "refresh"] ELSE Out!NoPick
  <2>1. /\ pick[p].at = "symlink" /\ pick' = [pick EXCEPT ![p] = to]
        /\ link' = (IF link = NoLink THEN pick[p].target ELSE link)
        /\ UNCHANGED <<dirs, outCache, lists, outCall, order, done, outCrossed>>
    BY <1>3 DEF Out!Symlink, Out!Picks
  <2>2. /\ to \in Picks
        /\ link # NoLink => to = Out!NoPick
        /\ link = NoLink => to.at = "refresh" /\ to.target = pick[p].target
    <3>1. pick[p] \in Picks
      BY <1>0
    <3>2. QED
      BY <1>0, <3>1
  <2> HIDE DEF to
  <2>3. pick' \in [Pickers -> Picks] /\ pick'[p] = to /\ \A q \in Pickers \ {p} : pick'[q] = pick[q]
    BY <1>0, <2>1, <2>2
  <2>4. OutPicks' /\ link' \in Names \cup {NoLink, NotALink}
    BY <1>0, <2>1, <2>2, <2>3, ToolsAssumption DEF OutPicks
  <2>5. Settled' => Settled /\ link' = link
    BY <1>0, <2>1, <2>2, <2>3 DEF Settled
  <2>6. QED
    BY <1>0, <2>1, <2>3, <2>4, <2>5, OutPicked
<1>4. ASSUME Out!PickRefreshes(p) PROVE OutIInv'
  <2>1. /\ pick' = [pick EXCEPT ![p] = Out!NoPick] /\ Out!DoRefresh
        /\ UNCHANGED <<dirs, link, outCall, order, done>>
    BY <1>4 DEF Out!PickRefreshes, Out!Picks
  <2>2. pick' \in [Pickers -> Picks] /\ pick'[p] = Out!NoPick
        /\ \A q \in Pickers \ {p} : pick'[q] = pick[q]
    BY <1>0, <2>1
  <2>3. OutPicks'
    BY <1>0, <2>1, <2>2 DEF OutPicks
  <2>4. QED
    BY <2>1, <2>2, <2>3, OutRefresh
<1>5. QED
  BY <1>1, <1>2, <1>3, <1>4

LEMMA OutInit == Out!Init => OutIInv
<1> SUFFICES ASSUME Out!Init PROVE OutIInv
  OBVIOUS
<1>1. order = <<>> /\ done = <<>> /\ outCache = 0 /\ pick = [p \in Pickers |-> Out!NoPick]
      /\ outCall = [v \in Views |-> Out!NoCall]
  BY DEF Out!Init
<1>2. <<>> \in Seq(Views) /\ Distinct(<<>>) /\ \A v : ~In(v, <<>>)
  BY DEF Distinct, In
<1>3. OutTypes
  <2>1. lists \in [Out!Ids -> OutLists] /\ outCall \in [Views -> OutCallRecords]
    BY <1>1, OutEmpty DEF Out!Init
  <2>2. Out!NoPick \in [at : {"idle", "unlink", "symlink", "refresh"},
                       target : Names \cup {NoLink}]
    BY DEF Out!NoPick
  <2>3. pick \in [Pickers -> [at : {"idle", "unlink", "symlink", "refresh"},
                              target : Names \cup {NoLink}]]
    BY <1>1, <2>2
  <2>4. /\ dirs \subseteq Names /\ link \in Names \cup {NoLink, NotALink}
        /\ outCrossed \in BOOLEAN
    BY DEF Out!Init
  <2>5. order \in Seq(Views) /\ done \in Seq(Views) /\ outCache \in {0} \cup Out!Ids
    BY <1>1, <1>2
  <2>6. QED
    BY <2>1, <2>3, <2>4, <2>5 DEF OutTypes
<1>4. QED
  BY <1>1, <1>2, <1>3
     DEF OutIInv, OutCalls, OutBuilt, OutPicks, OutFresh, Out!NoPick, Out!NoCall

LEMMA OutStep == OutIInv /\ [Out!Next]_outVars => OutIInv'
<1> SUFFICES ASSUME OutIInv, [Out!Next]_outVars PROVE OutIInv'
  OBVIOUS
<1>1. CASE UNCHANGED outVars
  <2> USE <1>1 DEF outVars, OutIInv
  <2>1. OutTypes' /\ OutCalls'
    BY DEF OutTypes, OutCalls
  <2>2. OutBuilt' /\ OutPicks'
    BY DEF OutBuilt, OutPicks
  <2>3. OutFresh'
    BY DEF OutFresh, Settled, Right, RightSoFar, LinkTarget, Out!Tops
  <2>4. QED
    BY <2>1, <2>2, <2>3
<1>2. CASE Out!Next
  BY <1>2, OutGetChildren, OutFindTops, OutReadDirectory, OutReadLink, OutBuildEnds, OutTold,
     OutReadGnArgs, OutUserStep, OutPickStep DEF Out!Next
<1>3. QED
  BY <1>1, <1>2

\* What is shown in a quiet moment is the disk.
LEMMA OutHolds == OutIInv => Out!ViewIsDisk
<1> SUFFICES ASSUME OutIInv, Out!Quiet, ~outCrossed, outCache # 0
             PROVE  /\ lists[outCache].nodes = dirs
                    /\ \A n \in Names : Out!IsCurrent(outCache, n) <=> n = link /\ n \in dirs
                    /\ ~lists[outCache].cancelled
  BY DEF Out!ViewIsDisk
<1>1. Settled
  BY DEF Out!Quiet, Settled, Out!NoPick
<1>2. Right(lists[outCache])
  BY <1>1 DEF OutIInv, OutFresh
<1>3. QED
  BY <1>2 DEF Right, LinkTarget, Out!IsCurrent

\* A link that is there is kept, or is about to be made again.
LEMMA OutKept ==
  ASSUME OutIInv, [Out!Next]_outVars, Out!Kept
  PROVE  Out!Kept'
<1>0. /\ link \in Names \cup {NoLink, NotALink}
      /\ \A q \in Pickers : pick[q].at # "idle" => pick[q].target \in Names /\ link # NotALink
      /\ pick \in [Pickers -> [at : {"idle", "unlink", "symlink", "refresh"},
                               target : Names \cup {NoLink}]]
  BY DEF OutIInv, OutTypes, OutPicks
<1>1. ASSUME NEW p \in Pickers, Out!Unlink(p) PROVE Out!Kept'
  <2>1. CASE link = NoLink
    BY <1>0, <1>1, <2>1 DEF Out!Unlink, Out!Picks, Out!Kept
  <2>2. CASE link # NoLink
    <3>1. pick' = [pick EXCEPT ![p] = [pick[p] EXCEPT !.at = "symlink"]]
      BY <1>1, <2>2 DEF Out!Unlink, Out!Picks
    <3>2. pick'[p].at = "symlink"
      BY <1>0, <3>1
    <3>3. QED
      BY <3>2 DEF Out!Kept
  <2>3. QED
    BY <2>1, <2>2
<1>2. ASSUME NEW p \in Pickers, Out!Symlink(p) PROVE Out!Kept'
  BY <1>0, <1>2 DEF Out!Symlink, Out!Picks, Out!Kept
<1>3. ASSUME NEW p \in Pickers, Out!SetCurrentLink(p) \/ Out!PickRefreshes(p) PROVE Out!Kept'
  BY <1>0, <1>3 DEF Out!SetCurrentLink, Out!PickRefreshes, Out!Picks, Out!Kept
<1>4. CASE UNCHANGED <<link, pick>>
  BY <1>4 DEF Out!Kept
<1>5. QED
  BY <1>1, <1>2, <1>3, <1>4
     DEF outVars, Out!Next, Out!GetChildren, Out!FindTopLevelOutDirNames, Out!ReadLink,
         Out!BuildNodeCache, Out!ReadDirectory, Out!ReadDirectoryFails, Out!Told,
         Out!ReadGnArgs, Out!Refresh, Out!DiskChanges

LEMMA GtestHolds == GtestIInv => Gtest!EveryTestIsAnswered
BY DEF GtestIInv, GtestAnswers, Gtest!EveryTestIsAnswered
-----------------------------------------------------------------------------
(* Induction over data *)

\* Every set of numbers that is not empty has a smallest one: the initial
\* segments 0..k are finite sets, and so well-founded by inclusion.
LEMMA Smallest ==
  ASSUME NEW S \in SUBSET Nat, S # {}
  PROVE  \E m \in S : \A k \in S : m <= k
<1> DEFINE Upto == {0..k : k \in S}
<1>1. /\ Upto # {}
      /\ Upto \subseteq FiniteSubsetsOf(Nat)
  <2>1. \A k \in S : 0..k \in SUBSET Nat /\ IsFiniteSet(0..k)
    BY FS_Interval
  <2>2. \A k \in S : 0..k \in FiniteSubsetsOf(Nat)
    BY <2>1 DEF FiniteSubsetsOf
  <2>3. QED  BY <2>2
<1>2. PICK U \in Upto : \A V \in Upto : ~(<<V, U>> \in StrictSubsetOrdering(Nat))
  <2>1. IsWellFoundedOn(StrictSubsetOrdering(Nat), FiniteSubsetsOf(Nat))
    BY FS_StrictSubsetOrderingWellFounded, Zenon
  <2>2. QED  BY <1>1, <2>1, WFMin, Zenon
<1>3. PICK m \in S : U = 0..m  BY <1>2
<1>4. ASSUME NEW k \in S, k < m
      PROVE  FALSE
  <2>1. 0..k \in Upto  OBVIOUS
  <2>2. 0..k \subseteq 0..m /\ 0..k # 0..m  BY <1>4
  <2>3. <<0..k, 0..m>> \in StrictSubsetOrdering(Nat)
    BY <2>2 DEF StrictSubsetOrdering
  <2>4. QED  BY <1>2, <1>3, <2>1, <2>3
<1>5. QED  BY <1>4

\* Induction: a set with 0 and the successor of what is in it has every number.
LEMMA InductiveSet ==
  ASSUME NEW S \in SUBSET Nat, 0 \in S, \A n \in S : n + 1 \in S
  PROVE  S = Nat
<1>1. SUFFICES ASSUME Nat \ S # {} PROVE FALSE  OBVIOUS
<1>2. PICK m \in Nat \ S : \A k \in Nat \ S : m <= k  BY <1>1, Smallest
<1>3. m # 0 /\ m - 1 \in Nat  BY <1>2
<1>4. m - 1 \in S  BY <1>2, <1>3
<1>5. QED  BY <1>2, <1>4

\* A function on 0..n whose value at each number is made of the one before exists.
StepByStep(f, n, base, step) ==
  f[0] = base /\ \A m \in 1..n : f[m] = step[m][f[m - 1]]

LEMMA Recursion ==
  ASSUME NEW V, NEW base \in V, NEW step \in [Nat -> [V -> V]], NEW n \in Nat
  PROVE  \E f \in [0..n -> V] : StepByStep(f, n, base, step)
<1> DEFINE Takes(f, k) == f[0] = base /\ \A m \in 1..k : f[m] = step[m][f[m - 1]]
           Made == {k \in Nat : \E f \in [0..k -> V] : Takes(f, k)}
<1>1. 0 \in Made
  <2> DEFINE f == [m \in 0..0 |-> base]
  <2>1. f \in [0..0 -> V] /\ Takes(f, 0)
    OBVIOUS
  <2>2. QED
    BY <2>1
<1>2. ASSUME NEW k \in Made PROVE k + 1 \in Made
  <2>1. PICK f \in [0..k -> V] : Takes(f, k)
    OBVIOUS
  <2> DEFINE h == [m \in 0..(k + 1) |-> IF m = k + 1 THEN step[k + 1][f[k]] ELSE f[m]]
  <2>2. \A m \in 0..(k + 1) : h[m] \in V
    <3>1. f[k] \in V /\ step[k + 1] \in [V -> V]
      OBVIOUS
    <3>2. QED
      BY <3>1
  <2>3. h \in [0..(k + 1) -> V]
    BY <2>2
  <2>4. h[0] = base
    BY <2>1
  <2>5. ASSUME NEW m \in 1..(k + 1) PROVE h[m] = step[m][h[m - 1]]
    <3>1. CASE m = k + 1
      BY <3>1
    <3>2. CASE m # k + 1
      <4>1. m \in 1..k /\ m \in 0..(k + 1) /\ m - 1 \in 0..(k + 1) /\ m - 1 # k + 1
        BY <3>2
      <4>2. QED
        BY <2>1, <3>2, <4>1
    <3>3. QED
      BY <3>1, <3>2
  <2> HIDE DEF h
  <2>6. Takes(h, k + 1) /\ k + 1 \in Nat
    BY <2>4, <2>5
  <2>7. QED
    BY <2>3, <2>6
<1>3. n \in Made
  <2> HIDE DEF Made
  <2>1. Made \in SUBSET Nat
    BY DEF Made
  <2>2. QED
    BY <1>1, <1>2, <2>1, InductiveSet
<1>4. QED
  BY <1>3 DEF StepByStep

\* Induction as far as n.
LEMMA ByInduction ==
  ASSUME NEW n \in Nat, NEW S \in SUBSET Nat, 0 \in S, \A m \in S : m < n => m + 1 \in S
  PROVE  \A m \in 0..n : m \in S
<1> DEFINE T == {m \in Nat : m <= n => m \in S}
<1>1. 0 \in T
  OBVIOUS
<1>2. ASSUME NEW m \in T PROVE m + 1 \in T
  BY DEF T
<1>3. T = Nat
  <2> HIDE DEF T
  <2>1. T \in SUBSET Nat
    BY DEF T
  <2>2. QED
    BY <1>1, <1>2, <2>1, InductiveSet
<1>4. \A m \in 0..n : m \in T /\ m <= n
  <2> HIDE DEF T
  <2>1. QED
    BY <1>3
<1>5. QED
  BY <1>4

(* The system log *)
Chars == Syslog!Bytes \cup {"wide", "U+FFFD"}
Reads == [lines : Seq(Seq(Chars)), text : Seq(Chars), half : BOOLEAN]

\* Sequences as they grow, under names of their own for the provers.
Longer(s, e) == Append(s, e)
Joined(s, t) == s \o t

LEMMA LongerFact ==
  ASSUME NEW S, NEW s \in Seq(S), NEW e \in S
  PROVE  /\ Longer(s, e) \in Seq(S) /\ Len(Longer(s, e)) = Len(s) + 1 /\ Len(s) \in Nat
         /\ \A i \in 1..Len(s) : Longer(s, e)[i] = s[i]
         /\ Longer(s, e)[Len(s) + 1] = e
BY AppendProperties DEF Longer

LEMMA JoinedFact ==
  ASSUME NEW S, NEW s \in Seq(S), NEW t \in Seq(S)
  PROVE  /\ Joined(s, t) \in Seq(S) /\ Len(Joined(s, t)) = Len(s) + Len(t)
         /\ Len(s) \in Nat /\ Len(t) \in Nat
         /\ \A i \in 1..Len(s) : Joined(s, t)[i] = s[i]
         /\ \A i \in 1..Len(t) : Joined(s, t)[Len(s) + i] = t[i]
<1>1. /\ s \o t \in Seq(S) /\ Len(s \o t) = Len(s) + Len(t)
      /\ Len(s) \in Nat /\ Len(t) \in Nat
      /\ \A i \in 1..Len(s) + Len(t) : (s \o t)[i] = IF i <= Len(s) THEN s[i] ELSE t[i - Len(s)]
  BY ConcatProperties
<1>2. QED
  BY <1>1 DEF Joined

LEMMA JoinedLines ==
  \A s, t \in Seq(Seq(Chars)) :
    /\ Len(Joined(s, t)) = Len(s) + Len(t)
    /\ \A i \in 1..Len(t) : Joined(s, t)[Len(s) + i] = t[i]
<1> DEFINE S == Seq(Chars)
<1> HIDE DEF S
<1>1. \A s, t \in Seq(S) : /\ Len(Joined(s, t)) = Len(s) + Len(t)
                           /\ \A i \in 1..Len(t) : Joined(s, t)[Len(s) + i] = t[i]
  BY JoinedFact
<1>2. QED
  BY <1>1 DEF S

LEMMA JoinedLonger ==
  ASSUME NEW S, NEW s \in Seq(S), NEW t \in Seq(S), NEW e \in S
  PROVE  /\ Longer(Joined(s, t), e) = Joined(s, Longer(t, e))
         /\ Joined(s, <<>>) = s /\ Joined(<<>>, s) = s
<1>1. <<e>> \in Seq(S) /\ s \o t \in Seq(S)
  BY ConcatProperties
<1>2. (s \o t) \o <<e>> = s \o (t \o <<e>>)
  BY <1>1, ConcatAssociative
<1>3. Append(s \o t, e) = (s \o t) \o <<e>> /\ Append(t, e) = t \o <<e>>
  BY <1>1, AppendIsConcat
<1>4. QED
  BY <1>2, <1>3, ConcatEmptySeq DEF Longer, Joined

\* What is read after some lines.
Behind(before, acc) ==
  [lines |-> Joined(before, acc.lines), text |-> acc.text, half |-> acc.half]

LEMMA ReadsFact ==
  ASSUME NEW acc \in Reads
  PROVE  /\ acc.lines \in Seq(Seq(Chars)) /\ acc.text \in Seq(Chars) /\ acc.half \in BOOLEAN
         /\ acc = [lines |-> acc.lines, text |-> acc.text, half |-> acc.half]
BY DEF Reads

LEMMA CutFact ==
  ASSUME NEW acc \in Reads, NEW char \in Chars
  PROVE  /\ Syslog!Cut(acc, char) \in Reads
         /\ char = "nl" => Syslog!Cut(acc, char) =
              [lines |-> Longer(acc.lines, acc.text), text |-> <<>>, half |-> acc.half]
         /\ char # "nl" => Syslog!Cut(acc, char) =
              [lines |-> acc.lines, text |-> Longer(acc.text, char), half |-> acc.half]
<1>1. /\ Longer(acc.lines, acc.text) \in Seq(Seq(Chars)) /\ Longer(acc.text, char) \in Seq(Chars)
      /\ <<>> \in Seq(Chars)
  <2>1. acc.lines \in Seq(Seq(Chars)) /\ acc.text \in Seq(Chars)
    BY ReadsFact
  <2>2. Longer(acc.lines, acc.text) \in Seq(Seq(Chars))
    BY <2>1, LongerFact
  <2>3. Longer(acc.text, char) \in Seq(Chars)
    BY <2>1, LongerFact
  <2>4. QED
    BY <2>2, <2>3
<1>2. CASE char = "nl"
  <2>1. Syslog!Cut(acc, char) =
          [lines |-> Longer(acc.lines, acc.text), text |-> <<>>, half |-> acc.half]
    <3>1. acc = [lines |-> acc.lines, text |-> acc.text, half |-> acc.half]
      BY ReadsFact
    <3>2. Syslog!Cut(acc, char) =
            [acc EXCEPT !.lines = Longer(acc.lines, acc.text), !.text = <<>>]
      BY <1>2, Zenon DEF Syslog!Cut, Longer
    <3>3. QED
      BY <3>1, <3>2
  <2>2. QED
    BY <1>1, <1>2, <2>1, ReadsFact DEF Reads
<1>3. CASE char # "nl"
  <2>1. Syslog!Cut(acc, char) =
          [lines |-> acc.lines, text |-> Longer(acc.text, char), half |-> acc.half]
    <3>1. acc = [lines |-> acc.lines, text |-> acc.text, half |-> acc.half]
      BY ReadsFact
    <3>2. Syslog!Cut(acc, char) = [acc EXCEPT !.text = Longer(acc.text, char)]
      BY <1>3, Zenon DEF Syslog!Cut, Longer
    <3>3. QED
      BY <3>1, <3>2
  <2>2. QED
    BY <1>1, <1>3, <2>1, ReadsFact DEF Reads
<1>4. QED
  BY <1>2, <1>3

LEMMA CutBehind ==
  ASSUME NEW acc \in Reads, NEW char \in Chars, NEW before \in Seq(Seq(Chars))
  PROVE  /\ Behind(before, acc) \in Reads
         /\ Syslog!Cut(Behind(before, acc), char) = Behind(before, Syslog!Cut(acc, char))
<1>1. acc.lines \in Seq(Seq(Chars)) /\ acc.text \in Seq(Chars) /\ acc.half \in BOOLEAN
  BY ReadsFact
<1>2. Joined(before, acc.lines) \in Seq(Seq(Chars))
  BY <1>1, JoinedFact
<1>3. Behind(before, acc) \in Reads
  BY <1>1, <1>2 DEF Behind, Reads
<1>4. Longer(Joined(before, acc.lines), acc.text) = Joined(before, Longer(acc.lines, acc.text))
  BY <1>1, JoinedLonger
<1> DEFINE b == Behind(before, acc)
           cut == Syslog!Cut(acc, char)
<1>5. b \in Reads /\ b.lines = Joined(before, acc.lines) /\ b.text = acc.text /\ b.half = acc.half
  BY <1>3 DEF Behind
<1>6. Behind(before, cut) = [lines |-> Joined(before, cut.lines), text |-> cut.text,
                             half |-> cut.half]
  BY DEF Behind
<1> HIDE DEF b
<1>7. CASE char = "nl"
  <2>1. Syslog!Cut(b, char) = [lines |-> Longer(b.lines, b.text), text |-> <<>>, half |-> b.half]
    BY <1>5, <1>7, CutFact
  <2>2. cut.lines = Longer(acc.lines, acc.text) /\ cut.text = <<>> /\ cut.half = acc.half
    BY <1>7, CutFact
  <2> HIDE DEF cut
  <2>3. Syslog!Cut(b, char) = Behind(before, cut)
    BY <1>4, <1>5, <1>6, <2>1, <2>2
  <2>4. QED
    BY <1>3, <2>3 DEF b, cut
<1>8. CASE char # "nl"
  <2>1. Syslog!Cut(b, char) = [lines |-> b.lines, text |-> Longer(b.text, char), half |-> b.half]
    BY <1>5, <1>8, CutFact
  <2>2. cut.lines = acc.lines /\ cut.text = Longer(acc.text, char) /\ cut.half = acc.half
    BY <1>8, CutFact
  <2> HIDE DEF cut
  <2>3. Syslog!Cut(b, char) = Behind(before, cut)
    BY <1>5, <1>6, <2>1, <2>2
  <2>4. QED
    BY <1>3, <2>3 DEF b, cut
<1>9. QED
  BY <1>7, <1>8

\* A byte is read as a character of Chars, after half a character or a whole one.
LEMMA ReadFact ==
  ASSUME NEW acc \in Reads, NEW byte \in Syslog!Bytes, NEW before \in Seq(Seq(Chars))
  PROVE  /\ Syslog!Read(acc, byte) \in Reads
         /\ Syslog!Read(acc, byte).half = (byte = "lead")
         /\ Syslog!Read(Behind(before, acc), byte) = Behind(before, Syslog!Read(acc, byte))
<1> DEFINE Whole(a) == IF a.half /\ byte # "trail" THEN Syslog!Cut(a, "U+FFFD") ELSE a
           Wide2(a) == IF a.half THEN "wide" ELSE "U+FFFD"
           Got(a) == CASE byte = "lead" -> Whole(a)
                       [] byte = "trail" -> Syslog!Cut(Whole(a), Wide2(a))
                       [] OTHER -> Syslog!Cut(Whole(a), byte)
<1>1. \A a \in Reads : Syslog!Read(a, byte) = [Got(a) EXCEPT !.half = byte = "lead"]
  BY DEF Syslog!Read
<1>2. byte \in Chars /\ "wide" \in Chars /\ "U+FFFD" \in Chars
  BY DEF Chars
<1>3. \A a \in Reads : Whole(a) \in Reads /\ Whole(Behind(before, a)) = Behind(before, Whole(a))
  <2>1. \A a \in Reads : /\ Syslog!Cut(a, "U+FFFD") \in Reads
                         /\ Syslog!Cut(Behind(before, a), "U+FFFD")
                              = Behind(before, Syslog!Cut(a, "U+FFFD"))
    BY <1>2, CutFact, CutBehind
  <2>2. \A a \in Reads : Behind(before, a).half = a.half
    BY DEF Behind
  <2>3. QED
    BY <2>1, <2>2
<1>4. \A a \in Reads : Wide2(a) \in Chars /\ Wide2(Behind(before, a)) = Wide2(a)
  BY <1>2 DEF Behind
<1>5. Behind(before, acc) \in Reads
  BY <1>2, CutBehind
<1> DEFINE w == Whole(acc)
           wb == Whole(Behind(before, acc))
<1>6. w \in Reads /\ wb = Behind(before, w) /\ wb \in Reads
  BY <1>3, <1>5
<1> HIDE DEF Whole, Wide2
<1>7. Got(acc) \in Reads /\ Got(Behind(before, acc)) = Behind(before, Got(acc))
  <2>1. ASSUME NEW char \in Chars, Got(acc) = Syslog!Cut(w, char),
               Got(Behind(before, acc)) = Syslog!Cut(wb, char)
        PROVE  Got(acc) \in Reads /\ Got(Behind(before, acc)) = Behind(before, Got(acc))
    <3> HIDE DEF Got, w, wb
    <3>1. Syslog!Cut(w, char) \in Reads
      BY <1>6, CutFact
    <3>2. Syslog!Cut(Behind(before, w), char) = Behind(before, Syslog!Cut(w, char))
      BY <1>6, CutBehind
    <3>3. QED
      BY <1>6, <2>1, <3>1, <3>2
  <2>2. CASE byte = "lead"
    BY <1>6, <2>2
  <2>3. CASE byte = "trail"
    <3>1. /\ Got(acc) = Syslog!Cut(w, Wide2(acc))
          /\ Got(Behind(before, acc)) = Syslog!Cut(wb, Wide2(acc))
      BY <1>4, <2>3
    <3>2. Wide2(acc) \in Chars
      BY <1>4
    <3> HIDE DEF Got, w, wb
    <3>3. QED
      BY <2>1, <3>1, <3>2
  <2>4. CASE byte # "lead" /\ byte # "trail"
    <3>1. /\ Got(acc) = Syslog!Cut(w, byte)
          /\ Got(Behind(before, acc)) = Syslog!Cut(wb, byte)
      BY <2>4
    <3> HIDE DEF Got, w, wb
    <3>2. QED
      BY <1>2, <2>1, <3>1
  <2>5. QED
    BY <2>2, <2>3, <2>4
<1> HIDE DEF Got
<1>8. ASSUME NEW a \in Reads
      PROVE  /\ Syslog!Read(a, byte) = [lines |-> Got(a).lines, text |-> Got(a).text,
                                        half |-> byte = "lead"]
                  \/ Got(a) \notin Reads
  <2>1. SUFFICES ASSUME Got(a) \in Reads
                 PROVE  Syslog!Read(a, byte) = [lines |-> Got(a).lines, text |-> Got(a).text,
                                                half |-> byte = "lead"]
    OBVIOUS
  <2>2. Got(a) = [lines |-> Got(a).lines, text |-> Got(a).text, half |-> Got(a).half]
    BY <2>1 DEF Reads
  <2>3. Syslog!Read(a, byte) = [Got(a) EXCEPT !.half = (byte = "lead")]
    BY <1>1
  <2>4. QED
    BY <2>2, <2>3
<1>9. Got(Behind(before, acc)) \in Reads
  BY <1>7, <1>2, CutBehind
<1>10. /\ Syslog!Read(acc, byte) = [lines |-> Got(acc).lines, text |-> Got(acc).text,
                                   half |-> byte = "lead"]
       /\ Syslog!Read(Behind(before, acc), byte) =
            [lines |-> Joined(before, Got(acc).lines), text |-> Got(acc).text,
             half |-> byte = "lead"]
  <2>1. /\ Got(Behind(before, acc)).lines = Joined(before, Got(acc).lines)
        /\ Got(Behind(before, acc)).text = Got(acc).text
    BY <1>7 DEF Behind
  <2>2. Syslog!Read(acc, byte) = [lines |-> Got(acc).lines, text |-> Got(acc).text,
                                  half |-> byte = "lead"]
    BY <1>7, <1>8
  <2>3. Syslog!Read(Behind(before, acc), byte) =
          [lines |-> Got(Behind(before, acc)).lines, text |-> Got(Behind(before, acc)).text,
           half |-> byte = "lead"]
    BY <1>5, <1>8, <1>9
  <2>4. QED
    BY <2>1, <2>2, <2>3
<1>11. Syslog!Read(acc, byte) \in Reads
  BY <1>7, <1>10 DEF Reads
<1>12. Syslog!Read(acc, byte).half = (byte = "lead")
  BY <1>10
<1>13. QED
  BY <1>10, <1>11, <1>12 DEF Behind

\* A character that is read, and whether the decoder has half a character now.
Halved(acc, half) == [acc EXCEPT !.half = half]

LEMMA CutWhole ==
  ASSUME NEW acc \in Reads, NEW char \in Chars, NEW half
  PROVE  /\ char = "nl" => Halved(Syslog!Cut(acc, char), half) =
              [lines |-> Longer(acc.lines, acc.text), text |-> <<>>, half |-> half]
         /\ char # "nl" => Halved(Syslog!Cut(acc, char), half) =
              [lines |-> acc.lines, text |-> Longer(acc.text, char), half |-> half]
<1> DEFINE cut == Syslog!Cut(acc, char)
<1>1. cut \in Reads
  BY CutFact
<1>2. cut = [lines |-> cut.lines, text |-> cut.text, half |-> cut.half]
  BY <1>1, ReadsFact
<1>3. /\ char = "nl" => cut.lines = Longer(acc.lines, acc.text) /\ cut.text = <<>>
      /\ char # "nl" => cut.lines = acc.lines /\ cut.text = Longer(acc.text, char)
  <2>1. ASSUME char = "nl" PROVE cut.lines = Longer(acc.lines, acc.text) /\ cut.text = <<>>
    BY <2>1, CutFact
  <2>2. ASSUME char # "nl" PROVE cut.lines = acc.lines /\ cut.text = Longer(acc.text, char)
    BY <2>2, CutFact
  <2>3. QED
    BY <2>1, <2>2
<1> HIDE DEF cut
<1>4. [cut EXCEPT !.half = half] = [lines |-> cut.lines, text |-> cut.text, half |-> half]
  BY <1>2
<1>5. /\ char = "nl" => [cut EXCEPT !.half = half] =
              [lines |-> Longer(acc.lines, acc.text), text |-> <<>>, half |-> half]
      /\ char # "nl" => [cut EXCEPT !.half = half] =
              [lines |-> acc.lines, text |-> Longer(acc.text, char), half |-> half]
  BY <1>3, <1>4
<1>6. QED
  BY <1>5, Zenon DEF Halved, cut

\* What a byte makes of the text when half characters are continued.
LEMMA ReadGood ==
  ASSUME NEW acc \in Reads, NEW byte \in Syslog!Bytes, byte = "trail" <=> acc.half
  PROVE  LET read == Syslog!Read(acc, byte) IN
         /\ read.half = (byte = "lead")
         /\ byte = "nl" => read.lines = Longer(acc.lines, acc.text) /\ read.text = <<>>
         /\ byte # "nl" => read.lines = acc.lines
         /\ byte = "lead" => read.text = acc.text
         /\ byte = "trail" => read.text = Longer(acc.text, "wide")
         /\ byte \notin {"nl", "lead", "trail"} => read.text = Longer(acc.text, byte)
<1> DEFINE read == Syslog!Read(acc, byte)
<1>1. byte \in Chars /\ "wide" \in Chars
  BY DEF Chars
<1>2. /\ acc = [lines |-> acc.lines, text |-> acc.text, half |-> acc.half]
      /\ ~(acc.half /\ byte # "trail")
  BY ReadsFact
<1>3. \A char \in Chars :
        /\ char = "nl" => Halved(Syslog!Cut(acc, char), FALSE) =
              [lines |-> Longer(acc.lines, acc.text), text |-> <<>>, half |-> FALSE]
        /\ char # "nl" => Halved(Syslog!Cut(acc, char), FALSE) =
              [lines |-> acc.lines, text |-> Longer(acc.text, char), half |-> FALSE]
  BY CutWhole
<1>4. CASE byte = "lead"
  <2>1. read = [acc EXCEPT !.half = TRUE]
    BY <1>2, <1>4 DEF Syslog!Read
  <2>2. read = [lines |-> acc.lines, text |-> acc.text, half |-> TRUE]
    <3> HIDE DEF read
    <3>1. QED
      BY <1>2, <2>1
  <2>3. read.half = TRUE /\ read.lines = acc.lines /\ read.text = acc.text
    BY <2>2
  <2> HIDE DEF read
  <2>4. QED
    BY <1>4, <2>3 DEF read
<1>5. CASE byte = "trail"
  <2>1. read = Halved(Syslog!Cut(acc, "wide"), FALSE)
    BY <1>2, <1>5 DEF Syslog!Read, Halved
  <2> HIDE DEF read
  <2>2. read = [lines |-> acc.lines, text |-> Longer(acc.text, "wide"), half |-> FALSE]
    BY <1>1, <1>3, <2>1
  <2>3. read.half = FALSE /\ read.lines = acc.lines /\ read.text = Longer(acc.text, "wide")
    BY <2>2
  <2>4. QED
    BY <1>5, <2>3 DEF read
<1>6. CASE byte # "lead" /\ byte # "trail"
  <2>1. read = Halved(Syslog!Cut(acc, byte), FALSE)
    BY <1>2, <1>6 DEF Syslog!Read, Halved
  <2> HIDE DEF read
  <2>2. /\ byte = "nl" => read = [lines |-> Longer(acc.lines, acc.text), text |-> <<>>,
                                  half |-> FALSE]
        /\ byte # "nl" => read = [lines |-> acc.lines, text |-> Longer(acc.text, byte),
                                  half |-> FALSE]
    BY <1>1, <1>3, <2>1
  <2>3. /\ read.half = FALSE
        /\ byte = "nl" => read.lines = Longer(acc.lines, acc.text) /\ read.text = <<>>
        /\ byte # "nl" => read.lines = acc.lines /\ read.text = Longer(acc.text, byte)
    BY <2>2
  <2>4. QED
    BY <1>6, <2>3 DEF read
<1>7. QED
  BY <1>4, <1>5, <1>6

\* What is read of some bytes, byte by byte.
LEMMA ReadByByte ==
  ASSUME NEW text \in Seq(Chars), NEW half \in BOOLEAN, NEW bytes \in Seq(Syslog!Bytes)
  PROVE  /\ Syslog!Reading(text, half, bytes)[0] = [lines |-> <<>>, text |-> text, half |-> half]
         /\ \A i \in 0..Len(bytes) : Syslog!Reading(text, half, bytes)[i] \in Reads
         /\ \A i \in 1..Len(bytes) :
              Syslog!Reading(text, half, bytes)[i] =
                Syslog!Read(Syslog!Reading(text, half, bytes)[i - 1], bytes[i])
<1> DEFINE m == Len(bytes)
           base == [lines |-> <<>>, text |-> text, half |-> half]
           step == [i \in Nat |-> [acc \in Reads |-> IF i \in 1..m THEN Syslog!Read(acc, bytes[i])
                                                     ELSE acc]]
           Takes(f) == f = [i \in 0..m |-> IF i = 0 THEN base ELSE Syslog!Read(f[i - 1], bytes[i])]
<1>1. m \in Nat /\ \A i \in 1..m : bytes[i] \in Syslog!Bytes
  BY ElementOfSeq
<1>2. base \in Reads
  BY DEF Reads
<1> HIDE DEF m, base
<1>3. \A acc \in Reads, i \in 1..m : Syslog!Read(acc, bytes[i]) \in Reads
  <2>1. <<>> \in Seq(Seq(Chars))
    OBVIOUS
  <2>2. QED
    BY <1>1, <2>1, ReadFact
<1>4. step \in [Nat -> [Reads -> Reads]]
  <2>1. ASSUME NEW i \in Nat, NEW acc \in Reads
        PROVE  (IF i \in 1..m THEN Syslog!Read(acc, bytes[i]) ELSE acc) \in Reads
    BY <1>3
  <2>2. QED
    BY <2>1
<1>5. PICK f \in [0..m -> Reads] : StepByStep(f, m, base, step)
  <2> HIDE DEF step
  <2>1. QED
    BY <1>1, <1>2, <1>4, Recursion
<1>6. Takes(f)
  <2>1. \A i \in 1..m : i - 1 \in 0..m /\ i \in Nat /\ f[i - 1] \in Reads
    BY <1>1
  <2>2. \A i \in 1..m : f[i] = Syslog!Read(f[i - 1], bytes[i])
    BY <1>5, <2>1 DEF StepByStep
  <2>3. f[0] = base
    BY <1>5 DEF StepByStep
  <2>4. \A i \in 0..m : f[i] = IF i = 0 THEN base ELSE Syslog!Read(f[i - 1], bytes[i])
    BY <1>1, <2>2, <2>3
  <2>5. f = [i \in 0..m |-> f[i]]
    OBVIOUS
  <2>6. QED
    BY <2>4, <2>5
<1> DEFINE g == Syslog!Reading(text, half, bytes)
<1>7. Takes(g)
  BY <1>6 DEF Syslog!Reading, m, base
<1> HIDE DEF g
<1>8. g[0] = base /\ \A i \in 1..m : g[i] = Syslog!Read(g[i - 1], bytes[i])
  <2>1. 0 \in 0..m /\ \A i \in 1..m : i \in 0..m /\ i # 0
    BY <1>1
  <2>2. QED
    BY <1>7, <2>1
<1> DEFINE Good == {i \in 0..m : g[i] \in Reads}
<1>9. 0 \in Good
  BY <1>1, <1>2, <1>8
<1>10. ASSUME NEW i \in Good, i < m PROVE i + 1 \in Good
  <2>1. i + 1 \in 1..m /\ i + 1 \in 0..m /\ (i + 1) - 1 = i /\ g[i] \in Reads
    BY <1>1, <1>10
  <2>2. g[i + 1] = Syslog!Read(g[i], bytes[i + 1])
    BY <1>8, <2>1
  <2>3. QED
    BY <1>3, <2>1, <2>2
<1>11. \A i \in 0..m : i \in Good
  <2> HIDE DEF Good
  <2>1. Good \in SUBSET Nat
    BY <1>1 DEF Good
  <2>2. QED
    BY <1>1, <1>9, <1>10, <2>1, ByInduction
<1>12. QED
  BY <1>8, <1>11 DEF g, m, base

\* How many bytes a text has, character by character.
LEMMA BytesByChar ==
  ASSUME NEW text \in Seq(Chars)
  PROVE  /\ Syslog!BytesUpTo(text)[0] = 0
         /\ \A i \in 0..Len(text) : Syslog!BytesUpTo(text)[i] \in Nat
         /\ \A i \in 1..Len(text) :
              Syslog!BytesUpTo(text)[i] = Syslog!BytesUpTo(text)[i - 1] + Syslog!Size(text[i])
<1> DEFINE m == Len(text)
           Add(i) == Syslog!Size(text[i])
           step == [i \in Nat |-> [x \in Nat |-> x + Add(i)]]
           Takes(f) == f = [i \in 0..m |-> IF i = 0 THEN 0 ELSE f[i - 1] + Syslog!Size(text[i])]
<1>1. m \in Nat /\ \A i \in Nat : Add(i) \in Nat
  BY DEF Syslog!Size
<1>2. \A i \in Nat : Add(i) = Syslog!Size(text[i])
  OBVIOUS
<1> HIDE DEF Add, m
<1>3. step \in [Nat -> [Nat -> Nat]]
  BY <1>1
<1>4. PICK f \in [0..m -> Nat] : StepByStep(f, m, 0, step)
  <2> HIDE DEF step
  <2>1. 0 \in Nat
    OBVIOUS
  <2>2. QED
    BY <1>1, <1>3, <2>1, Recursion
<1>5. Takes(f)
  <2> HIDE DEF step
  <2>1. \A i \in 1..m : i - 1 \in 0..m /\ i \in Nat /\ f[i - 1] \in Nat
    <3>1. m \in Nat
      BY <1>1
    <3>2. QED
      BY <3>1
  <2> USE DEF step
  <2>2. \A i \in 1..m : f[i] = f[i - 1] + Syslog!Size(text[i])
    BY <1>2, <1>4, <2>1 DEF StepByStep
  <2>3. f[0] = 0
    BY <1>4 DEF StepByStep
  <2>4. \A i \in 0..m : f[i] = IF i = 0 THEN 0 ELSE f[i - 1] + Syslog!Size(text[i])
    BY <1>1, <2>2, <2>3
  <2>5. f = [i \in 0..m |-> f[i]]
    OBVIOUS
  <2>6. QED
    BY <2>4, <2>5
<1> DEFINE g == Syslog!BytesUpTo(text)
<1>6. Takes(g)
  BY <1>5 DEF Syslog!BytesUpTo, m
<1> HIDE DEF g
<1>7. g[0] = 0 /\ \A i \in 1..m : g[i] = g[i - 1] + Add(i)
  <2>1. 0 \in 0..m /\ \A i \in 1..m : i \in 0..m /\ i # 0 /\ i \in Nat
    BY <1>1
  <2>2. QED
    BY <1>2, <1>6, <2>1
<1> DEFINE Good == {i \in 0..m : g[i] \in Nat}
<1>8. 0 \in Good
  <2>1. 0 \in 0..m
    BY <1>1
  <2>2. QED
    BY <1>7, <2>1
<1>9. ASSUME NEW i \in Good, i < m PROVE i + 1 \in Good
  <2>1. i + 1 \in 1..m /\ i + 1 \in 0..m /\ i + 1 \in Nat /\ (i + 1) - 1 = i /\ g[i] \in Nat
    BY <1>1, <1>9
  <2>2. g[i + 1] = g[i] + Add(i + 1) /\ Add(i + 1) \in Nat
    BY <1>1, <1>7, <2>1
  <2>3. QED
    BY <2>1, <2>2
<1>10. \A i \in 0..m : i \in Good
  <2> HIDE DEF Good
  <2>1. Good \in SUBSET Nat
    BY <1>1 DEF Good
  <2>2. QED
    BY <1>1, <1>8, <1>9, <2>1, ByInduction
<1>11. \A i \in 1..m : Add(i) = Syslog!Size(text[i])
  BY <1>1, <1>2
<1>12. QED
  BY <1>7, <1>10, <1>11 DEF g, m

LEMMA ByteLengths ==
  ASSUME NEW text \in Seq(Chars), NEW char \in Chars
  PROVE  /\ Syslog!ByteLength(<<>>) = 0
         /\ Syslog!ByteLength(text) \in Nat
         /\ Syslog!ByteLength(Longer(text, char)) = Syslog!ByteLength(text) + Syslog!Size(char)
<1> DEFINE more == Longer(text, char)
           m == Len(text)
           f == Syslog!BytesUpTo(text)
           g == Syslog!BytesUpTo(more)
<1>1. /\ more \in Seq(Chars) /\ Len(more) = m + 1 /\ m \in Nat
      /\ \A i \in 1..m : more[i] = text[i]
      /\ more[m + 1] = char
  BY LongerFact
<1>2. Syslog!ByteLength(<<>>) = 0
  <2>1. <<>> \in Seq(Chars) /\ Len(<<>>) = 0
    OBVIOUS
  <2>2. Syslog!BytesUpTo(<<>>)[0] = 0
    BY <2>1, BytesByChar
  <2>3. QED
    BY <2>1, <2>2 DEF Syslog!ByteLength
<1>3. /\ f[0] = 0 /\ \A i \in 0..m : f[i] \in Nat
      /\ \A i \in 1..m : f[i] = f[i - 1] + Syslog!Size(text[i])
  BY BytesByChar
<1>4. /\ g[0] = 0 /\ \A i \in 1..(m + 1) : g[i] = g[i - 1] + Syslog!Size(more[i])
  <2> HIDE DEF more, m
  <2>1. g[0] = 0 /\ \A i \in 1..Len(more) : g[i] = g[i - 1] + Syslog!Size(more[i])
    BY <1>1, BytesByChar
  <2>2. QED
    BY <1>1, <2>1
<1> HIDE DEF f, g, more, m
<1> DEFINE Same == {i \in 0..m : g[i] = f[i]}
<1>5. 0 \in Same
  BY <1>1, <1>3, <1>4
<1>6. ASSUME NEW i \in Same, i < m PROVE i + 1 \in Same
  <2>1. i + 1 \in 1..m /\ i + 1 \in 0..m /\ i + 1 \in 1..(m + 1) /\ (i + 1) - 1 = i /\ g[i] = f[i]
    BY <1>1, <1>6
  <2>2. /\ g[i + 1] = g[i] + Syslog!Size(more[i + 1])
        /\ f[i + 1] = f[i] + Syslog!Size(text[i + 1])
        /\ more[i + 1] = text[i + 1]
    BY <1>1, <1>3, <1>4, <2>1
  <2>3. QED
    BY <2>1, <2>2
<1>7. g[m] = f[m]
  <2> HIDE DEF Same
  <2>1. Same \in SUBSET Nat
    BY <1>1 DEF Same
  <2>2. \A i \in 0..m : i \in Same
    BY <1>1, <1>5, <1>6, <2>1, ByInduction
  <2>3. m \in Same
    BY <1>1, <2>2
  <2>4. QED
    BY <2>3 DEF Same
<1>8. g[m + 1] = f[m] + Syslog!Size(char)
  <2>1. m + 1 \in 1..(m + 1) /\ (m + 1) - 1 = m
    BY <1>1
  <2>2. g[m + 1] = g[m] + Syslog!Size(more[m + 1])
    BY <1>4, <2>1
  <2>3. QED
    BY <1>1, <1>7, <2>2
<1>9. Syslog!ByteLength(text) = f[m] /\ f[m] \in Nat
  <2>1. m \in 0..m
    BY <1>1
  <2>2. QED
    BY <1>3, <2>1 DEF Syslog!ByteLength, f, m
<1>10. Syslog!ByteLength(more) = g[m + 1]
  BY <1>1 DEF Syslog!ByteLength, g
<1>11. QED
  BY <1>2, <1>8, <1>9, <1>10 DEF more

\* What has been read after each byte of the log.
Whole(bytes) == Syslog!Reading(<<>>, FALSE, bytes)

LEMMA WholeFact ==
  ASSUME NEW bytes \in Seq(Syslog!Bytes)
  PROVE  /\ Len(bytes) \in Nat
         /\ Whole(bytes)[0] = [lines |-> <<>>, text |-> <<>>, half |-> FALSE]
         /\ \A i \in 0..Len(bytes) : Whole(bytes)[i] \in Reads
         /\ \A i \in 1..Len(bytes) : /\ bytes[i] \in Syslog!Bytes
                                     /\ Whole(bytes)[i] = Syslog!Read(Whole(bytes)[i - 1], bytes[i])
<1>1. <<>> \in Seq(Chars) /\ FALSE \in BOOLEAN
  OBVIOUS
<1>2. \A i \in 1..Len(bytes) : bytes[i] \in Syslog!Bytes
  BY ElementOfSeq
<1>3. Len(bytes) \in Nat
  OBVIOUS
<1>4. /\ Whole(bytes)[0] = [lines |-> <<>>, text |-> <<>>, half |-> FALSE]
      /\ \A i \in 0..Len(bytes) : Whole(bytes)[i] \in Reads
      /\ \A i \in 1..Len(bytes) : Whole(bytes)[i] = Syslog!Read(Whole(bytes)[i - 1], bytes[i])
  BY <1>1, ReadByByte, Zenon DEF Whole
<1>5. QED
  BY <1>2, <1>3, <1>4

\* A stream that starts within the log reads on where an earlier one was.
LEMMA ReadsOn ==
  ASSUME NEW bytes \in Seq(Syslog!Bytes), NEW p \in 0..Len(bytes), NEW n \in 0..(Len(bytes) - p)
  PROVE  LET acc == Whole(bytes)[p]
             chunk == SubSeq(bytes, p + 1, p + n)
         IN /\ Syslog!ReadAll(acc.text, acc.half, chunk) \in Reads
            /\ Whole(bytes)[p + n] = Behind(acc.lines, Syslog!ReadAll(acc.text, acc.half, chunk))
<1> DEFINE acc == Whole(bytes)[p]
           chunk == SubSeq(bytes, p + 1, p + n)
           all == Whole(bytes)
           new == Syslog!Reading(acc.text, acc.half, chunk)
<1>1. /\ Len(bytes) \in Nat /\ p \in Nat /\ n \in Nat /\ p + n <= Len(bytes)
      /\ \A i \in 0..Len(bytes) : all[i] \in Reads
      /\ \A i \in 1..Len(bytes) : /\ bytes[i] \in Syslog!Bytes
                                  /\ all[i] = Syslog!Read(all[i - 1], bytes[i])
  <2>1. Len(bytes) \in Nat
    BY WholeFact
  <2>2. p \in Nat /\ n \in Nat /\ p + n <= Len(bytes)
    BY <2>1
  <2>3. QED
    BY <2>1, <2>2, WholeFact
<1>2. /\ chunk \in Seq(Syslog!Bytes) /\ Len(chunk) = n
      /\ \A i \in 1..n : chunk[i] = bytes[p + i]
  <2>1. p + n \in (p + 1 - 1)..Len(bytes) /\ p + 1 \in 1..(Len(bytes) + 1)
    BY <1>1
  <2>2. chunk \in Seq(Syslog!Bytes)
    <3>1. \A i \in (p + 1)..(p + n) : i \in 1..Len(bytes) /\ bytes[i] \in Syslog!Bytes
      BY <1>1
    <3>2. QED
      BY <1>1, <3>1, SubSeqProperties
  <2>3. Len(chunk) = n /\ \A i \in 1..n : chunk[i] = bytes[p + i]
    BY <1>1, SubSeqProperties
  <2>4. QED
    BY <2>2, <2>3
<1>3. /\ acc \in Reads /\ acc.lines \in Seq(Seq(Chars)) /\ acc.text \in Seq(Chars)
      /\ acc.half \in BOOLEAN
      /\ acc = [lines |-> acc.lines, text |-> acc.text, half |-> acc.half]
  <2>1. acc \in Reads
    BY <1>1
  <2>2. QED
    BY <2>1, ReadsFact
<1> HIDE DEF acc, chunk, all
<1>4. /\ new[0] = [lines |-> <<>>, text |-> acc.text, half |-> acc.half]
      /\ \A i \in 0..n : new[i] \in Reads
      /\ \A i \in 1..n : new[i] = Syslog!Read(new[i - 1], bytes[p + i])
  <2>1. /\ new[0] = [lines |-> <<>>, text |-> acc.text, half |-> acc.half]
        /\ \A i \in 0..Len(chunk) : new[i] \in Reads
        /\ \A i \in 1..Len(chunk) : new[i] = Syslog!Read(new[i - 1], chunk[i])
    BY <1>2, <1>3, ReadByByte
  <2> HIDE DEF new
  <2>2. QED
    BY <1>2, <2>1
<1>5. Syslog!ReadAll(acc.text, acc.half, chunk) = new[n]
  BY <1>2 DEF Syslog!ReadAll
<1> HIDE DEF new
<1> DEFINE Same == {i \in 0..n : all[p + i] = Behind(acc.lines, new[i])}
<1>6. 0 \in Same
  <2>1. Joined(acc.lines, <<>>) = acc.lines
    <3>1. <<>> \in Seq(Seq(Chars)) /\ <<>> \in Seq(Chars)
      OBVIOUS
    <3>2. QED
      BY <1>3, <3>1, JoinedLonger
  <2>2. Behind(acc.lines, new[0]) = [lines |-> acc.lines, text |-> acc.text, half |-> acc.half]
    BY <1>4, <2>1 DEF Behind
  <2>3. 0 \in 0..n /\ p + 0 = p
    BY <1>1
  <2>4. all[p + 0] = acc
    BY <2>3 DEF all, acc
  <2>5. QED
    BY <1>3, <2>2, <2>3, <2>4
<1>7. ASSUME NEW i \in Same, i < n PROVE i + 1 \in Same
  <2>1. i + 1 \in 1..n /\ i + 1 \in 0..n /\ i \in 0..n /\ (i + 1) - 1 = i
    BY <1>1, <1>7
  <2>2. p + (i + 1) \in 1..Len(bytes) /\ p + (i + 1) - 1 = p + i
    BY <1>1, <2>1
  <2>3. all[p + (i + 1)] = Syslog!Read(all[p + i], bytes[p + (i + 1)])
    BY <1>1, <2>2
  <2>4. new[i + 1] = Syslog!Read(new[i], bytes[p + (i + 1)])
    BY <1>4, <2>1
  <2>5. all[p + i] = Behind(acc.lines, new[i])
    OBVIOUS
  <2>6. new[i] \in Reads /\ bytes[p + (i + 1)] \in Syslog!Bytes
    BY <1>1, <1>4, <2>1, <2>2
  <2> HIDE DEF Same
  <2>7. Syslog!Read(Behind(acc.lines, new[i]), bytes[p + (i + 1)])
          = Behind(acc.lines, Syslog!Read(new[i], bytes[p + (i + 1)]))
    BY <1>3, <2>6, ReadFact
  <2>8. all[p + (i + 1)] = Behind(acc.lines, new[i + 1])
    BY <2>3, <2>4, <2>5, <2>7
  <2>9. QED
    BY <2>1, <2>8 DEF Same
<1>8. n \in Same
  <2> HIDE DEF Same
  <2>1. Same \in SUBSET Nat
    BY <1>1 DEF Same
  <2>2. \A i \in 0..n : i \in Same
    BY <1>1, <1>6, <1>7, <2>1, ByInduction
  <2>3. QED
    BY <1>1, <2>2
<1>9. all[p + n] = Behind(acc.lines, new[n]) /\ new[n] \in Reads
  BY <1>1, <1>4, <1>8
<1>10. QED
  BY <1>5, <1>9 DEF all, acc, chunk

\* A log that has grown reads as it did.
LEMMA LongerLog ==
  ASSUME NEW bytes \in Seq(Syslog!Bytes), NEW byte \in Syslog!Bytes
  PROVE  \A i \in 0..Len(bytes) : Whole(Append(bytes, byte))[i] = Whole(bytes)[i]
<1> DEFINE more == Longer(bytes, byte)
           m == Len(bytes)
           f == Whole(bytes)
           g == Whole(more)
<1>1. /\ more \in Seq(Syslog!Bytes) /\ Len(more) = m + 1 /\ m \in Nat
      /\ \A i \in 1..m : more[i] = bytes[i]
  BY LongerFact
<1>2. /\ f[0] = [lines |-> <<>>, text |-> <<>>, half |-> FALSE]
      /\ \A i \in 1..m : f[i] = Syslog!Read(f[i - 1], bytes[i])
  BY WholeFact
<1>3. /\ g[0] = [lines |-> <<>>, text |-> <<>>, half |-> FALSE]
      /\ \A i \in 1..(m + 1) : g[i] = Syslog!Read(g[i - 1], more[i])
  <2> HIDE DEF more, m
  <2>1. /\ g[0] = [lines |-> <<>>, text |-> <<>>, half |-> FALSE]
        /\ \A i \in 1..Len(more) : g[i] = Syslog!Read(g[i - 1], more[i])
    BY <1>1, WholeFact
  <2>2. QED
    BY <1>1, <2>1
<1> HIDE DEF f, g, more, m
<1> DEFINE Same == {i \in 0..m : g[i] = f[i]}
<1>4. 0 \in Same
  BY <1>1, <1>2, <1>3
<1>5. ASSUME NEW i \in Same, i < m PROVE i + 1 \in Same
  <2>1. /\ i + 1 \in 1..m /\ i + 1 \in 0..m /\ i + 1 \in 1..(m + 1) /\ (i + 1) - 1 = i
        /\ g[i] = f[i]
    BY <1>1, <1>5
  <2>2. g[i + 1] = Syslog!Read(g[i], more[i + 1])
    BY <1>3, <2>1
  <2>3. f[i + 1] = Syslog!Read(f[i], bytes[i + 1])
    BY <1>2, <2>1
  <2>4. g[i + 1] = f[i + 1]
    BY <1>1, <2>1, <2>2, <2>3
  <2>5. QED
    BY <2>1, <2>4
<1>6. \A i \in 0..m : i \in Same
  <2> HIDE DEF Same
  <2>1. Same \in SUBSET Nat
    BY <1>1 DEF Same
  <2>2. QED
    BY <1>1, <1>4, <1>5, <2>1, ByInduction
<1>7. \A i \in 0..m : g[i] = f[i]
  BY <1>6
<1>8. QED
  BY <1>7 DEF f, g, more, m, Longer

\* The lines that are complete stay, in their places.
Begins(s, t) == Len(s) <= Len(t) /\ \A i \in 1..Len(s) : t[i] = s[i]

LEMMA JoinedBegins ==
  ASSUME NEW S, NEW s \in Seq(S), NEW t \in Seq(S)
  PROVE  Begins(s, Joined(s, t))
<1>1. /\ Len(Joined(s, t)) = Len(s) + Len(t) /\ Len(s) \in Nat /\ Len(t) \in Nat
      /\ \A i \in 1..Len(s) : Joined(s, t)[i] = s[i]
  BY JoinedFact
<1>2. Len(s) <= Len(Joined(s, t))
  BY <1>1
<1>3. QED
  BY <1>1, <1>2 DEF Begins

LEMMA LinesGrow ==
  ASSUME NEW bytes \in Seq(Syslog!Bytes), NEW m \in 0..Len(bytes), NEW n \in m..Len(bytes)
  PROVE  Begins(Whole(bytes)[m].lines, Whole(bytes)[n].lines)
<1> DEFINE acc == Whole(bytes)[m]
           k == n - m
           new == Syslog!ReadAll(acc.text, acc.half, SubSeq(bytes, m + 1, m + k))
<1>1. Len(bytes) \in Nat /\ acc \in Reads
  BY WholeFact
<1>2. k \in 0..(Len(bytes) - m) /\ m + k = n
  BY <1>1
<1>3. new \in Reads /\ Whole(bytes)[m + k] = Behind(acc.lines, new)
  <2> HIDE DEF k
  <2>1. QED
    BY <1>2, ReadsOn
<1>4. acc.lines \in Seq(Seq(Chars)) /\ new.lines \in Seq(Seq(Chars))
  <2> HIDE DEF acc, new
  <2>1. QED
    BY <1>1, <1>3, ReadsFact
<1> HIDE DEF acc, new, k
<1>5. Whole(bytes)[n].lines = Joined(acc.lines, new.lines)
  BY <1>2, <1>3 DEF Behind
<1>6. Begins(acc.lines, Joined(acc.lines, new.lines))
  BY <1>4, JoinedBegins
<1>7. QED
  BY <1>5, <1>6 DEF acc

\* Every last byte of a character follows its first, and every first but one
\* at the end is followed by the last.
Continued(bytes) ==
  \A i \in 1..Len(bytes) : bytes[i] = "trail" <=> (i > 1 /\ bytes[i - 1] = "lead")

\* How many bytes of the log an unfinished line takes.
Unfinished(acc) == Syslog!ByteLength(acc.text) + IF acc.half THEN 1 ELSE 0

LEMMA HalfRead ==
  ASSUME NEW bytes \in Seq(Syslog!Bytes), NEW i \in 0..Len(bytes)
  PROVE  Whole(bytes)[i].half = (i > 0 /\ bytes[i] = "lead")
<1>1. CASE i = 0
  <2>1. Whole(bytes)[0] = [lines |-> <<>>, text |-> <<>>, half |-> FALSE]
    BY WholeFact
  <2>2. ~Whole(bytes)[0].half /\ Whole(bytes)[0].half \in BOOLEAN
    BY <2>1
  <2>3. QED
    BY <1>1, <2>2
<1>2. CASE i # 0
  <2>1. /\ i \in 1..Len(bytes) /\ i - 1 \in 0..Len(bytes)
        /\ Whole(bytes)[i - 1] \in Reads /\ bytes[i] \in Syslog!Bytes
        /\ Whole(bytes)[i] = Syslog!Read(Whole(bytes)[i - 1], bytes[i])
    <3>1. Len(bytes) \in Nat
      BY WholeFact
    <3>2. i \in 1..Len(bytes) /\ i - 1 \in 0..Len(bytes)
      BY <1>2, <3>1
    <3>3. QED
      BY <3>2, WholeFact
  <2>2. <<>> \in Seq(Seq(Chars))
    OBVIOUS
  <2>3. Whole(bytes)[i].half = (bytes[i] = "lead")
    <3> DEFINE acc == Whole(bytes)[i - 1]
               byte == bytes[i]
    <3>1. acc \in Reads /\ byte \in Syslog!Bytes
      BY <2>1
    <3> HIDE DEF acc, byte
    <3>2. Syslog!Read(acc, byte).half = (byte = "lead")
      BY <2>2, <3>1, ReadFact
    <3>3. QED
      BY <2>1, <3>2 DEF acc, byte
  <2>4. i > 0
    BY <1>2
  <2>5. QED
    BY <2>3, <2>4
<1>3. QED
  BY <1>1, <1>2

\* The unfinished line starts where the complete ones end.
LEMMA LineStart ==
  ASSUME NEW bytes \in Seq(Syslog!Bytes), Continued(bytes)
  PROVE  \A n \in 0..Len(bytes) :
           /\ Unfinished(Whole(bytes)[n]) \in 0..n
           /\ Whole(bytes)[n - Unfinished(Whole(bytes)[n])] =
                [lines |-> Whole(bytes)[n].lines, text |-> <<>>, half |-> FALSE]
<1> DEFINE m == Len(bytes)
           f == Whole(bytes)
           Back(n) == Unfinished(f[n])
           Starts(n) == Back(n) \in 0..n
                        /\ f[n - Back(n)] = [lines |-> f[n].lines, text |-> <<>>, half |-> FALSE]
           Good == {n \in 0..m : Starts(n)}
<1>1. /\ m \in Nat
      /\ f[0] = [lines |-> <<>>, text |-> <<>>, half |-> FALSE]
      /\ \A i \in 0..m : f[i] \in Reads
      /\ \A i \in 1..m : bytes[i] \in Syslog!Bytes /\ f[i] = Syslog!Read(f[i - 1], bytes[i])
  BY WholeFact
<1>2. \A i \in 0..m : f[i].half = (i > 0 /\ bytes[i] = "lead")
  BY HalfRead
<1>3. \A i \in 1..m : bytes[i] = "trail" <=> (i > 1 /\ bytes[i - 1] = "lead")
  BY DEF Continued
<1>4. Syslog!ByteLength(<<>>) = 0
  <2>1. <<>> \in Seq(Chars) /\ "nl" \in Chars
    BY DEF Chars, Syslog!Bytes
  <2>2. QED
    BY <2>1, ByteLengths
<1> HIDE DEF m, f
<1>5. 0 \in Good
  <2>1. Back(0) = 0
    BY <1>1, <1>4 DEF Unfinished
  <2>2. 0 \in 0..m
    BY <1>1
  <2> HIDE DEF Back
  <2>3. Starts(0)
    BY <1>1, <2>1
  <2>4. QED
    BY <2>2, <2>3
<1>6. ASSUME NEW n \in Good, n < m PROVE n + 1 \in Good
  <2> DEFINE acc == f[n]
             byte == bytes[n + 1]
             new == f[n + 1]
  <2>1. n + 1 \in 1..m /\ n + 1 \in 0..m /\ n \in 0..m /\ (n + 1) - 1 = n /\ n \in Nat
    BY <1>1, <1>6
  <2>2. /\ acc \in Reads /\ byte \in Syslog!Bytes /\ new = Syslog!Read(acc, byte)
    BY <1>1, <2>1
  <2>3. Starts(n)
    BY <1>6
  <2>4. byte = "trail" <=> acc.half
    <3>1. byte = "trail" <=> (n + 1 > 1 /\ bytes[n] = "lead")
      BY <1>3, <2>1
    <3>2. acc.half = (n > 0 /\ bytes[n] = "lead")
      BY <1>2, <2>1
    <3>3. n + 1 > 1 <=> n > 0
      BY <2>1
    <3>4. QED
      BY <3>1, <3>2, <3>3
  <2>5. /\ new.half = (byte = "lead")
        /\ byte = "nl" => new.lines = Longer(acc.lines, acc.text) /\ new.text = <<>>
        /\ byte # "nl" => new.lines = acc.lines
        /\ byte = "lead" => new.text = acc.text
        /\ byte = "trail" => new.text = Longer(acc.text, "wide")
        /\ byte \notin {"nl", "lead", "trail"} => new.text = Longer(acc.text, byte)
    BY <2>2, <2>4, ReadGood
  <2>6. /\ acc.text \in Seq(Chars) /\ Syslog!ByteLength(acc.text) \in Nat
        /\ Syslog!ByteLength(Longer(acc.text, "wide")) = Syslog!ByteLength(acc.text) + 2
        /\ byte \notin {"nl", "lead", "trail"} =>
             Syslog!ByteLength(Longer(acc.text, byte)) = Syslog!ByteLength(acc.text) + 1
    <3>1. acc.text \in Seq(Chars)
      BY <2>2, ReadsFact
    <3>2. "wide" \in Chars /\ byte \in Chars
      BY <2>2 DEF Chars
    <3>3. Syslog!Size("wide") = 2
      BY DEF Syslog!Size
    <3>4. byte \notin {"nl", "lead", "trail"} => Syslog!Size(byte) = 1
      BY <2>2, ToolsAssumption DEF Syslog!Size, Syslog!Bytes
    <3> HIDE DEF acc, byte
    <3>5. Syslog!ByteLength(acc.text) \in Nat
      BY <3>1, <3>2, ByteLengths
    <3>6. Syslog!ByteLength(Longer(acc.text, "wide")) = Syslog!ByteLength(acc.text) + 2
      BY <3>1, <3>2, <3>3, ByteLengths
    <3>7. ASSUME byte \notin {"nl", "lead", "trail"}
          PROVE  Syslog!ByteLength(Longer(acc.text, byte)) = Syslog!ByteLength(acc.text) + 1
      BY <3>1, <3>2, <3>4, <3>7, ByteLengths
    <3>8. QED
      BY <3>1, <3>5, <3>6, <3>7
  <2> HIDE DEF acc, byte, new
  <2>7. Back(n) = Syslog!ByteLength(acc.text) + (IF acc.half THEN 1 ELSE 0)
    BY DEF Unfinished, acc
  <2>8. Back(n + 1) = Syslog!ByteLength(new.text) + (IF new.half THEN 1 ELSE 0)
    BY DEF Unfinished, new
  <2> HIDE DEF Back
  <2>9. CASE byte = "nl"
    <3>1. Back(n + 1) = 0 /\ ~new.half
      <4>1. ~new.half /\ new.text = <<>>
        BY <2>5, <2>9
      <4>2. QED
        BY <1>4, <2>8, <4>1
    <3>2. new \in Reads
      BY <1>1, <2>1 DEF new
    <3>3. new = [lines |-> new.lines, text |-> <<>>, half |-> FALSE]
      <4>1. new = [lines |-> new.lines, text |-> new.text, half |-> new.half]
        BY <3>2, ReadsFact
      <4>2. new.text = <<>> /\ new.half = FALSE
        BY <2>5, <2>9, <3>1
      <4>3. QED
        BY <4>1, <4>2
    <3>4. (n + 1) - Back(n + 1) = n + 1 /\ Back(n + 1) \in 0..(n + 1)
      BY <2>1, <3>1
    <3>5. Starts(n + 1)
      BY <3>3, <3>4 DEF new
    <3>6. QED
      BY <2>1, <3>5
  <2>10. CASE byte # "nl"
    <3>1. Back(n + 1) = Back(n) + 1
      <4>1. CASE byte = "lead"
        <5>1. new.half /\ ~acc.half /\ new.text = acc.text
          BY <2>4, <2>5, <4>1
        <5>2. QED
          BY <2>6, <2>7, <2>8, <5>1
      <4>2. CASE byte = "trail"
        <5>1. ~new.half /\ acc.half /\ new.text = Longer(acc.text, "wide")
          BY <2>4, <2>5, <4>2
        <5>2. QED
          BY <2>6, <2>7, <2>8, <5>1
      <4>3. CASE byte # "lead" /\ byte # "trail"
        <5>1. ~new.half /\ ~acc.half /\ new.text = Longer(acc.text, byte)
          BY <2>4, <2>5, <2>10, <4>3
        <5>2. QED
          BY <2>6, <2>7, <2>8, <2>10, <4>3, <5>1
      <4>4. QED
        BY <4>1, <4>2, <4>3
    <3>2. Back(n) \in 0..n /\ f[n - Back(n)] = [lines |-> acc.lines, text |-> <<>>, half |-> FALSE]
      BY <2>3 DEF acc
    <3>3. (n + 1) - Back(n + 1) = n - Back(n) /\ Back(n + 1) \in 0..(n + 1)
      BY <2>1, <3>1, <3>2
    <3>4. new.lines = acc.lines
      BY <2>5, <2>10
    <3>5. Starts(n + 1)
      BY <3>2, <3>3, <3>4 DEF new
    <3>6. QED
      BY <2>1, <3>5
  <2>11. QED
    BY <2>9, <2>10
<1>7. \A n \in 0..m : n \in Good
  <2> HIDE DEF Good
  <2>1. Good \in SUBSET Nat
    BY <1>1 DEF Good
  <2>2. QED
    BY <1>1, <1>5, <1>6, <2>1, ByInduction
<1>8. \A n \in 0..m : Starts(n)
  BY <1>7
<1>9. QED
  BY <1>8 DEF f, m

LEMMA ReadAllFact ==
  ASSUME NEW text \in Seq(Chars), NEW half \in BOOLEAN, NEW bytes \in Seq(Syslog!Bytes)
  PROVE  Syslog!ReadAll(text, half, bytes) \in Reads
<1>1. Len(bytes) \in 0..Len(bytes)
  OBVIOUS
<1>2. \A i \in 0..Len(bytes) : Syslog!Reading(text, half, bytes)[i] \in Reads
  BY ReadByByte
<1>3. QED
  BY <1>1, <1>2 DEF Syslog!ReadAll

\* What the numbers of the lines stand for: those of a message, of an entry and
\* of what was copied.
MessageIn(msg, lines) ==
  /\ msg.from + Len(msg.lines) <= Len(lines)
  /\ \A i \in 1..Len(msg.lines) : lines[msg.from + i] = msg.lines[i]
EntryIn(k, line, lines) == k \in 1..Len(lines) /\ lines[k] = line
CopiedIn(line, lines) == \E k \in 1..Len(lines) : lines[k] = line

LEMMA LinesStay ==
  ASSUME NEW s \in Seq(Seq(Chars)), NEW t \in Seq(Seq(Chars)), Begins(s, t)
  PROVE  /\ \A msg \in [from : Nat, lines : Seq(Seq(Chars))] :
              MessageIn(msg, s) => MessageIn(msg, t)
         /\ \A k, line : EntryIn(k, line, s) => EntryIn(k, line, t)
         /\ \A line : CopiedIn(line, s) => CopiedIn(line, t)
<1>1. /\ Len(s) \in Nat /\ Len(t) \in Nat /\ Len(s) <= Len(t)
      /\ \A i \in 1..Len(s) : i \in 1..Len(t) /\ t[i] = s[i]
  <2>1. Len(s) \in Nat /\ Len(t) \in Nat
    OBVIOUS
  <2>2. Len(s) <= Len(t) /\ \A i \in 1..Len(s) : t[i] = s[i]
    BY DEF Begins
  <2>3. QED
    BY <2>1, <2>2
<1>2. ASSUME NEW msg \in [from : Nat, lines : Seq(Seq(Chars))], MessageIn(msg, s)
      PROVE  MessageIn(msg, t)
  <2>1. msg.from \in Nat /\ Len(msg.lines) \in Nat
    OBVIOUS
  <2>2. /\ msg.from + Len(msg.lines) <= Len(s)
        /\ \A i \in 1..Len(msg.lines) : s[msg.from + i] = msg.lines[i]
    BY <1>2 DEF MessageIn
  <2>3. \A i \in 1..Len(msg.lines) : msg.from + i \in 1..Len(s)
    <3> DEFINE from == msg.from
               m == Len(msg.lines)
               n == Len(s)
    <3>1. from \in Nat /\ m \in Nat /\ n \in Nat /\ from + m <= n
      BY <1>1, <2>1, <2>2
    <3> HIDE DEF from, m, n
    <3>2. \A i \in 1..m : from + i \in 1..n
      BY <3>1
    <3>3. QED
      BY <3>2 DEF from, m, n
  <2>4. msg.from + Len(msg.lines) <= Len(t)
    <3> DEFINE last == msg.from + Len(msg.lines)
    <3>1. last <= Len(s) /\ last \in Nat
      BY <2>1, <2>2
    <3> HIDE DEF last
    <3>2. last <= Len(t)
      BY <1>1, <3>1
    <3>3. QED
      BY <3>2 DEF last
  <2>5. \A i \in 1..Len(msg.lines) : t[msg.from + i] = msg.lines[i]
    BY <1>1, <2>2, <2>3
  <2>6. QED
    BY <2>4, <2>5 DEF MessageIn
<1>3. \A k, line : EntryIn(k, line, s) => EntryIn(k, line, t)
  BY <1>1 DEF EntryIn
<1>4. \A line : CopiedIn(line, s) => CopiedIn(line, t)
  BY <1>1 DEF CopiedIn
<1>5. QED
  BY <1>2, <1>3, <1>4

\* The panel has read the log up to a byte, and posted the lines up to it.
ReadTo(bytes, p, text, half, count) ==
  /\ p \in 0..Len(bytes)
  /\ Whole(bytes)[p].text = text
  /\ Whole(bytes)[p].half <=> half
  /\ Len(Whole(bytes)[p].lines) = count

LogLines(bytes) == Whole(bytes)[Len(bytes)].lines

\* The stream, the messages, the entries and the clipboard, as long as no read
\* has ended within a character.
ReadRight ==
  IF stream.open THEN ReadTo(file, stream.pos, stream.text, stream.half, readLine)
                 ELSE ReadTo(file, readByte, <<>>, FALSE, readLine)
ShownRight ==
  /\ \A i \in 1..Len(inbox) : MessageIn(inbox[i], LogLines(file))
  /\ \A k \in DOMAIN entries : EntryIn(k, entries[k], LogLines(file))
  /\ \A i \in DOMAIN clipboard : CopiedIn(clipboard[i], LogLines(file))

SyslogTypes ==
  /\ file \in Seq(Syslog!Bytes) /\ Continued(file)
  /\ stream \in [pos : Int, text : Seq(Chars), half : BOOLEAN, open : BOOLEAN]
  /\ readByte \in Int /\ readLine \in Nat
  /\ inbox \in Seq([from : Nat, lines : Seq(Seq(Chars))])
  /\ halved \in BOOLEAN
  /\ Len(clipboard) <= CopyMax

SyslogIInv == SyslogTypes /\ (~halved => ReadRight /\ ShownRight)

LEMMA LogLinesFact ==
  ASSUME NEW bytes \in Seq(Syslog!Bytes)
  PROVE  /\ LogLines(bytes) \in Seq(Seq(Chars))
         /\ Syslog!ReadAll(<<>>, FALSE, bytes).lines = LogLines(bytes)
<1>1. Len(bytes) \in 0..Len(bytes)
  OBVIOUS
<1>2. Whole(bytes)[Len(bytes)] \in Reads
  BY <1>1, WholeFact
<1>3. Whole(bytes)[Len(bytes)].lines \in Seq(Seq(Chars))
  BY <1>2, ReadsFact
<1>4. QED
  BY <1>3 DEF LogLines, Syslog!ReadAll, Whole

LEMMA SyslogShows == SyslogIInv => Syslog!ShownIsLogged
<1> SUFFICES ASSUME SyslogIInv PROVE Syslog!ShownIsLogged
  OBVIOUS
<1>1. Len(clipboard) <= CopyMax /\ file \in Seq(Syslog!Bytes)
  BY DEF SyslogIInv, SyslogTypes
<1>2. Syslog!Log = LogLines(file) /\ LogLines(file) \in Seq(Seq(Chars))
  BY <1>1, LogLinesFact DEF Syslog!Log
<1>3. ASSUME ~halved
      PROVE  /\ \A k \in DOMAIN entries : k <= Len(Syslog!Log) /\ entries[k] = Syslog!Log[k]
             /\ Syslog!Range(clipboard) \subseteq Syslog!Range(Syslog!Log)
  <2>1. ShownRight
    BY <1>3 DEF SyslogIInv
  <2>2. \A k \in DOMAIN entries : k <= Len(Syslog!Log) /\ entries[k] = Syslog!Log[k]
    <3>1. \A k \in DOMAIN entries : k \in 1..Len(Syslog!Log) /\ Syslog!Log[k] = entries[k]
      BY <1>2, <2>1 DEF ShownRight, EntryIn
    <3>2. Len(Syslog!Log) \in Nat
      BY <1>2
    <3>3. QED
      BY <3>1, <3>2
  <2>3. \A i \in DOMAIN clipboard : \E k \in DOMAIN Syslog!Log : Syslog!Log[k] = clipboard[i]
    <3>1. DOMAIN Syslog!Log = 1..Len(Syslog!Log)
      BY <1>2
    <3>2. \A i \in DOMAIN clipboard : CopiedIn(clipboard[i], Syslog!Log)
      BY <1>2, <2>1 DEF ShownRight
    <3>3. QED
      BY <3>1, <3>2 DEF CopiedIn
  <2>4. Syslog!Range(clipboard) \subseteq Syslog!Range(Syslog!Log)
    BY <2>3 DEF Syslog!Range
  <2>5. QED
    BY <2>2, <2>4
<1>4. QED
  BY <1>1, <1>3 DEF Syslog!ShownIsLogged

LEMMA SyslogInit == Syslog!Init => SyslogIInv
<1> SUFFICES ASSUME Syslog!Init PROVE SyslogIInv
  OBVIOUS
<1>1. /\ file = <<>> /\ readByte = 0 /\ readLine = 0 /\ stream = Syslog!NoStream
      /\ inbox = <<>> /\ entries = <<>> /\ clipboard = <<>> /\ halved = FALSE
  BY DEF Syslog!Init, Syslog!Initially
<1>2. SyslogTypes
  <2>1. file \in Seq(Syslog!Bytes) /\ Continued(file) /\ readByte \in Int /\ readLine \in Nat
    BY <1>1 DEF Continued
  <2>2. stream \in [pos : Int, text : Seq(Chars), half : BOOLEAN, open : BOOLEAN]
    BY <1>1 DEF Syslog!NoStream
  <2>3. inbox \in Seq([from : Nat, lines : Seq(Seq(Chars))])
    BY <1>1
  <2>4. halved \in BOOLEAN
    BY <1>1
  <2>5. Len(clipboard) <= CopyMax
    <3>1. Len(clipboard) = 0
      BY <1>1
    <3>2. QED
      BY <3>1, ToolsAssumption
  <2>6. QED
    BY <2>1, <2>2, <2>3, <2>4, <2>5 DEF SyslogTypes
<1>3. ReadRight
  <2>1. ~stream.open
    BY <1>1 DEF Syslog!NoStream
  <2>2. <<>> \in Seq(Syslog!Bytes) /\ Len(<<>>) = 0
    OBVIOUS
  <2>3. Whole(<<>>)[0] = [lines |-> <<>>, text |-> <<>>, half |-> FALSE]
    BY <2>2, WholeFact
  <2>4. ReadTo(<<>>, 0, <<>>, FALSE, 0)
    BY <2>2, <2>3 DEF ReadTo
  <2>5. QED
    BY <1>1, <2>1, <2>4 DEF ReadRight
<1>4. ShownRight
  <2>1. DOMAIN inbox = {} /\ DOMAIN entries = {} /\ DOMAIN clipboard = {} /\ Len(inbox) = 0
    BY <1>1
  <2>2. QED
    BY <2>1 DEF ShownRight
<1>5. QED
  BY <1>2, <1>3, <1>4 DEF SyslogIInv

\* What neither reads nor shows.
LEMMA SyslogStays ==
  ASSUME SyslogIInv,
         UNCHANGED <<file, readByte, readLine, stream, inbox, entries, clipboard, halved>>
  PROVE  SyslogIInv'
BY DEF SyslogIInv, SyslogTypes, ReadRight, ShownRight

LEMMA SyslogLogged ==
  ASSUME SyslogIInv, NEW byte \in Syslog!Bytes, Syslog!Logged(byte)
  PROVE  SyslogIInv'
<1> DEFINE more == Longer(file, byte)
           m == Len(file)
<1>1. /\ file' = more
      /\ byte = "trail" <=> (file # <<>> /\ Syslog!Last(file) = "lead")
      /\ UNCHANGED <<readByte, readLine, stream, inbox, entries, clipboard, halved>>
  BY DEF Syslog!Logged, Syslog!panel, Syslog!webview, Longer
<1>2. /\ file \in Seq(Syslog!Bytes) /\ Continued(file) /\ SyslogTypes
  BY DEF SyslogIInv, SyslogTypes
<1>3. /\ more \in Seq(Syslog!Bytes) /\ Len(more) = m + 1 /\ m \in Nat
      /\ \A i \in 1..m : more[i] = file[i]
      /\ more[m + 1] = byte
  BY <1>2, LongerFact
<1>4. \A i \in 0..m : Whole(more)[i] = Whole(file)[i]
  BY <1>2, LongerLog DEF Longer
<1>5. byte = "trail" <=> (m > 0 /\ file[m] = "lead")
  <2>1. file # <<>> <=> m > 0
    BY <1>2
  <2>2. Syslog!Last(file) = file[m]
    BY DEF Syslog!Last
  <2>3. QED
    BY <1>1, <2>1, <2>2
<1> HIDE DEF more, m
<1>6. Continued(more)
  <2>1. \A i \in 1..m : file[i] = "trail" <=> (i > 1 /\ file[i - 1] = "lead")
    BY <1>2 DEF Continued, m
  <2>2. ASSUME NEW i \in 1..(m + 1) PROVE more[i] = "trail" <=> (i > 1 /\ more[i - 1] = "lead")
    <3>1. CASE i = m + 1
      <4>1. m > 0 <=> i > 1
        BY <1>3, <3>1
      <4>2. i > 1 => more[i - 1] = file[m]
        BY <1>3, <3>1
      <4>3. more[i] = byte
        BY <1>3, <3>1
      <4>4. QED
        BY <1>5, <4>1, <4>2, <4>3
    <3>2. CASE i # m + 1
      <4>1. i \in 1..m /\ (i > 1 => i - 1 \in 1..m)
        BY <1>3, <3>2
      <4>2. more[i] = file[i] /\ (i > 1 => more[i - 1] = file[i - 1])
        BY <1>3, <4>1
      <4>3. QED
        BY <2>1, <4>1, <4>2
    <3>3. QED
      BY <3>1, <3>2
  <2>3. QED
    BY <1>3, <2>2 DEF Continued
<1>7. SyslogTypes'
  BY <1>1, <1>2, <1>3, <1>6 DEF SyslogTypes
<1>8. ASSUME ~halved PROVE ReadRight' /\ ShownRight'
  <2>1. ReadRight /\ ShownRight
    BY <1>8 DEF SyslogIInv
  <2>2. ASSUME NEW p, NEW text, NEW half, NEW count, ReadTo(file, p, text, half, count)
        PROVE  ReadTo(more, p, text, half, count)
    <3>1. /\ p \in 0..m
          /\ Whole(file)[p].text = text
          /\ Whole(file)[p].half <=> half
          /\ Len(Whole(file)[p].lines) = count
      BY <2>2 DEF ReadTo, m
    <3>2. p \in 0..Len(more)
      BY <1>3, <3>1
    <3>3. Whole(more)[p] = Whole(file)[p]
      BY <1>4, <3>1
    <3>4. QED
      BY <3>1, <3>2, <3>3 DEF ReadTo
  <2>3. ReadRight'
    <3>1. CASE stream.open
      BY <1>1, <2>1, <2>2, <3>1 DEF ReadRight
    <3>2. CASE ~stream.open
      BY <1>1, <2>1, <2>2, <3>2 DEF ReadRight
    <3>3. QED
      BY <3>1, <3>2
  <2>4. Begins(LogLines(file), LogLines(more))
    <3>1. m \in 0..Len(more) /\ Len(more) \in m..Len(more) /\ m \in 0..m
      BY <1>3
    <3>2. Begins(Whole(more)[m].lines, Whole(more)[Len(more)].lines)
      BY <1>3, <3>1, LinesGrow
    <3>3. Whole(more)[m] = Whole(file)[m]
      BY <1>4, <3>1
    <3>4. QED
      BY <3>2, <3>3 DEF LogLines, m
  <2>5. LogLines(file) \in Seq(Seq(Chars)) /\ LogLines(more) \in Seq(Seq(Chars))
    BY <1>2, <1>3, LogLinesFact
  <2>6. ShownRight'
    <3>1. /\ \A msg \in [from : Nat, lines : Seq(Seq(Chars))] :
               MessageIn(msg, LogLines(file)) => MessageIn(msg, LogLines(more))
          /\ \A k, line : EntryIn(k, line, LogLines(file)) => EntryIn(k, line, LogLines(more))
          /\ \A line : CopiedIn(line, LogLines(file)) => CopiedIn(line, LogLines(more))
      BY <2>4, <2>5, LinesStay
    <3>2. \A i \in 1..Len(inbox) : inbox[i] \in [from : Nat, lines : Seq(Seq(Chars))]
      BY <1>2, ElementOfSeq DEF SyslogTypes
    <3>3. /\ \A i \in 1..Len(inbox) : MessageIn(inbox[i], LogLines(more))
          /\ \A k \in DOMAIN entries : EntryIn(k, entries[k], LogLines(more))
          /\ \A i \in DOMAIN clipboard : CopiedIn(clipboard[i], LogLines(more))
      BY <2>1, <3>1, <3>2 DEF ShownRight
    <3>4. LogLines(file)' = LogLines(more)
      BY <1>1 DEF LogLines
    <3>5. QED
      BY <1>1, <3>3, <3>4 DEF ShownRight
  <2>7. QED
    BY <2>3, <2>6
<1>9. QED
  BY <1>1, <1>7, <1>8 DEF SyslogIInv

\* A poll: the stream starts where the panel has read to.
LEMMA SyslogLoad ==
  ASSUME SyslogIInv, Syslog!LoadNewSyslogEntries
  PROVE  SyslogIInv'
<1>1. /\ ~stream.open
      /\ stream' = [pos |-> readByte, text |-> <<>>, half |-> FALSE, open |-> TRUE]
      /\ UNCHANGED <<file, readByte, readLine, inbox, entries, clipboard, halved>>
  <2>1. /\ ~stream.open
        /\ stream' = [Syslog!NoStream EXCEPT !.pos = readByte, !.open = TRUE]
        /\ UNCHANGED <<file, readByte, readLine, inbox, entries, clipboard, halved>>
    BY DEF Syslog!LoadNewSyslogEntries, Syslog!webview
  <2>2. QED
    BY <2>1 DEF Syslog!NoStream
<1>2. SyslogTypes'
  <2>1. <<>> \in Seq(Chars)
    OBVIOUS
  <2>2. stream' \in [pos : Int, text : Seq(Chars), half : BOOLEAN, open : BOOLEAN]
    BY <1>1, <2>1 DEF SyslogIInv, SyslogTypes
  <2>3. QED
    BY <1>1, <2>2 DEF SyslogIInv, SyslogTypes
<1>3. ASSUME ~halved PROVE ReadRight' /\ ShownRight'
  <2>1. ReadTo(file, readByte, <<>>, FALSE, readLine) /\ ShownRight
    BY <1>1, <1>3 DEF SyslogIInv, ReadRight
  <2>2. /\ stream'.open /\ stream'.pos = readByte /\ stream'.text = <<>> /\ stream'.half = FALSE
    BY <1>1
  <2>3. ReadRight'
    BY <1>1, <2>1, <2>2 DEF ReadRight
  <2>4. ShownRight'
    BY <1>1, <2>1 DEF ShownRight
  <2>5. QED
    BY <2>3, <2>4
<1>4. QED
  BY <1>1, <1>2, <1>3 DEF SyslogIInv

\* A chunk: the lines posted are those the log goes on with.
LEMMA SyslogData ==
  ASSUME SyslogIInv, NEW n, Syslog!OnData(n)
  PROVE  SyslogIInv'
<1> DEFINE p == stream.pos
           chunk == SubSeq(file, p + 1, p + n)
           read == Syslog!ReadAll(stream.text, stream.half, chunk)
           msg == [from |-> readLine, lines |-> read.lines]
<1>1. /\ stream.open /\ p >= 0 /\ n \in 1..(Len(file) - p)
      /\ stream' = [stream EXCEPT !.pos = p + n, !.text = read.text, !.half = read.half]
      /\ inbox' = IF read.lines = <<>> THEN inbox ELSE Longer(inbox, msg)
      /\ readLine' = readLine + Len(read.lines)
      /\ UNCHANGED <<file, readByte, entries, clipboard, halved>>
  BY DEF Syslog!OnData, Syslog!Post, Syslog!webview, Longer
<1>2. /\ SyslogTypes /\ file \in Seq(Syslog!Bytes) /\ Len(file) \in Nat
      /\ readLine \in Nat /\ p \in Int
      /\ stream \in [pos : Int, text : Seq(Chars), half : BOOLEAN, open : BOOLEAN]
      /\ inbox \in Seq([from : Nat, lines : Seq(Seq(Chars))])
  BY DEF SyslogIInv, SyslogTypes
<1>3. p \in 0..Len(file) /\ n \in Nat /\ n \in 0..(Len(file) - p) /\ p + n \in 0..Len(file)
  BY <1>1, <1>2
<1>4. stream.text \in Seq(Chars) /\ stream.half \in BOOLEAN
  BY <1>2
<1>5. chunk \in Seq(Syslog!Bytes)
  <2>1. \A i \in (p + 1)..(p + n) : i \in 1..Len(file)
    BY <1>2, <1>3
  <2>2. \A i \in (p + 1)..(p + n) : file[i] \in Syslog!Bytes
    BY <1>2, <2>1, ElementOfSeq
  <2>3. p + 1 \in Int /\ p + n \in Int
    BY <1>3
  <2>4. QED
    BY <1>2, <1>3, <2>1, <2>2, <2>3, SubSeqProperties
<1>6. read \in Reads
  <2> HIDE DEF chunk
  <2>1. QED
    BY <1>4, <1>5, ReadAllFact
<1> HIDE DEF read, chunk
<1>7. /\ read.lines \in Seq(Seq(Chars)) /\ read.text \in Seq(Chars) /\ read.half \in BOOLEAN
      /\ Len(read.lines) \in Nat
  <2>1. /\ read.lines \in Seq(Seq(Chars)) /\ read.text \in Seq(Chars) /\ read.half \in BOOLEAN
    BY <1>6, ReadsFact
  <2>2. QED
    BY <2>1
<1>8. /\ stream' \in [pos : Int, text : Seq(Chars), half : BOOLEAN, open : BOOLEAN]
      /\ stream'.open /\ stream'.pos = p + n /\ stream'.text = read.text
      /\ stream'.half = read.half
  <2>1. p + n \in Int
    BY <1>3
  <2> HIDE DEF p
  <2>2. QED
    BY <1>1, <1>2, <1>7, <2>1
<1>9. msg \in [from : Nat, lines : Seq(Seq(Chars))]
  BY <1>2, <1>7
<1>10. /\ inbox' \in Seq([from : Nat, lines : Seq(Seq(Chars))])
       /\ \A i \in 1..Len(inbox') : inbox'[i] = msg \/ (i \in 1..Len(inbox) /\ inbox'[i] = inbox[i])
  <2> HIDE DEF msg
  <2>1. CASE read.lines = <<>>
    BY <1>1, <1>2, <2>1
  <2>2. CASE read.lines # <<>>
    <3>1. inbox' = Longer(inbox, msg)
      BY <1>1, <2>2
    <3>2. /\ Longer(inbox, msg) \in Seq([from : Nat, lines : Seq(Seq(Chars))])
          /\ Len(Longer(inbox, msg)) = Len(inbox) + 1 /\ Len(inbox) \in Nat
          /\ \A i \in 1..Len(inbox) : Longer(inbox, msg)[i] = inbox[i]
          /\ Longer(inbox, msg)[Len(inbox) + 1] = msg
      <4> DEFINE M == [from : Nat, lines : Seq(Seq(Chars))]
      <4>1. inbox \in Seq(M) /\ msg \in M
        BY <1>2, <1>9
      <4> HIDE DEF M
      <4>2. /\ Longer(inbox, msg) \in Seq(M)
            /\ Len(Longer(inbox, msg)) = Len(inbox) + 1 /\ Len(inbox) \in Nat
            /\ \A i \in 1..Len(inbox) : Longer(inbox, msg)[i] = inbox[i]
            /\ Longer(inbox, msg)[Len(inbox) + 1] = msg
        BY <4>1, LongerFact
      <4>3. QED
        BY <4>2 DEF M
    <3>3. \A i \in 1..Len(Longer(inbox, msg)) :
            Longer(inbox, msg)[i] = msg
            \/ (i \in 1..Len(inbox) /\ Longer(inbox, msg)[i] = inbox[i])
      BY <3>2
    <3>4. QED
      BY <3>1, <3>2, <3>3
  <2>3. QED
    BY <2>1, <2>2
<1>11. SyslogTypes'
  <2>1. readLine' \in Nat
    BY <1>1, <1>2, <1>7
  <2>2. QED
    BY <1>1, <1>2, <1>8, <1>10, <2>1 DEF SyslogTypes
<1>12. ASSUME ~halved PROVE ReadRight' /\ ShownRight'
  <2> DEFINE acc == Whole(file)[p]
             end == Whole(file)[p + n]
  <2>1. ReadRight /\ ShownRight
    BY <1>12 DEF SyslogIInv
  <2>2. acc.text = stream.text /\ acc.half = stream.half /\ Len(acc.lines) = readLine
    <3>1. ReadTo(file, p, stream.text, stream.half, readLine)
      BY <1>1, <2>1 DEF ReadRight
    <3>2. acc.text = stream.text /\ (acc.half <=> stream.half) /\ Len(acc.lines) = readLine
      BY <3>1 DEF ReadTo
    <3>3. acc \in Reads
      BY <1>2, <1>3, WholeFact
    <3>4. acc.half \in BOOLEAN
      BY <3>3, ReadsFact
    <3> HIDE DEF acc
    <3>5. QED
      BY <1>4, <3>2, <3>4
  <2>3. end = Behind(acc.lines, read)
    <3>1. Whole(file)[p + n] = Behind(acc.lines, Syslog!ReadAll(acc.text, acc.half, chunk))
      <4> HIDE DEF p
      <4>1. QED
        BY <1>2, <1>3, ReadsOn DEF chunk
    <3>2. Syslog!ReadAll(acc.text, acc.half, chunk) = read
      BY <2>2 DEF read
    <3>3. QED
      BY <3>1, <3>2
  <2>4. acc.lines \in Seq(Seq(Chars))
    <3>1. acc \in Reads
      BY <1>2, <1>3, WholeFact
    <3>2. QED
      BY <3>1, ReadsFact
  <2> HIDE DEF acc, end
  <2>5. end.lines = Joined(acc.lines, read.lines) /\ end.text = read.text /\ end.half = read.half
    BY <2>3 DEF Behind
  <2>6. /\ Len(Joined(acc.lines, read.lines)) = readLine + Len(read.lines)
        /\ \A i \in 1..Len(read.lines) : Joined(acc.lines, read.lines)[readLine + i] = read.lines[i]
    <3>1. /\ Len(Joined(acc.lines, read.lines)) = Len(acc.lines) + Len(read.lines)
          /\ \A i \in 1..Len(read.lines) :
               Joined(acc.lines, read.lines)[Len(acc.lines) + i] = read.lines[i]
      <4> DEFINE s == acc.lines
                 t == read.lines
      <4>1. s \in Seq(Seq(Chars)) /\ t \in Seq(Seq(Chars))
        BY <1>7, <2>4
      <4> HIDE DEF s, t
      <4>2. /\ Len(Joined(s, t)) = Len(s) + Len(t)
            /\ \A i \in 1..Len(t) : Joined(s, t)[Len(s) + i] = t[i]
        BY <4>1, JoinedLines, Zenon
      <4>3. QED
        BY <4>2 DEF s, t
    <3>2. Len(acc.lines) = readLine
      BY <2>2
    <3>3. QED
      BY <3>1, <3>2
  <2>7. ReadRight'
    <3>1. ReadTo(file, p + n, read.text, read.half, readLine + Len(read.lines))
      BY <1>3, <2>5, <2>6 DEF ReadTo, end
    <3> HIDE DEF p
    <3>2. QED
      BY <1>1, <1>8, <3>1 DEF ReadRight
  <2>8. MessageIn(msg, LogLines(file))
    <3>1. Begins(end.lines, LogLines(file))
      <4>1. Len(file) \in (p + n)..Len(file)
        BY <1>2, <1>3
      <4>2. QED
        BY <1>2, <1>3, <4>1, LinesGrow DEF end, LogLines
    <3>2. MessageIn(msg, end.lines)
      <4>1. Len(end.lines) = readLine + Len(read.lines) /\ Len(end.lines) \in Nat
        BY <1>2, <1>7, <2>5, <2>6
      <4>2. msg.from = readLine /\ msg.lines = read.lines
        OBVIOUS
      <4> HIDE DEF msg
      <4>3. msg.from + Len(msg.lines) <= Len(end.lines)
        BY <4>1, <4>2
      <4>4. \A i \in 1..Len(msg.lines) : end.lines[msg.from + i] = msg.lines[i]
        BY <2>5, <2>6, <4>2
      <4>5. QED
        BY <4>3, <4>4 DEF MessageIn
    <3>3. end.lines \in Seq(Seq(Chars)) /\ LogLines(file) \in Seq(Seq(Chars))
      <4>1. end \in Reads
        BY <1>2, <1>3, WholeFact DEF end
      <4>2. QED
        BY <1>2, <4>1, ReadsFact, LogLinesFact
    <3> HIDE DEF msg
    <3>4. QED
      BY <1>9, <3>1, <3>2, <3>3, LinesStay
  <2>9. ShownRight'
    <3> HIDE DEF msg
    <3>1. LogLines(file)' = LogLines(file)
      BY <1>1
    <3>2. \A i \in 1..Len(inbox') : MessageIn(inbox'[i], LogLines(file))
      BY <1>10, <2>1, <2>8 DEF ShownRight
    <3>3. QED
      BY <1>1, <2>1, <3>1, <3>2 DEF ShownRight
  <2>10. QED
    BY <2>7, <2>9
<1>13. QED
  BY <1>1, <1>11, <1>12 DEF SyslogIInv

\* The end of the file: what is unfinished is read again.
LEMMA SyslogClose ==
  ASSUME SyslogIInv, Syslog!OnClose
  PROVE  SyslogIInv'
<1> DEFINE back == Syslog!ByteLength(Syslog!Remainder)
<1>1. /\ stream.open /\ stream.pos = Len(file)
      /\ readByte' = stream.pos - back
      /\ stream' = [pos |-> 0, text |-> <<>>, half |-> FALSE, open |-> FALSE]
      /\ halved' = (halved \/ stream.half)
      /\ UNCHANGED <<file, readLine, inbox, entries, clipboard>>
  BY DEF Syslog!OnClose, Syslog!webview, Syslog!NoStream
<1>2. /\ SyslogTypes /\ file \in Seq(Syslog!Bytes) /\ Len(file) \in Nat /\ Continued(file)
      /\ halved \in BOOLEAN /\ stream.text \in Seq(Chars) /\ stream.half \in BOOLEAN
      /\ stream.pos \in Int
  BY DEF SyslogIInv, SyslogTypes
<1>3. Syslog!Remainder \in Seq(Chars)
  <2>1. "U+FFFD" \in Chars
    BY DEF Chars
  <2>2. <<>> \in Seq(Chars) /\ <<"U+FFFD">> \in Seq(Chars)
    BY <2>1
  <2>3. QED
    BY <1>2, <2>2, ConcatProperties DEF Syslog!Remainder
<1>4. back \in Nat
  <2>1. "U+FFFD" \in Chars
    BY DEF Chars
  <2>2. QED
    BY <1>3, <2>1, ByteLengths
<1>5. SyslogTypes'
  <2>1. readByte' \in Int
    BY <1>1, <1>2, <1>4
  <2>2. stream' \in [pos : Int, text : Seq(Chars), half : BOOLEAN, open : BOOLEAN]
    <3>1. <<>> \in Seq(Chars) /\ 0 \in Int /\ FALSE \in BOOLEAN
      OBVIOUS
    <3>2. QED
      BY <1>1, <3>1
  <2>3. halved' \in BOOLEAN
    BY <1>1, <1>2
  <2>4. QED
    BY <1>1, <1>2, <2>1, <2>2, <2>3 DEF SyslogTypes
<1>6. ASSUME ~halved' PROVE ReadRight' /\ ShownRight'
  <2>1. ~halved /\ ~stream.half
    BY <1>1, <1>2, <1>6
  <2>2. ReadRight /\ ShownRight
    BY <2>1 DEF SyslogIInv
  <2> DEFINE acc == Whole(file)[Len(file)]
  <2>3. acc.text = stream.text /\ ~acc.half /\ Len(acc.lines) = readLine
    BY <1>1, <2>1, <2>2 DEF ReadRight, ReadTo
  <2>4. Syslog!Remainder = stream.text
    <3>1. Syslog!Remainder = Joined(stream.text, <<>>)
      BY <2>1 DEF Syslog!Remainder, Joined
    <3>2. "U+FFFD" \in Chars
      BY DEF Chars
    <3>3. QED
      BY <1>2, <3>1, <3>2, ConcatEmptySeq DEF Joined
  <2>5. Unfinished(acc) = back
    BY <1>4, <2>3, <2>4 DEF Unfinished
  <2>6. /\ Unfinished(acc) \in 0..Len(file)
        /\ Whole(file)[Len(file) - Unfinished(acc)] =
             [lines |-> acc.lines, text |-> <<>>, half |-> FALSE]
    <3>1. Len(file) \in 0..Len(file)
      BY <1>2
    <3>2. QED
      BY <1>2, <3>1, LineStart
  <2> HIDE DEF acc, back
  <2>7. readByte' = Len(file) - Unfinished(acc) /\ readByte' \in 0..Len(file)
    BY <1>1, <1>2, <2>5, <2>6
  <2>8. /\ Whole(file)[readByte'].text = <<>> /\ ~Whole(file)[readByte'].half
        /\ Len(Whole(file)[readByte'].lines) = readLine
    BY <2>3, <2>6, <2>7
  <2>9. ReadTo(file, readByte', <<>>, FALSE, readLine)
    BY <2>7, <2>8 DEF ReadTo
  <2>10. ~stream'.open
    BY <1>1
  <2>11. ReadRight'
    BY <1>1, <2>9, <2>10 DEF ReadRight
  <2>12. ShownRight'
    BY <1>1, <2>2 DEF ShownRight
  <2>13. QED
    BY <2>11, <2>12
<1>7. QED
  BY <1>5, <1>6 DEF SyslogIInv

LEMMA SyslogDispose ==
  ASSUME SyslogIInv, Syslog!Dispose
  PROVE  SyslogIInv'
<1>1. /\ inbox' = <<>>
      /\ UNCHANGED <<file, readByte, readLine, stream, entries, clipboard, halved>>
  BY DEF Syslog!Dispose, Syslog!panel, Syslog!webview
<1>2. SyslogTypes'
  <2>1. inbox' \in Seq([from : Nat, lines : Seq(Seq(Chars))])
    BY <1>1
  <2>2. QED
    BY <1>1, <2>1 DEF SyslogIInv, SyslogTypes
<1>3. ASSUME ~halved PROVE ReadRight' /\ ShownRight'
  <2>1. ReadRight /\ ShownRight
    BY <1>3 DEF SyslogIInv
  <2>2. \A i \in 1..Len(inbox') : MessageIn(inbox'[i], LogLines(file))
    <3>1. Len(inbox') = 0
      BY <1>1
    <3>2. QED
      BY <3>1
  <2>3. QED
    BY <1>1, <2>1, <2>2 DEF ReadRight, ShownRight
<1>4. QED
  BY <1>1, <1>2, <1>3 DEF SyslogIInv

LEMMA SyslogHandle ==
  ASSUME SyslogIInv, Syslog!HandleMsg
  PROVE  SyslogIInv'
<1> DEFINE M == [from : Nat, lines : Seq(Seq(Chars))]
           msg == Head(inbox)
           numbered == msg.from + 1..(msg.from + Len(msg.lines))
<1>1. /\ inbox # <<>> /\ inbox' = Tail(inbox)
      /\ entries' = [k \in DOMAIN entries \cup numbered |->
                       IF k \in numbered THEN msg.lines[k - msg.from] ELSE entries[k]]
      /\ UNCHANGED <<file, readByte, readLine, stream, clipboard, halved>>
  BY DEF Syslog!HandleMsg, Syslog!panel
<1>2. /\ SyslogTypes /\ inbox \in Seq(M)
  BY DEF SyslogIInv, SyslogTypes
<1> HIDE DEF M
<1>3. /\ inbox' \in Seq(M) /\ msg \in M /\ Len(inbox) \in Nat /\ Len(inbox) > 0
      /\ msg = inbox[1]
      /\ \A i \in 1..Len(inbox') : i + 1 \in 1..Len(inbox) /\ inbox'[i] = inbox[i + 1]
  <2>1. Len(inbox) \in Nat /\ Len(inbox) > 0 /\ msg = inbox[1]
    BY <1>1, <1>2
  <2>2. inbox' \in Seq(M) /\ Len(inbox') = Len(inbox) - 1
    BY <1>1, <1>2, HeadTailProperties
  <2>3. \A i \in 1..Len(inbox') : i + 1 \in 1..Len(inbox) /\ inbox'[i] = inbox[i + 1]
    BY <1>1, <1>2, <2>1, <2>2, HeadTailProperties
  <2>4. msg \in M
    BY <1>2, <2>1, ElementOfSeq
  <2>5. QED
    BY <2>1, <2>2, <2>3, <2>4
<1>4. SyslogTypes'
  BY <1>1, <1>2, <1>3 DEF SyslogTypes, M
<1>5. ASSUME ~halved PROVE ReadRight' /\ ShownRight'
  <2>1. ReadRight /\ ShownRight
    BY <1>5 DEF SyslogIInv
  <2>2. \A i \in 1..Len(inbox') : MessageIn(inbox'[i], LogLines(file))
    BY <1>3, <2>1 DEF ShownRight
  <2>3. MessageIn(msg, LogLines(file))
    <3>1. 1 \in 1..Len(inbox)
      BY <1>3
    <3>2. MessageIn(inbox[1], LogLines(file))
      BY <2>1, <3>1 DEF ShownRight
    <3>3. QED
      BY <1>3, <3>2
  <2>4. ASSUME NEW k \in DOMAIN entries' PROVE EntryIn(k, entries'[k], LogLines(file))
    <3>1. CASE k \in numbered
      <4> DEFINE from == msg.from
                 m == Len(msg.lines)
                 lines == LogLines(file)
                 n == Len(lines)
      <4>1. from \in Nat /\ m \in Nat /\ n \in Nat
        <5>1. msg \in [from : Nat, lines : Seq(Seq(Chars))]
          BY <1>3 DEF M
        <5>2. lines \in Seq(Seq(Chars))
          BY <1>2, LogLinesFact DEF SyslogTypes
        <5> HIDE DEF msg, lines
        <5>3. QED
          BY <5>1, <5>2
      <4>2. from + m <= n /\ \A i \in 1..m : lines[from + i] = msg.lines[i]
        BY <2>3 DEF MessageIn
      <4>3. k \in (from + 1)..(from + m)
        BY <3>1
      <4>4. entries'[k] = msg.lines[k - from]
        BY <1>1, <3>1
      <4> HIDE DEF from, m, n, lines, msg
      <4>5. k - from \in 1..m /\ from + (k - from) = k /\ k \in 1..n
        <5>1. from + m <= n
          BY <4>2
        <5>2. QED
          BY <4>1, <4>3, <5>1
      <4>6. lines[k] = entries'[k]
        BY <4>2, <4>4, <4>5
      <4>7. QED
        BY <4>5, <4>6 DEF EntryIn, lines, n
    <3>2. CASE k \notin numbered
      <4> HIDE DEF numbered
      <4>1. k \in DOMAIN entries /\ entries'[k] = entries[k]
        BY <1>1, <3>2
      <4>2. QED
        BY <2>1, <4>1 DEF ShownRight
    <3>3. QED
      BY <3>1, <3>2
  <2>5. LogLines(file)' = LogLines(file)
    BY <1>1
  <2> HIDE DEF msg, numbered
  <2>6. ShownRight'
    BY <1>1, <2>1, <2>2, <2>4, <2>5 DEF ShownRight
  <2>7. ReadRight'
    BY <1>1, <2>1 DEF ReadRight
  <2>8. QED
    BY <2>6, <2>7
<1>6. QED
  BY <1>1, <1>4, <1>5 DEF SyslogIInv

\* The filtered entries are numbers of entries.
LEMMA FilteredFact ==
  ASSUME readLine \in Nat
  PROVE  Syslog!FilteredEntries \in Seq(DOMAIN entries)
<1> DEFINE D == DOMAIN entries
           Passes(n) == n \in D /\ Syslog!MatchText(entries[n])
           step == [n \in Nat |-> [s \in Seq(D) |-> IF Passes(n) THEN Longer(s, n) ELSE s]]
           Takes(f) == f = [n \in 0..readLine |->
                              IF n = 0 THEN <<>>
                              ELSE IF Passes(n) THEN Append(f[n - 1], n) ELSE f[n - 1]]
<1>1. \A n \in Nat : Passes(n) => n \in D
  OBVIOUS
<1> HIDE DEF Passes
<1>2. <<>> \in Seq(D)
  OBVIOUS
<1>3. \A n \in Nat, s \in Seq(D) : (IF Passes(n) THEN Longer(s, n) ELSE s) \in Seq(D)
  <2> HIDE DEF D
  <2>1. QED
    BY <1>1, LongerFact
<1>4. step \in [Nat -> [Seq(D) -> Seq(D)]]
  BY <1>3
<1>5. PICK f \in [0..readLine -> Seq(D)] : StepByStep(f, readLine, <<>>, step)
  <2> HIDE DEF step, D
  <2>1. QED
    BY <1>2, <1>4, Recursion
<1>6. Takes(f)
  <2>1. \A n \in 1..readLine : n - 1 \in 0..readLine /\ n \in Nat /\ f[n - 1] \in Seq(D)
    OBVIOUS
  <2>2. \A n \in 1..readLine : f[n] = IF Passes(n) THEN Append(f[n - 1], n) ELSE f[n - 1]
    BY <1>5, <2>1 DEF StepByStep, Longer
  <2>3. f[0] = <<>>
    BY <1>5 DEF StepByStep
  <2>4. \A n \in 0..readLine : f[n] = IF n = 0 THEN <<>>
                                      ELSE IF Passes(n) THEN Append(f[n - 1], n) ELSE f[n - 1]
    <3>1. \A n \in 0..readLine : n = 0 \/ n \in 1..readLine
      OBVIOUS
    <3> HIDE DEF step
    <3>2. QED
      BY <2>2, <2>3, <3>1
  <2>5. f = [n \in 0..readLine |-> f[n]]
    OBVIOUS
  <2>6. QED
    BY <2>4, <2>5
<1> DEFINE g == Syslog!FilteredUpTo
<1>7. Takes(g)
  BY <1>6 DEF Syslog!FilteredUpTo, Passes
<1> HIDE DEF g
<1>8. g[0] = <<>> /\ \A n \in 1..readLine : g[n] = IF Passes(n) THEN Longer(g[n - 1], n) ELSE g[n - 1]
  <2>1. 0 \in 0..readLine /\ \A n \in 1..readLine : n \in 0..readLine /\ n # 0
    OBVIOUS
  <2>2. QED
    BY <1>7, <2>1 DEF Longer
<1> DEFINE Good == {n \in 0..readLine : g[n] \in Seq(D)}
<1>9. 0 \in Good
  <2>1. 0 \in 0..readLine /\ g[0] = <<>>
    BY <1>8
  <2> HIDE DEF D
  <2>2. QED
    BY <1>2, <2>1
<1>10. ASSUME NEW n \in Good, n < readLine PROVE n + 1 \in Good
  <2>1. n + 1 \in 1..readLine /\ n + 1 \in 0..readLine /\ n + 1 \in Nat /\ (n + 1) - 1 = n
    BY <1>10
  <2>2. g[n + 1] = IF Passes(n + 1) THEN Longer(g[n], n + 1) ELSE g[n]
    BY <1>8, <2>1
  <2>3. g[n] \in Seq(D)
    OBVIOUS
  <2> HIDE DEF D
  <2>4. g[n + 1] \in Seq(D)
    BY <1>3, <2>1, <2>2, <2>3
  <2>5. QED
    BY <2>1, <2>4
<1>11. readLine \in Good
  <2> HIDE DEF Good
  <2>1. Good \in SUBSET Nat
    BY DEF Good
  <2>2. \A n \in 0..readLine : n \in Good
    BY <1>9, <1>10, <2>1, ByInduction
  <2>3. QED
    BY <2>2
<1>12. QED
  BY <1>11 DEF g, Syslog!FilteredEntries

LEMMA SyslogCopy ==
  ASSUME SyslogIInv, Syslog!Copy
  PROVE  SyslogIInv'
<1> DEFINE picked == Syslog!FilteredEntries
           from == IF Len(picked) > CopyMax THEN Len(picked) - CopyMax + 1 ELSE 1
           m == Len(picked) - from + 1
<1>1. /\ clipboard' = [i \in 1..m |-> entries[picked[from + i - 1]]]
      /\ UNCHANGED <<file, readByte, readLine, stream, inbox, entries, halved>>
  BY DEF Syslog!Copy, Syslog!panel
<1>2. readLine \in Nat /\ SyslogTypes
  BY DEF SyslogIInv, SyslogTypes
<1>3. picked \in Seq(DOMAIN entries)
  BY <1>2, FilteredFact
<1> HIDE DEF picked
<1>4. Len(picked) \in Nat /\ CopyMax \in Nat
  BY <1>3, ToolsAssumption
<1>5. m \in Nat /\ m <= CopyMax /\ from \in Nat /\ from >= 1 /\ m + from - 1 = Len(picked)
  BY <1>4
<1> HIDE DEF m, from
<1>6. \A i \in 1..m : from + i - 1 \in 1..Len(picked) /\ picked[from + i - 1] \in DOMAIN entries
  <2>1. \A i \in 1..m : from + i - 1 \in 1..Len(picked)
    BY <1>4, <1>5
  <2>2. QED
    BY <1>3, <2>1, ElementOfSeq
<1>7. DOMAIN clipboard' = 1..m /\ Len(clipboard') = m
  BY <1>1, <1>5
<1>8. SyslogTypes'
  BY <1>1, <1>2, <1>5, <1>7 DEF SyslogTypes
<1>9. ASSUME ~halved PROVE ReadRight' /\ ShownRight'
  <2>1. ReadRight /\ ShownRight
    BY <1>9 DEF SyslogIInv
  <2>2. ASSUME NEW i \in 1..m PROVE CopiedIn(clipboard'[i], LogLines(file))
    <3> DEFINE k == picked[from + i - 1]
    <3>1. clipboard'[i] = entries[k] /\ k \in DOMAIN entries
      BY <1>1, <1>6
    <3> HIDE DEF k
    <3>2. EntryIn(k, entries[k], LogLines(file))
      BY <2>1, <3>1 DEF ShownRight
    <3>3. QED
      BY <3>1, <3>2 DEF EntryIn, CopiedIn
  <2>3. LogLines(file)' = LogLines(file)
    BY <1>1
  <2>4. ShownRight'
    BY <1>1, <1>7, <2>1, <2>2, <2>3 DEF ShownRight
  <2>5. ReadRight'
    BY <1>1, <2>1 DEF ReadRight
  <2>6. QED
    BY <2>4, <2>5
<1>10. QED
  BY <1>1, <1>8, <1>9 DEF SyslogIInv

LEMMA SyslogStep == SyslogIInv /\ [Syslog!Next]_syslogVars => SyslogIInv'
<1> SUFFICES ASSUME SyslogIInv, [Syslog!Next]_syslogVars PROVE SyslogIInv'
  OBVIOUS
<1>1. CASE UNCHANGED syslogVars
  BY <1>1, SyslogStays DEF syslogVars
<1>2. CASE Syslog!ExecSyslogTail
  BY <1>2, SyslogStays DEF Syslog!ExecSyslogTail, Syslog!panel, Syslog!webview
<1>3. ASSUME NEW byte \in Syslog!Bytes, Syslog!Logged(byte) PROVE SyslogIInv'
  BY <1>3, SyslogLogged
<1>4. CASE Syslog!Aborted
  BY <1>4, SyslogStays DEF Syslog!Aborted, Syslog!panel, Syslog!webview
<1>5. CASE Syslog!LoadNewSyslogEntries
  BY <1>5, SyslogLoad
<1>6. ASSUME NEW n \in 1..MaxBytes, Syslog!OnData(n) PROVE SyslogIInv'
  BY <1>6, SyslogData
<1>7. CASE Syslog!OnClose
  BY <1>7, SyslogClose
<1>8. CASE Syslog!Dispose
  BY <1>8, SyslogDispose
<1>9. CASE Syslog!HandleMsg
  BY <1>9, SyslogHandle
<1>10. ASSUME NEW includes \in Patterns, NEW byRegex \in BOOLEAN,
              Syslog!ChangeFilter(includes, byRegex)
       PROVE  SyslogIInv'
  BY <1>10, SyslogStays DEF Syslog!ChangeFilter, Syslog!panel
<1>11. CASE Syslog!Copy
  BY <1>11, SyslogCopy
<1>12. QED
  BY <1>1, <1>2, <1>3, <1>4, <1>5, <1>6, <1>7, <1>8, <1>9, <1>10, <1>11 DEF Syslog!Next
-----------------------------------------------------------------------------
\* The inductive invariants hold of every component at once, whichever of them
\* runs, for any constants that meet the assumption.
THEOREM ToolsInvariance ==
  MCSpec => [](/\ CipdIInv /\ GcertIInv /\ LintIInv /\ SpellIInv
               /\ PickersIInv /\ DeviceIInv /\ GtestIInv /\ OutIInv /\ SyslogIInv)
<1> DEFINE All == /\ CipdIInv /\ GcertIInv /\ LintIInv /\ SpellIInv
                  /\ PickersIInv /\ DeviceIInv /\ GtestIInv /\ OutIInv /\ SyslogIInv
<1>1. MCInit => All
  BY CipdInitially, GcertInitially, LintInitially, SpellInitially, PickersInitially,
     DeviceInitially, GtestInitially, OutInit, SyslogInit DEF MCInit
<1>2. All /\ [MCNext]_MCvars => All'
  <2> SUFFICES ASSUME All, [MCNext]_MCvars PROVE All'
    OBVIOUS
  <2>1. /\ [Cipd!Next]_cipdVars /\ [Gcert!Next]_gcertVars /\ [Lint!Next]_lintVars
        /\ [Spell!Next]_spellVars /\ [Picker!Next]_pickersVars /\ [Device!Next]_deviceVars
        /\ [Gtest!Next]_gtestVars /\ [Out!Next]_outVars /\ [Syslog!Next]_syslogVars
    BY DEF MCNext, MCvars
  <2>2. QED
    BY <2>1, CipdStep, GcertStep, LintStep, SpellStep, PickersStep, DeviceStep,
       GtestStep, OutStep, SyslogStep
<1>3. QED
  BY <1>1, <1>2, PTL DEF MCSpec

\* A binary is used once it is there, and the repository is initialized by one
\* call alone (cipd.ts:51); who is told so has a certificate or had one since
\* (gcert.ts:25): for any callers, packages and calls.
THEOREM ToolsReady == MCSpec => []ToolsAreReady
<1>1. CipdIInv /\ GcertIInv => ToolsAreReady
  BY DEF CipdIInv, GcertIInv, ToolsAreReady, Cipd!InitializedOnce
<1>2. QED
  BY <1>1, ToolsInvariance, PTL

\* The pickers list all that was asked for (suggest_image.ts:172), and a device
\* that has a suggested prebuilt passes the check that suggested it
\* (check_image/compatibility.ts), for any versions and any skew.
THEOREM Suggestions == MCSpec => []SuggestionsAreRight
<1>1. PickersIInv /\ DeviceIInv => SuggestionsAreRight
  BY PickersListAll, SuggestedPass DEF SuggestionsAreRight
<1>2. QED
  BY <1>1, ToolsInvariance, PTL

\* The diagnostics of linters and spellchecks are of one content, the last
\* checked (lint/index.ts:92), unless runs have crossed or failed: for any
\* documents, directories and numbers of runs.
THEOREM Diagnostics == MCSpec => []DiagnosticsAreCurrent
<1>1. LintIInv /\ SpellIInv => DiagnosticsAreCurrent
  BY LintHolds, SpellShows DEF DiagnosticsAreCurrent
<1>2. QED
  BY <1>1, ToolsInvariance, PTL

\* What is shown as line k of the log is its line k, and what is copied is in it
\* (syslog/panel.ts:148), whatever chunks the log is read in and however it grows
\* meanwhile, as long as no read has ended within a character; and no more than
\* the limit is copied (view.tsx:272).
THEOREM LinesAreOfTheLog == MCSpec => []ShownIsLogged
<1>1. SyslogIInv => ShownIsLogged
  BY SyslogShows DEF ShownIsLogged
<1>2. QED
  BY <1>1, ToolsInvariance, PTL

\* A run of tests that ends has a result for each test that was asked for and
\* for no other (platform2_gtest/runner.ts:139), and a test that failed stays
\* failed unless it is in several targets: for any cases, packages and targets.
THEOREM Answered == MCSpec => EveryTestIsAnswered
<1> DEFINE Stands == \A c \in Cases : mark[c] = "failed" /\ Gtest!Cardinality(homes[c]) <= 1
                                       => mark'[c] = "failed"
<1>1. GtestIInv => (part = "gtest" => Gtest!EveryTestIsAnswered)
  BY GtestHolds
<1>2. GtestIInv /\ [MCNext]_MCvars => [Stands]_(Gtest!vars)
  <2> SUFFICES ASSUME GtestIInv, [MCNext]_MCvars PROVE [Stands]_(Gtest!vars)
    OBVIOUS
  <2>1. [Gtest!Next]_gtestVars
    BY DEF MCNext, MCvars
  <2>2. QED
    BY <2>1, GtestFailures, SameCardinality
<1>3. QED
  BY <1>1, <1>2, ToolsInvariance, PTL DEF MCSpec, EveryTestIsAnswered, Gtest!FailureStands

\* Once the calls of getChildren and the commands have ended, the list shown is
\* the disk (output_directories.ts:26), unless the last refresh crossed a call;
\* and a link that is there is kept, but for the moment in which a command makes
\* it anew (:426): for any directories and any number of calls and commands.
THEOREM DiskIsViewed == MCSpec => ViewIsDisk
<1>1. OutIInv => (part = "out" => Out!ViewIsDisk)
  BY OutHolds
<1>2. OutIInv /\ [MCNext]_MCvars => [Out!Kept => Out!Kept']_(Out!vars)
  <2> SUFFICES ASSUME OutIInv, [MCNext]_MCvars PROVE [Out!Kept => Out!Kept']_(Out!vars)
    OBVIOUS
  <2>1. [Out!Next]_outVars
    BY DEF MCNext, MCvars
  <2>2. QED
    BY <2>1, OutKept
<1>3. QED
  BY <1>1, <1>2, ToolsInvariance, PTL DEF MCSpec, ViewIsDisk, Out!LinkIsKept
=============================================================================
