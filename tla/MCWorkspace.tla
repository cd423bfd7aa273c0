----------------------------- MODULE MCWorkspace ----------------------------
(***************************************************************************)
(* What follows the workspace and the links in it: the watcher of a        *)
(* product, the features activated for the root of a product, the language *)
(* server and the debugger of Java in Chromium, the compilation database   *)
(* of a package, and the HEAD of a git directory and its comments in       *)
(* Gerrit. `part` is the one that runs.                                    *)
(***************************************************************************)
EXTENDS ProductWatcher, TLC

CONSTANTS
  f1, f2, g, none, r1, r2, Batches, WithCommand, Optional, Undisposed, MaxEvents, OutDirs,
  NoDir, Jars, Clank, Updates, Sessions, NoSession, MaxMoves, Attempts, Devices, Processes,
  Nowhere, Calls, Dirs, Cleaned, FileSystems, FirstTime, MaxHead, MaxWatchers, GitDirs,
  Refreshers, Commits, NoHead, MaxRemote

VARIABLES
  part,  \* the component that runs
  instances, live, featuresEvents,
  link, lastInode, opened, update, session, state, extracted, moves,
  online, debuggable, port, attempt,
  makes, written, generated, now, waiting, call,
  head, created, watcher, notified, jobs, told, newest, failed,
  remote, visible, gitHead, known, fetch, queued, rest, outage

Features == INSTANCE Features
  WITH events <- featuresEvents
Java == INSTANCE JavaServer
Debugger == INSTANCE JavaDebugger
Compdb == INSTANCE EbuildCompdb
GitHead == INSTANCE GitHead
Gerrit == INSTANCE GerritFetch
  WITH Dirs <- GitDirs

ASSUME FeaturesAssumption == Batches \in Seq(Seq(STRING)) /\ Batches # <<>>
ASSUME JavaAssumption == NoSession \notin Sessions
ASSUME CompdbAssumption == FirstTime \in 10 .. Compdb!LastTime
\* The bounds are numbers, and a refresh is no JobManager of a directory.
ASSUME HeadAssumption == MaxHead \in Nat /\ MaxWatchers \in Nat
ASSUME GerritAssumption ==
  /\ MaxRemote \in Nat
  /\ IsFiniteSet(GitDirs) /\ IsFiniteSet(Refreshers) /\ GitDirs \cap Refreshers = {}

Parts == {"product", "features", "java", "debug", "compdb", "head", "gerrit"}
MCInit ==
  /\ part \in Parts
  /\ Init /\ (part # "product" => workspace = {})
  /\ Features!Init
  /\ Java!Init /\ (part # "java" => link = NoDir)
  /\ Debugger!Init /\ (part # "debug" => online = {} /\ debuggable = {})
  /\ Compdb!Init /\ (part # "compdb" => ~makes /\ written = [p \in Compdb!Places |-> 0])
  /\ GitHead!Init
  /\ Gerrit!Init /\ (part # "gerrit" => outage = FALSE)

featuresVars == <<instances, live, featuresEvents>>
javaVars == <<link, lastInode, opened, update, session, state, extracted, moves>>
debugVars == <<online, debuggable, port, attempt>>
compdbVars == <<makes, written, generated, now, waiting, call>>
headVars == <<head, created, watcher, notified, jobs, told, newest, failed>>
gerritVars == <<remote, visible, gitHead, known, fetch, queued, rest, outage>>

MCNext ==
  \/ /\ part = "product" /\ Next
     /\ UNCHANGED <<part, featuresVars, javaVars, debugVars, compdbVars, headVars,
          gerritVars>>
  \/ /\ part = "features" /\ Features!Next
     /\ UNCHANGED <<part, vars, javaVars, debugVars, compdbVars, headVars,
          gerritVars>>
  \/ /\ part = "java" /\ Java!Next
     /\ UNCHANGED <<part, vars, featuresVars, debugVars, compdbVars, headVars,
          gerritVars>>
  \/ /\ part = "debug" /\ Debugger!Next
     /\ UNCHANGED <<part, vars, featuresVars, javaVars, compdbVars, headVars,
          gerritVars>>
  \/ /\ part = "compdb" /\ Compdb!Next
     /\ UNCHANGED <<part, vars, featuresVars, javaVars, debugVars, headVars,
          gerritVars>>
  \/ /\ part = "head" /\ GitHead!Next
     /\ UNCHANGED <<part, vars, featuresVars, javaVars, debugVars, compdbVars,
          gerritVars>>
  \/ /\ part = "gerrit" /\ Gerrit!Next
     /\ UNCHANGED <<part, vars, featuresVars, javaVars, debugVars, compdbVars,
          headVars>>

MCvars == <<part, vars, featuresVars, javaVars, debugVars, compdbVars, headVars,
            gerritVars>>
MCSpec == MCInit /\ [][MCNext]_MCvars
-----------------------------------------------------------------------------
\* Two folders of one source tree, one of another, and one of no tree.
MCRootOf == [f \in Folders |->
  CASE f \in {f1, f2} -> r1 [] f = g -> r2 [] f = none -> NoRoot]

\* The features of ChromiumOS, up to each `await` of their activation.
MCBatches == << <<"boilerplate", "lint", "crosFormat">>, <<"gitDirsWatcher">>, <<"spellchecker">>,
                <<"ebuildLsp", "cppXrefs", "boardsAndPackages">> >>

\* The features that run are those of the root that is selected, unless an
\* instance was disposed in the middle of its activation.
FeaturesAreOfTheRoot == part = "features" => Features!FeaturesAreOfTheRoot

\* States that differ by the names of these alone are the same.
MCSymmetry == Permutations(OutDirs) \cup Permutations(Sessions) \cup Permutations(Updates)

\* One server of Java, for the directory the link leads to (java/language.ts:386).
OneServerOfTheLink ==
  part = "java" =>
    /\ Java!OneServer
    /\ Java!SessionFollowsLink

\* What was picked is what is used: the debugger attaches to the process that was
\* picked (java/debugger.ts:321), and the compilation database is the newest that
\* ebuild has written, with the files it names (compdb_service/ebuild.ts:219).
WhatWasPickedIsUsed ==
  /\ part = "debug" => Debugger!AttachedToPicked
  /\ part = "compdb" => /\ Compdb!NewestIsCopied
                       /\ Compdb!OnlyOvertakenFail
                       /\ Compdb!FilesExist

\* HEADs are told in their order, none after the `undefined` that ends a watch
\* (head.ts:65, git_dirs/watcher.ts:113), and comments go back only by the answer
\* to a newer request that a refresh crossed (gerrit_comments.ts:108).
NothingGoesBack ==
  /\ [](part = "head" => GitHead!UndefinedMeansUnwatched)
  /\ GitHead!HeadsInOrder
  /\ Gerrit!GoesBackOnlyCrossed
=============================================================================
