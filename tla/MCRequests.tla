----------------------------- MODULE MCRequests -----------------------------
(***************************************************************************)
(* What has to happen in the end: requests of a JobManager are settled,    *)
(* the HEAD of a git directory is told and its comments are fetched, lines *)
(* of a system log are shown, and saved files are built. `part` is the one *)
(* that runs.                                                              *)
(***************************************************************************)
EXTENDS JobManager

CONSTANTS
  MaxHead, MaxWatchers, Dirs, Refreshers, Commits, NoHead, MaxRemote, Ascii, Wide, Patterns,
  Invalid, CopyMax, MaxBytes, Labels, Watches, Once, MaxSaves, MaxOnce

VARIABLES
  part,  \* the component that runs
  head, created, watcher, notified, jobs, told, newest, failed,
  remote, visible, gitHead, known, fetch, queued, rest, outage,
  tail, file, readByte, readLine, stream, inbox, entries, filter, clipboard, disposed,
  halved,
  saves, watch, hasBeenANewSave, isBuilding, process, task, tried, once

GitHead == INSTANCE GitHead
Gerrit == INSTANCE GerritFetch
Syslog == INSTANCE Syslog
Build == INSTANCE ChromiumBuild

Parts == {"offers", "head", "gerrit", "syslog", "build"}
MCInit ==
  /\ part \in Parts
  /\ Init
  /\ GitHead!Init
  /\ Gerrit!Init /\ (part # "gerrit" => outage = FALSE)
  /\ IF part = "syslog" THEN Syslog!Init ELSE Syslog!Initially(TRUE)
  /\ Build!Init

headVars == <<head, created, watcher, notified, jobs, told, newest, failed>>
gerritVars == <<remote, visible, gitHead, known, fetch, queued, rest, outage>>
syslogVars == <<tail, file, readByte, readLine, stream, inbox, entries, filter, clipboard,
    disposed, halved>>
buildVars == <<saves, watch, hasBeenANewSave, isBuilding, process, task, tried, once>>

MCNext ==
  \/ /\ part = "offers" /\ Next
     /\ UNCHANGED <<part, headVars, gerritVars, syslogVars, buildVars>>
  \/ /\ part = "head" /\ GitHead!Next
     /\ UNCHANGED <<part, vars, gerritVars, syslogVars, buildVars>>
  \/ /\ part = "gerrit" /\ Gerrit!Next
     /\ UNCHANGED <<part, vars, headVars, syslogVars, buildVars>>
  \/ /\ part = "syslog" /\ Syslog!Next
     /\ UNCHANGED <<part, vars, headVars, gerritVars, buildVars>>
  \/ /\ part = "build" /\ Build!Next
     /\ UNCHANGED <<part, vars, headVars, gerritVars, syslogVars>>

MCvars == <<part, vars, headVars, gerritVars, syslogVars, buildVars>>
MCSpec == MCInit /\ [][MCNext]_MCvars
  /\ Fairness
  /\ GitHead!Fairness
  /\ Gerrit!Fairness
  /\ Syslog!Fairness
  /\ Build!Fairness
-----------------------------------------------------------------------------
\* The last HEAD is told if git never fails, and the comments of a directory that
\* stays visible become those in Gerrit (git_dirs/watcher.ts, gerrit_comments.ts:108).
TheNewestArrives ==
  /\ GitHead!HeadIsTold
  /\ Gerrit!CommentsCatchUp

\* The lines of the log are shown (syslog/panel.ts:156), while the panel is open.
EveryLineIsShown == Syslog!EveryLineIsShown

\* Saved files are built by the watch that takes the saves
\* (chromium_build.ts:319).
EverySaveIsBuilt == Build!EverySaveIsBuilt
=============================================================================
