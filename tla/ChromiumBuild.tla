---------------------------- MODULE ChromiumBuild ----------------------------
(***************************************************************************)
(* Building chromium and deploying it to a device, on command and on every *)
(* save.  A save during a build is remembered by a flag, and the end of    *)
(* the build starts the next one.  `watchBuild` called again makes a new   *)
(* watch, which takes the saves; the old one's builds go on.               *)
(***************************************************************************)
EXTENDS Naturals, FiniteSets

CONSTANTS
  Labels,  \* the two builds, ash and lacros
  Watches, \* calls of watchBuild, 1..n in their order
  Once,    \* stands for the command `build`, in place of a watch
  MaxSaves,\* bound: saves of documents
  MaxOnce  \* bound: calls of `build`

VARIABLES
  saves,           \* documents saved so far
  watch,           \* the last watch, whose onSaveFn is called; 0: none
  hasBeenANewSave, \* of each watch and label
  isBuilding,      \* likewise
  process,         \* what runs: autoninja or deploy_chrome, for whom, of which
                   \* label, and how many saves there had been at its start
  task,            \* the background tasks
  tried,           \* the saves that the last finished build had in it
  once             \* calls of `build`

vars == <<saves, watch, hasBeenANewSave, isBuilding, process, task, tried, once>>
flags == <<hasBeenANewSave, isBuilding>>

Process == [does : {"build", "deploy"}, of : Watches \cup {Once}, label : Labels, saves : 0..MaxSaves]
Builds(w, l) == {p \in process : p.of = w /\ p.label = l}

Init ==
  /\ saves = 0 /\ watch = 0 /\ once = 0
  /\ hasBeenANewSave = [w \in Watches |-> [l \in Labels |-> FALSE]]
  /\ isBuilding = hasBeenANewSave
  /\ process = {}
  /\ task = [l \in Labels |-> [build |-> "ok", deploy |-> "ok"]]
  /\ tried = [w \in Watches |-> [l \in Labels |-> 0]]
-----------------------------------------------------------------------------
\* buildChromeDir, to the start of autoninja.
BuildChromeDir(w, labels) ==
  /\ process' = process \cup {[does |-> "build", of |-> w, label |-> l, saves |-> saves'] : l \in labels}
  /\ task' = [l \in Labels |-> IF l \in labels THEN [task[l] EXCEPT !.build = "running"] ELSE task[l]]

\* The command `build`; its callbacks do nothing.
Build ==
  /\ once < MaxOnce /\ once' = once + 1
  /\ {p \in process : p.of = Once} = {}
  /\ UNCHANGED saves
  /\ BuildChromeDir(Once, Labels)
  /\ UNCHANGED <<watch, flags, tried>>

\* The command `watchBuild`: it builds, and saves go to it from now on.
WatchBuild(w) ==
  /\ w = watch + 1
  /\ watch' = w
  /\ isBuilding' = [isBuilding EXCEPT ![w] = [l \in Labels |-> TRUE]]
  /\ UNCHANGED saves
  /\ BuildChromeDir(w, Labels)
  /\ UNCHANGED <<hasBeenANewSave, tried, once>>

\* mutant: a save is remembered only when nothing is being built
OnSaveWhenIdle ==
  /\ saves < MaxSaves /\ saves' = saves + 1
  /\ IF watch = 0 THEN UNCHANGED <<flags, process, task>>
     ELSE LET idle == {l \in Labels : ~isBuilding[watch][l]} IN
          /\ UNCHANGED hasBeenANewSave
          /\ isBuilding' = [isBuilding EXCEPT ![watch] = [l \in Labels |-> TRUE]]
          /\ BuildChromeDir(watch, idle)
  /\ UNCHANGED <<watch, tried, once>>
\* onDidSaveTextDocument: onSaveFn sets both flags, and calls the callback of
\* a build that has ended, which starts another.
OnSave ==
  /\ saves < MaxSaves /\ saves' = saves + 1
  /\ IF watch = 0 THEN UNCHANGED <<flags, process, task>>
     ELSE LET idle == {l \in Labels : ~isBuilding[watch][l]} IN
          /\ hasBeenANewSave' = [hasBeenANewSave EXCEPT ![watch] = [l \in Labels |-> l \notin idle]]
          /\ isBuilding' = [isBuilding EXCEPT ![watch] = [l \in Labels |-> TRUE]]
          /\ BuildChromeDir(watch, idle)
  /\ UNCHANGED <<watch, tried, once>>

\* ashCallback, lacrosCallback: process p was the last of its build.
Callback(p, status) ==
  LET w == p.of  l == p.label IN
  IF w = Once
  THEN /\ process' = process \ {p} /\ task' = status
       /\ UNCHANGED <<flags, tried>>
  ELSE /\ tried' = [tried EXCEPT ![w][l] = p.saves]
       /\ hasBeenANewSave' = [hasBeenANewSave EXCEPT ![w][l] = FALSE]
       /\ isBuilding' = [isBuilding EXCEPT ![w][l] = hasBeenANewSave[w][l]]
       /\ IF hasBeenANewSave[w][l]
          THEN /\ process' = (process \ {p}) \cup {[does |-> "build", of |-> w, label |-> l, saves |-> saves]}
               /\ task' = [status EXCEPT ![l].build = "running"]
          ELSE process' = process \ {p} /\ task' = status

\* autoninja exits with 0: the build is deployed.
BuildExits(p) ==
  /\ p.does = "build"
  /\ process' = (process \ {p}) \cup {[p EXCEPT !.does = "deploy"]}
  /\ task' = [task EXCEPT ![p.label] = [build |-> "ok", deploy |-> "running"]]
  /\ UNCHANGED <<saves, watch, flags, tried, once>>

BuildFails(p) ==
  /\ p.does = "build"
  /\ Callback(p, [task EXCEPT ![p.label].build = "error"])
  /\ UNCHANGED <<saves, watch, once>>

\* deploy_chrome exits; its code is not looked at.
DeployExits(p) ==
  /\ p.does = "deploy"
  /\ Callback(p, [task EXCEPT ![p.label].deploy = "ok"])
  /\ UNCHANGED <<saves, watch, once>>

Next ==
  \/ Build \/ OnSave
  \/ \E w \in Watches : WatchBuild(w)
  \/ \E p \in process : BuildExits(p) \/ BuildFails(p) \/ DeployExits(p)

Spec == Init /\ [][Next]_vars
\* The processes end.
Fairness == \A w \in Watches : \A l \in Labels :
  WF_vars(\E p \in process : p.of = w /\ p.label = l /\ (BuildExits(p) \/ BuildFails(p) \/ DeployExits(p)))
-----------------------------------------------------------------------------
TypeOK ==
  /\ saves \in 0..MaxSaves /\ once \in 0..MaxOnce /\ watch \in Watches \cup {0}
  /\ process \subseteq Process
  /\ hasBeenANewSave \in [Watches -> [Labels -> BOOLEAN]] /\ isBuilding \in [Watches -> [Labels -> BOOLEAN]]

\* A watch never has two builds of one label, its flag tells if it has one,
\* and when it has none the last save is in what was built.
FlagsTellTheBuilds ==
  \A w \in Watches : \A l \in Labels :
    /\ Cardinality(Builds(w, l)) = IF isBuilding[w][l] THEN 1 ELSE 0
    /\ w = watch /\ ~isBuilding[w][l] => tried[w][l] = saves

\* The saves are followed by a build with all of them in, for the watch that
\* takes them, as long as processes end and the user pauses at times.
EverySaveIsBuilt == []<>(watch # 0 => \A l \in Labels : tried[watch][l] = saves)
=============================================================================
