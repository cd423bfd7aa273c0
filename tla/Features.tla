------------------------------- MODULE Features -------------------------------
(***************************************************************************)
(* The features of a product, activated for the root that its watcher      *)
(* selects.  Another root, or none, disposes the instance there is and     *)
(* makes a new one.  Activation has `await`s in it and nothing cancels it; *)
(* some of what it starts is disposed by nobody, and a command can have    *)
(* one owner only.                                                         *)
(***************************************************************************)
EXTENDS Naturals, Sequences, FiniteSets, SequencesExt

CONSTANTS
  Roots,      \* source trees
  NoRoot,     \* no root
  Batches,    \* the features activated without an `await` between, in order
  WithCommand,\* the features that register commands
  Optional,   \* those whose activation may give up in silence
  Undisposed, \* what is started without being put into `subscriptions`
  MaxEvents   \* bound: events of onDidChangeRoot

VARIABLES
  instances, \* the instances made so far: [root, batch, disposed, early]
  live,      \* the features that run, each with the number of its instance
  events     \* counts events

vars == <<instances, live, events>>

FeatureSet == UNION {ToSet(Batches[i]) : i \in DOMAIN Batches}
Current == IF instances = <<>> \/ Last(instances).disposed THEN 0 ELSE Len(instances)
Activating(k) == instances[k].batch <= Len(Batches)

Init == instances = <<>> /\ live = {} /\ events = 0
-----------------------------------------------------------------------------
\* The features of a batch start one by one; the first whose command has an
\* owner throws, and the activation is over.
Taken(f, running) == f \in WithCommand /\ \E p \in running : p[1] = f
Started(k, batch, skipped, running) ==
  LET Throws(i) == batch[i] \notin skipped /\ Taken(batch[i], running)
      starts == {i \in DOMAIN batch : batch[i] \notin skipped /\ \A j \in 1..i : ~Throws(j)}
  IN  [live |-> running \cup {<<batch[i], k>> : i \in starts},
       failed |-> \E i \in DOMAIN batch : Throws(i)]

Disposing(k) == {p \in live : p[2] = k /\ p[1] \notin Undisposed}

\* mutant: the instance there is is not disposed
ChangeRootKeeping(root) ==
  LET started == Started(Len(instances) + 1, Batches[1], {}, live) IN
  /\ events < MaxEvents /\ events' = events + 1
  /\ IF root = NoRoot THEN UNCHANGED <<instances, live>>
     ELSE /\ instances' = Append(instances, [root |-> root, batch |-> IF started.failed THEN Len(Batches) + 1 ELSE 2,
                                             failed |-> started.failed, disposed |-> FALSE, early |-> FALSE])
          /\ live' = started.live
\* onDidChangeRoot: the old instance is disposed, and the new one activates
\* up to its first `await`.
ChangeRoot(root) ==
  LET old == [k \in DOMAIN instances |->
                IF k = Current THEN [instances[k] EXCEPT !.disposed = TRUE, !.early = Activating(k)] ELSE instances[k]]
      left == live \ (IF Current = 0 THEN {} ELSE Disposing(Current))
      started == Started(Len(instances) + 1, Batches[1], {}, left) IN
  /\ events < MaxEvents /\ events' = events + 1
  /\ IF root = NoRoot THEN instances' = old /\ live' = left
     ELSE /\ instances' = Append(old, [root |-> root, batch |-> IF started.failed THEN Len(Batches) + 1 ELSE 2,
                                       failed |-> started.failed, disposed |-> FALSE, early |-> FALSE])
          /\ live' = started.live

\* An `await` of the activation returns, also that of a disposed instance.
Activate(k, skipped) ==
  LET started == Started(k, Batches[instances[k].batch], skipped, live) IN
  /\ k \in DOMAIN instances /\ Activating(k)
  /\ live' = started.live
  /\ instances' = [instances EXCEPT ![k].batch = IF started.failed THEN Len(Batches) + 1 ELSE @ + 1,
                                    ![k].failed = started.failed]
  /\ UNCHANGED events

\* What is awaited is rejected.
ActivateFails(k) ==
  /\ k \in DOMAIN instances /\ Activating(k)
  /\ instances' = [instances EXCEPT ![k].batch = Len(Batches) + 1, ![k].failed = TRUE]
  /\ UNCHANGED <<live, events>>

Next ==
  \/ \E root \in Roots \cup {NoRoot} : ChangeRoot(root)
  \/ \E k \in 1..MaxEvents : Activate(k, {}) \/ Activate(k, Optional) \/ ActivateFails(k)

Spec == Init /\ [][Next]_vars
-----------------------------------------------------------------------------
TypeOK ==
  /\ \A p \in live : p[1] \in FeatureSet /\ p[2] \in DOMAIN instances
  /\ \A k \in DOMAIN instances : instances[k].root \in Roots
  /\ events \in 0..MaxEvents

Early == \E k \in DOMAIN instances : instances[k].early

\* The features that run are all those of the root that is selected, once its
\* activation is through, and no others, but for those that nobody disposes;
\* unless an instance was disposed in the middle of its activation: it goes on,
\* and what it leaves makes a later activation fail.
FeaturesAreOfTheRoot ==
  ~Early =>
    /\ \A p \in live : p[2] = Current \/ p[1] \in Undisposed
    /\ Current # 0 /\ ~Activating(Current) /\ ~instances[Current].failed =>
         \A f \in FeatureSet \ Optional : <<f, Current>> \in live
=============================================================================
