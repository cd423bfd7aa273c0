----------------------------- MODULE MCCppXrefs -----------------------------
(***************************************************************************)
(* Events on two packages: r4 saves a GN file of the second one, the       *)
(* others open or save a C++ file of the first or run the command on it.   *)
(***************************************************************************)
EXTENDS CppXrefs, TLAPS

CONSTANTS r4, p1, p2

MCPathOf == [r \in Requests |-> IF r = r4 THEN p2 ELSE p1]
MCScopeOf == [r \in Requests |-> IF r = r4 THEN "Always" ELSE "InitOnly"]
-----------------------------------------------------------------------------
(***************************************************************************)
(* Theorems about CppXrefs, for any requests, documents and boards.  Its   *)
(* JobManager is a copy of the one JobManagerProofs is about, so that      *)
(* invariant holds of it: one job executes at most.  With it, what a       *)
(* generation read and what it records belong together.                    *)
(***************************************************************************)
JP == INSTANCE JobManagerProofs WITH Jobs <- Requests

\* A handler is in the job as long as the job executes.
InJobIsExecuting == \A r \in Requests : phase[r] \in InJob <=> r \in executing

\* The board of the generation that is under way is the current one, unless
\* that has changed since.
BoardIsRead ==
  \A r \in Requests : phase[r] = "core" => board[r] = config \/ PathOf[r] \in outdated

\* The status that the last job has left when none executes.
StatusIsLeft ==
  executing = {} /\ ~ignored /\ (\A r \in Requests : outcome[r] # "rejected")
    => status # "RUNNING"

IInv ==
  /\ JP!IInv
  /\ TypeOK
  /\ InJobIsExecuting
  /\ BoardIsRead
  /\ GeneratedForBoard
  /\ GeneratingIsGenerated
  /\ SpinnerWhileBusy
  /\ StatusIsLeft

USE RequestsAssumption DEF jobVars, genVars, uiVars, historyVars, InJob, Phases

\* What the steps of the JobManager do, by its own invariant.
LEMMA JobSteps ==
  ASSUME JP!IInv
  PROVE  /\ executing \subseteq Requests
         /\ \A q, r \in executing : q = r
         /\ \A r \in executing : outcome[r] = "pending"
         /\ ~running => executing = {}
         /\ \A r \in Requests : JM!Offer(r) \/ JM!HandleResumes(r) =>
              /\ JP!IInv'
              /\ executing \subseteq executing'
              /\ \A q \in Requests : outcome[q] # "pending" => outcome'[q] = outcome[q]
              /\ \A q \in executing' : outcome'[q] = "pending"
         /\ \A r \in Requests, o \in {"resolved", "rejected"} : JM!TaskSettles(r, o) =>
              /\ JP!IInv'
              /\ executing = {r} /\ executing' = {}
              /\ outcome'[r] = o
         /\ UNCHANGED jobVars => JP!IInv'
<1>1. /\ executing \subseteq Requests
      /\ \A q, r \in executing : q = r
      /\ \A r \in executing : outcome[r] = "pending"
      /\ ~running => executing = {}
  BY DEF JP!IInv, JP!TypeOK, JP!RunningIsOneJob, JP!OutcomesFit
<1>2. ASSUME NEW r \in Requests, JM!Offer(r)
      PROVE  JP!Offer(r) /\ executing \subseteq executing'
  BY <1>2 DEF JM!Offer, JP!Offer, JM!Offered, JP!Offered, JM!Handle, JP!Handle,
              JM!Cancel, JP!Cancel, JM!Newest, JP!Newest
<1>3. ASSUME NEW r \in Requests, JM!HandleResumes(r)
      PROVE  JP!HandleResumes(r) /\ executing \subseteq executing'
  BY <1>3 DEF JM!HandleResumes, JP!HandleResumes, JM!Handle, JP!Handle,
              JM!Cancel, JP!Cancel, JM!Newest, JP!Newest
<1>4. ASSUME NEW r \in Requests, JM!Offer(r) \/ JM!HandleResumes(r)
      PROVE  /\ JP!IInv'
             /\ \A q \in executing' : outcome'[q] = "pending"
             /\ \A q \in Requests : outcome[q] # "pending" => outcome'[q] = outcome[q]
  <2>1. JP!IInv' /\ JP!KeptOutcomes
    BY <1>2, <1>3, <1>4, JP!OfferIInv, JP!ResumeIInv
  <2>2. QED
    BY <2>1 DEF JP!IInv, JP!OutcomesFit, JP!KeptOutcomes
<1>5. ASSUME NEW r \in Requests, NEW o \in {"resolved", "rejected"},
             JM!TaskSettles(r, o)
      PROVE  /\ JP!IInv'
             /\ executing = {r} /\ executing' = {}
             /\ outcome'[r] = o
  <2>1. JP!TaskSettles(r, o) /\ o \in JP!Ran
    BY <1>5 DEF JM!TaskSettles, JP!TaskSettles, JP!Ran
  <2>2. JP!IInv'
    BY <2>1, JP!SettleIInv
  <2>3. QED
    BY <1>1, <1>5, <2>2 DEF JM!TaskSettles, JP!IInv, JP!TypeOK
<1>6. UNCHANGED jobVars => JP!IInv'
  <2>1. UNCHANGED jobVars => UNCHANGED JP!vars
    BY DEF JP!vars
  <2>2. QED
    BY <2>1, JP!NextIInv
<1>7. QED
  BY <1>1, <1>2, <1>3, <1>4, <1>5, <1>6

LEMMA Initially == Init => IInv
<1> SUFFICES ASSUME Init PROVE IInv
  OBVIOUS
<1> USE DEF Init, JM!Init
<1>1. JP!IInv
  <2>1. JP!Init
    BY DEF JP!Init
  <2>2. QED
    BY <2>1, JP!InitIInv
<1>2. TypeOK
  BY DEF TypeOK
<1>3. QED
  BY <1>1, <1>2 DEF IInv, InJobIsExecuting, BoardIsRead, GeneratedForBoard,
                    GeneratingIsGenerated, SpinnerWhileBusy, StatusIsLeft

LEMMA JobsStep ==
  ASSUME IInv, [Next]_vars
  PROVE  JP!IInv'
<1> USE DEF IInv
<1>1. ASSUME NEW r \in Requests, Touch(r) PROVE JP!IInv'
  BY JobSteps, <1>1 DEF Touch, Goto
<1>2. ASSUME NEW r \in Requests, ScopeKnown(r) PROVE JP!IInv'
  BY JobSteps, <1>2 DEF ScopeKnown, Goto
<1>3. ASSUME NEW r \in Requests, StateKnown(r) PROVE JP!IInv'
  BY JobSteps, <1>3 DEF StateKnown, Goto
<1>4. ASSUME NEW r \in Requests, ClangdMissing(r) PROVE JP!IInv'
  BY JobSteps, <1>4 DEF ClangdMissing, Goto
<1>5. ASSUME NEW r \in Requests, ClangdReady(r) PROVE JP!IInv'
  BY JobSteps, <1>5 DEF ClangdReady, JobsMoved
<1>6. ASSUME NEW r \in Requests, CompdbPathKnown(r) PROVE JP!IInv'
  BY JobSteps, <1>6 DEF CompdbPathKnown, Goto
<1>7. ASSUME NEW r \in Requests, NEW b \in Boards, BoardPicked(r,
             b) PROVE JP!IInv'
  BY JobSteps, <1>7 DEF BoardPicked, Goto, ConfigChanges, Overtaken
<1>8. ASSUME NEW r \in Requests, CoreSucceeds(r) PROVE JP!IInv'
  BY JobSteps, <1>8 DEF CoreSucceeds, Goto
<1>9. ASSUME NEW r \in Requests, CoreFails(r) PROVE JP!IInv'
  BY JobSteps, <1>9 DEF CoreFails, Goto
<1>10. ASSUME NEW r \in Requests, JobThrows(r) PROVE JP!IInv'
  BY JobSteps, <1>10 DEF JobThrows, Goto
<1>11. ASSUME NEW r \in Requests, ClangdRestarted(r) PROVE JP!IInv'
  BY JobSteps, <1>11 DEF ClangdRestarted, Goto
<1>12. ASSUME NEW r \in Requests, HandleResumes(r) PROVE JP!IInv'
  BY JobSteps, <1>12 DEF HandleResumes, JobsMoved
<1>13. CASE IgnorePressed
  BY JobSteps, <1>13 DEF IgnorePressed
<1>14. ASSUME NEW b \in Boards, BoardChanges(b) PROVE JP!IInv'
  BY JobSteps, <1>14 DEF BoardChanges, ConfigChanges, Overtaken
<1>15. ASSUME NEW p \in Paths, CompdbRemoved(p) PROVE JP!IInv'
  BY JobSteps, <1>15 DEF CompdbRemoved
<1>16. CASE UNCHANGED vars
  BY JobSteps, <1>16 DEF vars
<1>17. QED
  BY JobSteps, <1>1, <1>2, <1>3, <1>4, <1>5, <1>6, <1>7, <1>8, <1>9, <1>10,
     <1>11, <1>12, <1>13, <1>14, <1>15, <1>16 DEF Next, Handler, JobEnds

LEMMA TypesStep ==
  ASSUME IInv, [Next]_vars
  PROVE  TypeOK'
<1> USE DEF IInv, TypeOK
<1>1. ASSUME NEW r \in Requests, Touch(r) PROVE TypeOK'
  BY <1>1 DEF Touch, Goto
<1>2. ASSUME NEW r \in Requests, ScopeKnown(r) PROVE TypeOK'
  BY <1>2 DEF ScopeKnown, Goto
<1>3. ASSUME NEW r \in Requests, StateKnown(r) PROVE TypeOK'
  BY <1>3 DEF StateKnown, Goto
<1>4. ASSUME NEW r \in Requests, ClangdMissing(r) PROVE TypeOK'
  BY <1>4 DEF ClangdMissing, Goto
<1>5. ASSUME NEW r \in Requests, ClangdReady(r) PROVE TypeOK'
  BY <1>5, JobSteps DEF ClangdReady, JobsMoved
<1>6. ASSUME NEW r \in Requests, CompdbPathKnown(r) PROVE TypeOK'
  BY <1>6 DEF CompdbPathKnown, Goto
<1>7. ASSUME NEW r \in Requests, NEW b \in Boards, BoardPicked(r, b) PROVE TypeOK'
  BY <1>7 DEF BoardPicked, Goto, ConfigChanges, Overtaken
<1>8. ASSUME NEW r \in Requests, CoreSucceeds(r) PROVE TypeOK'
  BY <1>8 DEF CoreSucceeds, Goto
<1>9. ASSUME NEW r \in Requests, CoreFails(r) PROVE TypeOK'
  BY <1>9, JobSteps DEF CoreFails, Goto
<1>10. ASSUME NEW r \in Requests, JobThrows(r) PROVE TypeOK'
  BY <1>10, JobSteps DEF JobThrows, Goto
<1>11. ASSUME NEW r \in Requests, ClangdRestarted(r) PROVE TypeOK'
  BY <1>11, JobSteps DEF ClangdRestarted, Goto
<1>12. ASSUME NEW r \in Requests, HandleResumes(r) PROVE TypeOK'
  BY <1>12, JobSteps DEF HandleResumes, JobsMoved
<1>13. CASE IgnorePressed
  BY <1>13 DEF IgnorePressed
<1>14. ASSUME NEW b \in Boards, BoardChanges(b) PROVE TypeOK'
  BY <1>14 DEF BoardChanges, ConfigChanges, Overtaken
<1>15. ASSUME NEW p \in Paths, CompdbRemoved(p) PROVE TypeOK'
  BY <1>15 DEF CompdbRemoved
<1>16. CASE UNCHANGED vars
  BY <1>16 DEF vars
<1>17. QED
  BY <1>1, <1>2, <1>3, <1>4, <1>5, <1>6, <1>7, <1>8, <1>9, <1>10, <1>11, <1>12,
     <1>13, <1>14, <1>15, <1>16 DEF Next, Handler, JobEnds

\* The handlers that move with the jobs, and those that do not.
LEMMA MovedPhases ==
  ASSUME IInv, NEW r \in Requests, NEW queued \in SUBSET Requests, JobsMoved(queued),
         \/ JM!Offer(r) /\ queued = {r} /\ phase[r] = "clangd"
         \/ JM!HandleResumes(r) /\ queued = {}
  PROVE  /\ InJobIsExecuting'
         /\ \A q \in Requests : phase[q] \in InJob => phase'[q] = phase[q]
         /\ \A q \in Requests :
              phase'[q] = phase[q] \/ phase'[q] \in {"compdbPath", "closed", "queued"}
<1> USE DEF IInv, TypeOK, InJobIsExecuting
<1>1. /\ executing \subseteq executing' /\ executing' \subseteq Requests
      /\ \A q \in executing' : outcome'[q] = "pending"
  BY JobSteps DEF JP!IInv, JP!TypeOK
<1>2. ASSUME NEW q \in Requests
      PROVE  phase'[q] = IF q \in executing' \ executing THEN "compdbPath"
                         ELSE IF outcome'[q] = "cancelled" THEN "closed"
                         ELSE IF q \in queued THEN "queued" ELSE phase[q]
  BY DEF JobsMoved
<1>3. ASSUME NEW q \in queued PROVE q \notin executing
  OBVIOUS
<1>4. QED
  BY <1>1, <1>2, <1>3

LEMMA InJobStep ==
  ASSUME IInv, [Next]_vars
  PROVE  InJobIsExecuting'
<1> USE DEF IInv, TypeOK, InJobIsExecuting
<1>1. ASSUME NEW r \in Requests, Touch(r) PROVE InJobIsExecuting'
  BY <1>1 DEF Touch, Goto
<1>2. ASSUME NEW r \in Requests, ScopeKnown(r) PROVE InJobIsExecuting'
  BY <1>2 DEF ScopeKnown, Goto
<1>3. ASSUME NEW r \in Requests, StateKnown(r) PROVE InJobIsExecuting'
  BY <1>3 DEF StateKnown, Goto
<1>4. ASSUME NEW r \in Requests, ClangdMissing(r) PROVE InJobIsExecuting'
  BY <1>4 DEF ClangdMissing, Goto
<1>5. ASSUME NEW r \in Requests, ClangdReady(r) PROVE InJobIsExecuting'
  BY <1>5, JobSteps DEF ClangdReady, JobsMoved
<1>6. ASSUME NEW r \in Requests, CompdbPathKnown(r) PROVE InJobIsExecuting'
  BY <1>6 DEF CompdbPathKnown, Goto
<1>7. ASSUME NEW r \in Requests, NEW b \in Boards, BoardPicked(r,
             b) PROVE InJobIsExecuting'
  BY <1>7 DEF BoardPicked, Goto, ConfigChanges, Overtaken
<1>8. ASSUME NEW r \in Requests, CoreSucceeds(r) PROVE InJobIsExecuting'
  BY <1>8 DEF CoreSucceeds, Goto
<1>9. ASSUME NEW r \in Requests, CoreFails(r) PROVE InJobIsExecuting'
  BY <1>9, JobSteps DEF CoreFails, Goto
<1>10. ASSUME NEW r \in Requests, JobThrows(r) PROVE InJobIsExecuting'
  BY <1>10, JobSteps DEF JobThrows, Goto
<1>11. ASSUME NEW r \in Requests, ClangdRestarted(r) PROVE InJobIsExecuting'
  BY <1>11, JobSteps DEF ClangdRestarted, Goto
<1>12. ASSUME NEW r \in Requests, HandleResumes(r) PROVE InJobIsExecuting'
  BY <1>12, JobSteps DEF HandleResumes, JobsMoved
<1>13. CASE IgnorePressed
  BY <1>13 DEF IgnorePressed
<1>14. ASSUME NEW b \in Boards, BoardChanges(b) PROVE InJobIsExecuting'
  BY <1>14 DEF BoardChanges, ConfigChanges, Overtaken
<1>15. ASSUME NEW p \in Paths, CompdbRemoved(p) PROVE InJobIsExecuting'
  BY <1>15 DEF CompdbRemoved
<1>16. CASE UNCHANGED vars
  BY <1>16 DEF vars
<1>17. QED
  BY <1>1, <1>2, <1>3, <1>4, <1>5, <1>6, <1>7, <1>8, <1>9, <1>10, <1>11, <1>12,
     <1>13, <1>14, <1>15, <1>16 DEF Next, Handler, JobEnds

LEMMA BoardStep ==
  ASSUME IInv, [Next]_vars
  PROVE  BoardIsRead' /\ GeneratedForBoard'
<1> USE JobSteps DEF IInv, TypeOK, InJobIsExecuting, BoardIsRead,
                     GeneratedForBoard
<1>1. ASSUME NEW r \in Requests, Touch(r) PROVE BoardIsRead' /\ GeneratedForBoard'
  BY <1>1 DEF Touch, Goto
<1>2. ASSUME NEW r \in Requests,
             ScopeKnown(r) PROVE BoardIsRead' /\ GeneratedForBoard'
  BY <1>2 DEF ScopeKnown, Goto
<1>3. ASSUME NEW r \in Requests,
             StateKnown(r) PROVE BoardIsRead' /\ GeneratedForBoard'
  BY <1>3 DEF StateKnown, Goto
<1>4. ASSUME NEW r \in Requests,
             ClangdMissing(r) PROVE BoardIsRead' /\ GeneratedForBoard'
  BY <1>4 DEF ClangdMissing, Goto
<1>5. ASSUME NEW r \in Requests,
             ClangdReady(r) PROVE BoardIsRead' /\ GeneratedForBoard'
  BY <1>5 DEF ClangdReady, JobsMoved
<1>6. ASSUME NEW r \in Requests,
             CompdbPathKnown(r) PROVE BoardIsRead' /\ GeneratedForBoard'
  BY <1>6 DEF CompdbPathKnown, Goto
<1>7. ASSUME NEW r \in Requests, NEW b \in Boards, BoardPicked(r,
             b) PROVE BoardIsRead' /\ GeneratedForBoard'
  BY <1>7 DEF BoardPicked, Goto, ConfigChanges, Overtaken
<1>8. ASSUME NEW r \in Requests,
             CoreSucceeds(r) PROVE BoardIsRead' /\ GeneratedForBoard'
  BY <1>8 DEF CoreSucceeds, Goto
<1>9. ASSUME NEW r \in Requests,
             CoreFails(r) PROVE BoardIsRead' /\ GeneratedForBoard'
  BY <1>9 DEF CoreFails, Goto
<1>10. ASSUME NEW r \in Requests,
              JobThrows(r) PROVE BoardIsRead' /\ GeneratedForBoard'
  BY <1>10 DEF JobThrows, Goto
<1>11. ASSUME NEW r \in Requests,
              ClangdRestarted(r) PROVE BoardIsRead' /\ GeneratedForBoard'
  BY <1>11 DEF ClangdRestarted, Goto
<1>12. ASSUME NEW r \in Requests,
              HandleResumes(r) PROVE BoardIsRead' /\ GeneratedForBoard'
  BY <1>12 DEF HandleResumes, JobsMoved
<1>13. CASE IgnorePressed
  BY <1>13 DEF IgnorePressed
<1>14. ASSUME NEW b \in Boards,
              BoardChanges(b) PROVE BoardIsRead' /\ GeneratedForBoard'
  BY <1>14 DEF BoardChanges, ConfigChanges, Overtaken
<1>15. ASSUME NEW p \in Paths,
              CompdbRemoved(p) PROVE BoardIsRead' /\ GeneratedForBoard'
  BY <1>15 DEF CompdbRemoved
<1>16. CASE UNCHANGED vars
  BY <1>16 DEF vars
<1>17. QED
  BY <1>1, <1>2, <1>3, <1>4, <1>5, <1>6, <1>7, <1>8, <1>9, <1>10, <1>11, <1>12,
     <1>13, <1>14, <1>15, <1>16 DEF Next, Handler, JobEnds

LEMMA GeneratingStep ==
  ASSUME IInv, [Next]_vars
  PROVE  GeneratingIsGenerated'
<1> USE JobSteps DEF IInv, TypeOK, InJobIsExecuting, GeneratingIsGenerated
<1>1. ASSUME NEW r \in Requests, Touch(r) PROVE GeneratingIsGenerated'
  BY <1>1 DEF Touch, Goto
<1>2. ASSUME NEW r \in Requests, ScopeKnown(r) PROVE GeneratingIsGenerated'
  BY <1>2 DEF ScopeKnown, Goto
<1>3. ASSUME NEW r \in Requests, StateKnown(r) PROVE GeneratingIsGenerated'
  BY <1>3 DEF StateKnown, Goto
<1>4. ASSUME NEW r \in Requests, ClangdMissing(r) PROVE GeneratingIsGenerated'
  BY <1>4 DEF ClangdMissing, Goto
<1>5. ASSUME NEW r \in Requests, ClangdReady(r) PROVE GeneratingIsGenerated'
  BY <1>5 DEF ClangdReady, JobsMoved
<1>6. ASSUME NEW r \in Requests, CompdbPathKnown(r) PROVE GeneratingIsGenerated'
  BY <1>6 DEF CompdbPathKnown, Goto
<1>7. ASSUME NEW r \in Requests, NEW b \in Boards, BoardPicked(r,
             b) PROVE GeneratingIsGenerated'
  BY <1>7 DEF BoardPicked, Goto, ConfigChanges, Overtaken
<1>8. ASSUME NEW r \in Requests, CoreSucceeds(r) PROVE GeneratingIsGenerated'
  BY <1>8 DEF CoreSucceeds, Goto
<1>9. ASSUME NEW r \in Requests, CoreFails(r) PROVE GeneratingIsGenerated'
  BY <1>9 DEF CoreFails, Goto
<1>10. ASSUME NEW r \in Requests, JobThrows(r) PROVE GeneratingIsGenerated'
  BY <1>10 DEF JobThrows, Goto
<1>11. ASSUME NEW r \in Requests, ClangdRestarted(r) PROVE GeneratingIsGenerated'
  BY <1>11 DEF ClangdRestarted, Goto
<1>12. ASSUME NEW r \in Requests, HandleResumes(r) PROVE GeneratingIsGenerated'
  BY <1>12 DEF HandleResumes, JobsMoved
<1>13. CASE IgnorePressed
  BY <1>13 DEF IgnorePressed
<1>14. ASSUME NEW b \in Boards, BoardChanges(b) PROVE GeneratingIsGenerated'
  BY <1>14 DEF BoardChanges, ConfigChanges, Overtaken
<1>15. ASSUME NEW p \in Paths, CompdbRemoved(p) PROVE GeneratingIsGenerated'
  BY <1>15 DEF CompdbRemoved
<1>16. CASE UNCHANGED vars
  BY <1>16 DEF vars
<1>17. QED
  BY <1>1, <1>2, <1>3, <1>4, <1>5, <1>6, <1>7, <1>8, <1>9, <1>10, <1>11, <1>12,
     <1>13, <1>14, <1>15, <1>16 DEF Next, Handler, JobEnds

LEMMA StatusStep ==
  ASSUME IInv, [Next]_vars
  PROVE  SpinnerWhileBusy' /\ StatusIsLeft'
<1> USE DEF IInv, TypeOK, SpinnerWhileBusy, StatusIsLeft
<1>1. ASSUME NEW r \in Requests, Touch(r) PROVE SpinnerWhileBusy' /\ StatusIsLeft'
  BY <1>1 DEF Touch, Goto
<1>2. ASSUME NEW r \in Requests,
             ScopeKnown(r) PROVE SpinnerWhileBusy' /\ StatusIsLeft'
  BY <1>2 DEF ScopeKnown, Goto
<1>3. ASSUME NEW r \in Requests,
             StateKnown(r) PROVE SpinnerWhileBusy' /\ StatusIsLeft'
  BY <1>3 DEF StateKnown, Goto
<1>4. ASSUME NEW r \in Requests,
             ClangdMissing(r) PROVE SpinnerWhileBusy' /\ StatusIsLeft'
  BY <1>4 DEF ClangdMissing, Goto
<1>5. ASSUME NEW r \in Requests,
             ClangdReady(r) PROVE SpinnerWhileBusy' /\ StatusIsLeft'
  BY <1>5, JobSteps DEF ClangdReady, JobsMoved
<1>6. ASSUME NEW r \in Requests,
             CompdbPathKnown(r) PROVE SpinnerWhileBusy' /\ StatusIsLeft'
  BY <1>6 DEF CompdbPathKnown, Goto
<1>7. ASSUME NEW r \in Requests, NEW b \in Boards, BoardPicked(r,
             b) PROVE SpinnerWhileBusy' /\ StatusIsLeft'
  BY <1>7 DEF BoardPicked, Goto, ConfigChanges, Overtaken
<1>8. ASSUME NEW r \in Requests,
             CoreSucceeds(r) PROVE SpinnerWhileBusy' /\ StatusIsLeft'
  BY <1>8 DEF CoreSucceeds, Goto
<1>9. ASSUME NEW r \in Requests,
             CoreFails(r) PROVE SpinnerWhileBusy' /\ StatusIsLeft'
  BY <1>9, JobSteps DEF CoreFails, Goto
<1>10. ASSUME NEW r \in Requests,
              JobThrows(r) PROVE SpinnerWhileBusy' /\ StatusIsLeft'
  BY <1>10, JobSteps DEF JobThrows, Goto
<1>11. ASSUME NEW r \in Requests,
              ClangdRestarted(r) PROVE SpinnerWhileBusy' /\ StatusIsLeft'
  BY <1>11, JobSteps DEF ClangdRestarted, Goto
<1>12. ASSUME NEW r \in Requests,
              HandleResumes(r) PROVE SpinnerWhileBusy' /\ StatusIsLeft'
  BY <1>12, JobSteps DEF HandleResumes, JobsMoved
<1>13. CASE IgnorePressed
  BY <1>13 DEF IgnorePressed
<1>14. ASSUME NEW b \in Boards,
              BoardChanges(b) PROVE SpinnerWhileBusy' /\ StatusIsLeft'
  BY <1>14 DEF BoardChanges, ConfigChanges, Overtaken
<1>15. ASSUME NEW p \in Paths,
              CompdbRemoved(p) PROVE SpinnerWhileBusy' /\ StatusIsLeft'
  BY <1>15 DEF CompdbRemoved
<1>16. CASE UNCHANGED vars
  BY <1>16 DEF vars
<1>17. QED
  BY <1>1, <1>2, <1>3, <1>4, <1>5, <1>6, <1>7, <1>8, <1>9, <1>10, <1>11, <1>12,
     <1>13, <1>14, <1>15, <1>16 DEF Next, Handler, JobEnds

\* The queue, the handlers, what is recorded of the databases, and the status
\* bar, for any requests, documents and boards.
THEOREM XrefsInvariance == Spec => []IInv
<1>1. IInv /\ [Next]_vars => IInv'
  BY JobsStep, TypesStep, InJobStep, BoardStep, GeneratingStep, StatusStep
     DEF IInv
<1>2. QED
  BY Initially, <1>1, PTL DEF Spec

\* Generations exclude each other, and what shouldGenerate reads of a database
\* is what became of it, whenever the board changes (generic_compdb_generator.ts:87).
THEOREM Recorded == Spec => []GenerationsAreRecorded
<1>1. IInv => GenerationsAreRecorded
  <2> SUFFICES ASSUME IInv PROVE OneGeneration
    BY DEF IInv, GenerationsAreRecorded
  <2>1. QED
    BY JobSteps DEF IInv, InJobIsExecuting, OneGeneration
<1>2. QED
  BY XrefsInvariance, <1>1, PTL

\* The status bar shows the spinner while a job is at work and, short of
\* ignored and unexpected errors, not after the last one (cpp_xrefs.ts:232).
THEOREM Spinner == Spec => []SpinnerIsRight
<1>1. IInv => SpinnerIsRight
  <2> SUFFICES ASSUME IInv PROVE SpinnerStops
    BY DEF IInv, SpinnerIsRight
  <2>1. QED
    BY JobSteps DEF IInv, StatusIsLeft, SpinnerStops
<1>2. QED
  BY XrefsInvariance, <1>1, PTL
=============================================================================
