----------------------------- MODULE JobManager -----------------------------
(***************************************************************************)
(* `JobManager` of shared/app/common/common_util.ts: at most one job at a  *)
(* time and at most one waiting, the newest; a waiting job that a newer    *)
(* one overtakes is cancelled (its promise is resolved with null).         *)
(*                                                                         *)
(* task.run() settles the promise of offer() before handle() resumes, so   *)
(* the continuation of a caller may call offer() again while `running` is  *)
(* still set: TaskSettles and HandleResumes are two steps.                 *)
(***************************************************************************)
EXTENDS Naturals, Sequences, FiniteSets

CONSTANT Jobs      \* the calls of offer that a behaviour may make

VARIABLES
  tasks,        \* this.tasks: offered and not started
  running,      \* this.running
  executing,    \* jobs called by task.run() and not settled
  settled,      \* tasks settled whose handle() has not resumed
  outcome,      \* what the promise of offer() was settled with
  offered       \* history: the jobs in the order offer() was called

vars == <<tasks, running, executing, settled, outcome, offered>>

Ran == {"resolved", "rejected"}
Outcomes == Ran \cup {"pending", "cancelled"}

Newest(q) == q[Len(q)]
Offered(j) == \E i \in 1..Len(offered) : offered[i] = j

Init ==
  /\ tasks = <<>>
  /\ running = FALSE
  /\ executing = {}
  /\ settled = {}
  /\ outcome = [j \in Jobs |-> "pending"]
  /\ offered = <<>>

(***************************************************************************)
(* handle(), entered with tasks q and flag r: all but the newest task are  *)
(* cancelled, then the newest is started unless one is running.            *)
(***************************************************************************)
Cancel(q) ==
  outcome' = [j \in Jobs |-> IF \E i \in 1..Len(q) - 1 : q[i] = j
                             THEN "cancelled" ELSE outcome[j]]

\* mutant: shift() keeps the oldest task instead of the newest
HandleKeepsOldest(q, r) ==
  /\ outcome' = [j \in Jobs |-> IF \E i \in 2..Len(q) : q[i] = j
                                THEN "cancelled" ELSE outcome[j]]
  /\ IF r \/ q = <<>>
     THEN tasks' = (IF q = <<>> THEN q ELSE <<Head(q)>>) /\ UNCHANGED executing /\ running' = r
     ELSE tasks' = <<>> /\ executing' = executing \cup {q[1]} /\ running' = TRUE

\* mutant: nothing is cancelled, the tasks run in turn
HandleCancelsNothing(q, r) ==
  /\ UNCHANGED outcome
  /\ IF r \/ q = <<>>
     THEN tasks' = q /\ UNCHANGED executing /\ running' = r
     ELSE /\ tasks' = Tail(q)
          /\ executing' = executing \cup {Head(q)}
          /\ running' = TRUE

\* mutant: a cancelled task is not removed from the queue
HandleRunsAll(q, r) ==
  /\ Cancel(q)
  /\ IF r \/ q = <<>>
     THEN tasks' = q /\ UNCHANGED executing /\ running' = r
     ELSE /\ tasks' = Tail(q)
          /\ executing' = executing \cup {Head(q)}
          /\ running' = TRUE

\* mutant: `running` is not looked at
HandleIgnoringRunning(q, r) ==
  /\ Cancel(q)
  /\ IF q = <<>>
     THEN tasks' = <<>> /\ UNCHANGED executing /\ running' = r
     ELSE /\ tasks' = <<>>
          /\ executing' = executing \cup {Newest(q)}
          /\ running' = TRUE

Handle(q, r) ==
  /\ Cancel(q)
  /\ IF r \/ q = <<>>
     THEN /\ tasks' = IF q = <<>> THEN <<>> ELSE <<Newest(q)>>
          /\ running' = r
          /\ UNCHANGED executing
     ELSE /\ tasks' = <<>>
          /\ running' = TRUE
          /\ executing' = executing \cup {Newest(q)}

\* offer(job): push a task, then handle().
Offer(j) ==
  /\ ~Offered(j)
  /\ offered' = Append(offered, j)
  /\ Handle(Append(tasks, j), running)
  /\ UNCHANGED settled

\* Task.run: the job settles and so does the promise of offer().
TaskSettles(j, o) ==
  /\ j \in executing
  /\ executing' = executing \ {j}
  /\ settled' = settled \cup {j}
  /\ outcome' = [outcome EXCEPT ![j] = o]
  /\ UNCHANGED <<tasks, running, offered>>

\* mutant: handle() is called before `running` is reset
HandleResumesTooEarly(j) ==
  /\ j \in settled
  /\ settled' = settled \ {j}
  /\ Handle(tasks, TRUE)
  /\ UNCHANGED offered

\* `await task.run()` returns in handle(), which calls itself.
HandleResumes(j) ==
  /\ j \in settled
  /\ settled' = settled \ {j}
  /\ Handle(tasks, FALSE)
  /\ UNCHANGED offered

Next ==
  \/ \E j \in Jobs : Offer(j)
  \/ \E j \in Jobs, o \in Ran : TaskSettles(j, o)
  \/ \E j \in Jobs : HandleResumes(j)

Spec == Init /\ [][Next]_vars

(***************************************************************************)
(* Continuations run; that jobs settle is assumed (the jobs are external   *)
(* commands); nobody has to call offer().                                  *)
(***************************************************************************)
Fairness ==
  \A j \in Jobs : /\ WF_vars(\E o \in Ran : TaskSettles(j, o))
                  /\ WF_vars(HandleResumes(j))

FairSpec == Spec /\ Fairness
-----------------------------------------------------------------------------
\* Types; at most one task survives a turn of the event loop in `tasks`.
TypeOK ==
  /\ tasks \in Seq(Jobs)
  /\ Len(tasks) <= 1
  /\ running \in BOOLEAN
  /\ executing \subseteq Jobs
  /\ settled \subseteq Jobs
  /\ outcome \in [Jobs -> Outcomes]
  /\ offered \in Seq(Jobs)

\* "ensures that only one job is run at a time", and a cancelled or settled
\* job is not (still, or again) being executed.
OneAtATime ==
  /\ \A i, j \in executing \cup settled : i = j
  /\ \A j \in executing : outcome[j] = "pending"

\* When nothing runs, the newest request has been carried out: neither
\* cancelled in favour of an older one nor forgotten in the queue.
IdleMeansLatestDone ==
  ~running /\ offered # <<>> => outcome[Newest(offered)] \in Ran

\* "the manager cancels all but the last job": a job that is started is the
\* newest one offered so far, so results never go back to an older request.
OnlyNewestStarts ==
  [][\A j \in executing' \ executing : j = Newest(offered')]_vars

\* "returns a promise that is fulfilled after the job is cancelled or
\* completed": the promise of every offer() is settled, so that again and again
\* none is pending.
EveryOfferSettled ==
  []<>(\A j \in Jobs : Offered(j) => outcome[j] # "pending")
=============================================================================
