------------------------------- MODULE Mutex --------------------------------
(***************************************************************************)
(* `Mutex` of src/src/common/mutex.ts: a FIFO of jobs run one at a time on *)
(* the event loop.  OwnedDevices, GitDirs and the CIPD repository rely on  *)
(* it to make a read-modify-write that spans an `await` atomic.            *)
(*                                                                         *)
(* A step is one turn of the event loop, which is as fine as JavaScript    *)
(* interleaves: a call of runExclusive up to the point where handle()      *)
(* awaits, the continuation of that await, and one setImmediate callback.  *)
(* A job is the identity of one call; what it does between being called    *)
(* and settling belongs to the module that uses the mutex.                 *)
(***************************************************************************)
EXTENDS Naturals, Sequences, FiniteSets

CONSTANT Jobs      \* the calls of runExclusive that a behaviour may make

VARIABLES
  queue,        \* this.queue: jobs not started yet
  running,      \* this.running
  executing,    \* jobs that have been called and whose promise is pending
  immediates,   \* setImmediate callbacks that will settle a caller's promise
  answered,     \* settled promises of runExclusive, in the order of settling
  calls         \* history: the jobs in the order runExclusive was called

vars == <<queue, running, executing, immediates, answered, calls>>

Outcomes == {"resolved", "rejected"}
Results == [job : Jobs, outcome : Outcomes]

Called(j) == \E i \in 1..Len(calls) : calls[i] = j
Answered(j) == \E i \in 1..Len(answered) : answered[i].job = j

Init ==
  /\ queue = <<>>
  /\ running = FALSE
  /\ executing = {}
  /\ immediates = <<>>
  /\ answered = <<>>
  /\ calls = <<>>

(***************************************************************************)
(* handle() up to its `await`, entered with queue q, flag r and jobs e     *)
(* already executing: it returns at once when a job is running or none is  *)
(* queued, else it takes the oldest job and calls it.                      *)
(***************************************************************************)
\* mutant: the `this.running` test is forgotten
HandleIgnoringRunning(q, r, e) ==
  IF q = <<>>
  THEN queue' = q /\ running' = r /\ executing' = e
  ELSE queue' = Tail(q) /\ running' = TRUE /\ executing' = e \cup {Head(q)}

\* mutant: pop() instead of shift()
HandleNewestFirst(q, r, e) ==
  IF r \/ q = <<>>
  THEN queue' = q /\ running' = r /\ executing' = e
  ELSE /\ queue' = SubSeq(q, 1, Len(q) - 1)
       /\ running' = TRUE
       /\ executing' = e \cup {q[Len(q)]}

Handle(q, r, e) ==
  IF r \/ q = <<>>
  THEN queue' = q /\ running' = r /\ executing' = e
  ELSE queue' = Tail(q) /\ running' = TRUE /\ executing' = e \cup {Head(q)}

\* runExclusive(job): push, then handle().
RunExclusive(j) ==
  /\ ~Called(j)
  /\ calls' = Append(calls, j)
  /\ Handle(Append(queue, j), running, executing)
  /\ UNCHANGED <<immediates, answered>>

(***************************************************************************)
(* The promise of job j settles and handle() resumes: the answer to the    *)
(* caller is left to a setImmediate callback, `running` is cleared and     *)
(* the next job is started in the same turn.                               *)
(***************************************************************************)
\* mutant: the `finally` block is only reached when the job succeeds
JobSettlesNoFinally(j, o) ==
  /\ j \in executing
  /\ immediates' = Append(immediates, [job |-> j, outcome |-> o])
  /\ IF o = "resolved"
     THEN Handle(queue, FALSE, executing \ {j})
     ELSE executing' = executing \ {j} /\ UNCHANGED <<queue, running>>
  /\ UNCHANGED <<answered, calls>>

JobSettles(j, o) ==
  /\ j \in executing
  /\ immediates' = Append(immediates, [job |-> j, outcome |-> o])
  /\ Handle(queue, FALSE, executing \ {j})
  /\ UNCHANGED <<answered, calls>>

\* A setImmediate callback resolves or rejects the promise of runExclusive.
Immediate ==
  /\ immediates # <<>>
  /\ answered' = Append(answered, Head(immediates))
  /\ immediates' = Tail(immediates)
  /\ UNCHANGED <<queue, running, executing, calls>>

Next ==
  \/ \E j \in Jobs : RunExclusive(j)
  \/ \E j \in Jobs, o \in Outcomes : JobSettles(j, o)
  \/ Immediate

Spec == Init /\ [][Next]_vars

(***************************************************************************)
(* The event loop runs every callback it holds.  That a job settles is an  *)
(* assumption on the job (an external command with no timeout may hang),   *)
(* and nobody is obliged to call runExclusive.                             *)
(***************************************************************************)
Fairness ==
  /\ \A j \in Jobs : WF_vars(\E o \in Outcomes : JobSettles(j, o))
  /\ WF_vars(Immediate)

FairSpec == Spec /\ Fairness
-----------------------------------------------------------------------------
\* Types of the six variables.
TypeOK ==
  /\ queue \in Seq(Jobs)
  /\ running \in BOOLEAN
  /\ executing \subseteq Jobs
  /\ immediates \in Seq(Results)
  /\ answered \in Seq(Results)
  /\ calls \in Seq(Jobs)

\* The point of the class ("run jobs exclusively", mutex.ts): two jobs are
\* never between their start and the settling of their promise.
MutualExclusion == \A i, j \in executing : i = j

\* handle() is only called by runExclusive and at the end of a job; no job
\* may be left in the queue with nothing running that would pick it up.
NoForgottenJob == queue # <<>> => executing # {}

\* Every call is answered once the jobs before it have ended, whichever of
\* them failed: a job that throws does not block the ones behind it.  The calls
\* are finite, so all that were made are answered again and again.
EveryCallAnswered == []<>(\A j \in Jobs : Called(j) => Answered(j))

\* The class implements ExclusiveQueue: order of execution and order of the
\* answers are the order of the calls, and no outcome is lost or swapped.
Abstract == INSTANCE ExclusiveQueue WITH
              results <- answered \o immediates, answers <- answered
ImplementsExclusiveQueue == Abstract!Spec
=============================================================================
