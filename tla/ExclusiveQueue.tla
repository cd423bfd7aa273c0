--------------------------- MODULE ExclusiveQueue ---------------------------
(***************************************************************************)
(* What `Mutex.runExclusive` promises to the code that uses it, with no    *)
(* word about how: jobs are executed one after the other in the order in   *)
(* which runExclusive was called, an execution has one outcome, and the    *)
(* callers hear of the outcomes in that same order, never before the job   *)
(* has been executed.                                                      *)
(***************************************************************************)
EXTENDS Naturals, Sequences

CONSTANTS Jobs, Outcomes

VARIABLES
  calls,     \* the jobs handed to runExclusive, in the order of the calls
  results,   \* one [job, outcome] record per execution that has ended
  answers    \* the results the callers have been told

vars == <<calls, results, answers>>

Init ==
  /\ calls = <<>>
  /\ results = <<>>
  /\ answers = <<>>

Call(j) ==
  /\ \A i \in 1..Len(calls) : calls[i] # j
  /\ calls' = Append(calls, j)
  /\ UNCHANGED <<results, answers>>

Execute(o) ==
  /\ Len(results) < Len(calls)
  /\ results' = Append(results,
                       [job |-> calls[Len(results) + 1], outcome |-> o])
  /\ UNCHANGED <<calls, answers>>

Answer ==
  /\ Len(answers) < Len(results)
  /\ answers' = Append(answers, results[Len(answers) + 1])
  /\ UNCHANGED <<calls, results>>

Next ==
  \/ \E j \in Jobs : Call(j)
  \/ \E o \in Outcomes : Execute(o)
  \/ Answer

Spec == Init /\ [][Next]_vars
=============================================================================
