-------------------------- MODULE JobManagerProofs --------------------------
(***************************************************************************)
(* Proofs about JobManager, for any set of jobs.  The inductive invariant  *)
(* says that `running` is one job, executing or settled with its handle()  *)
(* still to resume, and that the newest job offered is not lost: it waits, *)
(* executes, or has been carried out.                                      *)
(***************************************************************************)
EXTENDS JobManager, SequenceTheorems, TLAPS

RunningIsOneJob ==
  IF running
  THEN \E j \in Jobs : \/ executing = {j} /\ settled = {}
                       \/ executing = {} /\ settled = {j}
  ELSE executing = {} /\ settled = {} /\ tasks = <<>>

OutcomesFit ==
  /\ \A j \in executing : outcome[j] = "pending" /\ Offered(j)
  /\ \A j \in settled : outcome[j] \in Ran
  /\ \A j \in Jobs : ~Offered(j) => outcome[j] = "pending"

WaitingIsNewest ==
  tasks # <<>> => /\ offered # <<>>
                  /\ tasks[1] = Newest(offered)
                  /\ outcome[tasks[1]] = "pending"
                  /\ tasks[1] \notin executing

NewestIsServed ==
  tasks = <<>> /\ offered # <<>> =>
    Newest(offered) \in executing \/ outcome[Newest(offered)] \in Ran

IInv ==
  TypeOK /\ RunningIsOneJob /\ OutcomesFit /\ WaitingIsNewest /\ NewestIsServed

\* A promise that is settled stays as it is.
KeptOutcomes == \A k \in Jobs : outcome[k] # "pending" => outcome'[k] = outcome[k]

USE DEF Outcomes, Ran

\* A queue that is not empty and of at most one task has one task.
LEMMA OneTask ==
  ASSUME NEW S, NEW s \in Seq(S), Len(s) <= 1
  PROVE  /\ s # <<>> => Len(s) = 1 /\ s[1] \in S /\ Newest(s) = s[1]
         /\ \A i \in Nat : i >= 1 /\ i <= Len(s) => i = 1 /\ s # <<>>
<1>1. Len(s) \in Nat /\ (s # <<>> <=> Len(s) # 0)
  BY EmptySeq
<1>2. Len(s) = 0 \/ Len(s) = 1
  <2>1. \A n \in Nat : n <= 1 => n = 0 \/ n = 1
    OBVIOUS
  <2>2. QED
    BY <1>1, <2>1
<1>3. ASSUME Len(s) = 1 PROVE s[1] \in S /\ Newest(s) = s[1]
  BY <1>3 DEF Newest
<1>4. QED
  BY <1>1, <1>2, <1>3

LEMMA InitIInv == Init => IInv
<1> SUFFICES ASSUME Init PROVE IInv
  OBVIOUS
<1> USE DEF Init
<1>1. TypeOK
  <2>1. tasks \in Seq(Jobs) /\ offered \in Seq(Jobs)
    OBVIOUS
  <2>2. Len(tasks) <= 1
    OBVIOUS
  <2>3. outcome \in [Jobs -> Outcomes] /\ executing \subseteq Jobs /\ settled \subseteq Jobs
    OBVIOUS
  <2>4. QED
    BY <2>1, <2>2, <2>3 DEF TypeOK
<1>2. RunningIsOneJob /\ WaitingIsNewest /\ NewestIsServed
  BY DEF RunningIsOneJob, WaitingIsNewest, NewestIsServed
<1>3. OutcomesFit
  BY DEF OutcomesFit
<1>4. QED
  BY <1>1, <1>2, <1>3 DEF IInv

\* What a call of offer() adds to the history.
LEMMA OfferedGrows ==
  ASSUME TypeOK, NEW j \in Jobs, offered' = Append(offered, j)
  PROVE  /\ offered' \in Seq(Jobs) /\ offered' # <<>>
         /\ Newest(offered') = j
         /\ \A k \in Jobs : Offered(k)' <=> Offered(k) \/ k = j
<1> USE DEF TypeOK
<1>1. Len(offered) \in Nat /\ Len(offered') = Len(offered) + 1
  OBVIOUS
<1>2. /\ offered' \in Seq(Jobs) /\ offered' # <<>>
      /\ offered'[Len(offered) + 1] = j
      /\ \A i \in 1..Len(offered) : offered'[i] = offered[i]
  BY <1>1
<1>3. Newest(offered') = j
  BY <1>1, <1>2 DEF Newest
<1>4. ASSUME NEW k \in Jobs
      PROVE  Offered(k)' <=> Offered(k) \/ k = j
  BY <1>1, <1>2 DEF Offered
<1>5. QED
  BY <1>2, <1>3, <1>4

LEMMA OfferIInv ==
  ASSUME IInv, NEW j \in Jobs, Offer(j)
  PROVE  /\ IInv'
         /\ \A k \in executing' \ executing : k = Newest(offered')
         /\ KeptOutcomes
<1> USE DEF IInv, TypeOK
<1> DEFINE q == Append(tasks, j)
<1>1. /\ offered' \in Seq(Jobs) /\ offered' # <<>>
      /\ Newest(offered') = j
      /\ \A k \in Jobs : Offered(k)' <=> Offered(k) \/ k = j
  BY OfferedGrows DEF Offer
<1>2. Len(tasks) \in Nat /\ Len(q) = Len(tasks) + 1 /\ Newest(q) = j /\ q # <<>>
  <2>1. Len(tasks) \in Nat /\ Len(q) = Len(tasks) + 1 /\ q[Len(tasks) + 1] = j
    OBVIOUS
  <2>2. Newest(q) = j
    BY <2>1 DEF Newest
  <2>3. QED
    BY <2>1, <2>2, EmptySeq
<1>3. outcome[j] = "pending" /\ j \notin executing
  BY DEF Offer, OutcomesFit
<1>4. /\ outcome' \in [Jobs -> Outcomes]
      /\ \A k \in Jobs : \/ outcome'[k] = outcome[k]
                         \/ tasks # <<>> /\ k = tasks[1] /\ outcome'[k] = "cancelled"
  <2>1. outcome' = [k \in Jobs |-> IF \E i \in 1..Len(q) - 1 : q[i] = k
                                   THEN "cancelled" ELSE outcome[k]]
    BY DEF Offer, Handle, Cancel
  <2>2. ASSUME NEW k \in Jobs, NEW i \in 1..Len(q) - 1, q[i] = k
        PROVE  tasks # <<>> /\ k = tasks[1]
    <3>1. i \in Nat /\ i >= 1 /\ i <= Len(tasks)
      BY <1>2
    <3>2. i = 1 /\ tasks # <<>>
      BY <3>1, OneTask
    <3>3. tasks[1] = q[1]
      BY <3>1, <3>2
    <3>4. QED
      BY <2>2, <3>2, <3>3
  <2>3. QED
    BY <2>1, <2>2
<1>5. outcome'[j] = "pending"
  <2>1. tasks # <<>> => j # tasks[1]
    <3>1. ASSUME tasks # <<>> PROVE Offered(tasks[1])
      <4>1. Len(offered) \in Nat /\ Len(offered) # 0 /\ tasks[1] = offered[Len(offered)]
        BY <3>1, EmptySeq DEF WaitingIsNewest, Newest
      <4>2. QED
        BY <4>1 DEF Offered
    <3>2. QED
      BY <3>1 DEF Offer
  <2>2. QED
    BY <1>3, <1>4, <2>1
<1>6. settled' = settled /\ \A k \in executing \cup settled : outcome'[k] = outcome[k]
  BY <1>4 DEF Offer, WaitingIsNewest, OutcomesFit
<1>7. KeptOutcomes
  BY <1>4 DEF WaitingIsNewest, KeptOutcomes
<1>8. CASE running
  <2>1. tasks' = <<j>> /\ running' = running /\ executing' = executing
    BY <1>2, <1>8 DEF Offer, Handle
  <2>2. TypeOK'
    BY <1>1, <1>4, <1>6, <2>1
  <2>3. RunningIsOneJob'
    BY <1>6, <1>8, <2>1 DEF RunningIsOneJob
  <2>4. OutcomesFit'
    <3>1. \A k \in executing : outcome'[k] = "pending" /\ Offered(k)'
      BY <1>1, <1>6 DEF OutcomesFit
    <3>2. \A k \in settled : outcome'[k] \in Ran
      BY <1>6 DEF OutcomesFit
    <3>3. ASSUME NEW k \in Jobs, ~Offered(k)' PROVE outcome'[k] = "pending"
      <4>1. ~Offered(k) /\ outcome[k] = "pending"
        BY <1>1, <3>3 DEF OutcomesFit
      <4>2. tasks # <<>> => k # tasks[1]
        <5>1. ASSUME tasks # <<>> PROVE Offered(tasks[1])
          <6>1. Len(offered) \in Nat /\ Len(offered) # 0 /\ tasks[1] = offered[Len(offered)]
            BY <5>1, EmptySeq DEF WaitingIsNewest, Newest
          <6>2. QED
            BY <6>1 DEF Offered
        <5>2. QED
          BY <4>1, <5>1
      <4>3. QED
        BY <1>4, <4>1, <4>2
    <3>4. QED
      BY <1>6, <2>1, <3>1, <3>2, <3>3 DEF OutcomesFit
  <2>5. WaitingIsNewest' /\ NewestIsServed'
    BY <1>1, <1>3, <1>5, <2>1 DEF WaitingIsNewest, NewestIsServed
  <2>6. QED
    BY <1>7, <2>1, <2>2, <2>3, <2>4, <2>5
<1>9. CASE ~running
  <2>1. executing = {} /\ settled = {} /\ tasks = <<>>
    BY <1>9 DEF RunningIsOneJob
  <2>2. tasks' = <<>> /\ running' = TRUE /\ executing' = {j}
    BY <1>2, <1>9, <2>1 DEF Offer, Handle
  <2>3. TypeOK'
    BY <1>1, <1>4, <1>6, <2>2
  <2>4. RunningIsOneJob' /\ WaitingIsNewest' /\ NewestIsServed'
    BY <1>1, <1>6, <2>1, <2>2 DEF RunningIsOneJob, WaitingIsNewest, NewestIsServed
  <2>5. OutcomesFit'
    BY <1>1, <1>4, <1>5, <1>6, <2>1, <2>2 DEF OutcomesFit
  <2>6. QED
    BY <1>1, <1>7, <2>2, <2>3, <2>4, <2>5
<1>10. QED
  BY <1>8, <1>9

LEMMA SettleIInv ==
  ASSUME IInv, NEW j \in Jobs, NEW o \in Ran, TaskSettles(j, o)
  PROVE  IInv' /\ executing' \subseteq executing /\ KeptOutcomes
<1> USE DEF IInv, TypeOK, TaskSettles
<1>1. running /\ executing = {j} /\ settled = {}
  BY DEF RunningIsOneJob
<1>2. executing' = {} /\ settled' = {j} /\ outcome'[j] = o
  BY <1>1
<1>3. TypeOK'
  BY <1>2
<1>4. RunningIsOneJob'
  BY <1>1, <1>2 DEF RunningIsOneJob
<1>5. OutcomesFit'
  BY <1>1, <1>2 DEF OutcomesFit, Offered
<1>6. WaitingIsNewest'
  BY <1>1, <1>2 DEF WaitingIsNewest
<1>7. NewestIsServed'
  <2> SUFFICES ASSUME tasks = <<>>, offered # <<>>
               PROVE  outcome'[Newest(offered)] \in Ran
    BY DEF NewestIsServed
  <2>1. CASE Newest(offered) \in executing
    BY <1>1, <1>2, <2>1
  <2>2. CASE Newest(offered) \notin executing
    <3>1. outcome[Newest(offered)] \in Ran /\ Newest(offered) # j
      BY <1>1, <2>2 DEF NewestIsServed
    <3>2. QED
      BY <3>1
  <2>3. QED
    BY <2>1, <2>2
<1>8. KeptOutcomes
  BY <1>1 DEF OutcomesFit, KeptOutcomes
<1>9. QED
  BY <1>2, <1>3, <1>4, <1>5, <1>6, <1>7, <1>8

LEMMA ResumeIInv ==
  ASSUME IInv, NEW j \in Jobs, HandleResumes(j)
  PROVE  /\ IInv'
         /\ \A k \in executing' \ executing : k = Newest(offered')
         /\ KeptOutcomes
<1> USE DEF IInv, TypeOK, HandleResumes
<1>1. executing = {} /\ settled = {j} /\ settled' = {}
  BY DEF RunningIsOneJob
<1>2. outcome' = outcome
  <2>1. Len(tasks) \in Nat /\ Len(tasks) - 1 <= 0
    OBVIOUS
  <2>2. \A k \in Jobs : ~ \E i \in 1..Len(tasks) - 1 : tasks[i] = k
    BY <2>1
  <2>3. outcome' = [k \in Jobs |-> outcome[k]]
    BY <2>2 DEF Handle, Cancel
  <2>4. QED
    BY <2>3
<1>3. CASE tasks = <<>>
  <2>1. tasks' = <<>> /\ running' = FALSE /\ executing' = {}
    BY <1>1, <1>3 DEF Handle
  <2>2. TypeOK'
    <3>1. Len(tasks') <= 1 /\ tasks' \in Seq(Jobs)
      BY <2>1
    <3>2. offered' = offered
      OBVIOUS
    <3>3. QED
      BY <1>1, <1>2, <2>1, <3>1, <3>2
  <2>3. RunningIsOneJob' /\ OutcomesFit' /\ WaitingIsNewest' /\ NewestIsServed'
    BY <1>1, <1>2, <1>3, <2>1
       DEF RunningIsOneJob, OutcomesFit, WaitingIsNewest, NewestIsServed, Offered
  <2>4. QED
    BY <1>2, <2>1, <2>2, <2>3 DEF KeptOutcomes
<1>4. CASE tasks # <<>>
  <2> DEFINE t == tasks[1]
  <2>1. Len(tasks) = 1 /\ t \in Jobs /\ Newest(tasks) = t
    BY <1>4, OneTask
  <2>2. tasks' = <<>> /\ running' = TRUE /\ executing' = {t}
    BY <1>1, <1>4, <2>1 DEF Handle
  <2>3. offered # <<>> /\ t = Newest(offered) /\ outcome[t] = "pending"
    BY <1>4 DEF WaitingIsNewest
  <2>4. Offered(t)
    <3>1. Len(offered) \in Nat /\ Len(offered) # 0
      BY <2>3, EmptySeq
    <3>2. QED
      BY <2>3, <3>1 DEF Offered, Newest
  <2>5. TypeOK'
    BY <1>1, <1>2, <2>1, <2>2
  <2>6. RunningIsOneJob' /\ WaitingIsNewest' /\ NewestIsServed'
    BY <1>1, <2>1, <2>2, <2>3 DEF RunningIsOneJob, WaitingIsNewest, NewestIsServed
  <2>7. OutcomesFit'
    BY <1>1, <1>2, <2>2, <2>3, <2>4 DEF OutcomesFit, Offered
  <2>8. QED
    BY <1>2, <2>2, <2>3, <2>5, <2>6, <2>7 DEF KeptOutcomes
<1>5. QED
  BY <1>3, <1>4

\* One step keeps the invariant, starts no job but the newest, and settles
\* no promise again.
LEMMA NextIInv ==
  ASSUME IInv, [Next]_vars
  PROVE  /\ IInv'
         /\ \A k \in executing' \ executing : k = Newest(offered')
         /\ KeptOutcomes
<1>1. ASSUME NEW j \in Jobs, Offer(j)
      PROVE  /\ IInv'
             /\ \A k \in executing' \ executing : k = Newest(offered')
             /\ KeptOutcomes
  BY <1>1, OfferIInv
<1>2. ASSUME NEW j \in Jobs, NEW o \in Ran, TaskSettles(j, o)
      PROVE  /\ IInv'
             /\ \A k \in executing' \ executing : k = Newest(offered')
             /\ KeptOutcomes
  BY <1>2, SettleIInv
<1>3. ASSUME NEW j \in Jobs, HandleResumes(j)
      PROVE  /\ IInv'
             /\ \A k \in executing' \ executing : k = Newest(offered')
             /\ KeptOutcomes
  BY <1>3, ResumeIInv
<1>4. CASE UNCHANGED vars
  BY <1>4 DEF vars, IInv, TypeOK, RunningIsOneJob, OutcomesFit, WaitingIsNewest,
              NewestIsServed, Offered, KeptOutcomes
<1>5. QED
  BY <1>1, <1>2, <1>3, <1>4 DEF Next

\* Types, and what becomes of each job, are invariant for every set of jobs.
THEOREM Invariance == Spec => []IInv
<1>1. IInv /\ [Next]_vars => IInv'
  BY NextIInv
<1>2. QED
  BY InitIInv, <1>1, PTL DEF Spec

\* "ensures that only one job is run at a time" (common_util.ts:76), even if
\* offer() is called between the end of a job and the return of handle().
THEOREM OneJob == Spec => []OneAtATime
<1>1. IInv => OneAtATime
  BY DEF IInv, RunningIsOneJob, OutcomesFit, OneAtATime
<1>2. QED
  BY Invariance, <1>1, PTL

\* handle() never stops with the newest request undone.
THEOREM LatestDone == Spec => []IdleMeansLatestDone
<1>1. IInv => IdleMeansLatestDone
  BY DEF IInv, RunningIsOneJob, NewestIsServed, IdleMeansLatestDone
<1>2. QED
  BY Invariance, <1>1, PTL

\* "the manager cancels all but the last job" (common_util.ts:77): a job that
\* starts is the newest one offered.
THEOREM NewestStarts == Spec => OnlyNewestStarts
<1>1. IInv /\ [Next]_vars => [\A j \in executing' \ executing : j = Newest(offered')]_vars
  BY NextIInv
<1>2. QED
  BY Invariance, <1>1, PTL DEF Spec, OnlyNewestStarts

\* A promise of offer() is settled once: no cancellation comes after the end
\* of a job, and no end after a cancellation (common_util.ts:76).
THEOREM SettledForGood == Spec => [][KeptOutcomes]_vars
<1>1. IInv /\ [Next]_vars => [KeptOutcomes]_vars
  BY NextIInv
<1>2. QED
  BY Invariance, <1>1, PTL DEF Spec
=============================================================================
