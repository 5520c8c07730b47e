----------------------------- MODULE MediaProofs -----------------------------
(***************************************************************************)
(* Theorems about the two halves of the media pipeline: MediaJobs, the     *)
(* queue the worker takes its work from, and MediaRetention, the bucket    *)
(* the worker and the clients write to and the sweeps delete from.         *)
(***************************************************************************)
EXTENDS MediaJobs, MediaRetention, TLAPS

--------------------------------------------------------------------------------
(***************************************************************************)
(* Theorems about module MediaJobs, for every set of clips and jobs, every *)
(* retry budget and any number of crashes.                                 *)
(*                                                                         *)
(* The inductive invariant says whose hands a 'running' job is in: either  *)
(* the worker is at it, or a run of it was lost and has been counted. A    *)
(* job that is not in hand has an attempt left in the budget that the lost *)
(* runs extend, which is what keeps claimNext, blind to attempts, within   *)
(* it.                                                                     *)
(***************************************************************************)

WorkerHolds == AtWork => job \in Job /\ status[job] = "running"

\* What the worker is about to record is true.
WorkerIsRight ==
  /\ pc = "markDone" => subject[job] \in repointed
  /\ pc = "markFailed" /\ permanent => Hopeless(subject[job])

SubjectsPublished == \A j \in Job : status[j] # "none" => subject[j] \in published

\* A job the worker is not at, and that may be started again, has an attempt left.
AttemptLeft ==
  \A j \in Job :
    status[j] \in {"none", "pending", "running"} /\ ~InHand(j)
      => attempts[j] < MAX_ATTEMPTS + lost[j]

\* No two live jobs have one clip: a job is told by its clip.
OneLiveJob ==
  \A i, j \in Job :
    status[i] \in Live /\ status[j] \in Live /\ subject[i] = subject[j] => i = j

JobsInv ==
  /\ JobsTypeOK
  /\ WorkerHolds
  /\ WorkerIsRight
  /\ SubjectsPublished
  /\ AttemptLeft
  /\ BudgetPerLoss
  /\ OneLiveJob
  /\ DoneMeansRepointed
  /\ ParkedForCause

\* pc, job and the rest as the proofs use them.
LEMMA HandsAreClaims ==
  ASSUME JobsTypeOK PROVE AtWork <=> pc \notin {"down", "boot", "claim"}
BY DEF JobsTypeOK, AtWork

LEMMA JobsInvInit == JobsInit => JobsInv
<1> SUFFICES ASSUME JobsInit PROVE JobsInv
  OBVIOUS
<1> DEFINE any == CHOOSE c \in Clip : TRUE
<1>1. any \in Clip /\ subject = [j \in Job |-> any]
  BY MediaJobsAssumption DEF JobsInit
<1> HIDE DEF any
<1>2. JobsTypeOK
  <2>1. subject \in [Job -> Clip]
    BY <1>1
  <2>2. /\ status \in [Job -> JobStatus] /\ attempts \in [Job -> Nat]
        /\ due \in [Job -> BOOLEAN] /\ lost \in [Job -> Nat]
    BY DEF JobsInit, JobStatus
  <2>3. /\ published \subseteq Clip /\ deleted \subseteq published
        /\ repointed \subseteq published /\ unrecorded \subseteq Job
        /\ pc = "down" /\ k \in Kind /\ job \in Job \cup {NoJob}
        /\ permanent \in BOOLEAN /\ faults = 0
    BY DEF JobsInit, Kind
  <2>4. faults \in 0..MaxFaults
    BY <2>3, MediaJobsAssumption
  <2>5. QED
    BY <2>1, <2>2, <2>3, <2>4 DEF JobsTypeOK
<1>3. /\ WorkerHolds /\ WorkerIsRight /\ SubjectsPublished
      /\ OneLiveJob /\ DoneMeansRepointed /\ ParkedForCause
  BY DEF JobsInit, WorkerHolds, WorkerIsRight, AtWork, SubjectsPublished, OneLiveJob, Live,
         DoneMeansRepointed, ParkedForCause
<1>4. AttemptLeft /\ BudgetPerLoss
  BY MediaJobsAssumption DEF JobsInit, AttemptLeft, BudgetPerLoss
<1>5. QED
  BY <1>2, <1>3, <1>4 DEF JobsInv

--------------------------------------------------------------------------------
(* The API *)

\* enqueue gives one unused row a subject, and no live job of that subject
\* existed (the partial unique index).
LEMMA EnqueueKeeps ==
  ASSUME JobsInv, NEW c \in Clip, NEW j \in Job, enqueue(j, c),
         c \in published', published \subseteq published', published' \subseteq Clip,
         UNCHANGED <<deleted, repointed, history, worker, faults>>
  PROVE  JobsInv'
<1> USE DEF JobsInv
<1>1. /\ status[j] = "none"
      /\ status' = [status EXCEPT ![j] = "pending"]
      /\ subject' = [subject EXCEPT ![j] = c]
      /\ due' = [due EXCEPT ![j] = TRUE]
      /\ attempts' = attempts
      /\ \A i \in Job : ~(status[i] \in Live /\ subject[i] = c)
  BY DEF enqueue, LiveJob
<1>2. /\ deleted' = deleted /\ repointed' = repointed
      /\ lost' = lost /\ unrecorded' = unrecorded
      /\ pc' = pc /\ k' = k /\ job' = job /\ permanent' = permanent /\ faults' = faults
  BY DEF history, worker
<1>3. JobsTypeOK'
  BY <1>1, <1>2 DEF JobsTypeOK, JobStatus, Live
<1>4. AtWork => job # j
  BY <1>1 DEF WorkerHolds
<1>5. /\ \A i \in Job \ {j} : status'[i] = status[i] /\ subject'[i] = subject[i]
      /\ status'[j] = "pending" /\ subject'[j] = c
  BY <1>1 DEF JobsTypeOK
<1>6. (WorkerHolds /\ WorkerIsRight)'
  BY <1>2, <1>4, <1>5 DEF WorkerHolds, WorkerIsRight, AtWork, Hopeless
<1>7. SubjectsPublished'
  BY <1>5 DEF SubjectsPublished
<1>8. (AttemptLeft /\ BudgetPerLoss)'
  BY <1>1, <1>2, <1>5 DEF AttemptLeft, BudgetPerLoss, InHand, AtWork
<1>9. OneLiveJob'
  BY <1>1, <1>5 DEF OneLiveJob
<1>10. (DoneMeansRepointed /\ ParkedForCause)'
  BY <1>1, <1>2, <1>5 DEF DoneMeansRepointed, ParkedForCause, Hopeless
<1>11. QED
  BY <1>3, <1>6, <1>7, <1>8, <1>9, <1>10

LEMMA ApiKeeps == ASSUME JobsInv, Api PROVE JobsInv'
<1>1. CASE \E c \in Clip, j \in Job : Publish(c, j)
  <2>1. PICK c \in Clip, j \in Job : Publish(c, j)
    BY <1>1
  <2>2. /\ enqueue(j, c)
        /\ c \in published' /\ published \subseteq published' /\ published' \subseteq Clip
        /\ UNCHANGED <<deleted, repointed, history, worker, faults>>
    BY <2>1 DEF Publish, clips, history, JobsInv, JobsTypeOK
  <2>3. QED
    BY <2>2, EnqueueKeeps
<1>2. CASE \E c \in Clip : deleteVideo(c)
  <2> USE DEF JobsInv
  <2>1. PICK c \in Clip : deleteVideo(c)
    BY <1>2
  <2>2. /\ deleted' = deleted \cup {c} /\ c \in published
        /\ published' = published /\ repointed' = repointed
        /\ status' = status /\ subject' = subject /\ attempts' = attempts /\ due' = due
        /\ lost' = lost /\ unrecorded' = unrecorded
        /\ pc' = pc /\ k' = k /\ job' = job /\ permanent' = permanent /\ faults' = faults
    BY <2>1 DEF deleteVideo, queue, history, worker
  <2>3. JobsTypeOK'
    BY <2>2 DEF JobsTypeOK
  <2>4. (WorkerHolds /\ WorkerIsRight /\ ParkedForCause)'
    BY <2>2 DEF WorkerHolds, WorkerIsRight, ParkedForCause, AtWork, Hopeless
  <2>5. (SubjectsPublished /\ AttemptLeft /\ BudgetPerLoss /\ OneLiveJob
           /\ DoneMeansRepointed)'
    BY <2>2 DEF SubjectsPublished, AttemptLeft, BudgetPerLoss, OneLiveJob,
                DoneMeansRepointed, InHand, AtWork
  <2>6. QED
    BY <2>3, <2>4, <2>5
<1>3. QED
  BY <1>1, <1>2 DEF Api
--------------------------------------------------------------------------------
(* The worker *)

\* A step that leaves the tables and the clips alone, and after which the worker
\* is at no job that it was not at: a job it lets go had its run counted.
LEMMA WorkerStepKeeps ==
  ASSUME JobsInv, JobsTypeOK', UNCHANGED <<clips, queue>>,
         ~AtWork' \/ (job' = job /\ AtWork),
         pc' = "markDone" => subject[job] \in repointed,
         pc' = "markFailed" /\ permanent' => Hopeless(subject[job]),
         \A j \in Job : lost'[j] \in Nat /\ lost[j] <= lost'[j],
         AtWork /\ ~AtWork' => lost[job] < lost'[job]
  PROVE  JobsInv'
<1> USE DEF JobsInv
<1>1. /\ published' = published /\ deleted' = deleted /\ repointed' = repointed
      /\ status' = status /\ subject' = subject /\ attempts' = attempts /\ due' = due
  BY DEF clips, queue
<1>2. WorkerHolds' /\ WorkerIsRight'
  BY <1>1 DEF WorkerHolds, WorkerIsRight, AtWork, Hopeless
<1>3. SubjectsPublished' /\ OneLiveJob' /\ DoneMeansRepointed' /\ ParkedForCause'
  BY <1>1 DEF SubjectsPublished, OneLiveJob, DoneMeansRepointed, ParkedForCause, Hopeless
<1>4. \A j \in Job : attempts[j] \in Nat /\ lost[j] \in Nat
  BY DEF JobsTypeOK
<1>5. BudgetPerLoss'
  BY <1>1, <1>4, MediaJobsAssumption DEF BudgetPerLoss
<1>6. AttemptLeft'
  <2> SUFFICES ASSUME NEW j \in Job, status[j] \in {"none", "pending", "running"},
                      ~InHand(j)'
               PROVE  attempts[j] < MAX_ATTEMPTS + lost'[j]
    BY <1>1 DEF AttemptLeft
  <2>1. CASE ~InHand(j)
    BY <2>1, <1>4, MediaJobsAssumption DEF AttemptLeft
  <2>2. CASE InHand(j)
    <3>1. lost[j] < lost'[j]
      BY <2>2 DEF InHand
    <3>2. attempts[j] <= MAX_ATTEMPTS + lost[j]
      BY DEF BudgetPerLoss
    <3>3. QED
      BY <3>1, <3>2, <1>4, MediaJobsAssumption
  <2>3. QED
    BY <2>1, <2>2
<1>7. QED
  BY <1>2, <1>3, <1>5, <1>6

\* The worker records an outcome: only the status of its job and run_after change.
LEMMA OutcomeKeeps ==
  ASSUME JobsInv, JobsTypeOK', AtWork, ~AtWork',
         NEW s \in {"pending", "done", "failed"},
         status' = [status EXCEPT ![job] = s],
         UNCHANGED <<clips, subject, attempts, lost>>,
         s = "pending" => attempts[job] < MAX_ATTEMPTS,
         s = "done" => subject[job] \in repointed,
         s = "failed" => attempts[job] >= MAX_ATTEMPTS \/ Hopeless(subject[job])
  PROVE  JobsInv'
<1> USE DEF JobsInv
<1>1. /\ published' = published /\ deleted' = deleted /\ repointed' = repointed
      /\ subject' = subject /\ attempts' = attempts /\ lost' = lost
  BY DEF clips
<1>2. /\ job \in Job /\ status[job] = "running" /\ status'[job] = s
      /\ \A j \in Job \ {job} : status'[j] = status[j]
  BY DEF WorkerHolds, JobsTypeOK
<1>3. \A j \in Job : attempts[j] \in Nat /\ lost[j] \in Nat
  BY DEF JobsTypeOK
<1>4. WorkerHolds' /\ WorkerIsRight'
  BY DEF WorkerHolds, WorkerIsRight, AtWork
<1>5. SubjectsPublished' /\ DoneMeansRepointed' /\ ParkedForCause'
  BY <1>1, <1>2 DEF SubjectsPublished, DoneMeansRepointed, ParkedForCause, Hopeless
<1>6. OneLiveJob'
  BY <1>1, <1>2 DEF OneLiveJob, Live
<1>7. BudgetPerLoss'
  BY <1>1 DEF BudgetPerLoss
<1>8. AttemptLeft'
  <2> SUFFICES ASSUME NEW j \in Job, status'[j] \in {"none", "pending", "running"}
               PROVE  attempts[j] < MAX_ATTEMPTS + lost[j]
    BY <1>1 DEF AttemptLeft
  <2>1. CASE j = job
    BY <2>1, <1>2, <1>3, MediaJobsAssumption
  <2>2. CASE j # job
    BY <2>2, <1>2 DEF AttemptLeft, InHand
  <2>3. QED
    BY <2>1, <2>2
<1>9. QED
  BY <1>4, <1>5, <1>6, <1>7, <1>8

LEMMA requeueOrphanedKeeps == ASSUME JobsInv, requeueOrphaned PROVE JobsInv'
<1> USE DEF JobsInv
<1> DEFINE requeued == {j \in Job : status[j] = "running" /\ KindOf(subject[j]) = k}
<1>1. /\ status' = [j \in Job |-> IF j \in requeued THEN "pending" ELSE status[j]]
      /\ published' = published /\ deleted' = deleted /\ repointed' = repointed
      /\ subject' = subject /\ attempts' = attempts /\ due' = due /\ lost' = lost
      /\ unrecorded' = unrecorded \ requeued
      /\ job' = job /\ permanent' = permanent /\ faults' = faults
      /\ pc = "boot" /\ pc' \in {"boot", "claim"} /\ k' \in {1, 2}
  BY DEF requeueOrphaned, clips
<1>2. \A j \in Job : /\ status[j] \in JobStatus
                     /\ status'[j] # status[j] =>
                          status[j] = "running" /\ status'[j] = "pending"
  BY <1>1 DEF JobsTypeOK
<1>3. JobsTypeOK'
  BY <1>1 DEF JobsTypeOK, Kind, JobStatus, Live
<1> HIDE DEF requeued
<1>4. WorkerHolds' /\ WorkerIsRight'
  BY <1>1 DEF WorkerHolds, WorkerIsRight, AtWork
<1>5. SubjectsPublished' /\ DoneMeansRepointed' /\ ParkedForCause' /\ BudgetPerLoss'
  BY <1>1, <1>2 DEF SubjectsPublished, DoneMeansRepointed, ParkedForCause, BudgetPerLoss,
                    Hopeless
<1>6. OneLiveJob'
  BY <1>1, <1>2 DEF OneLiveJob, Live
<1>7. AttemptLeft'
  BY <1>1, <1>2 DEF AttemptLeft, InHand, AtWork
<1>8. QED
  BY <1>3, <1>4, <1>5, <1>6, <1>7

LEMMA claimNextKeeps == ASSUME JobsInv, claimNext PROVE JobsInv'
<1> USE DEF JobsInv
<1>1. PICK j \in Job : /\ status[j] = "pending"
                       /\ status' = [status EXCEPT ![j] = "running"]
                       /\ attempts' = [attempts EXCEPT ![j] = @ + 1]
                       /\ job' = j
  BY DEF claimNext, Claimable
<1>2. /\ published' = published /\ deleted' = deleted /\ repointed' = repointed
      /\ subject' = subject /\ due' = due /\ lost' = lost /\ unrecorded' = unrecorded
      /\ pc = "claim" /\ pc' = "encode" /\ k' = k
      /\ permanent' = permanent /\ faults' = faults
  BY DEF claimNext, clips, history
<1>3. \A i \in Job : attempts[i] \in Nat /\ lost[i] \in Nat
  BY DEF JobsTypeOK
<1>4. JobsTypeOK'
  BY <1>1, <1>2 DEF JobsTypeOK, JobStatus, Live
<1>5. /\ status'[j] = "running" /\ attempts'[j] = attempts[j] + 1
      /\ \A i \in Job \ {j} : status'[i] = status[i] /\ attempts'[i] = attempts[i]
  BY <1>1 DEF JobsTypeOK
<1>6. WorkerHolds' /\ WorkerIsRight'
  BY <1>1, <1>2, <1>5 DEF WorkerHolds, WorkerIsRight
<1>7. SubjectsPublished' /\ DoneMeansRepointed' /\ ParkedForCause'
  BY <1>1, <1>2, <1>5, <1>3, MediaJobsAssumption
     DEF SubjectsPublished, DoneMeansRepointed, ParkedForCause, Hopeless
<1>8. OneLiveJob'
  BY <1>1, <1>2, <1>5 DEF OneLiveJob, Live
<1>9. attempts[j] < MAX_ATTEMPTS + lost[j]
  BY <1>1, <1>2 DEF AttemptLeft, InHand, AtWork
<1>10. BudgetPerLoss'
  BY <1>9, <1>2, <1>3, <1>5, MediaJobsAssumption DEF BudgetPerLoss
<1>11. AttemptLeft'
  BY <1>1, <1>2, <1>5 DEF AttemptLeft, InHand, AtWork
<1>12. QED
  BY <1>4, <1>6, <1>7, <1>8, <1>10, <1>11

\* Frames of the actions that leave the tables alone.
LEMMA TablesStay ==
  ASSUME UNCHANGED <<clips, queue>>
  PROVE  /\ published' = published /\ deleted' = deleted /\ repointed' = repointed
         /\ status' = status /\ subject' = subject /\ attempts' = attempts /\ due' = due
BY DEF clips, queue

LEMMA IdleStepsKeep ==
  ASSUME JobsInv, Start \/ ClaimNothing \/ Shutdown PROVE JobsInv'
<1> USE DEF JobsInv
<1>1. /\ UNCHANGED <<clips, queue>>
      /\ lost' = lost /\ unrecorded' = unrecorded
      /\ pc \in {"down", "claim"} /\ pc' \in {"boot", "claim", "down"} /\ k' \in {1, 2}
      /\ job' = job /\ permanent' = permanent /\ faults' \in 0..MaxFaults
  BY MediaJobsAssumption DEF Start, ClaimNothing, Shutdown, history, JobsTypeOK, Kind
<1>2. JobsTypeOK'
  BY <1>1, TablesStay DEF JobsTypeOK, Kind
<1>3. \A j \in Job : lost'[j] \in Nat /\ lost[j] <= lost'[j]
  BY <1>1 DEF JobsTypeOK
<1>4. /\ ~AtWork' \/ (job' = job /\ AtWork)
      /\ pc' = "markDone" => subject[job] \in repointed
      /\ pc' = "markFailed" /\ permanent' => Hopeless(subject[job])
      /\ AtWork /\ ~AtWork' => lost[job] < lost'[job]
  <2>1. ~AtWork /\ ~AtWork'
    BY <1>1 DEF AtWork
  <2>2. pc' # "markDone" /\ pc' # "markFailed"
    BY <1>1
  <2>3. QED
    BY <2>1, <2>2, Zenon
<1> HIDE DEF JobsInv
<1>5. QED
  BY <1>1, <1>2, <1>3, <1>4, WorkerStepKeeps

LEMMA EncodeKeeps == ASSUME JobsInv, Encode PROVE JobsInv'
<1> USE DEF JobsInv
<1>1. /\ UNCHANGED <<clips, queue>>
      /\ lost' = lost /\ unrecorded' = unrecorded /\ k' = k /\ job' = job
      /\ faults' = faults /\ pc = "encode" /\ pc' \in {"repoint", "markFailed"}
  BY DEF Encode, history
<1>6. /\ permanent' \in BOOLEAN
      /\ pc' = "markFailed" /\ permanent' => Hopeless(subject[job])
  <2>1. CASE pc' = "repoint" /\ permanent' = permanent
    BY <2>1 DEF JobsTypeOK
  <2>2. CASE permanent' = Hopeless(subject[job])
    <3>1. Hopeless(subject[job]) \in BOOLEAN
      BY DEF Hopeless
    <3>2. QED
      BY <2>2, <3>1, Zenon
  <2>3. QED
    BY <2>1, <2>2 DEF Encode
<1>2. JobsTypeOK'
  BY <1>1, <1>6, TablesStay DEF JobsTypeOK
<1>3. \A j \in Job : lost'[j] \in Nat /\ lost[j] <= lost'[j]
  BY <1>1 DEF JobsTypeOK
<1>4. AtWork /\ AtWork' /\ pc' # "markDone"
  BY <1>1 DEF AtWork
<1> HIDE DEF JobsInv
<1>5. QED
  BY <1>1, <1>2, <1>3, <1>4, <1>6, WorkerStepKeeps

LEMMA RepointKeeps == ASSUME JobsInv, Repoint PROVE JobsInv'
<1> USE DEF JobsInv
<1>1. /\ published' = published /\ deleted' = deleted
      /\ status' = status /\ subject' = subject /\ attempts' = attempts /\ due' = due
      /\ lost' = lost /\ unrecorded' = unrecorded /\ k' = k /\ job' = job
      /\ faults' = faults /\ pc = "repoint"
      /\ \/ repointed' = repointed \cup {subject[job]} /\ pc' = "markDone"
              /\ permanent' = permanent
         \/ repointed' = repointed /\ pc' = "markFailed" /\ permanent' = FALSE
  BY DEF Repoint, history, queue
<1>2. job \in Job /\ status[job] = "running"
  BY <1>1 DEF WorkerHolds, AtWork
<1>3. subject[job] \in published
  BY <1>2 DEF SubjectsPublished
<1>4. JobsTypeOK'
  BY <1>1, <1>3 DEF JobsTypeOK
<1>5. WorkerHolds' /\ WorkerIsRight'
  BY <1>1, <1>2 DEF WorkerHolds, WorkerIsRight, AtWork
<1>6. SubjectsPublished' /\ OneLiveJob' /\ DoneMeansRepointed' /\ ParkedForCause'
        /\ BudgetPerLoss'
  BY <1>1 DEF SubjectsPublished, OneLiveJob, DoneMeansRepointed, ParkedForCause, Hopeless,
              BudgetPerLoss
<1>7. AttemptLeft'
  BY <1>1 DEF AttemptLeft, InHand, AtWork
<1>8. QED
  BY <1>4, <1>5, <1>6, <1>7

LEMMA markDoneKeeps == ASSUME JobsInv, markDone PROVE JobsInv'
<1> USE DEF JobsInv
<1>1. /\ pc = "markDone" /\ subject[job] \in repointed /\ job \in Job
  BY DEF markDone, WorkerIsRight, WorkerHolds, AtWork
<1>2. CASE /\ status' = [status EXCEPT ![job] = "done"] /\ pc' = "claim" /\ k' = 1
           /\ permanent' = permanent
  <2>1. /\ UNCHANGED <<clips, subject, attempts, lost>>
        /\ due' = due /\ unrecorded' = unrecorded /\ job' = job /\ faults' = faults
    BY DEF markDone, history
  <2>2. JobsTypeOK'
    BY <1>2, <2>1 DEF JobsTypeOK, clips, Kind, JobStatus, Finished
  <2>3. AtWork /\ ~AtWork'
    BY <1>1, <1>2 DEF AtWork
  <2>4. QED
    BY <1>1, <1>2, <2>1, <2>2, <2>3, OutcomeKeeps
<1>3. CASE /\ pc' = "markFailed" /\ permanent' = FALSE /\ status' = status /\ k' = k
  <2>1. /\ UNCHANGED <<clips, queue>>
        /\ lost' = lost /\ unrecorded' = unrecorded /\ job' = job /\ faults' = faults
    BY <1>3 DEF markDone, history, queue
  <2>2. JobsTypeOK'
    BY <1>3, <2>1, TablesStay DEF JobsTypeOK
  <2>3. \A j \in Job : lost'[j] \in Nat /\ lost[j] <= lost'[j]
    BY <2>1 DEF JobsTypeOK
  <2>4. AtWork /\ AtWork'
    BY <1>1, <1>3 DEF AtWork
  <2>5. QED
    BY <1>3, <2>1, <2>2, <2>3, <2>4, WorkerStepKeeps
<1>4. QED
  BY <1>2, <1>3 DEF markDone

LEMMA markFailedKeeps == ASSUME JobsInv, markFailed PROVE JobsInv'
<1> USE DEF JobsInv
<1> DEFINE exhausted == permanent \/ attempts[job] >= MAX_ATTEMPTS
           s == IF exhausted THEN "failed" ELSE "pending"
<1>1. /\ pc = "markFailed" /\ pc' = "claim" /\ k' = 1
      /\ status' = [status EXCEPT ![job] = s]
      /\ due' = [due EXCEPT ![job] = exhausted]
      /\ UNCHANGED <<clips, subject, attempts, lost>>
      /\ unrecorded' = unrecorded /\ job' = job /\ permanent' = permanent
      /\ faults' = faults
  BY DEF markFailed, history
<1>2. job \in Job /\ AtWork /\ ~AtWork'
  BY <1>1 DEF WorkerHolds, AtWork
<1>3. attempts[job] \in Nat /\ exhausted \in BOOLEAN
  BY <1>2 DEF JobsTypeOK
<1>4. /\ s \in {"pending", "done", "failed"}
      /\ s = "pending" => attempts[job] < MAX_ATTEMPTS
      /\ s = "failed" => attempts[job] >= MAX_ATTEMPTS \/ Hopeless(subject[job])
      /\ s # "done"
  BY <1>1, <1>3, MediaJobsAssumption DEF WorkerIsRight
<1> HIDE DEF exhausted, s
<1>5. JobsTypeOK'
  BY <1>1, <1>3, <1>4 DEF JobsTypeOK, clips, Kind, JobStatus, Live, Finished
<1>6. QED
  BY <1>1, <1>2, <1>4, <1>5, OutcomeKeeps

LEMMA LosingKeeps == ASSUME JobsInv, MarkFailedThrows \/ Crash PROVE JobsInv'
<1> USE DEF JobsInv
<1>1. /\ UNCHANGED <<clips, queue>>
      /\ pc # "claim" /\ pc # "down"
      /\ lost' = IF pc = "boot" THEN lost ELSE [lost EXCEPT ![job] = @ + 1]
      /\ pc' \in {"claim", "down"} /\ k' \in {1, 2} /\ job' = job
      /\ permanent' = permanent /\ faults' \in 0..MaxFaults
      /\ unrecorded' \subseteq unrecorded \cup {job}
      /\ pc = "boot" => unrecorded' = unrecorded
  BY MediaJobsAssumption DEF MarkFailedThrows, Crash, JobsTypeOK, Kind
<1>2. AtWork => job \in Job
  BY DEF WorkerHolds
<1>3. AtWork <=> pc # "boot"
  BY <1>1, HandsAreClaims
<1>4. /\ lost' \in [Job -> Nat]
      /\ \A j \in Job : lost'[j] \in Nat /\ lost[j] <= lost'[j]
      /\ AtWork => lost[job] < lost'[job]
  BY <1>1, <1>2, <1>3 DEF JobsTypeOK
<1>5. JobsTypeOK'
  BY <1>1, <1>2, <1>3, <1>4, TablesStay DEF JobsTypeOK, Kind
<1>6. /\ ~AtWork' \/ (job' = job /\ AtWork)
      /\ pc' = "markDone" => subject[job] \in repointed
      /\ pc' = "markFailed" /\ permanent' => Hopeless(subject[job])
      /\ AtWork /\ ~AtWork' => lost[job] < lost'[job]
  <2>1. ~AtWork'
    BY <1>1 DEF AtWork
  <2>2. pc' # "markDone" /\ pc' # "markFailed"
    BY <1>1
  <2>3. QED
    BY <1>4, <2>1, <2>2, Zenon
<1> HIDE DEF JobsInv
<1>7. QED
  BY <1>1, <1>4, <1>5, <1>6, WorkerStepKeeps

LEMMA BackoffElapsesKeeps ==
  ASSUME JobsInv, NEW j \in Job, BackoffElapses(j) PROVE JobsInv'
<1> USE DEF JobsInv
<1>1. /\ published' = published /\ deleted' = deleted /\ repointed' = repointed
      /\ status' = status /\ subject' = subject /\ attempts' = attempts
      /\ due' = [due EXCEPT ![j] = TRUE]
      /\ lost' = lost /\ unrecorded' = unrecorded
      /\ pc' = pc /\ k' = k /\ job' = job /\ permanent' = permanent /\ faults' = faults
  BY DEF BackoffElapses, clips, history, worker
<1>2. JobsTypeOK'
  BY <1>1 DEF JobsTypeOK
<1>3. QED
  BY <1>1, <1>2 DEF WorkerHolds, WorkerIsRight, SubjectsPublished, AttemptLeft,
     BudgetPerLoss, OneLiveJob, DoneMeansRepointed, ParkedForCause, InHand, AtWork, Hopeless

--------------------------------------------------------------------------------

LEMMA StutterKeeps == ASSUME JobsInv, UNCHANGED jobsVars PROVE JobsInv'
BY DEF jobsVars, clips, queue, history, worker, JobsInv, JobsTypeOK, WorkerHolds, WorkerIsRight,
       SubjectsPublished, AttemptLeft, BudgetPerLoss, OneLiveJob, DoneMeansRepointed,
       ParkedForCause, InHand, AtWork, Hopeless

LEMMA NextKeeps == ASSUME JobsInv, [JobsNext]_jobsVars PROVE JobsInv'
<1>1. CASE Api
  BY <1>1, ApiKeeps
<1>2. CASE \E j \in Job : BackoffElapses(j)
  BY <1>2, BackoffElapsesKeeps
<1>3. CASE Work
  BY <1>3, IdleStepsKeep, requeueOrphanedKeeps, claimNextKeeps, EncodeKeeps, RepointKeeps,
     markDoneKeeps, markFailedKeeps DEF Work
<1>4. CASE Fault
  BY <1>4, IdleStepsKeep, LosingKeeps DEF Fault
<1>5. QED
  BY <1>1, <1>2, <1>3, <1>4, StutterKeeps DEF JobsNext

\* JobsInv holds in every reachable state.
THEOREM JobsInvariance == JobsSpec => []JobsInv
<1>1. JobsInit => JobsInv
  BY JobsInvInit
<1>2. JobsInv /\ [JobsNext]_jobsVars => JobsInv'
  BY NextKeeps
<1>3. QED
  BY <1>1, <1>2, PTL DEF JobsSpec

\* Every variable keeps its type.
THEOREM JobsTypeCorrect == JobsSpec => []JobsTypeOK
BY JobsInvariance, PTL DEF JobsInv

\* However often the worker dies, a job is started at most MAX_ATTEMPTS times
\* plus once per run whose outcome was lost (claimNext, markFailed).
THEOREM BudgetIsKept == JobsSpec => []BudgetPerLoss
BY JobsInvariance, PTL DEF JobsInv

\* A job that reads 'done' left its clip repointed (runOnce, markDone).
THEOREM DoneIsTrue == JobsSpec => []DoneMeansRepointed
BY JobsInvariance, PTL DEF JobsInv

\* A parked job has spent its budget or cannot succeed (markFailed).
THEOREM ParkedIsTrue == JobsSpec => []ParkedForCause
BY JobsInvariance, PTL DEF JobsInv

LEMMA StepMoves ==
  ASSUME JobsInv, JobsNext, NEW j \in Job, status'[j] # status[j]
  PROVE  <<status[j], status'[j]>> \in
           {<<"none", "pending">>, <<"pending", "running">>, <<"running", "pending">>,
            <<"running", "done">>, <<"running", "failed">>}
<1> USE DEF JobsInv
<1>1. status \in [Job -> JobStatus]
  BY DEF JobsTypeOK
<1>2. CASE Api
  <2>1. PICK i \in Job : status[i] = "none" /\ status' = [status EXCEPT ![i] = "pending"]
    BY <1>2 DEF Api, Publish, deleteVideo, enqueue, queue
  <2>2. QED
    BY <2>1, <1>1
<1>3. CASE requeueOrphaned
  BY <1>3, <1>1 DEF requeueOrphaned
<1>4. CASE claimNext
  BY <1>4, <1>1 DEF claimNext, Claimable
<1>5. CASE markDone
  BY <1>5, <1>1 DEF markDone, WorkerHolds, AtWork
<1>6. CASE markFailed
  BY <1>6, <1>1 DEF markFailed, WorkerHolds, AtWork
<1>7. CASE \/ \E i \in Job : BackoffElapses(i)
           \/ Start \/ ClaimNothing \/ Encode \/ Repoint \/ Fault
  BY <1>7 DEF BackoffElapses, Start, ClaimNothing, Encode, Repoint, Fault,
              MarkFailedThrows, Shutdown, Crash, queue
<1>8. QED
  BY <1>2, <1>3, <1>4, <1>5, <1>6, <1>7 DEF JobsNext, Work

\* A finished job stays finished, and a job runs only after it was claimed
\* (requeueOrphaned, claimNext, markDone, markFailed).
THEOREM StatusMovesForward == JobsSpec => StatusMoves
<1>1. JobsInv /\ [JobsNext]_jobsVars =>
        [\A j \in Job : status[j]' # status[j] =>
           <<status[j], status[j]'>> \in
             {<<"none", "pending">>, <<"pending", "running">>, <<"running", "pending">>,
              <<"running", "done">>, <<"running", "failed">>}]_jobsVars
  BY StepMoves
<1>2. QED
  BY <1>1, JobsInvariance, PTL DEF JobsSpec, StatusMoves

--------------------------------------------------------------------------------
(***************************************************************************)
(* MediaJobs implements WorkQueue: at most one order is touched by a step, *)
(* that of the job it writes to, and no other job has the same order,      *)
(* because no other live job has its clip.                                 *)
(***************************************************************************)

\* An id that was not used is as it was.
UnusedIsFresh == \A j \in Job : status[j] = "none" => attempts[j] = 0 /\ lost[j] = 0

LEMMA UnusedStays == JobsInv /\ UnusedIsFresh /\ [JobsNext]_jobsVars => UnusedIsFresh'
<1> SUFFICES ASSUME JobsInv, UnusedIsFresh, [JobsNext]_jobsVars, NEW j \in Job, status'[j] = "none"
             PROVE  attempts'[j] = 0 /\ lost'[j] = 0
  BY DEF UnusedIsFresh
<1>1. status[j] = "none" /\ attempts[j] = 0 /\ lost[j] = 0
  <2>1. CASE UNCHANGED jobsVars
    BY <2>1 DEF jobsVars, queue, UnusedIsFresh
  <2>2. CASE JobsNext
    BY <2>2, StepMoves DEF UnusedIsFresh
  <2>3. QED
    BY <2>1, <2>2
<1>2. AtWork => job # j
  BY <1>1 DEF JobsInv, WorkerHolds
<1>3. /\ attempts \in [Job -> Nat] /\ lost \in [Job -> Nat]
  BY DEF JobsInv, JobsTypeOK
<1>4. attempts'[j] = attempts[j]
  BY <1>1, <1>3 DEF JobsNext, Api, Publish, enqueue, deleteVideo, BackoffElapses, Work,
     Start, requeueOrphaned, claimNext, Claimable, ClaimNothing, Encode, Repoint, markDone,
     markFailed, Fault, MarkFailedThrows, Shutdown, Crash, queue, jobsVars
<1>5. lost'[j] = lost[j]
  <2>1. CASE MarkFailedThrows \/ Crash
    BY <2>1, <1>2, <1>3 DEF MarkFailedThrows, Crash, AtWork
  <2>2. CASE ~(MarkFailedThrows \/ Crash)
    BY <2>2 DEF JobsNext, Api, Publish, deleteVideo, BackoffElapses, Work,
       Start, requeueOrphaned, claimNext, ClaimNothing, Encode, Repoint, markDone,
       markFailed, Fault, Shutdown, history, jobsVars
  <2>3. QED
    BY <2>1, <2>2
<1>6. QED
  BY <1>1, <1>4, <1>5

\* The run under way is that of the job in hand.
LEMMA RunKnown ==
  ASSUME JobsInv
  PROVE  /\ ~AtWork => Running = {}
         /\ AtWork => /\ job \in Job /\ status[job] = "running" /\ Running = {subject[job]}
                      /\ OrderOf(job) \in Orders
BY DEF JobsInv, WorkerHolds, Running, InHand, Orders, Live

\* Steps that touch no order.
LEMMA NoOrder ==
  ASSUME UNCHANGED <<subject, attempts, lost>>,
         \A j \in Job : status'[j] \in Live <=> status[j] \in Live
  PROVE  Orders' = Orders
BY DEF Orders, OrderOf

LEMMA NoOutcome ==
  ASSUME subject' = subject,
         \A j \in Job : status'[j] = status[j] \/ {status[j], status'[j]} \cap Finished = {}
  PROVE  Outcomes' = Outcomes
BY DEF Outcomes

\* Steps that touch one.
LEMMA OneOrder ==
  ASSUME OneLiveJob, NEW j \in Job,
         \A i \in Job \ {j} : /\ status'[i] = status[i] /\ subject'[i] = subject[i]
                              /\ attempts'[i] = attempts[i] /\ lost'[i] = lost[i]
  PROVE  /\ status[j] \in Live /\ status'[j] \in Live =>
              Orders' = (Orders \ {OrderOf(j)}) \cup {OrderOf(j)'}
         /\ status[j] \in Live /\ status'[j] \notin Live => Orders' = Orders \ {OrderOf(j)}
         /\ status[j] \notin Live /\ status'[j] \in Live => Orders' = Orders \cup {OrderOf(j)'}
<1>1. \A i \in Job \ {j} : OrderOf(i)' = OrderOf(i)
  BY DEF OrderOf
<1>2. status[j] \in Live => \A i \in Job \ {j} : status[i] \in Live => OrderOf(i) # OrderOf(j)
  BY DEF OneLiveJob, OrderOf
<1>3. QED
  BY <1>1, <1>2 DEF Orders

LEMMA ApiImplements ==
  ASSUME JobsInv, UnusedIsFresh, Api
  PROVE  [QueueView!Next]_(QueueView!vars)
<1>1. ASSUME NEW c \in Clip, NEW j \in Job, Publish(c, j)
      PROVE  QueueView!Request(c)
  <2>1. /\ status[j] = "none" /\ ~LiveJob(c)
        /\ status' = [status EXCEPT ![j] = "pending"] /\ subject' = [subject EXCEPT ![j] = c]
        /\ attempts' = attempts /\ lost' = lost /\ pc' = pc /\ job' = job
        /\ repointed' = repointed /\ deleted' = deleted
    BY <1>1 DEF Publish, enqueue, clips, history, worker
  <2>2. /\ status'[j] = "pending" /\ subject'[j] = c /\ attempts[j] = 0 /\ lost[j] = 0
        /\ \A i \in Job \ {j} : status'[i] = status[i] /\ subject'[i] = subject[i]
    BY <2>1 DEF JobsInv, JobsTypeOK, UnusedIsFresh
  <2>3. OrderOf(j)' = [clip |-> c, tries |-> 0, lost |-> 0]
    BY <2>1, <2>2 DEF OrderOf
  <2>4. Orders' = Orders \cup {OrderOf(j)'}
    BY <2>1, <2>2, OneOrder DEF JobsInv, Live
  <2>5. \A w \in Orders : w.clip # c
    BY <2>1 DEF LiveJob, Orders, OrderOf
  <2>6. Running' = Running
    BY <2>1, <2>2 DEF JobsInv, WorkerHolds, Running, InHand, AtWork
  <2>7. Outcomes' = Outcomes
    BY <2>1, <2>2 DEF Outcomes, Finished
  <2>8. QED
    BY <2>1, <2>3, <2>4, <2>5, <2>6, <2>7 DEF QueueView!Request
<1>2. ASSUME NEW c \in Clip, deleteVideo(c)
      PROVE  QueueView!Despair(c)
  <2>1. /\ deleted' = deleted \cup {c} /\ status' = status /\ subject' = subject
        /\ attempts' = attempts /\ lost' = lost /\ pc' = pc /\ job' = job /\ repointed' = repointed
    BY <1>2 DEF deleteVideo, queue, history, worker
  <2>2. Orders' = Orders /\ Running' = Running /\ Outcomes' = Outcomes
    BY <2>1 DEF Orders, OrderOf, Running, InHand, AtWork, Outcomes
  <2>3. QED
    BY <2>1, <2>2 DEF QueueView!Despair
<1>3. QED
  BY <1>1, <1>2 DEF Api, QueueView!Next

\* What the worker does that is neither a run nor the end of one.
LEMMA QuietSteps ==
  ASSUME UNCHANGED <<subject, attempts, lost, repointed, deleted>>,
         \A j \in Job : status'[j] = status[j] \/ (status[j] = "running" /\ status'[j] = "pending"),
         (AtWork' <=> AtWork) /\ (AtWork => job' = job)
  PROVE  UNCHANGED QueueView!vars
<1>1. Orders' = Orders /\ Outcomes' = Outcomes
  BY NoOrder, NoOutcome DEF Live, Finished
<1>2. Running' = Running
  BY DEF Running, InHand
<1>3. QED
  BY <1>1, <1>2 DEF QueueView!vars

LEMMA claimNextTries ==
  ASSUME JobsInv, claimNext PROVE [QueueView!Next]_(QueueView!vars)
<1>1. PICK j \in Job : /\ status[j] = "pending"
                       /\ status' = [status EXCEPT ![j] = "running"]
                       /\ attempts' = [attempts EXCEPT ![j] = @ + 1]
                       /\ job' = j
  BY DEF claimNext, Claimable
<1>2. /\ repointed' = repointed /\ deleted' = deleted /\ subject' = subject /\ lost' = lost
      /\ ~AtWork /\ AtWork'
  BY DEF claimNext, clips, history, AtWork
<1>3. /\ status'[j] = "running" /\ attempts'[j] = attempts[j] + 1
      /\ \A i \in Job \ {j} : status'[i] = status[i] /\ attempts'[i] = attempts[i]
  BY <1>1 DEF JobsInv, JobsTypeOK
<1>4. OrderOf(j)' = [OrderOf(j) EXCEPT !.tries = @ + 1]
  BY <1>2, <1>3 DEF OrderOf
<1>5. OrderOf(j) \in Orders /\ Orders' = (Orders \ {OrderOf(j)}) \cup {OrderOf(j)'}
  <2>1. OrderOf(j) \in Orders
    BY <1>1 DEF Orders, Live
  <2>2. QED
    BY <1>1, <1>2, <1>3, <2>1, OneOrder DEF JobsInv, Live
<1>6. OrderOf(j).tries < MAX_ATTEMPTS + OrderOf(j).lost
  <2>1. attempts[j] < MAX_ATTEMPTS + lost[j]
    BY <1>1, <1>2 DEF JobsInv, AttemptLeft, InHand
  <2>2. QED
    BY <2>1 DEF OrderOf
<1>7. Running = {} /\ Running' = {OrderOf(j).clip}
  BY <1>1, <1>2 DEF Running, InHand, OrderOf
<1>8. Outcomes' = Outcomes
  BY <1>1, <1>2, <1>3 DEF Outcomes, Finished
<1>9. QueueView!Try(OrderOf(j))
  BY <1>2, <1>4, <1>5, <1>6, <1>7, <1>8 DEF QueueView!Try
<1>10. QED
  BY <1>5, <1>9 DEF QueueView!Next

LEMMA RepointDelivers == ASSUME JobsInv, Repoint PROVE [QueueView!Next]_(QueueView!vars)
<1>1. /\ AtWork /\ AtWork' /\ UNCHANGED <<subject, attempts, lost, deleted, status, job>>
  BY DEF Repoint, queue, history, AtWork
<1>2. CASE repointed' = repointed
  BY <1>1, <1>2, QuietSteps
<1>3. CASE repointed' = repointed \cup {subject[job]}
  <2>1. OrderOf(job) \in Orders /\ OrderOf(job).clip = subject[job] /\ Running = {subject[job]}
    BY <1>1, RunKnown DEF OrderOf
  <2>2. Orders' = Orders /\ Outcomes' = Outcomes /\ Running' = Running
    BY <1>1, NoOrder, NoOutcome DEF Running, InHand
  <2>3. QueueView!Deliver(OrderOf(job))
    BY <1>1, <1>3, <2>1, <2>2 DEF QueueView!Deliver
  <2>4. QED
    BY <2>1, <2>3 DEF QueueView!Next
<1>4. QED
  BY <1>2, <1>3 DEF Repoint

\* The worker lets go of its job; the other orders stay.
LEMMA LetsGo ==
  ASSUME JobsInv, AtWork, ~AtWork', UNCHANGED <<subject, attempts, repointed, deleted>>,
         NEW j \in Job, j = job,
         \A i \in Job \ {j} : lost'[i] = lost[i] /\ status'[i] = status[i]
  PROVE  /\ status[j] = "running" /\ OrderOf(j) \in Orders /\ QueueView!Ends(OrderOf(j))
         /\ status'[j] \in Live => Orders' = (Orders \ {OrderOf(j)}) \cup {OrderOf(j)'}
         /\ status'[j] \notin Live => Orders' = Orders \ {OrderOf(j)}
<1>1. status[j] = "running" /\ OrderOf(j) \in Orders /\ Running = {OrderOf(j).clip}
  BY RunKnown DEF OrderOf
<1>2. Running' = {}
  BY DEF Running, InHand
<1>3. /\ status'[j] \in Live => Orders' = (Orders \ {OrderOf(j)}) \cup {OrderOf(j)'}
      /\ status'[j] \notin Live => Orders' = Orders \ {OrderOf(j)}
  BY <1>1, OneOrder DEF JobsInv, Live
<1>4. QED
  BY <1>1, <1>2, <1>3 DEF QueueView!Ends

\* A job ends: its outcome is added to those there are.
LEMMA OutcomeAdded ==
  ASSUME JobsTypeOK, NEW j \in Job, status[j] = "running", NEW s \in Finished,
         status' = [status EXCEPT ![j] = s], UNCHANGED subject
  PROVE  Outcomes' = Outcomes \cup {<<OrderOf(j).clip, s>>}
<1>1. status'[j] = s /\ \A i \in Job \ {j} : status'[i] = status[i]
  BY DEF JobsTypeOK
<1>2. status[j] \notin Finished
  BY DEF Finished
<1>3. OrderOf(j).clip = subject[j]
  BY DEF OrderOf
<1>4. QED
  BY <1>1, <1>2, <1>3 DEF Outcomes

LEMMA markDoneFinishes == ASSUME JobsInv, markDone PROVE [QueueView!Next]_(QueueView!vars)
<1>1. /\ job \in Job /\ AtWork /\ subject[job] \in repointed
      /\ UNCHANGED <<subject, attempts, lost, repointed, deleted, job>>
  BY DEF markDone, JobsInv, WorkerHolds, WorkerIsRight, AtWork, clips, history
<1>2. CASE status' = status /\ pc' = "markFailed"
  BY <1>1, <1>2, QuietSteps DEF AtWork
<1>3. CASE status' = [status EXCEPT ![job] = "done"] /\ pc' = "claim"
  <2>1. PICK j \in Job : j = job
    BY <1>1
  <2>2. ~AtWork' /\ status'[j] = "done" /\ \A i \in Job \ {j} : status'[i] = status[i]
    BY <1>3, <2>1 DEF AtWork, JobsInv, JobsTypeOK
  <2>3. /\ status[j] = "running" /\ OrderOf(j) \in Orders /\ QueueView!Ends(OrderOf(j))
        /\ Orders' = Orders \ {OrderOf(j)}
    BY <1>1, <2>1, <2>2, LetsGo DEF Live
  <2>4. Outcomes' = Outcomes \cup {<<OrderOf(j).clip, "done">>}
    BY <1>1, <1>3, <2>1, <2>3, OutcomeAdded DEF Finished, JobsInv
  <2>5. OrderOf(j).clip \in repointed
    BY <1>1, <2>1 DEF OrderOf
  <2>6. QueueView!Finish(OrderOf(j))
    BY <2>3, <2>4, <2>5 DEF QueueView!Finish
  <2>7. QED
    BY <2>3, <2>6 DEF QueueView!Next
<1>4. QED
  BY <1>2, <1>3 DEF markDone

LEMMA markFailedEnds == ASSUME JobsInv, markFailed PROVE [QueueView!Next]_(QueueView!vars)
<1>1. /\ job \in Job /\ AtWork /\ ~AtWork'
      /\ UNCHANGED <<subject, attempts, lost, repointed, deleted>>
  BY DEF markFailed, JobsInv, WorkerHolds, AtWork, clips, history
<1>2. permanent => Hopeless(subject[job])
  BY DEF markFailed, JobsInv, WorkerIsRight
<1>3. PICK j \in Job : j = job
  BY <1>1
<1>4. CASE permanent \/ attempts[j] >= MAX_ATTEMPTS
  <2>1. status' = [status EXCEPT ![j] = "failed"]
    BY <1>3, <1>4 DEF markFailed
  <2>2. status'[j] = "failed" /\ \A i \in Job \ {j} : status'[i] = status[i]
    BY <2>1 DEF JobsInv, JobsTypeOK
  <2>3. /\ status[j] = "running" /\ OrderOf(j) \in Orders /\ QueueView!Ends(OrderOf(j))
        /\ Orders' = Orders \ {OrderOf(j)}
    BY <1>1, <1>3, <2>2, LetsGo DEF Live
  <2>4. Outcomes' = Outcomes \cup {<<OrderOf(j).clip, "failed">>}
    BY <1>1, <2>1, <2>3, OutcomeAdded DEF Finished, JobsInv
  <2>5. OrderOf(j).tries >= MAX_ATTEMPTS \/ OrderOf(j).clip \in Foreign \cup deleted
    BY <1>2, <1>3, <1>4 DEF OrderOf, Hopeless
  <2>6. QueueView!GiveUp(OrderOf(j))
    BY <2>3, <2>4, <2>5 DEF QueueView!GiveUp
  <2>7. QED
    BY <2>3, <2>6 DEF QueueView!Next
<1>5. CASE ~(permanent \/ attempts[j] >= MAX_ATTEMPTS)
  <2>1. status' = [status EXCEPT ![j] = "pending"]
    BY <1>3, <1>5 DEF markFailed
  <2>2. status'[j] = "pending" /\ \A i \in Job \ {j} : status'[i] = status[i]
    BY <2>1 DEF JobsInv, JobsTypeOK
  <2>3. status[j] = "running" /\ OrderOf(j) \in Orders /\ QueueView!Ends(OrderOf(j))
    BY <1>1, <1>3, <2>2, LetsGo
  <2>4. Orders' = Orders /\ Outcomes' = Outcomes
    BY <1>1, <2>2, <2>3, NoOrder, NoOutcome DEF Live, Finished
  <2>5. OrderOf(j).tries < MAX_ATTEMPTS
    <3>1. attempts[j] \in Nat /\ MAX_ATTEMPTS \in Nat
      BY MediaJobsAssumption DEF JobsInv, JobsTypeOK
    <3>2. QED
      BY <1>5, <3>1 DEF OrderOf
  <2>6. QueueView!Retry(OrderOf(j))
    BY <2>3, <2>4, <2>5 DEF QueueView!Retry
  <2>7. QED
    BY <2>3, <2>6 DEF QueueView!Next
<1>6. QED
  BY <1>4, <1>5

LEMMA LosingLoses ==
  ASSUME JobsInv, AtWork, MarkFailedThrows \/ Crash PROVE [QueueView!Next]_(QueueView!vars)
<1>1. /\ job \in Job /\ ~AtWork' /\ lost' = [lost EXCEPT ![job] = @ + 1]
      /\ UNCHANGED <<subject, attempts, status, repointed, deleted>>
  BY DEF MarkFailedThrows, Crash, JobsInv, WorkerHolds, AtWork, clips, queue
<1>2. PICK j \in Job : j = job
  BY <1>1
<1>3. lost'[j] = lost[j] + 1 /\ \A i \in Job \ {j} : lost'[i] = lost[i] /\ status'[i] = status[i]
  BY <1>1, <1>2 DEF JobsInv, JobsTypeOK
<1>4. /\ status[j] = "running" /\ OrderOf(j) \in Orders /\ QueueView!Ends(OrderOf(j))
      /\ status'[j] \in Live => Orders' = (Orders \ {OrderOf(j)}) \cup {OrderOf(j)'}
  BY <1>1, <1>2, <1>3, LetsGo
<1>5. Orders' = (Orders \ {OrderOf(j)}) \cup {OrderOf(j)'}
  BY <1>1, <1>4 DEF Live
<1>6. OrderOf(j)' = [OrderOf(j) EXCEPT !.lost = @ + 1]
  BY <1>1, <1>3 DEF OrderOf
<1>7. Outcomes' = Outcomes
  BY <1>1 DEF Outcomes
<1>8. QueueView!Lose(OrderOf(j))
  BY <1>4, <1>5, <1>6, <1>7 DEF QueueView!Lose
<1>9. QED
  BY <1>4, <1>8 DEF QueueView!Next

LEMMA StepKeepsPromise ==
  JobsInv /\ UnusedIsFresh /\ [JobsNext]_jobsVars => [QueueView!Next]_(QueueView!vars)
<1> SUFFICES ASSUME JobsInv, UnusedIsFresh, [JobsNext]_jobsVars
             PROVE  [QueueView!Next]_(QueueView!vars)
  OBVIOUS
<1>1. ASSUME UNCHANGED <<clips, queue, lost>>, (AtWork' <=> AtWork) /\ (AtWork => job' = job)
      PROVE  UNCHANGED QueueView!vars
  BY <1>1, QuietSteps DEF clips, queue
<1>2. CASE UNCHANGED jobsVars
  BY <1>1, <1>2 DEF jobsVars, history, worker, AtWork
<1>3. CASE \E j \in Job : BackoffElapses(j)
  BY <1>3, QuietSteps DEF BackoffElapses, clips, history, worker, AtWork
<1>4. CASE Start \/ ClaimNothing \/ Shutdown
  BY <1>1, <1>4 DEF Start, ClaimNothing, Shutdown, history, AtWork
<1>5. CASE requeueOrphaned
  <2>1. /\ UNCHANGED <<subject, attempts, lost, repointed, deleted>> /\ ~AtWork /\ ~AtWork'
    BY <1>5 DEF requeueOrphaned, clips, AtWork
  <2>2. \A j \in Job : status'[j] = status[j] \/ (status[j] = "running" /\ status'[j] = "pending")
    BY <1>5 DEF requeueOrphaned
  <2>3. QED
    BY <2>1, <2>2, QuietSteps
<1>6. CASE Encode
  BY <1>1, <1>6 DEF Encode, history, AtWork
<1>7. CASE MarkFailedThrows \/ Crash
  <2>1. CASE AtWork
    BY <1>7, <2>1, LosingLoses
  <2>2. CASE ~AtWork
    BY <1>1, <1>7, <2>2 DEF MarkFailedThrows, Crash, AtWork
  <2>3. QED
    BY <2>1, <2>2
<1>8. QED
  BY <1>2, <1>3, <1>4, <1>5, <1>6, <1>7, ApiImplements, claimNextTries, RepointDelivers,
     markDoneFinishes, markFailedEnds DEF JobsNext, Work, Fault

\* MediaJobs implements WorkQueue: one order a clip, tried within its budget and
\* closed by a run for cause (enqueue, claimNext, markDone, markFailed,
\* requeueOrphaned), for any number of jobs, clips and crashes.
THEOREM ImplementsWorkQueue == JobsSpec => QueuePromise
<1>1. JobsInit => UnusedIsFresh /\ QueueView!Init
  BY DEF JobsInit, UnusedIsFresh, QueueView!Init, Orders, Running, InHand, AtWork, Outcomes, Live, Finished
<1>2. QED
  BY <1>1, JobsInvariance, UnusedStays, StepKeepsPromise, PTL DEF JobsSpec, QueuePromise, QueueView!Spec

--------------------------------------------------------------------------------
(***************************************************************************)
(* What module MediaRetention promises, for every number of rows, objects  *)
(* and sweeps, every length of run and all times that meet the assumption. *)
(*                                                                         *)
(* The argument: an object that became referenced after the references     *)
(* were collected was young then (Gap), the listing is not much later      *)
(* (Scan), so it is too young for the list of orphans (MinAge); and an     *)
(* object on that list is too old to become referenced afterwards. An      *)
(* original that is reclaimed belongs to a row that has moved on to a      *)
(* transcode, so only another row that refers to the object can miss it.   *)
(***************************************************************************)

Past == \A o \in Object : born[o] <= now

YoungUploads == \A o \in written : maker[o] = Client /\ Young(o) => o \in bucket

MakersKnown == \A o \in written : maker[o] \in rows \cup {Client}

RowOk(r) ==
  /\ row[r].url \in written
  /\ row[r].upload \in written
  /\ born[row[r].upload] <= row[r].created
  /\ Of(r, row[r].url)
  /\ row[r].source # NoObject =>
       /\ row[r].source \in written
       /\ Of(r, row[r].source)
       /\ row[r].source # row[r].url
       /\ born[row[r].source] <= row[r].updated
RowInv == \A r \in rows : RowOk(r)

Outgoing(o) == encode.pc = "repoint" /\ encode.out = o
EncodeInv ==
  /\ encode # Idle => encode.row \in rows /\ encode.from = row[encode.row].url
  /\ encode.pc = "repoint" =>
       /\ encode.out \in written
       /\ maker[encode.out] = encode.row
       /\ encode.out # row[encode.row].url
       /\ \A q \in rows : encode.out # row[q].source
       /\ Young(encode.out) => encode.out \in bucket

ListOk(h) ==
  h.pc = "list" =>
    /\ h.at <= now /\ now <= h.at + Scan
    /\ \A o \in Referenced : o \in h.refs \/ h.at <= born[o] + Gap
OrphansOk(h) ==
  h.pc = "orphans" =>
    \A o \in h.keys : o \in written /\ born[o] + MinAge <= now /\ o \notin Referenced
OwnedOk(r, o) ==
  /\ r \in rows
  /\ o \in written
  /\ Of(r, o)
  /\ o # row[r].url
  /\ ~Outgoing(o)
  /\ maker[o] = Client => born[o] + RetainAge < now
ReclaimOk(h) ==
  /\ h.pc \in {"reclaim", "clear"} => \A p \in h.owned : OwnedOk(p[1], p[2])
  /\ h.pc = "reclaim" => \A o \in h.keys : \E p \in h.owned : p[2] = o
SweepInv ==
  \A s \in Sweeper : ListOk(sweep[s]) /\ OrphansOk(sweep[s]) /\ ReclaimOk(sweep[s])

IInv ==
  /\ TypeOK
  /\ Past
  /\ YoungUploads
  /\ MakersKnown
  /\ RowInv
  /\ EncodeInv
  /\ SweepInv
  /\ PlayableKept
  /\ RetentionKept

--------------------------------------------------------------------------------
(* Shapes of the records *)

\* What the program counter of a sweep says of its other fields.
LEMMA SweepShape ==
  ASSUME NEW h \in Sweep
  PROVE  /\ h.pc = "list" => h.refs \subseteq Object /\ h.at \in Nat
         /\ h.pc \in {"orphans", "reclaim"} => h.keys \subseteq Object
         /\ h.pc \in {"reclaim", "clear"} => h.owned \subseteq Row \X Object
         /\ h.pc \in {"list", "orphans", "originals", "reclaim", "clear"} => h # Idle
         /\ h.pc \in {"idle", "list", "orphans", "originals", "reclaim", "clear"}
         /\ h.pc = "idle" => h = Idle
BY DEF Sweep, Idle

\* What the program counter of the worker says of its other fields.
LEMMA EncodeShape ==
  ASSUME NEW h \in EncodeState
  PROVE  /\ h # Idle => /\ h.pc \in {"put", "repoint"}
                        /\ h.row \in Row /\ h.from \in Object /\ h.first \in BOOLEAN
         /\ h.pc = "repoint" => h.out \in Object
         /\ h.pc \in {"put", "repoint"} => h # Idle
BY DEF EncodeState, Idle

\* The fields of a row.
LEMMA RowShape ==
  ASSUME TypeOK, NEW r \in Row
  PROVE  /\ row[r].url \in MaybeObject
         /\ row[r].source \in MaybeObject
         /\ row[r].upload \in MaybeObject
         /\ row[r].created \in Nat
         /\ row[r].updated \in Nat
BY DEF TypeOK, RowData

--------------------------------------------------------------------------------
(* The steps of a sweep that write no row and delete no object *)

\* A sweep that only changes its own state keeps every invariant but its own.
LEMMA SweepFrame ==
  ASSUME IInv, NEW s \in Sweeper, NEW h \in Sweep,
         sweep' = [sweep EXCEPT ![s] = h],
         UNCHANGED <<now, objects, rows, row, encode>>,
         ListOk(h), OrphansOk(h), ReclaimOk(h)
  PROVE  IInv'
<1>1. TypeOK'
  BY DEF IInv, TypeOK, objects
<1>2. Past' /\ YoungUploads' /\ MakersKnown' /\ RowInv' /\ EncodeInv'
  BY DEF IInv, Past, YoungUploads, MakersKnown, Young, RowInv, RowOk, Of, EncodeInv, objects
<1>3. PlayableKept' /\ RetentionKept'
  BY DEF IInv, PlayableKept, Of, RetentionKept, Referenced, Refs, objects
<1>4. SweepInv'
  <2> SUFFICES ASSUME NEW t \in Sweeper
               PROVE  (ListOk(sweep[t]) /\ OrphansOk(sweep[t]) /\ ReclaimOk(sweep[t]))'
    BY DEF SweepInv
  <2>1. sweep'[t] = IF t = s THEN h ELSE sweep[t]
    BY DEF IInv, TypeOK
  <2>2. PICK g : g = sweep'[t]
    OBVIOUS
  <2>3. ListOk(g) /\ OrphansOk(g) /\ ReclaimOk(g)
    BY <2>1, <2>2 DEF IInv, SweepInv
  <2>4. Referenced' = Referenced /\ now' = now /\ born' = born /\ written' = written
    BY DEF Referenced, Refs, objects
  <2>5. (ListOk(sweep[t]))' /\ (OrphansOk(sweep[t]))'
    BY <2>2, <2>3, <2>4 DEF ListOk, OrphansOk
  <2>6. (ReclaimOk(sweep[t]))'
    BY <2>2, <2>3 DEF ReclaimOk, OwnedOk, Of, Outgoing, objects
  <2> QED BY <2>5, <2>6
<1> QED BY <1>1, <1>2, <1>3, <1>4 DEF IInv

LEMMA KeepsCollect ==
  ASSUME IInv, NEW s \in Sweeper, collectReferencedKeys(s) PROVE IInv'
<1> DEFINE h == [pc |-> "list", refs |-> Referenced, at |-> now]
<1>1. Referenced \subseteq Object
  BY RowShape DEF IInv, TypeOK, Referenced, Refs, MaybeObject
<1>2. h \in Sweep
  BY <1>1 DEF Sweep, IInv, TypeOK
<1>3. ListOk(h) /\ OrphansOk(h) /\ ReclaimOk(h)
  BY MediaRetentionAssumption DEF ListOk, OrphansOk, ReclaimOk, IInv, TypeOK
<1>4. sweep' = [sweep EXCEPT ![s] = h] /\ UNCHANGED <<now, objects, rows, row, encode>>
  BY DEF collectReferencedKeys
<1> HIDE DEF h
<1> QED BY <1>2, <1>3, <1>4, SweepFrame

\* The heart of it: what became referenced since the references were collected
\* is too young to be listed as an orphan.
LEMMA KeepsListObjects ==
  ASSUME IInv, NEW s \in Sweeper, ListObjects(s) PROVE IInv'
<1> DEFINE keys == {o \in bucket \ sweep[s].refs : born[o] + MinAge <= now}
           h == [pc |-> "orphans", keys |-> keys]
<1>1. h \in Sweep
  BY DEF Sweep, IInv, TypeOK
<1>2. ASSUME NEW o \in keys PROVE o \in written /\ born[o] + MinAge <= now /\ o \notin Referenced
  <2>1. o \in written /\ o \in Object /\ born[o] \in Nat /\ now \in Nat
    BY DEF IInv, TypeOK
  <2>2. ListOk(sweep[s]) /\ sweep[s].pc = "list" /\ sweep[s].at \in Nat
    BY SweepShape DEF IInv, SweepInv, TypeOK, ListObjects
  <2>3. CASE o \in Referenced
    <3>1. sweep[s].at <= born[o] + Gap /\ now <= sweep[s].at + Scan
      BY <2>2, <2>3 DEF ListOk
    <3> QED BY <2>1, <2>2, <3>1, MediaRetentionAssumption
  <2> QED BY <2>1, <2>3
<1>3. ListOk(h) /\ OrphansOk(h) /\ ReclaimOk(h)
  BY <1>2 DEF ListOk, OrphansOk, ReclaimOk
<1>4. sweep' = [sweep EXCEPT ![s] = h] /\ UNCHANGED <<now, objects, rows, row, encode>>
  BY DEF ListObjects
<1> HIDE DEF h
<1> QED BY <1>1, <1>3, <1>4, SweepFrame

LEMMA KeepsOrphansDone ==
  ASSUME IInv, NEW s \in Sweeper, OrphansDone(s) PROVE IInv'
<1> DEFINE h == [pc |-> "originals"]
<1>1. h \in Sweep /\ ListOk(h) /\ OrphansOk(h) /\ ReclaimOk(h)
  BY DEF Sweep, ListOk, OrphansOk, ReclaimOk
<1>2. sweep' = [sweep EXCEPT ![s] = h] /\ UNCHANGED <<now, objects, rows, row, encode>>
  BY DEF OrphansDone
<1> HIDE DEF h
<1> QED BY <1>1, <1>2, SweepFrame

LEMMA KeepsSweepDies ==
  ASSUME IInv, NEW s \in Sweeper, SweepDies(s) PROVE IInv'
<1> DEFINE h == Idle
<1>1. h \in Sweep /\ ListOk(h) /\ OrphansOk(h) /\ ReclaimOk(h)
  BY DEF Sweep, ListOk, OrphansOk, ReclaimOk, Idle
<1>2. sweep' = [sweep EXCEPT ![s] = h] /\ UNCHANGED <<now, objects, rows, row, encode>>
  BY DEF SweepDies
<1> HIDE DEF h
<1> QED BY <1>1, <1>2, SweepFrame

\* An original that is selected is superseded, and old if a client uploaded it.
LEMMA KeepsFindReclaimable ==
  ASSUME IInv, NEW s \in Sweeper, findReclaimableOriginals(s) PROVE IInv'
<1> DEFINE owned == {<<r, row[r].source>> : r \in {q \in rows : Reclaimable(q)}}
           h == [pc |-> "reclaim", keys |-> {p[2] : p \in owned}, owned |-> owned]
<1>1. ASSUME NEW p \in owned PROVE p \in Row \X Object /\ OwnedOk(p[1], p[2])
  <2>1. PICK r \in rows : Reclaimable(r) /\ p = <<r, row[r].source>>
    OBVIOUS
  <2>2. p[1] = r /\ p[2] = row[r].source
    BY <2>1
  <2>3. r \in Row /\ row[r].source # NoObject /\ row[r].source \in Object
    BY <2>1, RowShape DEF IInv, TypeOK, Reclaimable, MaybeObject
  <2>4. RowOk(r)
    BY DEF IInv, RowInv
  <2>5. ~Outgoing(row[r].source)
    BY DEF IInv, EncodeInv, Outgoing
  <2>6. maker[row[r].source] = Client => born[row[r].source] + RetainAge < now
    <3>1. row[r].created \in Nat /\ row[r].updated \in Nat /\ born[row[r].source] \in Nat /\ now \in Nat
      BY <2>3, RowShape DEF IInv, TypeOK
    <3>2. maker[row[r].source] = Client => born[row[r].source] <= row[r].created
      BY <2>3, <2>4, MediaRetentionAssumption DEF RowOk, Of
    <3>3. born[row[r].source] <= row[r].updated
      BY <2>3, <2>4 DEF RowOk
    <3> QED BY <2>1, <3>1, <3>2, <3>3, MediaRetentionAssumption DEF Reclaimable
  <2> QED BY <2>1, <2>2, <2>3, <2>4, <2>5, <2>6 DEF OwnedOk, RowOk
<1>2. owned \subseteq Row \X Object
  BY <1>1
<1>3. h \in Sweep
  <2>1. {p[2] : p \in owned} \subseteq Object
    BY <1>2
  <2> HIDE DEF owned
  <2> QED BY <1>2, <2>1 DEF Sweep
<1>4. ListOk(h) /\ OrphansOk(h) /\ ReclaimOk(h)
  <2> HIDE DEF owned
  <2> QED BY <1>1 DEF ListOk, OrphansOk, ReclaimOk
<1>5. sweep' = [sweep EXCEPT ![s] = h] /\ UNCHANGED <<now, objects, rows, row, encode>>
  BY DEF findReclaimableOriginals
<1> HIDE DEF h
<1> QED BY <1>3, <1>4, <1>5, SweepFrame

LEMMA KeepsReclaimDone ==
  ASSUME IInv, NEW s \in Sweeper, ReclaimDone(s) PROVE IInv'
<1> DEFINE h == [pc |-> "clear", owned |-> sweep[s].owned]
<1>1. sweep[s].owned \subseteq Row \X Object /\ ReclaimOk(sweep[s]) /\ sweep[s].pc = "reclaim"
  BY SweepShape DEF IInv, TypeOK, SweepInv, ReclaimDone
<1>2. h \in Sweep
  BY <1>1 DEF Sweep
<1>3. ListOk(h) /\ OrphansOk(h) /\ ReclaimOk(h)
  BY <1>1 DEF ListOk, OrphansOk, ReclaimOk
<1>4. sweep' = [sweep EXCEPT ![s] = h] /\ UNCHANGED <<now, objects, rows, row, encode>>
  BY DEF ReclaimDone
<1> HIDE DEF h
<1> QED BY <1>2, <1>3, <1>4, SweepFrame

--------------------------------------------------------------------------------
(* The steps of a sweep that write *)

\* What the invariant knows of a key that a sweep is about to delete.
LEMMA Condemned ==
  ASSUME IInv, NEW s \in Sweeper, NEW o \in Object, DeleteKey(s, o)
  PROVE  /\ o \in written
         /\ ~Outgoing(o) \/ ~Young(o)
         /\ maker[o] = Client => ~Young(o)
         /\ o \notin Referenced \/ (maker[o] = Client => born[o] + RetainAge < now)
         /\ \A r \in rows : row[r].url = o => \E q \in rows \ {r} : Of(q, o)
<1>1. OrphansOk(sweep[s]) /\ ReclaimOk(sweep[s]) /\ o \in sweep[s].keys
  BY DEF IInv, SweepInv, DeleteKey
<1>2. born[o] \in Nat /\ now \in Nat
  BY DEF IInv, TypeOK
<1>3. CASE sweep[s].pc = "orphans"
  <2>1. o \in written /\ born[o] + MinAge <= now /\ o \notin Referenced
    BY <1>1, <1>3 DEF OrphansOk
  <2>2. ~Young(o)
    BY <1>2, <2>1, MediaRetentionAssumption DEF Young
  <2>3. \A r \in rows : row[r].url # o
    BY <2>1, MediaRetentionAssumption DEF Referenced, Refs
  <2> QED BY <2>1, <2>2, <2>3
<1>4. CASE sweep[s].pc = "reclaim"
  <2>1. PICK p \in sweep[s].owned : p[2] = o /\ OwnedOk(p[1], p[2])
    BY <1>1, <1>4 DEF ReclaimOk
  <2>2. OwnedOk(p[1], o)
    BY <2>1
  <2>3. maker[o] = Client => ~Young(o)
    BY <1>2, <2>2, MediaRetentionAssumption DEF OwnedOk, Young
  <2>4. ASSUME NEW r \in rows, row[r].url = o
        PROVE  \E q \in rows \ {r} : Of(q, o)
    <3>1. Of(p[1], o) /\ p[1] # r /\ p[1] \in rows
      BY <2>2, <2>4 DEF OwnedOk
    <3> QED BY <3>1
  <2> QED BY <2>2, <2>3, <2>4 DEF OwnedOk
<1> QED BY <1>3, <1>4 DEF DeleteKey

LEMMA KeepsDeleteKey ==
  ASSUME IInv, NEW s \in Sweeper, NEW o \in Object, DeleteKey(s, o) PROVE IInv'
<1>0. /\ ~Outgoing(o) \/ ~Young(o)
      /\ maker[o] = Client => ~Young(o)
      /\ o \notin Referenced \/ (maker[o] = Client => born[o] + RetainAge < now)
      /\ \A r \in rows : row[r].url = o => \E q \in rows \ {r} : Of(q, o)
  BY Condemned
<1> USE DEF DeleteKey
<1>1. TypeOK'
  <2>1. [sweep[s] EXCEPT !.keys = @ \ {o}] \in Sweep
    BY DEF IInv, TypeOK, Sweep, Idle
  <2>2. sweep' = [sweep EXCEPT ![s] = [sweep[s] EXCEPT !.keys = @ \ {o}]]
    BY DEF IInv, TypeOK
  <2>3. sweep' \in [Sweeper -> Sweep]
    BY <2>1, <2>2 DEF IInv, TypeOK
  <2> QED BY <2>3 DEF IInv, TypeOK
<1>2. Past' /\ RowInv'
  BY DEF IInv, Past, RowInv, RowOk, Of
<1>3. YoungUploads' /\ MakersKnown'
  BY <1>0 DEF IInv, YoungUploads, MakersKnown, Young
<1>4. EncodeInv'
  <2>1. encode.pc = "repoint" /\ Young(encode.out) => encode.out \in bucket'
    BY <1>0 DEF IInv, EncodeInv, Outgoing
  <2> QED BY <2>1 DEF IInv, EncodeInv, Young
<1>5. PlayableKept'
  <2> SUFFICES ASSUME NEW r \in rows, row[r].url \notin bucket'
               PROVE  \E q \in rows \ {r} : Of(q, row[r].url)
    BY DEF PlayableKept, Of
  <2>1. CASE row[r].url \notin bucket
    BY <2>1 DEF IInv, PlayableKept
  <2>2. CASE row[r].url \in bucket
    <3>1. row[r].url = o
      BY <2>2
    <3> QED BY <1>0, <3>1
  <2> QED BY <2>1, <2>2
<1>6. RetentionKept'
  <2>1. Referenced' = Referenced
    BY DEF Referenced, Refs
  <2> QED BY <1>0, <2>1 DEF IInv, RetentionKept
<1>7. SweepInv'
  <2> SUFFICES ASSUME NEW t \in Sweeper
               PROVE  (ListOk(sweep[t]) /\ OrphansOk(sweep[t]) /\ ReclaimOk(sweep[t]))'
    BY DEF SweepInv
  <2>1. sweep'[t] = IF t = s THEN [sweep[s] EXCEPT !.keys = @ \ {o}] ELSE sweep[t]
    BY DEF IInv, TypeOK
  <2>2. PICK g : g = sweep'[t]
    OBVIOUS
  <2>3. ListOk(g) /\ OrphansOk(g) /\ ReclaimOk(g)
    <3>1. ListOk(sweep[t]) /\ OrphansOk(sweep[t]) /\ ReclaimOk(sweep[t]) /\ sweep[t] \in Sweep
      BY DEF IInv, SweepInv, TypeOK
    <3>2. CASE t # s
      BY <2>1, <2>2, <3>1, <3>2
    <3>3. CASE t = s
      <4>1. /\ g.pc = sweep[s].pc
            /\ g.keys = sweep[s].keys \ {o}
            /\ g.pc = "reclaim" => g.owned = sweep[s].owned
        BY <2>1, <2>2, <3>1, <3>3 DEF Sweep, Idle
      <4>2. sweep[s].pc \in {"orphans", "reclaim"}
        OBVIOUS
      <4> QED BY <3>1, <3>3, <4>1, <4>2 DEF ListOk, OrphansOk, ReclaimOk
    <3> QED BY <3>2, <3>3
  <2>4. Referenced' = Referenced
    BY DEF Referenced, Refs
  <2>5. (ListOk(sweep[t]))' /\ (OrphansOk(sweep[t]))'
    BY <2>2, <2>3, <2>4 DEF ListOk, OrphansOk
  <2>6. (ReclaimOk(sweep[t]))'
    BY <2>2, <2>3 DEF ReclaimOk, OwnedOk, Of, Outgoing
  <2> QED BY <2>5, <2>6
<1> QED BY <1>1, <1>2, <1>3, <1>4, <1>5, <1>6, <1>7 DEF IInv

LEMMA KeepsClearSource ==
  ASSUME IInv, NEW s \in Sweeper, NEW p \in Row \X Object, ClearSource(s, p) PROVE IInv'
<1> USE DEF ClearSource
<1>1. p[1] \in Row /\ p[1] \in rows
  BY DEF IInv, SweepInv, ReclaimOk, OwnedOk
<1>2. \A r \in Row : /\ row'[r].url = row[r].url
                     /\ row'[r].upload = row[r].upload
                     /\ row'[r].created = row[r].created
                     /\ row'[r].updated = row[r].updated
                     /\ row'[r].source = IF r = p[1] THEN NoObject ELSE row[r].source
  BY <1>1 DEF IInv, TypeOK, RowData
<1>3. Referenced' \subseteq Referenced
  BY <1>2 DEF Referenced, Refs, IInv, TypeOK
<1>4. TypeOK'
  <2>1. row' \in [Row -> RowData]
    BY DEF IInv, TypeOK, RowData, MaybeObject
  <2>2. [sweep[s] EXCEPT !.owned = @ \ {p}] \in Sweep
    BY DEF IInv, TypeOK, Sweep, Idle
  <2>3. sweep' = [sweep EXCEPT ![s] = [sweep[s] EXCEPT !.owned = @ \ {p}]]
    BY DEF IInv, TypeOK
  <2>4. sweep' \in [Sweeper -> Sweep]
    BY <2>2, <2>3 DEF IInv, TypeOK
  <2> QED BY <2>1, <2>4 DEF IInv, TypeOK, objects
<1>5. Past' /\ YoungUploads' /\ MakersKnown'
  BY DEF IInv, Past, YoungUploads, MakersKnown, Young, objects
<1>6. RowInv'
  BY <1>2 DEF IInv, RowInv, RowOk, Of, TypeOK, objects
<1>7. EncodeInv'
  BY <1>2, EncodeShape, MediaRetentionAssumption DEF IInv, EncodeInv, Young, TypeOK, objects
<1>8. PlayableKept'
  BY <1>2 DEF IInv, PlayableKept, Of, TypeOK, objects
<1>9. RetentionKept'
  BY <1>3 DEF IInv, RetentionKept, objects
<1>10. SweepInv'
  <2> SUFFICES ASSUME NEW t \in Sweeper
               PROVE  (ListOk(sweep[t]) /\ OrphansOk(sweep[t]) /\ ReclaimOk(sweep[t]))'
    BY DEF SweepInv
  <2>1. sweep'[t] = IF t = s THEN [sweep[s] EXCEPT !.owned = @ \ {p}] ELSE sweep[t]
    BY DEF IInv, TypeOK
  <2>2. PICK g : g = sweep'[t]
    OBVIOUS
  <2>3. ListOk(g) /\ OrphansOk(g) /\ ReclaimOk(g)
    <3>1. ListOk(sweep[t]) /\ OrphansOk(sweep[t]) /\ ReclaimOk(sweep[t]) /\ sweep[t] \in Sweep
      BY DEF IInv, SweepInv, TypeOK
    <3>2. CASE t # s
      BY <2>1, <2>2, <3>1, <3>2
    <3>3. CASE t = s
      <4>1. g.pc = "clear" /\ g.owned = sweep[s].owned \ {p}
        BY <2>1, <2>2, <3>1, <3>3 DEF Sweep, Idle
      <4> QED BY <3>1, <3>3, <4>1 DEF ListOk, OrphansOk, ReclaimOk
    <3> QED BY <3>2, <3>3
  <2>4. (ListOk(sweep[t]))' /\ (OrphansOk(sweep[t]))'
    BY <1>3, <2>2, <2>3 DEF ListOk, OrphansOk, objects
  <2>5. (ReclaimOk(sweep[t]))'
    <3>1. \A r \in rows : \A o : OwnedOk(r, o) => OwnedOk(r, o)'
      BY <1>2 DEF OwnedOk, Of, Outgoing, objects, IInv, TypeOK
    <3>2. \A r, o : OwnedOk(r, o) => OwnedOk(r, o)'
      BY <3>1 DEF OwnedOk
    <3> HIDE DEF OwnedOk
    <3> QED BY <2>2, <2>3, <3>2 DEF ReclaimOk
  <2> QED BY <2>4, <2>5
<1> QED BY <1>4, <1>5, <1>6, <1>7, <1>8, <1>9, <1>10 DEF IInv

--------------------------------------------------------------------------------
(* The clock and the writers *)

\* A row refers to objects that were written.
LEMMA ReferencedWritten ==
  ASSUME IInv PROVE Referenced \subseteq written
BY DEF IInv, RowInv, RowOk, Referenced, Refs

LEMMA KeepsTick ==
  ASSUME IInv, Tick PROVE IInv'
<1> USE DEF Tick
<1>1. now \in Nat /\ now' = now + 1 /\ \A o \in Object : born[o] \in Nat
  BY DEF IInv, TypeOK
<1>2. \A o \in Object : Young(o)' => Young(o)
  BY <1>1, MediaRetentionAssumption DEF Young, objects
<1>3. Referenced' = Referenced /\ Referenced \subseteq Object
  BY ReferencedWritten DEF Referenced, Refs, IInv, TypeOK
<1>4. TypeOK'
  BY <1>1 DEF IInv, TypeOK, objects
<1>5. Past'
  BY <1>1 DEF IInv, Past, objects
<1>6. YoungUploads' /\ MakersKnown'
  BY <1>2 DEF IInv, YoungUploads, MakersKnown, TypeOK, objects
<1>7. RowInv' /\ PlayableKept'
  BY DEF IInv, RowInv, RowOk, Of, PlayableKept, Of, objects
<1>8. EncodeInv'
  BY <1>2, EncodeShape DEF IInv, EncodeInv, TypeOK, objects
<1>9. RetentionKept'
  BY <1>1, <1>3, MediaRetentionAssumption DEF IInv, RetentionKept, objects
<1>10. SweepInv'
  <2> SUFFICES ASSUME NEW t \in Sweeper
               PROVE  (ListOk(sweep[t]) /\ OrphansOk(sweep[t]) /\ ReclaimOk(sweep[t]))'
    BY DEF SweepInv
  <2>1. ListOk(sweep[t]) /\ OrphansOk(sweep[t]) /\ ReclaimOk(sweep[t]) /\ sweep'[t] = sweep[t]
    BY DEF IInv, SweepInv
  <2>2. sweep[t].pc = "list" => sweep[t].at \in Nat
    BY SweepShape DEF IInv, TypeOK
  <2>3. (ListOk(sweep[t]))'
    BY <1>1, <1>3, <2>1, <2>2, MediaRetentionAssumption DEF ListOk, objects
  <2>4. (OrphansOk(sweep[t]))'
    BY <1>1, <1>3, <2>1, MediaRetentionAssumption DEF OrphansOk, IInv, TypeOK, objects
  <2>5. \A r, o : OwnedOk(r, o) => OwnedOk(r, o)'
    BY <1>1, MediaRetentionAssumption DEF OwnedOk, Of, Outgoing, IInv, TypeOK, objects
  <2>6. (ReclaimOk(sweep[t]))'
    <3> HIDE DEF OwnedOk
    <3> QED BY <2>1, <2>5 DEF ReclaimOk
  <2> QED BY <2>3, <2>4, <2>6
<1> QED BY <1>4, <1>5, <1>6, <1>7, <1>8, <1>9, <1>10 DEF IInv

\* Writing a new object disturbs nothing that is said of the old ones.
LEMMA WriteFrame ==
  ASSUME IInv, NEW o \in Object, NEW by \in Row \cup {Client}, Write(o, by),
         by \in rows \cup {Client},
         UNCHANGED <<now, rows, row, sweep>>, NEW e \in EncodeState, encode' = e,
         e = encode \/ (e.pc = "repoint" => e.out = o)
  PROVE  /\ TypeOK' /\ Past' /\ YoungUploads' /\ MakersKnown' /\ RowInv' /\ SweepInv'
         /\ PlayableKept' /\ RetentionKept'
<1> USE DEF Write
<1>1. /\ o \notin written
      /\ \A x \in written : x \in Object /\ born'[x] = born[x] /\ maker'[x] = maker[x]
      /\ born'[o] = now /\ maker'[o] = by
      /\ written \subseteq written'
  BY DEF IInv, TypeOK
<1>2. Referenced' = Referenced /\ Referenced \subseteq written
  BY ReferencedWritten DEF Referenced, Refs
<1>3. now \in Nat
  BY DEF IInv, TypeOK
<1>4. TypeOK'
  BY <1>3 DEF IInv, TypeOK
<1>5. Past'
  BY <1>3 DEF IInv, Past, TypeOK
<1>6. YoungUploads' /\ MakersKnown'
  BY <1>1 DEF IInv, YoungUploads, MakersKnown, Young
<1>7. RowInv'
  <2> SUFFICES ASSUME NEW r \in rows PROVE RowOk(r)'
    BY DEF RowInv
  <2>1. RowOk(r)
    BY DEF IInv, RowInv
  <2>2. row[r].url \in written /\ row[r].upload \in written
    BY <2>1 DEF RowOk
  <2>3. row[r].source # NoObject => row[r].source \in written
    BY <2>1 DEF RowOk
  <2> QED BY <1>1, <2>1, <2>2, <2>3 DEF RowOk, Of
<1>8. PlayableKept'
  <2>1. \A r \in rows : row[r].url \in written
    BY DEF IInv, RowInv, RowOk
  <2> QED BY <1>1, <2>1 DEF IInv, PlayableKept, Of
<1>9. RetentionKept'
  BY <1>1, <1>2 DEF IInv, RetentionKept
<1>10. SweepInv'
  <2> SUFFICES ASSUME NEW t \in Sweeper
               PROVE  (ListOk(sweep[t]) /\ OrphansOk(sweep[t]) /\ ReclaimOk(sweep[t]))'
    BY DEF SweepInv
  <2>1. ListOk(sweep[t]) /\ OrphansOk(sweep[t]) /\ ReclaimOk(sweep[t]) /\ sweep'[t] = sweep[t]
    BY DEF IInv, SweepInv
  <2>2. (ListOk(sweep[t]))'
    BY <1>1, <1>2, <2>1 DEF ListOk
  <2>3. (OrphansOk(sweep[t]))'
    BY <1>1, <1>2, <2>1 DEF OrphansOk
  <2>4. \A r, x : OwnedOk(r, x) => OwnedOk(r, x)'
    BY <1>1 DEF OwnedOk, Of, Outgoing
  <2>5. (ReclaimOk(sweep[t]))'
    <3> HIDE DEF OwnedOk
    <3> QED BY <2>1, <2>4 DEF ReclaimOk
  <2> QED BY <2>2, <2>3, <2>5
<1> QED BY <1>4, <1>5, <1>6, <1>7, <1>8, <1>9, <1>10

LEMMA KeepsUpload ==
  ASSUME IInv, NEW o \in Object, Upload(o) PROVE IInv'
<1>1. Write(o, Client) /\ UNCHANGED <<now, rows, row, sweep>> /\ encode' = encode
  BY DEF Upload
<1>2. encode \in EncodeState
  BY DEF IInv, TypeOK
<1>3. TypeOK' /\ Past' /\ YoungUploads' /\ MakersKnown' /\ RowInv' /\ SweepInv' /\ PlayableKept' /\ RetentionKept'
  BY <1>1, <1>2, WriteFrame
<1>4. EncodeInv'
  <2>1. \A x \in written : born'[x] = born[x] /\ maker'[x] = maker[x]
    BY <1>1 DEF Write, IInv, TypeOK
  <2> QED BY <1>1, <2>1 DEF IInv, EncodeInv, Write, Young
<1> QED BY <1>3, <1>4 DEF IInv

LEMMA KeepsPutObject ==
  ASSUME IInv, NEW o \in Object, putObject(o) PROVE IInv'
<1> DEFINE e == [pc |-> "repoint", row |-> encode.row, from |-> encode.from,
                 first |-> encode.first, out |-> o]
<1>1. Write(o, encode.row) /\ UNCHANGED <<now, rows, row, sweep>> /\ encode' = e
  BY DEF putObject
<1>2. encode.row \in Row /\ encode.from \in Object /\ encode.first \in BOOLEAN /\ encode # Idle
  BY EncodeShape DEF putObject, IInv, TypeOK
<1>3. e \in EncodeState
  BY <1>2 DEF EncodeState
<1>4. TypeOK' /\ Past' /\ YoungUploads' /\ MakersKnown' /\ RowInv' /\ SweepInv' /\ PlayableKept' /\ RetentionKept'
  <2>1. e.out = o
    OBVIOUS
  <2>2. encode.row \in rows
    BY <1>2 DEF IInv, EncodeInv
  <2> HIDE DEF e
  <2> QED BY <1>1, <1>2, <1>3, <2>1, <2>2, WriteFrame
<1>5. EncodeInv'
  <2>1. \A q \in rows : o # row[q].url /\ o # row[q].source
    BY <1>1, MediaRetentionAssumption DEF IInv, RowInv, RowOk, Write
  <2>2. encode.row \in rows /\ encode.from = row[encode.row].url
    BY <1>2 DEF IInv, EncodeInv
  <2>3. o \in written' /\ o \in bucket' /\ maker'[o] = encode.row
    BY <1>1 DEF Write, IInv, TypeOK
  <2> QED BY <1>1, <2>1, <2>2, <2>3 DEF EncodeInv
<1> QED BY <1>4, <1>5 DEF IInv

\* A new row refers to an object that is too young for any sweep's list of orphans,
\* or to one that another row owns.
LEMMA KeepsPublish ==
  ASSUME IInv, NEW r \in Row, NEW o \in Object, PublishRow(r, o) PROVE IInv'
<1> USE DEF PublishRow
<1>1. /\ row'[r] = [url |-> o, source |-> NoObject, created |-> now, updated |-> now, upload |-> o]
      /\ \A q \in rows : q # r /\ row'[q] = row[q]
      /\ r \notin rows /\ rows' = rows \cup {r}
  BY DEF IInv, TypeOK
<1>2. now \in Nat /\ born[o] \in Nat /\ born[o] <= now /\ o # NoObject
  BY MediaRetentionAssumption DEF IInv, TypeOK, Past
<1>3. Referenced' = Referenced \cup {o}
  BY <1>1, <1>2 DEF Referenced, Refs
<1>4. o \in bucket \/ \E q \in rows : Of(q, o)
  <2>1. CASE o \in Referenced
    BY <2>1 DEF IInv, RowInv, RowOk, Referenced, Refs
  <2>2. CASE Young(o)
    BY <2>2 DEF IInv, YoungUploads, MakersKnown, Of
  <2> QED BY <2>1, <2>2
<1>5. TypeOK'
  <2>1. row'[r] \in RowData
    BY <1>1, <1>2 DEF RowData, MaybeObject
  <2>2. row' \in [Row -> RowData]
    BY <1>2 DEF IInv, TypeOK, RowData, MaybeObject
  <2> QED BY <2>2 DEF IInv, TypeOK, objects
<1>6. Past' /\ YoungUploads' /\ MakersKnown'
  BY DEF IInv, Past, YoungUploads, MakersKnown, Young, objects
<1>7. RowInv'
  <2> SUFFICES ASSUME NEW q \in rows' PROVE RowOk(q)'
    BY DEF RowInv
  <2>1. CASE q = r
    BY <1>1, <1>2, <2>1 DEF RowOk, Of, objects
  <2>2. CASE q \in rows
    BY <1>1, <2>2 DEF IInv, RowInv, RowOk, Of, objects
  <2> QED BY <1>1, <2>1, <2>2
<1>8. EncodeInv'
  <2>1. encode # Idle => encode.row \in rows' /\ encode.from = row'[encode.row].url
    BY <1>1 DEF IInv, EncodeInv
  <2>2. encode.pc = "repoint" => encode.out # NoObject /\ encode # Idle
    BY EncodeShape, MediaRetentionAssumption DEF IInv, TypeOK
  <2> QED BY <1>1, <2>1, <2>2 DEF IInv, EncodeInv, Young, objects
<1>9. PlayableKept'
  <2> SUFFICES ASSUME NEW q \in rows', row'[q].url \notin bucket'
               PROVE  \E x \in rows' \ {q} : Of(x, row[q].url)'
    BY DEF PlayableKept
  <2>1. PICK x \in rows : x # q /\ Of(x, row'[q].url)
    <3>1. CASE q = r
      BY <1>1, <1>4, <3>1 DEF objects
    <3>2. CASE q \in rows
      BY <1>1, <3>2 DEF IInv, PlayableKept, objects
    <3> QED BY <1>1, <3>1, <3>2
  <2> QED BY <1>1, <2>1 DEF Of, objects
<1>10. RetentionKept'
  BY <1>3 DEF IInv, YoungUploads, RetentionKept, objects
<1>11. SweepInv'
  <2> SUFFICES ASSUME NEW t \in Sweeper
               PROVE  (ListOk(sweep[t]) /\ OrphansOk(sweep[t]) /\ ReclaimOk(sweep[t]))'
    BY DEF SweepInv
  <2>1. ListOk(sweep[t]) /\ OrphansOk(sweep[t]) /\ ReclaimOk(sweep[t]) /\ sweep'[t] = sweep[t]
    BY DEF IInv, SweepInv
  <2>2. (ListOk(sweep[t]))'
    <3>1. sweep[t].pc = "list" => sweep[t].at \in Nat
      BY SweepShape DEF IInv, TypeOK
    <3>2. CASE o \in Referenced
      BY <1>3, <2>1, <3>2 DEF ListOk, objects
    <3>3. CASE Young(o)
      BY <1>2, <1>3, <2>1, <3>1, <3>3, MediaRetentionAssumption DEF ListOk, Young, objects
    <3> QED BY <3>2, <3>3
  <2>3. (OrphansOk(sweep[t]))'
    <3>1. CASE o \in Referenced
      BY <1>3, <2>1, <3>1 DEF OrphansOk, objects
    <3>2. CASE Young(o)
      <4>1. \A x : born[x] + MinAge <= now => x # o
        BY <1>2, <3>2, MediaRetentionAssumption DEF Young
      <4> QED BY <1>3, <2>1, <4>1 DEF OrphansOk, objects
    <3> QED BY <3>1, <3>2
  <2>4. \A q, x : OwnedOk(q, x) => OwnedOk(q, x)'
    BY <1>1 DEF OwnedOk, Of, Outgoing, objects
  <2>5. (ReclaimOk(sweep[t]))'
    <3> HIDE DEF OwnedOk
    <3> QED BY <2>1, <2>4 DEF ReclaimOk
  <2> QED BY <2>2, <2>3, <2>5
<1> QED BY <1>5, <1>6, <1>7, <1>8, <1>9, <1>10, <1>11 DEF IInv

LEMMA KeepsTouch ==
  ASSUME IInv, NEW r \in Row, Touch(r) PROVE IInv'
<1> USE DEF Touch
<1>1. \A q \in Row : /\ row'[q].url = row[q].url
                     /\ row'[q].upload = row[q].upload
                     /\ row'[q].created = row[q].created
                     /\ row'[q].source = row[q].source
                     /\ row'[q].updated = IF q = r THEN now ELSE row[q].updated
  BY DEF IInv, TypeOK, RowData
<1>2. Referenced' = Referenced
  BY <1>1 DEF Referenced, Refs, IInv, TypeOK
<1>3. TypeOK'
  BY DEF IInv, TypeOK, RowData, objects
<1>4. Past' /\ YoungUploads' /\ MakersKnown'
  BY DEF IInv, Past, YoungUploads, MakersKnown, Young, objects
<1>5. RowInv'
  <2> SUFFICES ASSUME NEW q \in rows PROVE RowOk(q)'
    BY DEF RowInv
  <2>1. RowOk(q) /\ q \in Row
    BY DEF IInv, RowInv, TypeOK
  <2>2. row[q].source \in written => born[row[q].source] <= now
    BY DEF IInv, Past, TypeOK
  <2> QED BY <1>1, <2>1, <2>2 DEF RowOk, Of, objects
<1>6. EncodeInv'
  BY <1>1, EncodeShape DEF IInv, EncodeInv, Young, TypeOK, objects
<1>7. PlayableKept' /\ RetentionKept'
  BY <1>1, <1>2 DEF IInv, PlayableKept, Of, RetentionKept, TypeOK, objects
<1>8. SweepInv'
  <2> SUFFICES ASSUME NEW t \in Sweeper
               PROVE  (ListOk(sweep[t]) /\ OrphansOk(sweep[t]) /\ ReclaimOk(sweep[t]))'
    BY DEF SweepInv
  <2>1. ListOk(sweep[t]) /\ OrphansOk(sweep[t]) /\ ReclaimOk(sweep[t]) /\ sweep'[t] = sweep[t]
    BY DEF IInv, SweepInv
  <2>2. (ListOk(sweep[t]))' /\ (OrphansOk(sweep[t]))'
    BY <1>2, <2>1 DEF ListOk, OrphansOk, objects
  <2>3. \A q, x : OwnedOk(q, x) => OwnedOk(q, x)'
    BY <1>1 DEF OwnedOk, Of, Outgoing, objects, IInv, TypeOK
  <2>4. (ReclaimOk(sweep[t]))'
    <3> HIDE DEF OwnedOk
    <3> QED BY <2>1, <2>3 DEF ReclaimOk
  <2> QED BY <2>2, <2>4
<1> QED BY <1>3, <1>4, <1>5, <1>6, <1>7, <1>8 DEF IInv

\* Only the encode in flight changes, and not to one that is about to repoint.
LEMMA EncodeFrame ==
  ASSUME IInv, NEW e \in EncodeState, encode' = e, e.pc # "repoint",
         e # Idle => e.row \in rows /\ e.from = row[e.row].url,
         UNCHANGED <<now, objects, rows, row, sweep>>
  PROVE  IInv'
<1>1. TypeOK' /\ Past' /\ YoungUploads' /\ MakersKnown' /\ RowInv'
  BY DEF IInv, TypeOK, Past, YoungUploads, MakersKnown, Young, RowInv, RowOk, Of, objects
<1>2. EncodeInv'
  BY DEF EncodeInv
<1>3. Referenced' = Referenced
  BY DEF Referenced, Refs
<1>4. PlayableKept' /\ RetentionKept'
  BY <1>3 DEF IInv, PlayableKept, Of, RetentionKept, objects
<1>5. SweepInv'
  <2> SUFFICES ASSUME NEW t \in Sweeper
               PROVE  (ListOk(sweep[t]) /\ OrphansOk(sweep[t]) /\ ReclaimOk(sweep[t]))'
    BY DEF SweepInv
  <2>1. ListOk(sweep[t]) /\ OrphansOk(sweep[t]) /\ ReclaimOk(sweep[t]) /\ sweep'[t] = sweep[t]
    BY DEF IInv, SweepInv
  <2>2. (ListOk(sweep[t]))' /\ (OrphansOk(sweep[t]))'
    BY <1>3, <2>1 DEF ListOk, OrphansOk, objects
  <2>3. \A q, x : OwnedOk(q, x) => OwnedOk(q, x)'
    BY DEF OwnedOk, Of, Outgoing, objects
  <2>4. (ReclaimOk(sweep[t]))'
    <3> HIDE DEF OwnedOk
    <3> QED BY <2>1, <2>3 DEF ReclaimOk
  <2> QED BY <2>2, <2>4
<1> QED BY <1>1, <1>2, <1>4, <1>5 DEF IInv

LEMMA KeepsBeginEncode ==
  ASSUME IInv, NEW r \in Row, BeginEncode(r) PROVE IInv'
<1> DEFINE e == [pc |-> "put", row |-> r, from |-> row[r].url, first |-> row[r].source = NoObject]
<1>1. e \in EncodeState
  <2>1. row[r].url \in Object
    BY DEF BeginEncode, IInv, TypeOK
  <2>2. (row[r].source = NoObject) \in BOOLEAN
    OBVIOUS
  <2> QED BY <2>1, <2>2 DEF EncodeState
<1>2. encode' = e /\ r \in rows /\ UNCHANGED <<now, objects, rows, row, sweep>>
  BY DEF BeginEncode
<1>3. e.pc # "repoint" /\ e.row = r /\ e.from = row[r].url
  OBVIOUS
<1> HIDE DEF e
<1> QED BY <1>1, <1>2, <1>3, EncodeFrame

LEMMA KeepsEncodeStops ==
  ASSUME IInv, EncodeStops PROVE IInv'
<1>1. Idle \in EncodeState /\ Idle.pc # "repoint"
  BY DEF EncodeState, Idle
<1>2. encode' = Idle /\ UNCHANGED <<now, objects, rows, row, sweep>>
  BY DEF EncodeStops
<1> QED BY <1>1, <1>2, EncodeFrame

\* The row moves on to the transcode, which is young and its own, and
\* keeps what it was: what it refers to grows by the transcode alone.
LEMMA KeepsRepoint ==
  ASSUME IInv, RepointRow PROVE IInv'
<1> USE DEF RepointRow
<1> DEFINE r == encode.row
           out == encode.out
<1>1. /\ r \in rows /\ r \in Row /\ encode.from = row[r].url /\ encode.from \in Object
      /\ out \in Object /\ out \in written /\ maker[out] = r
      /\ out # row[r].url /\ out # row[r].source
      /\ out \in bucket /\ out # NoObject /\ now \in Nat /\ born[out] \in Nat
  BY EncodeShape, MediaRetentionAssumption DEF IInv, TypeOK, EncodeInv
<1>a. PICK src : src = IF encode.first THEN row[r].url ELSE row[r].source
  OBVIOUS
<1>b. row' = [row EXCEPT ![r].url = out, ![r].source = src, ![r].updated = now]
  BY <1>1, <1>a
<1>c. row[r] \in RowData /\ src \in MaybeObject
  BY <1>1, <1>a DEF IInv, TypeOK, RowData, MaybeObject
<1>2. /\ row' \in [Row -> RowData]
      /\ \A q \in Row : /\ row'[q].upload = row[q].upload
                        /\ row'[q].created = row[q].created
                        /\ q # r => row'[q] = row[q]
      /\ row'[r].url = out
      /\ row'[r].updated = now
      /\ row'[r].source = src
  <2>1. row \in [Row -> RowData]
    BY DEF IInv, TypeOK
  <2>2. r \in Row /\ out \in Object /\ now \in Nat
    BY <1>1
  <2>3. PICK w2 : w2 = row'
    OBVIOUS
  <2> HIDE DEF RepointRow, r, out
  <2>4. w2 = [row EXCEPT ![r].url = out, ![r].source = src, ![r].updated = now]
    BY <1>b, <2>3
  <2>5. /\ w2 \in [Row -> RowData]
        /\ \A q \in Row : /\ w2[q].upload = row[q].upload
                          /\ w2[q].created = row[q].created
                          /\ q # r => w2[q] = row[q]
        /\ w2[r].url = out
        /\ w2[r].updated = now
        /\ w2[r].source = src
    BY <1>c, <2>1, <2>2, <2>4 DEF RowData, MaybeObject
  <2> QED BY <2>3, <2>5
<1>3. Referenced' \subseteq Referenced \cup {out}
  <2> SUFFICES ASSUME NEW q \in rows, NEW x, x \in Refs(q)' PROVE x \in Referenced \cup {out}
    BY DEF Referenced
  <2>1. q \in Row
    BY DEF IInv, TypeOK
  <2>2. CASE q # r
    BY <1>2, <2>1, <2>2 DEF Referenced, Refs
  <2>3. CASE q = r
    BY <1>1, <1>2, <2>3 DEF Referenced, Refs
  <2> QED BY <2>2, <2>3
<1>4. TypeOK'
  <2>1. Idle \in EncodeState
    BY DEF EncodeState
  <2> QED BY <1>2, <2>1 DEF IInv, TypeOK, objects
<1>5. Past' /\ YoungUploads' /\ MakersKnown'
  BY DEF IInv, Past, YoungUploads, MakersKnown, Young, objects
<1>6. RowInv'
  <2> SUFFICES ASSUME NEW q \in rows PROVE RowOk(q)'
    BY DEF RowInv
  <2>1. RowOk(q) /\ q \in Row
    BY DEF IInv, RowInv, TypeOK
  <2>2. CASE q # r
    BY <1>2, <2>1, <2>2 DEF RowOk, Of, objects
  <2>3. CASE q = r
    <3>1. Of(q, out) /\ row[q].url # out /\ row[q].source # out
      BY <1>1, <2>3 DEF Of
    <3>2. born[row[q].url] <= now /\ (row[q].source # NoObject => born[row[q].source] <= now)
      BY <2>1, <2>3 DEF RowOk, IInv, TypeOK, Past
    <3>3. /\ row'[q].url = out /\ row'[q].updated = now
          /\ row'[q].upload = row[q].upload /\ row'[q].created = row[q].created
          /\ row'[q].source = row[q].url \/ row'[q].source = row[q].source
      BY <1>1, <1>2, <1>a, <2>3
    <3>4. UNCHANGED <<written, maker, born>>
      BY DEF objects
    <3> HIDE DEF RepointRow
    <3>5. /\ row[q].url \in written /\ row[q].upload \in written
          /\ born[row[q].upload] <= row[q].created
          /\ Of(q, row[q].url)
          /\ row[q].source # NoObject => row[q].source \in written /\ Of(q, row[q].source)
      BY <2>1, <2>3 DEF RowOk
    <3>6. row'[q].source # NoObject =>
            /\ row'[q].source \in written'
            /\ Of(q, row[q].source)'
            /\ row'[q].source # row'[q].url
            /\ born'[row'[q].source] <= row'[q].updated
      BY <3>1, <3>2, <3>3, <3>4, <3>5 DEF Of
    <3>7. /\ row'[q].url \in written' /\ row'[q].upload \in written'
          /\ born'[row'[q].upload] <= row'[q].created
          /\ Of(q, row[q].url)'
      BY <1>1, <2>3, <3>1, <3>3, <3>4, <3>5 DEF Of
    <3> QED BY <2>3, <3>6, <3>7 DEF RowOk
  <2> QED BY <2>2, <2>3
<1>7. EncodeInv'
  BY DEF EncodeInv, Idle
<1>8. PlayableKept'
  <2> SUFFICES ASSUME NEW q \in rows, row'[q].url \notin bucket
               PROVE  \E x \in rows \ {q} : Of(x, row[q].url)'
    BY DEF PlayableKept, objects
  <2>1. q # r /\ q \in Row /\ row'[q] = row[q]
    BY <1>1, <1>2 DEF IInv, TypeOK
  <2>2. PICK x \in rows \ {q} : Of(x, row[q].url)
    BY <2>1 DEF IInv, PlayableKept
  <2>3. x \in Row
    BY DEF IInv, TypeOK
  <2> QED BY <1>2, <2>1, <2>2, <2>3 DEF Of, objects
<1>9. RetentionKept'
  BY <1>1, <1>3 DEF IInv, RetentionKept, objects
<1>10. SweepInv'
  <2> SUFFICES ASSUME NEW t \in Sweeper
               PROVE  (ListOk(sweep[t]) /\ OrphansOk(sweep[t]) /\ ReclaimOk(sweep[t]))'
    BY DEF SweepInv
  <2>1. ListOk(sweep[t]) /\ OrphansOk(sweep[t]) /\ ReclaimOk(sweep[t]) /\ sweep'[t] = sweep[t]
    BY DEF IInv, SweepInv
  <2>2. (ListOk(sweep[t]))'
    <3>1. sweep[t].pc = "list" => sweep[t].at \in Nat
      BY SweepShape DEF IInv, TypeOK
    <3> QED BY <1>1, <1>3, <2>1, <3>1, MediaRetentionAssumption DEF ListOk, Young, objects
  <2>3. (OrphansOk(sweep[t]))'
    <3>1. born[out] + MinAge > now
      BY <1>1, MediaRetentionAssumption DEF Young
    <3>2. \A x : born[x] + MinAge <= now => x # out
      BY <1>1, <3>1, MediaRetentionAssumption
    <3> QED BY <1>3, <2>1, <3>2 DEF OrphansOk, objects
  <2>4. \A q, x : OwnedOk(q, x) => OwnedOk(q, x)'
    <3>1. ASSUME NEW q, NEW x, OwnedOk(q, x) PROVE OwnedOk(q, x)'
      <4>1. q \in rows /\ q \in Row /\ x # out
        BY <3>1 DEF OwnedOk, Outgoing, IInv, TypeOK
      <4>2. x # row'[q].url
        BY <1>2, <3>1, <4>1 DEF OwnedOk
      <4> QED BY <1>2, <3>1, <4>1, <4>2 DEF OwnedOk, Of, Outgoing, Idle, objects
    <3> QED BY <3>1
  <2>5. (ReclaimOk(sweep[t]))'
    <3> HIDE DEF OwnedOk
    <3> QED BY <2>1, <2>4 DEF ReclaimOk
  <2> QED BY <2>2, <2>3, <2>5
<1> QED BY <1>4, <1>5, <1>6, <1>7, <1>8, <1>9, <1>10 DEF IInv

--------------------------------------------------------------------------------
(* The theorems *)

LEMMA InitIInv == Init => IInv
<1> SUFFICES ASSUME Init PROVE IInv
  OBVIOUS
<1>1. TypeOK
  <2>1. \A s \in Sweeper : sweep[s] \in Sweep
    BY DEF Init, Sweep
  <2>2. encode \in EncodeState
    BY DEF Init, EncodeState
  <2>3. row \in [Row -> RowData]
    BY DEF Init, RowData, MaybeObject
  <2> QED BY <2>1, <2>2, <2>3 DEF Init, TypeOK
<1>2. Past /\ YoungUploads /\ MakersKnown /\ RowInv /\ PlayableKept /\ RetentionKept
  BY DEF Init, Past, YoungUploads, MakersKnown, RowInv, PlayableKept, RetentionKept, Referenced
<1>3. EncodeInv /\ SweepInv
  BY DEF Init, EncodeInv, SweepInv, ListOk, OrphansOk, ReclaimOk, Idle
<1> QED BY <1>1, <1>2, <1>3 DEF IInv

LEMMA StutterIInv == IInv /\ UNCHANGED vars => IInv'
<1> SUFFICES ASSUME IInv, UNCHANGED vars PROVE IInv'
  OBVIOUS
<1>1. /\ now' = now /\ bucket' = bucket /\ written' = written /\ born' = born
      /\ maker' = maker /\ rows' = rows /\ row' = row /\ encode' = encode /\ sweep' = sweep
  BY DEF vars, objects
<1> QED
  BY <1>1 DEF IInv, TypeOK, Past, YoungUploads, MakersKnown, Young, RowInv, RowOk, Of, EncodeInv, Outgoing,
     SweepInv, ListOk, OrphansOk, ReclaimOk, OwnedOk, PlayableKept, Of, RetentionKept,
     Referenced, Refs

\* The inductive invariant holds throughout.
THEOREM Invariance == Spec => []IInv
<1>1. IInv /\ [Next]_vars => IInv'
  <2> SUFFICES ASSUME IInv, [Next]_vars PROVE IInv'
    OBVIOUS
  <2>1. CASE Tick
    BY <2>1, KeepsTick
  <2>2. ASSUME NEW o \in Object, Upload(o) PROVE IInv'
    BY <2>2, KeepsUpload
  <2>3. ASSUME NEW r \in Row, NEW o \in Object, PublishRow(r, o) PROVE IInv'
    BY <2>3, KeepsPublish
  <2>4. ASSUME NEW r \in Row, Touch(r) PROVE IInv'
    BY <2>4, KeepsTouch
  <2>5. ASSUME NEW r \in Row, BeginEncode(r) PROVE IInv'
    BY <2>5, KeepsBeginEncode
  <2>6. ASSUME NEW o \in Object, putObject(o) PROVE IInv'
    BY <2>6, KeepsPutObject
  <2>7. CASE RepointRow
    BY <2>7, KeepsRepoint
  <2>8. CASE EncodeStops
    BY <2>8, KeepsEncodeStops
  <2>9. ASSUME NEW s \in Sweeper, SweepNext(s) PROVE IInv'
    <3>1. ASSUME NEW o \in Object, DeleteKey(s, o) PROVE IInv'
      BY <3>1, KeepsDeleteKey
    <3>2. ASSUME NEW p \in Row \X Object, ClearSource(s, p) PROVE IInv'
      BY <3>2, KeepsClearSource
    <3> QED BY <2>9, <3>1, <3>2, KeepsCollect, KeepsListObjects, KeepsOrphansDone,
               KeepsFindReclaimable, KeepsReclaimDone, KeepsSweepDies DEF SweepNext
  <2>10. CASE UNCHANGED vars
    BY <2>10, StutterIInv
  <2> QED BY <2>1, <2>2, <2>3, <2>4, <2>5, <2>6, <2>7, <2>8, <2>9, <2>10 DEF Next
<1> QED BY <1>1, InitIInv, PTL DEF Spec

\* Every variable keeps its type.
THEOREM TypeCorrect == Spec => []TypeOK
<1>1. IInv => TypeOK
  BY DEF IInv
<1> QED BY <1>1, Invariance, PTL

\* What a viewer plays is kept, unless it is another row's too: published with it,
\* or its rendition (mediaRetentionService.ts:118-157, 218-254).
THEOREM PlayableIsKept == Spec => []PlayableKept
<1>1. IInv => PlayableKept
  BY DEF IInv
<1> QED BY <1>1, Invariance, PTL

\* An upload somebody refers to survives the retention time
\* (mediaRetentionService.ts:198-216).
THEOREM RetentionIsKept == Spec => []RetentionKept
<1>1. IInv => RetentionKept
  BY DEF IInv
<1> QED BY <1>1, Invariance, PTL

\* The orphan sweep deletes nothing a row refers to, whatever is published and
\* repointed meanwhile (mediaRetentionService.ts:118-157).
THEOREM SweepSparesReferenced == Spec => SweepSpares
<1>1. IInv /\ [Next]_vars =>
        [\A s \in Sweeper, o \in bucket \ bucket' :
           sweep[s].pc = "orphans" /\ o \in sweep[s].keys => o \notin Referenced]_vars
  BY DEF IInv, SweepInv, OrphansOk
<1> QED BY <1>1, Invariance, PTL DEF Spec, SweepSpares

================================================================================
