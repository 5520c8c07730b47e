------------------------------- MODULE MediaJobs -------------------------------
(***************************************************************************)
(* The queue of background media jobs and the worker that drains it        *)
(* (src/src/services/mediaJobService.ts and src/src/worker.ts).            *)
(*                                                                         *)
(* The API publishes a clip and its job in one transaction. The worker is  *)
(* one process (ecosystem.config.js:43): it requeues what a predecessor    *)
(* left 'running', then claims a job, encodes, repoints the clip's row and *)
(* records the outcome, each a statement of its own. It may die between    *)
(* any two of them and any statement may throw.                            *)
(*                                                                         *)
(* Left out: run_after as a time (a backoff is due or not), the order      *)
(* among due jobs of one kind (any of them may be claimed) and the encoder *)
(* itself. `lost` and `unrecorded` are history the code does not keep.     *)
(***************************************************************************)
EXTENDS Naturals, FiniteSets

CONSTANTS
  Clip,          \* feed videos and post attachments
  FeedVideo,     \* the clips that are feed videos (the others are post_media)
  Foreign,       \* the clips whose media is not in our bucket
  Job,           \* ids of media_jobs rows; bounds how many are ever inserted
  NoJob,         \* the worker holds no job yet
  MAX_ATTEMPTS,  \* retry budget
  MaxFaults      \* bound: crashes, stops and throwing bookkeeping statements

ASSUME MediaJobsAssumption ==
  /\ Clip # {}
  /\ NoJob \notin Job
  /\ FeedVideo \subseteq Clip
  /\ Foreign \subseteq Clip
  /\ MAX_ATTEMPTS \in Nat \ {0}
  /\ MaxFaults \in Nat

\* MEDIA_JOB_KINDS, in the order the worker tries them.
Kind == {1, 2}
KindOf(c) == IF c \in FeedVideo THEN 1 ELSE 2

Live == {"pending", "running"}
Finished == {"done", "failed"}
JobStatus == {"none"} \cup Live \cup Finished

VARIABLES
  published,   \* clips whose row was inserted
  deleted,     \* feed videos soft-deleted by their author
  repointed,   \* clips whose row carries the URLs of a finished encode
  status,      \* media_jobs.status; "none" is an id not used yet
  subject,     \* media_jobs.subject_id
  attempts,    \* media_jobs.attempts
  due,         \* run_after <= NOW()
  lost,        \* history: runs of each job whose outcome was never recorded
  unrecorded,  \* history: jobs whose markFailed threw and that no restart requeued
  pc,          \* the worker: what it does next
  k,           \* the worker: index of the kind it is at
  job,         \* the worker: the claimed job
  permanent,   \* the worker: the error it caught is permanent
  faults       \* faults so far

queue == <<status, subject, attempts, due>>
worker == <<pc, k, job, permanent>>
clips == <<published, deleted, repointed>>
history == <<lost, unrecorded>>
jobsVars == <<clips, queue, history, worker, faults>>

\* The partial unique index on (kind, subject_id); a kind is its subject's.
LiveJob(c) == \E j \in Job : status[j] \in Live /\ subject[j] = c

\* The subject's handler would throw NotFound or BadRequest.
Hopeless(c) == c \in deleted \cup Foreign

--------------------------------------------------------------------------------
(* The API *)

\* Insert a job. The index refuses a second live one of a subject, which no service
\* asks for: every publish inserts a row of its own and enqueues that.
enqueue(j, c) ==
  /\ status[j] = "none"
  /\ ~LiveJob(c)
  /\ status' = [status EXCEPT ![j] = "pending"]
  /\ subject' = [subject EXCEPT ![j] = c]
  /\ due' = [due EXCEPT ![j] = TRUE]
  /\ UNCHANGED attempts

\* createVideo and createPost: the clip's row and its job in one transaction.
Publish(c, j) ==
  /\ c \notin published
  /\ published' = published \cup {c}
  /\ enqueue(j, c)
  /\ UNCHANGED <<deleted, repointed, history, worker, faults>>

\* deleteVideo. The rows of post_media survive their post's soft delete.
deleteVideo(c) ==
  /\ c \in (published \cap FeedVideo) \ deleted
  /\ deleted' = deleted \cup {c}
  /\ UNCHANGED <<published, repointed, queue, history, worker, faults>>

\* A backoff elapses.
BackoffElapses(j) ==
  /\ status[j] = "pending"
  /\ ~due[j]
  /\ due' = [due EXCEPT ![j] = TRUE]
  /\ UNCHANGED <<clips, status, subject, attempts, history, worker, faults>>

--------------------------------------------------------------------------------
(* The worker *)

\* PM2 starts the process.
Start ==
  /\ pc = "down"
  /\ pc' = "boot"
  /\ k' = 1
  /\ UNCHANGED <<clips, queue, history, job, permanent, faults>>

\* Mutant: only the first kind is requeued.
requeueOrphaned_FirstKind ==
  LET requeued == {j \in Job : status[j] = "running" /\ KindOf(subject[j]) = 1}
  IN
  /\ pc = "boot"
  /\ status' = [j \in Job |-> IF j \in requeued THEN "pending" ELSE status[j]]
  /\ pc' = "claim"
  /\ k' = 1
  /\ unrecorded' = unrecorded \ requeued
  /\ UNCHANGED <<clips, subject, attempts, due, lost, job, permanent, faults>>

\* At startup, once per kind: whatever is 'running' goes back to the queue.
\* run_after is left, so it is due at once, and attempts is left.
requeueOrphaned ==
  LET requeued == {j \in Job : status[j] = "running" /\ KindOf(subject[j]) = k}
  IN
  /\ pc = "boot"
  /\ status' = [j \in Job |-> IF j \in requeued THEN "pending" ELSE status[j]]
  /\ IF k = 1 THEN pc' = "boot" /\ k' = 2 ELSE pc' = "claim" /\ k' = 1
  /\ unrecorded' = unrecorded \ requeued
  /\ UNCHANGED <<clips, subject, attempts, due, lost, job, permanent, faults>>

Claimable(j) == status[j] = "pending" /\ due[j] /\ KindOf(subject[j]) = k

\* One statement takes a due job of the kind and charges the attempt.
claimNext ==
  /\ pc = "claim"
  /\ \E j \in Job :
       /\ Claimable(j)
       /\ status' = [status EXCEPT ![j] = "running"]
       /\ attempts' = [attempts EXCEPT ![j] = @ + 1]
       /\ job' = j
  /\ pc' = "encode"
  /\ UNCHANGED <<clips, subject, due, history, k, permanent, faults>>

\* Nothing of this kind: try the next one, or sleep and start over.
ClaimNothing ==
  /\ pc = "claim"
  /\ \A j \in Job : ~Claimable(j)
  /\ k' = IF k = 1 THEN 2 ELSE 1
  /\ UNCHANGED <<clips, queue, history, pc, job, permanent, faults>>

\* Load the row, download, run ffmpeg and upload: ends with files in the bucket
\* or with an error, which is permanent exactly when the row is gone or the
\* media is foreign.
Encode ==
  LET c == subject[job] IN
  /\ pc = "encode"
  /\ \/ /\ ~Hopeless(c)
        /\ pc' = "repoint"
        /\ UNCHANGED permanent
     \/ /\ pc' = "markFailed"
        /\ permanent' = Hopeless(c)
  /\ UNCHANGED <<clips, queue, history, k, job, faults>>

\* Mutant: an error of the UPDATE leaves the flag of an earlier job's error.
Repoint_KeepsPermanent ==
  /\ pc = "repoint"
  /\ \/ repointed' = repointed \cup {subject[job]} /\ pc' = "markDone"
     \/ UNCHANGED repointed /\ pc' = "markFailed"
  /\ UNCHANGED <<published, deleted, queue, history, k, job, permanent, faults>>

\* The one UPDATE of the clip's row, or its failure. It is sent for the row that
\* was loaded, whether or not the author deleted it since.
Repoint ==
  /\ pc = "repoint"
  /\ \/ /\ repointed' = repointed \cup {subject[job]}
        /\ pc' = "markDone"
        /\ UNCHANGED permanent
     \/ /\ pc' = "markFailed"
        /\ permanent' = FALSE
        /\ UNCHANGED repointed
  /\ UNCHANGED <<published, deleted, queue, history, k, job, faults>>

\* The outcome is recorded; if that throws, the attempt counts as failed.
markDone ==
  /\ pc = "markDone"
  /\ \/ /\ status' = [status EXCEPT ![job] = "done"]
        /\ pc' = "claim"
        /\ k' = 1
        /\ UNCHANGED permanent
     \/ /\ pc' = "markFailed"
        /\ permanent' = FALSE
        /\ UNCHANGED <<status, k>>
  /\ UNCHANGED <<clips, subject, attempts, due, history, job, faults>>

\* Mutant: off by one, so the budget is MAX_ATTEMPTS + 1.
markFailed_OffByOne ==
  LET exhausted == permanent \/ attempts[job] > MAX_ATTEMPTS IN
  /\ pc = "markFailed"
  /\ status' = [status EXCEPT ![job] = IF exhausted THEN "failed" ELSE "pending"]
  /\ due' = [due EXCEPT ![job] = exhausted]
  /\ pc' = "claim"
  /\ k' = 1
  /\ UNCHANGED <<clips, subject, attempts, history, job, permanent, faults>>

\* Back to 'pending' behind a backoff while the budget lasts, then parked.
markFailed ==
  LET exhausted == permanent \/ attempts[job] >= MAX_ATTEMPTS IN
  /\ pc = "markFailed"
  /\ status' = [status EXCEPT ![job] = IF exhausted THEN "failed" ELSE "pending"]
  /\ due' = [due EXCEPT ![job] = exhausted]
  /\ pc' = "claim"
  /\ k' = 1
  /\ UNCHANGED <<clips, subject, attempts, history, job, permanent, faults>>

\* The loop's catch: markFailed threw, so the job keeps status 'running' while
\* the worker goes back to polling.
MarkFailedThrows ==
  /\ pc = "markFailed"
  /\ faults < MaxFaults
  /\ faults' = faults + 1
  /\ lost' = [lost EXCEPT ![job] = @ + 1]
  /\ unrecorded' = unrecorded \cup {job}
  /\ pc' = "claim"
  /\ k' = 1
  /\ UNCHANGED <<clips, queue, job, permanent>>

\* SIGTERM: the worker finishes the job it has and leaves.
Shutdown ==
  /\ pc = "claim"
  /\ faults < MaxFaults
  /\ faults' = faults + 1
  /\ pc' = "down"
  /\ UNCHANGED <<clips, queue, history, k, job, permanent>>

\* SIGKILL, out of memory, a hung ffmpeg: the worker dies with its job.
Crash ==
  /\ pc \in {"boot", "encode", "repoint", "markDone", "markFailed"}
  /\ faults < MaxFaults
  /\ faults' = faults + 1
  /\ lost' = IF pc = "boot" THEN lost ELSE [lost EXCEPT ![job] = @ + 1]
  /\ pc' = "down"
  /\ UNCHANGED <<clips, queue, unrecorded, k, job, permanent>>

--------------------------------------------------------------------------------

JobsInit ==
  /\ published = {}
  /\ deleted = {}
  /\ repointed = {}
  /\ status = [j \in Job |-> "none"]
  /\ subject = [j \in Job |-> CHOOSE c \in Clip : TRUE]
  /\ attempts = [j \in Job |-> 0]
  /\ due = [j \in Job |-> FALSE]
  /\ lost = [j \in Job |-> 0]
  /\ unrecorded = {}
  /\ pc = "down"
  /\ k = 1
  /\ job = NoJob
  /\ permanent = FALSE
  /\ faults = 0

Api ==
  \/ \E c \in Clip, j \in Job : Publish(c, j)
  \/ \E c \in Clip : deleteVideo(c)

\* What the worker does by itself.
Work ==
  \/ Start
  \/ requeueOrphaned
  \/ claimNext
  \/ ClaimNothing
  \/ Encode
  \/ Repoint
  \/ markDone
  \/ markFailed

Fault == MarkFailedThrows \/ Shutdown \/ Crash

JobsNext ==
  \/ Api
  \/ \E j \in Job : BackoffElapses(j)
  \/ Work
  \/ Fault

JobsSpec == JobsInit /\ [][JobsNext]_jobsVars

\* PM2 restarts the worker, the worker does not stop by itself, time passes.
Fairness ==
  /\ WF_jobsVars(Work)
  /\ \A j \in Job : WF_jobsVars(BackoffElapses(j))

FairSpec == JobsSpec /\ Fairness

--------------------------------------------------------------------------------
(* Properties *)

JobsTypeOK ==
  /\ published \subseteq Clip
  /\ deleted \subseteq published
  /\ repointed \subseteq published
  /\ status \in [Job -> JobStatus]
  /\ subject \in [Job -> Clip]
  /\ attempts \in [Job -> Nat]
  /\ due \in [Job -> BOOLEAN]
  /\ lost \in [Job -> Nat]
  /\ unrecorded \subseteq Job
  /\ pc \in {"down", "boot", "claim", "encode", "repoint", "markDone", "markFailed"}
  /\ k \in Kind
  /\ job \in Job \cup {NoJob}
  /\ permanent \in BOOLEAN
  /\ faults \in 0..MaxFaults

\* The retry budget: a job is started MAX_ATTEMPTS times, and once more for each
\* run whose outcome was lost, because claimNext does not look at attempts.
BudgetPerLoss == \A j \in Job : attempts[j] <= MAX_ATTEMPTS + lost[j]

\* A job that reads 'done' left its clip repointed.
DoneMeansRepointed == \A j \in Job : status[j] = "done" => subject[j] \in repointed

\* A job is parked for a human only when its budget is spent or no retry can
\* help (markFailed), not because a single attempt errored (enums.ts:197-199).
ParkedForCause ==
  \A j \in Job : status[j] = "failed" =>
    attempts[j] >= MAX_ATTEMPTS \/ Hopeless(subject[j])

\* pending -> running -> done | failed, and back to pending only from running:
\* a finished job stays finished (enums.ts:197-199).
StatusMoves ==
  [][\A j \in Job : status[j]' # status[j] =>
       <<status[j], status[j]'>> \in
         {<<"none", "pending">>, <<"pending", "running">>, <<"running", "pending">>,
          <<"running", "done">>, <<"running", "failed">>}]_jobsVars

\* The live jobs as orders of module WorkQueue.
AtWork == pc \in {"encode", "repoint", "markDone", "markFailed"}
InHand(j) == AtWork /\ job = j
OrderOf(j) == [clip |-> subject[j], tries |-> attempts[j], lost |-> lost[j]]
Orders == {OrderOf(j) : j \in {i \in Job : status[i] \in Live}}
Running == {subject[j] : j \in {i \in Job : InHand(i)}}
Outcomes == {<<subject[j], status[j]>> : j \in {i \in Job : status[i] \in Finished}}
QueueView == INSTANCE WorkQueue
  WITH Budget <- MAX_ATTEMPTS, open <- Orders, running <- Running, closed <- Outcomes,
       ready <- repointed, hopeless <- Foreign \cup deleted

\* MediaJobs implements WorkQueue: whatever crashes and is requeued, a clip has one
\* order, no run is started that is not within the budget or paid for by
\* a lost one, and only the run itself ends an order, when its clip is repointed
\* or nothing is to be gained from another run (claimNext, markDone, markFailed,
\* requeueOrphaned, isPermanent).
QueuePromise == QueueView!Spec

\* Every job ends, whatever crashes: what a dead worker left 'running' is taken
\* up by the next one (requeueOrphaned). Left out are the jobs whose outcome
\* a surviving worker failed to record. With finitely many jobs a kind is not
\* starved: with new videos for ever, the worker would never come to post media
\* (worker.ts:73-75).
EveryJobEnds ==
  \A j \in Job : status[j] \in Live ~> status[j] \in Finished \/ j \in unrecorded

================================================================================
