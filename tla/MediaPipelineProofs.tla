------------------------ MODULE MediaPipelineProofs ------------------------
(***************************************************************************)
(* Theorems about MediaPipeline for every number of keys, copies, requests *)
(* and messages, every retry budget and any number of faults.              *)
(***************************************************************************)
EXTENDS MediaPipelineProps, TLAPS

USE ConstantsAssumption

(* A retry count may start at zero whatever the budget. *)
LEMMA ZeroInBudget == 0 \in 0..MaxRetries
OBVIOUS

(* The types of the records the helpers build. *)
LEMMA HelperTypes ==
    /\ IdleRequest \in RequestRec
    /\ IdleJob \in JobRec
    /\ \A n \in 0..MaxRetries : QueuedJob(n) \in JobRec
    /\ NewEvent \in EventRec
<1>1. IdleRequest \in RequestRec
  BY DEF IdleRequest, RequestRec
<1>2. IdleJob \in JobRec
  BY ZeroInBudget DEF IdleJob, JobRec
<1>3. ASSUME NEW n \in 0..MaxRetries PROVE QueuedJob(n) \in JobRec
  BY DEF IdleJob, JobRec, QueuedJob
<1>4. NewEvent \in EventRec
  BY ZeroInBudget DEF NewEvent, EventRec
<1>5. QED
  BY <1>1, <1>2, <1>3, <1>4

(* Queueing a message keeps the queue and the fault count well typed. *)
LEMMA EnqueueType ==
    ASSUME TypeOK, Enqueue
    PROVE  job' \in [Jobs -> JobRec] /\ lost' \in 0..MaxLost
<1>1. CASE \E j \in Jobs : /\ job[j].at = "idle"
                           /\ job' = [job EXCEPT ![j] = QueuedJob(0)]
                           /\ UNCHANGED lost
  <2>1. QueuedJob(0) \in JobRec
    BY HelperTypes
  <2>2. QED
    BY <1>1, <2>1 DEF TypeOK
<1>2. CASE lost < MaxLost /\ lost' = lost + 1 /\ UNCHANGED job
  BY <1>2 DEF TypeOK
<1>3. QED
  BY <1>1, <1>2 DEF Enqueue

LEMMA TypeInit == Init => TypeOK
<1>1. SUFFICES ASSUME Init PROVE TypeOK
  OBVIOUS
<1>2. NewEvent \in EventRec /\ IdleJob \in JobRec /\ IdleRequest \in RequestRec
  BY HelperTypes
<1>3. [src |-> NoKey, st |-> "none"]
        \in [src: Keys \cup {NoKey}, st: {"none", "processing", "ready", "errored"}]
  OBVIOUS
<1>4. 0 \in 0..MaxCrashes /\ 0 \in 0..MaxLost /\ 0 \in 0..MaxRetries
  OBVIOUS
<1>5. copy \in [Copies -> [src: Keys \cup {NoKey},
                            st: {"none", "processing", "ready", "errored"}]]
  BY <1>1, <1>3 DEF Init
<1>6. QED
  BY <1>1, <1>2, <1>4, <1>5 DEF Init, TypeOK, Statuses

LEMMA TypeRequests ==
    ASSUME TypeOK, NEW r \in Requests
    PROVE  BeginComplete(r) \/ BeginRetry(r) \/ RequestStep(r) \/ CrashRequest(r)
             => TypeOK'
<1>1. IdleRequest \in RequestRec
  BY HelperTypes
<1>2. ASSUME BeginComplete(r) \/ BeginRetry(r) PROVE TypeOK'
  <2>1. [at |-> "completing", key |-> key] \in RequestRec
        /\ [at |-> "retrying", key |-> key] \in RequestRec
    BY DEF TypeOK, RequestRec
  <2>2. request' \in [Requests -> RequestRec]
    BY <1>2, <2>1 DEF BeginComplete, BeginRetry, TypeOK
  <2>3. QED
    BY <1>2, <2>2 DEF BeginComplete, BeginRetry, TypeOK, row, faults
<1>3. ASSUME VerifyObject(r) PROVE TypeOK'
  BY <1>1, <1>3 DEF VerifyObject, Received, Acceptable, Delete, TypeOK, RequestRec, row, faults
<1>4. ASSUME SaveUploaded(r) PROVE TypeOK'
  <2>1. job' \in [Jobs -> JobRec] /\ lost' \in 0..MaxLost
    BY <1>4, EnqueueType DEF SaveUploaded
  <2>2. QED
    BY <1>1, <1>4, <2>1 DEF SaveUploaded, Writes, TypeOK, Statuses
<1>5. ASSUME SaveRejected(r) PROVE TypeOK'
  BY <1>1, <1>5 DEF SaveRejected, FailRow, Writes, TypeOK, Statuses, faults
<1>6. ASSUME SaveRetry(r) PROVE TypeOK'
  <2>1. job' \in [Jobs -> JobRec] /\ lost' \in 0..MaxLost
    BY <1>6, EnqueueType DEF SaveRetry
  <2>2. QED
    BY <1>1, <1>6, <2>1, ZeroInBudget DEF SaveRetry, Writes, TypeOK, Statuses
<1>7. ASSUME CrashRequest(r) PROVE TypeOK'
  BY <1>1, <1>7 DEF CrashRequest, TypeOK, row
<1>8. QED
  BY <1>2, <1>3, <1>4, <1>5, <1>6, <1>7 DEF RequestStep

LEMMA TypeJobs ==
    ASSUME TypeOK, NEW j \in Jobs
    PROVE  JobStep(j) \/ CrashJob(j) => TypeOK'
<1>1. IdleJob \in JobRec /\ job[j] \in JobRec
  BY HelperTypes DEF TypeOK
<1>2. ASSUME StartJob(j) PROVE TypeOK'
  BY <1>1, <1>2 DEF StartJob, TypeOK, JobRec, row, faults
<1>3. ASSUME CallProvider(j) PROVE TypeOK'
  BY <1>1, <1>3 DEF CallProvider, TypeOK, JobRec, row, faults
<1>4. ASSUME HandOver(j) PROVE TypeOK'
  BY <1>1, <1>4 DEF HandOver, HandedOver, Writes, TypeOK, JobRec, Statuses, faults
<1>5. ASSUME ProviderRefused(j) PROVE TypeOK'
  BY <1>1, <1>5 DEF ProviderRefused, FailRow, Writes, TypeOK, JobRec, Statuses, faults
<1>6. ASSUME DeadLetter(j) PROVE TypeOK'
  <2>1. job[j].retries \in 0..MaxRetries
    BY <1>1 DEF JobRec
  <2>2. job' \in [Jobs -> JobRec]
    BY <1>1, <1>6 DEF DeadLetter, TypeOK
  <2>3. QED
    BY <1>6, <2>1, <2>2 DEF DeadLetter, FailRow, Writes, TypeOK, Statuses, faults
<1>7. ASSUME RetryLater(j) PROVE TypeOK'
  <2>1. job[j].retries + 1 \in 0..MaxRetries
    BY <1>1, <1>7 DEF RetryLater, PastBudget, JobRec
  <2>2. QueuedJob(job[j].retries + 1) \in JobRec
    BY <2>1, HelperTypes
  <2>3. QED
    BY <1>7, <2>1, <2>2 DEF RetryLater, Requeued, Writes, TypeOK, faults
<1>8. ASSUME CrashJob(j) PROVE TypeOK'
  <2>1. QueuedJob(job[j].retries) \in JobRec
    BY <1>1, HelperTypes DEF JobRec
  <2>2. QED
    BY <1>8, <2>1 DEF CrashJob, RedeliveredJob, TypeOK, row
<1>9. QED
  BY <1>2, <1>3, <1>4, <1>5, <1>6, <1>7, <1>8 DEF JobStep

LEMMA TypeEvents ==
    ASSUME TypeOK, NEW c \in Copies
    PROVE  ReceiveWebhook(c) \/ ApplyStep(c) \/ CrashApply(c) => TypeOK'
<1>1. event[c] \in EventRec
  BY DEF TypeOK
<1>2. ASSUME ReceiveWebhook(c) PROVE TypeOK'
  <2>1. [event[c] EXCEPT !.stored = "unprocessed", !.task = "queued"] \in EventRec
        /\ [event[c] EXCEPT !.stored = "unprocessed"] \in EventRec
    BY <1>1 DEF EventRec
  <2>2. event' \in [Copies -> EventRec]
    BY <1>1, <1>2, <2>1 DEF ReceiveWebhook, TypeOK, EventRec
  <2>3. lost' \in 0..MaxLost
    BY <1>2 DEF ReceiveWebhook, TypeOK
  <2>4. QED
    BY <1>2, <2>2, <2>3 DEF ReceiveWebhook, TypeOK, row
<1>3. ASSUME LookUpAsset(c) PROVE TypeOK'
  <2>1. [event[c] EXCEPT !.task = "found", !.seen = retryCount, !.unknown = FALSE]
          \in EventRec
        /\ [event[c] EXCEPT !.task = "missed", !.unknown = TRUE] \in EventRec
    BY <1>1 DEF TypeOK, EventRec
  <2>2. event' \in [Copies -> EventRec]
    BY <1>3, <2>1 DEF LookUpAsset, TypeOK
  <2>3. QED
    BY <1>3, <2>2 DEF LookUpAsset, TypeOK, row, faults
<1>4. ASSUME ApplyEvent(c) PROVE TypeOK'
  <2>1. \A t \in {"applied", "readied", "done"} :
            [event[c] EXCEPT !.task = t] \in EventRec
    BY <1>1 DEF EventRec
  <2>2. event' \in [Copies -> EventRec]
    BY <1>4, <2>1 DEF ApplyEvent, TypeOK
  <2>3. event[c].seen \in 0..MaxRetries
    BY <1>1 DEF EventRec
  <2>4. status' \in Statuses /\ err' \in BOOLEAN /\ retryCount' \in 0..MaxRetries
        /\ stale' \in BOOLEAN /\ key' = key /\ pid' = pid
    BY <1>4, <2>3 DEF ApplyEvent, FailRow, Writes, TypeOK, Statuses, row
  <2>5. QED
    BY <1>4, <2>2, <2>4 DEF ApplyEvent, TypeOK, faults
<1>5. ASSUME AskTranscription(c) PROVE TypeOK'
  <2>1. [event[c] EXCEPT !.task = "applied"] \in EventRec
        /\ [event[c] EXCEPT !.task = "done"] \in EventRec
    BY <1>1 DEF EventRec
  <2>2. event' \in [Copies -> EventRec] /\ lost' \in 0..MaxLost
    BY <1>5, <2>1 DEF AskTranscription, TypeOK
  <2>3. QED
    BY <1>1, <1>5, <2>2 DEF AskTranscription, TypeOK, row
<1>6. ASSUME MarkProcessed(c) \/ Acknowledge(c) PROVE TypeOK'
  <2>1. [event[c] EXCEPT !.stored = "processed", !.task = "acking"] \in EventRec
        /\ [event[c] EXCEPT !.task = "done"] \in EventRec
    BY <1>1 DEF EventRec
  <2>2. event' \in [Copies -> EventRec]
    BY <1>6, <2>1 DEF MarkProcessed, Acknowledge, TypeOK
  <2>3. QED
    BY <1>6, <2>2 DEF MarkProcessed, Acknowledge, TypeOK, row, faults
<1>7. ASSUME CrashApply(c) PROVE TypeOK'
  <2>1. [event[c] EXCEPT !.task = "queued"] \in EventRec
    BY <1>1 DEF EventRec
  <2>2. QED
    BY <1>7, <2>1 DEF CrashApply, Redelivered, TypeOK, row
<1>8. QED
  BY <1>2, <1>3, <1>4, <1>5, <1>6, <1>7 DEF ApplyStep

LEMMA TypeStep == TypeOK /\ [Next]_vars => TypeOK'
<1>1. SUFFICES ASSUME TypeOK, [Next]_vars PROVE TypeOK'
  OBVIOUS
<1>2. CASE RequestUpload
  BY <1>1, <1>2, ZeroInBudget DEF RequestUpload, PresignedUpload, TypeOK, Statuses, faults
<1>3. ASSUME NEW k \in Keys, BrowserPut(k) PROVE TypeOK'
  BY <1>1, <1>3 DEF BrowserPut, TypeOK, row, faults
<1>4. ASSUME NEW c \in Copies, ProviderFinishes(c) PROVE TypeOK'
  BY <1>1, <1>4 DEF ProviderFinishes, TypeOK, row, faults
<1>5. CASE UNCHANGED vars
  BY <1>1, <1>5 DEF TypeOK, vars, row, faults
<1>6. QED
  BY <1>1, <1>2, <1>3, <1>4, <1>5, TypeRequests, TypeJobs, TypeEvents DEF Next

(* Type correctness of the pipeline: statuses, retry counts within the     *)
(* budget of MEDIA_PROCESSING_MAX_RETRIES, well-formed messages.           *)
THEOREM TypeCorrect == Spec => []TypeOK
BY TypeInit, TypeStep, PTL DEF Spec

-----------------------------------------------------------------------------
(* RowConstraints is inductive once we know that a job about to hand over  *)
(* holds the copy it made.                                                 *)
CreatedHoldsCopy == \A j \in Jobs : job[j].at = "created" => job[j].made # NoCopy
RowInv == RowConstraints /\ CreatedHoldsCopy

(* Queueing a message never puts a job in the middle of its run. *)
LEMMA EnqueueHoldsCopy ==
    ASSUME TypeOK, CreatedHoldsCopy, Enqueue
    PROVE  CreatedHoldsCopy'
BY DEF TypeOK, CreatedHoldsCopy, Enqueue, QueuedJob, IdleJob

LEMMA RowRequests ==
    ASSUME TypeOK, RowInv, NEW r \in Requests
    PROVE  BeginComplete(r) \/ BeginRetry(r) \/ RequestStep(r) \/ CrashRequest(r)
             => RowInv'
<1>1. ASSUME BeginComplete(r) \/ BeginRetry(r) \/ VerifyObject(r) \/ CrashRequest(r)
      PROVE  RowInv'
  BY <1>1 DEF BeginComplete, BeginRetry, VerifyObject, CrashRequest, RowInv,
              RowConstraints, CreatedHoldsCopy, row
<1>2. ASSUME SaveUploaded(r) PROVE RowInv'
  BY <1>2, EnqueueHoldsCopy DEF SaveUploaded, RowInv, RowConstraints
<1>3. ASSUME SaveRetry(r) PROVE RowInv'
  BY <1>3, EnqueueHoldsCopy DEF SaveRetry, RowInv, RowConstraints
<1>4. ASSUME SaveRejected(r) PROVE RowInv'
  BY <1>4 DEF SaveRejected, FailRow, RowInv, RowConstraints, CreatedHoldsCopy
<1>5. QED
  BY <1>1, <1>2, <1>3, <1>4 DEF RequestStep

LEMMA RowJobs ==
    ASSUME TypeOK, RowInv, NEW j \in Jobs
    PROVE  JobStep(j) \/ CrashJob(j) => RowInv'
<1>1. ASSUME StartJob(j) \/ CrashJob(j) PROVE RowInv'
  <2>1. job'[j].at # "created" /\ \A i \in Jobs : i # j => job'[i] = job[i]
    <3>1. CASE StartJob(j)
      BY <3>1 DEF StartJob, IdleJob, TypeOK, JobRec
    <3>2. CASE CrashJob(j)
      BY <3>2 DEF CrashJob, RedeliveredJob, QueuedJob, IdleJob, TypeOK
    <3>3. QED
      BY <1>1, <3>1, <3>2
  <2>2. UNCHANGED row
    BY <1>1 DEF StartJob, CrashJob
  <2>3. QED
    BY <2>1, <2>2 DEF RowInv, RowConstraints, CreatedHoldsCopy, row
<1>2. ASSUME CallProvider(j) PROVE RowInv'
  <2>1. /\ job'[j].at = "created" => job'[j].made # NoCopy
        /\ \A i \in Jobs : i # j => job'[i] = job[i]
    BY <1>2 DEF CallProvider, TypeOK, JobRec
  <2>2. UNCHANGED row
    BY <1>2 DEF CallProvider
  <2>3. QED
    BY <2>1, <2>2 DEF RowInv, RowConstraints, CreatedHoldsCopy, row
<1>3. ASSUME HandOver(j) PROVE RowInv'
  BY <1>3 DEF HandOver, HandedOver, IdleJob, TypeOK, RowInv, RowConstraints,
              CreatedHoldsCopy
<1>4. ASSUME ProviderRefused(j) \/ DeadLetter(j) PROVE RowInv'
  BY <1>4 DEF ProviderRefused, DeadLetter, FailRow, IdleJob, TypeOK, RowInv,
              RowConstraints, CreatedHoldsCopy
<1>5. ASSUME RetryLater(j) PROVE RowInv'
  BY <1>5 DEF RetryLater, Requeued, QueuedJob, IdleJob, TypeOK, RowInv,
              RowConstraints, CreatedHoldsCopy
<1>6. QED
  BY <1>1, <1>2, <1>3, <1>4, <1>5 DEF JobStep

LEMMA RowStep == TypeOK /\ RowInv /\ [Next]_vars => RowInv'
<1>1. SUFFICES ASSUME TypeOK, RowInv, [Next]_vars PROVE RowInv'
  OBVIOUS
<1>2. CASE RequestUpload
  BY <1>1, <1>2 DEF RequestUpload, RowInv, RowConstraints, CreatedHoldsCopy
<1>3. ASSUME NEW k \in Keys, BrowserPut(k) PROVE RowInv'
  BY <1>1, <1>3 DEF BrowserPut, RowInv, RowConstraints, CreatedHoldsCopy, row
<1>4. ASSUME NEW c \in Copies, ProviderFinishes(c) PROVE RowInv'
  BY <1>1, <1>4 DEF ProviderFinishes, RowInv, RowConstraints, CreatedHoldsCopy, row
<1>5. ASSUME NEW c \in Copies, ReceiveWebhook(c) \/ ApplyStep(c) \/ CrashApply(c)
      PROVE  RowInv'
  <2>1. CASE ApplyEvent(c)
    BY <1>1, <2>1 DEF ApplyEvent, Playable, FailRow, RowInv, RowConstraints,
                      CreatedHoldsCopy, row
  <2>2. CASE ~ApplyEvent(c)
    BY <1>1, <1>5, <2>2 DEF ReceiveWebhook, ApplyStep, LookUpAsset, AskTranscription,
       MarkProcessed, Acknowledge, CrashApply, RowInv, RowConstraints,
       CreatedHoldsCopy, row
  <2>3. QED
    BY <2>1, <2>2
<1>6. CASE UNCHANGED vars
  BY <1>1, <1>6 DEF RowInv, RowConstraints, CreatedHoldsCopy, vars, row
<1>7. QED
  BY <1>1, <1>2, <1>3, <1>4, <1>5, <1>6, RowRequests, RowJobs DEF Next

(* No handler ever runs into the CHECK constraints of media_assets.models, *)
(* but for the READY webhook on a row replaced under it, which is refused. *)
THEOREM ConstraintsHold == Spec => []RowConstraints
<1>1. Init => RowInv
  BY DEF Init, RowInv, RowConstraints, CreatedHoldsCopy, IdleJob
<1>2. RowInv => RowConstraints
  BY DEF RowInv
<1>3. QED
  BY <1>1, <1>2, RowStep, TypeCorrect, PTL DEF Spec

-----------------------------------------------------------------------------
(* Every step that leaves the row UPLOADED without a copy leaves a message *)
(* behind.                                                                 *)
LEMMA EnqueueLeavesMessage ==
    ASSUME TypeOK, Enqueue, lost' = 0
    PROVE  \E j \in Jobs : job'[j].at # "idle"
<1>1. lost \in Nat
  BY DEF TypeOK
<1>2. PICK j \in Jobs : job' = [job EXCEPT ![j] = QueuedJob(0)]
  BY <1>1 DEF Enqueue
<1>3. job'[j].at = "queued"
  BY <1>2 DEF TypeOK, QueuedJob, IdleJob
<1>4. QED
  BY <1>3

LEMMA StrandedJobs ==
    ASSUME TypeOK, NoStrandedUpload, NEW j \in Jobs
    PROVE  JobStep(j) \/ CrashJob(j) => NoStrandedUpload'
<1>1. ASSUME StartJob(j) PROVE NoStrandedUpload'
  BY <1>1 DEF StartJob, MayProcess, TypeOK, NoStrandedUpload, row, faults
<1>2. ASSUME CallProvider(j) PROVE NoStrandedUpload'
  <2>1. job'[j].at # "idle"
    BY <1>2 DEF CallProvider, TypeOK, JobRec
  <2>2. QED
    BY <2>1 DEF NoStrandedUpload
<1>3. ASSUME HandOver(j) \/ ProviderRefused(j) \/ DeadLetter(j) PROVE NoStrandedUpload'
  BY <1>3 DEF HandOver, HandedOver, ProviderRefused, DeadLetter, FailRow, NoStrandedUpload
<1>4. ASSUME RetryLater(j) PROVE NoStrandedUpload'
  BY <1>4 DEF RetryLater, Requeued, QueuedJob, IdleJob, TypeOK, NoStrandedUpload
<1>5. ASSUME CrashJob(j) PROVE NoStrandedUpload'
  BY <1>5 DEF CrashJob, RedeliveredJob, QueuedJob, IdleJob, TypeOK,
              NoStrandedUpload, row
<1>6. QED
  BY <1>1, <1>2, <1>3, <1>4, <1>5 DEF JobStep

LEMMA StrandedStep == TypeOK /\ NoStrandedUpload /\ [Next]_vars => NoStrandedUpload'
<1>1. SUFFICES ASSUME TypeOK, NoStrandedUpload, [Next]_vars PROVE NoStrandedUpload'
  OBVIOUS
<1>2. CASE RequestUpload
  BY <1>2 DEF RequestUpload, NoStrandedUpload
<1>3. ASSUME NEW r \in Requests, SaveUploaded(r) \/ SaveRetry(r)
      PROVE  NoStrandedUpload'
  BY <1>1, <1>3, EnqueueLeavesMessage DEF SaveUploaded, SaveRetry, NoStrandedUpload
<1>4. ASSUME NEW r \in Requests,
             BeginComplete(r) \/ BeginRetry(r) \/ VerifyObject(r) \/ SaveRejected(r)
               \/ CrashRequest(r)
      PROVE  NoStrandedUpload'
  BY <1>1, <1>4 DEF BeginComplete, BeginRetry, VerifyObject, SaveRejected, FailRow,
     CrashRequest, NoStrandedUpload, row, faults
<1>5. ASSUME NEW k \in Keys, BrowserPut(k) PROVE NoStrandedUpload'
  BY <1>1, <1>5 DEF BrowserPut, NoStrandedUpload, row, faults
<1>6. ASSUME NEW c \in Copies, ProviderFinishes(c) PROVE NoStrandedUpload'
  BY <1>1, <1>6 DEF ProviderFinishes, NoStrandedUpload, row, faults
<1>7. ASSUME NEW c \in Copies, ReceiveWebhook(c) \/ ApplyStep(c) \/ CrashApply(c)
      PROVE  NoStrandedUpload'
  BY <1>1, <1>7 DEF ReceiveWebhook, ApplyStep, LookUpAsset, ApplyEvent, FailRow,
     AskTranscription, MarkProcessed, Acknowledge, CrashApply, TypeOK,
     NoStrandedUpload, row, faults
<1>8. CASE UNCHANGED vars
  BY <1>1, <1>8 DEF NoStrandedUpload, vars, row, faults
<1>9. QED
  BY <1>1, <1>2, <1>3, <1>4, <1>5, <1>6, <1>7, <1>8, StrandedJobs
     DEF Next, RequestStep

(* Late acknowledgement and the enqueue after commit together keep every   *)
(* accepted upload in somebody's hands.                                    *)
THEOREM UploadsNeverStranded == Spec => []NoStrandedUpload
<1>1. Init => NoStrandedUpload
  BY DEF Init, NoStrandedUpload
<1>2. QED
  BY <1>1, StrandedStep, TypeCorrect, PTL DEF Spec

-----------------------------------------------------------------------------
(* What a handler holds was true when it read it and cannot change: a key  *)
(* is handed out once, a finished copy stays finished, and a good object   *)
(* or a deleted one stays what it is.                                      *)
KeyInv ==
    /\ status # "NONE" \/ pid # NoCopy => key \in Keys
    /\ \A r \in Requests : request[r].at # "idle" => request[r].key \in Keys /\ key \in Keys
    /\ \A j \in Jobs : job[j].at \notin {"idle", "queued"} => job[j].src \in Keys /\ key \in Keys
    /\ \A c \in Copies : copy[c].st # "none" => copy[c].src \in Keys /\ key \in Keys

RequestInv ==
    \A r \in Requests :
        /\ request[r].at = "passed" => objects[request[r].key] = "good"
        /\ request[r].at = "rejected" => objects[request[r].key] = "deleted"

CopyInv ==
    /\ \A c \in Copies : copy[c].st = "ready" => objects[copy[c].src] = "good"
    /\ \A j \in Jobs : job[j].at = "created" =>
          /\ job[j].made \in Copies
          /\ copy[job[j].made].st # "none" /\ copy[job[j].made].src = job[j].src
    /\ pid # NoCopy => copy[pid].st # "none"

StoredInv == \A c \in Copies : event[c].stored = "no" => event[c].task = "none"

SourceInv == TypeOK /\ KeyInv /\ RequestInv /\ CopyInv /\ StoredInv

Settled == {"good", "deleted"}

LEMMA ObjectsSettle ==
    ASSUME TypeOK, [Next]_vars, NEW k \in Keys, objects[k] \in Settled
    PROVE  objects'[k] = objects[k]
<1>1. CASE RequestUpload
  BY <1>1 DEF RequestUpload, Fresh, PresignedUpload, TypeOK, Settled
<1>2. ASSUME NEW i \in Keys, BrowserPut(i) PROVE objects'[k] = objects[k]
  BY <1>2 DEF BrowserPut, TypeOK, Settled
<1>3. ASSUME NEW r \in Requests, VerifyObject(r) PROVE objects'[k] = objects[k]
  BY <1>3 DEF VerifyObject, Received, Acceptable, Delete, TypeOK, Settled
<1>4. QED
  BY <1>1, <1>2, <1>3
     DEF Next, vars, BeginComplete, BeginRetry, RequestStep, SaveUploaded, SaveRejected,
         SaveRetry, CrashRequest, JobStep, StartJob, CallProvider, HandOver,
         ProviderRefused, DeadLetter, RetryLater, CrashJob, ProviderFinishes,
         ReceiveWebhook, ApplyStep, LookUpAsset, ApplyEvent, AskTranscription,
         MarkProcessed, Acknowledge, CrashApply

LEMMA CopiesSettle ==
    ASSUME TypeOK, [Next]_vars, NEW c \in Copies, copy[c].st # "none"
    PROVE  /\ copy'[c].st # "none" /\ copy'[c].src = copy[c].src
           /\ copy[c].st = "ready" => copy'[c].st = "ready"
<1>1. ASSUME NEW j \in Jobs, CallProvider(j)
      PROVE  copy'[c] = copy[c]
  BY <1>1 DEF CallProvider, TypeOK
<1>2. ASSUME NEW d \in Copies, ProviderFinishes(d)
      PROVE  /\ copy'[c].st # "none" /\ copy'[c].src = copy[c].src
             /\ copy[c].st = "ready" => copy'[c].st = "ready"
  BY <1>2 DEF ProviderFinishes, TypeOK
<1>3. QED
  BY <1>1, <1>2
     DEF Next, vars, RequestUpload, BrowserPut, BeginComplete, BeginRetry, RequestStep,
         VerifyObject, SaveUploaded, SaveRejected, SaveRetry, CrashRequest, JobStep,
         StartJob, HandOver, ProviderRefused, DeadLetter, RetryLater, CrashJob,
         ReceiveWebhook, ApplyStep, LookUpAsset, ApplyEvent, AskTranscription,
         MarkProcessed, Acknowledge, CrashApply

LEMMA EnqueueQueues ==
    ASSUME TypeOK, Enqueue
    PROVE  \A j \in Jobs : job'[j] = job[j] \/ job'[j].at = "queued"
BY DEF Enqueue, QueuedJob, IdleJob, TypeOK

LEMMA SourceInit == Init => SourceInv
<1>1. Init => TypeOK
  BY TypeInit
<1>2. QED
  BY <1>1 DEF Init, SourceInv, KeyInv, RequestInv, CopyInv, StoredInv, IdleRequest,
              IdleJob, NewEvent

LEMMA KeyStep == SourceInv /\ [Next]_vars => KeyInv'
<1>1. SUFFICES ASSUME SourceInv, [Next]_vars PROVE KeyInv'
  OBVIOUS
<1> USE DEF KeyInv
<1>2. /\ TypeOK /\ KeyInv /\ TypeOK'
      /\ key \in Keys => key' \in Keys
  <2>1. TypeOK /\ KeyInv /\ TypeOK'
    BY <1>1, TypeStep DEF SourceInv
  <2>2. CASE RequestUpload
    BY <2>1, <2>2 DEF RequestUpload
  <2>3. CASE UNCHANGED key
    BY <2>1, <2>3
  <2>4. QED
    BY <1>1, <2>1, <2>2, <2>3
       DEF Next, vars, row, BrowserPut, BeginComplete, BeginRetry, RequestStep,
           VerifyObject, SaveUploaded, SaveRejected, SaveRetry, CrashRequest, JobStep,
           StartJob, CallProvider, HandOver, ProviderRefused, DeadLetter, RetryLater,
           CrashJob, ProviderFinishes, ReceiveWebhook, ApplyStep, LookUpAsset, ApplyEvent,
           AskTranscription, MarkProcessed, Acknowledge, CrashApply
<1>3. CASE RequestUpload
  BY <1>2, <1>3 DEF RequestUpload
<1>4. ASSUME NEW r \in Requests, BeginComplete(r) \/ BeginRetry(r) PROVE KeyInv'
  <2>1. PICK at \in {"completing", "retrying"} :
            status # "NONE" /\ request' = [request EXCEPT ![r] = [at |-> at, key |-> key]]
    BY <1>4 DEF BeginComplete, BeginRetry
  <2>2. UNCHANGED <<row, copy, job>>
    BY <1>4 DEF BeginComplete, BeginRetry
  <2>3. QED
    BY <1>2, <2>1, <2>2 DEF TypeOK, row
<1>5. ASSUME NEW r \in Requests, VerifyObject(r) PROVE KeyInv'
  <2>1. \A q \in Requests : request'[q].at # "idle" =>
            request[q].at # "idle" /\ request'[q].key = request[q].key
    BY <1>2, <1>5 DEF VerifyObject, IdleRequest, TypeOK, RequestRec
  <2>2. UNCHANGED <<row, copy, job>>
    BY <1>5 DEF VerifyObject
  <2>3. QED
    BY <1>2, <2>1, <2>2 DEF row
<1>6. ASSUME NEW r \in Requests,
             SaveUploaded(r) \/ SaveRejected(r) \/ SaveRetry(r) \/ CrashRequest(r)
      PROVE  KeyInv'
  <2>1. request[r].at # "idle" /\ request' = [request EXCEPT ![r] = IdleRequest]
    BY <1>6 DEF SaveUploaded, SaveRejected, SaveRetry, CrashRequest
  <2>2. \A q \in Requests : request'[q] = request[q] \/ request'[q].at = "idle"
    BY <1>2, <2>1 DEF IdleRequest, TypeOK
  <2>3. \A j \in Jobs : job'[j] = job[j] \/ job'[j].at = "queued"
    BY <1>2, <1>6, EnqueueQueues DEF SaveUploaded, SaveRejected, SaveRetry, CrashRequest
  <2>4. UNCHANGED <<key, copy>>
    BY <1>6 DEF SaveUploaded, SaveRejected, SaveRetry, CrashRequest, row
  <2>5. key \in Keys
    BY <1>2, <2>1
  <2>6. QED
    BY <1>2, <2>2, <2>3, <2>4, <2>5
<1>7. ASSUME NEW j \in Jobs, StartJob(j) PROVE KeyInv'
  <2>1. \A i \in Jobs : job'[i].at \notin {"idle", "queued"} =>
            job'[i] = job[i] \/ (job'[i].src = key /\ status = "UPLOADED")
    BY <1>2, <1>7 DEF StartJob, MayProcess, IdleJob, TypeOK, JobRec
  <2>2. UNCHANGED <<row, copy, request>>
    BY <1>7 DEF StartJob
  <2>3. QED
    BY <1>2, <2>1, <2>2 DEF row
<1>8. ASSUME NEW j \in Jobs, CallProvider(j) PROVE KeyInv'
  <2>1. job[j].at = "calling"
    BY <1>8 DEF CallProvider
  <2>2. \A i \in Jobs : job'[i].src = job[i].src /\ (i # j => job'[i] = job[i])
    BY <1>2, <1>8 DEF CallProvider, TypeOK, JobRec
  <2>3. \A c \in Copies : copy'[c] = copy[c] \/ copy'[c].src = job[j].src
    BY <1>2, <1>8 DEF CallProvider, TypeOK
  <2>4. UNCHANGED <<row, request>>
    BY <1>8 DEF CallProvider
  <2>5. QED
    BY <1>2, <2>1, <2>2, <2>3, <2>4 DEF row
<1>9. ASSUME NEW j \in Jobs,
             HandOver(j) \/ ProviderRefused(j) \/ DeadLetter(j) \/ RetryLater(j) \/ CrashJob(j)
      PROVE  KeyInv'
  <2>1. job[j].at \notin {"idle", "queued"}
    BY <1>9 DEF HandOver, ProviderRefused, DeadLetter, RetryLater, CrashJob
  <2>2. PICK new \in {IdleJob, QueuedJob(job[j].retries), QueuedJob(job[j].retries + 1)} :
            job' = [job EXCEPT ![j] = new]
    BY <1>9 DEF HandOver, ProviderRefused, DeadLetter, RetryLater, CrashJob, Requeued,
                RedeliveredJob
  <2>3. \A i \in Jobs : job'[i] = job[i] \/ job'[i].at \in {"idle", "queued"}
    <3>1. IdleJob.at = "idle" /\ \A n : QueuedJob(n).at = "queued"
      BY DEF QueuedJob, IdleJob
    <3>2. new.at \in {"idle", "queued"}
      BY <2>2, <3>1
    <3>3. QED
      BY <1>2, <2>2, <3>2 DEF TypeOK
  <2>4. UNCHANGED <<key, copy, request>>
    BY <1>9 DEF HandOver, ProviderRefused, DeadLetter, RetryLater, CrashJob, row
  <2>5. key \in Keys
    BY <1>2, <2>1
  <2>6. QED
    BY <1>2, <2>3, <2>4, <2>5
<1>10. ASSUME NEW c \in Copies, ProviderFinishes(c) PROVE KeyInv'
  <2>1. \A d \in Copies : copy'[d].src = copy[d].src
                            /\ (copy'[d].st # "none" => copy[d].st # "none")
    BY <1>2, <1>10 DEF ProviderFinishes, TypeOK
  <2>2. UNCHANGED <<row, request, job>>
    BY <1>10 DEF ProviderFinishes
  <2>3. QED
    BY <1>2, <2>1, <2>2 DEF row
<1>11. ASSUME NEW c \in Copies, ApplyEvent(c) PROVE KeyInv'
  <2>1. copy[c].st # "none"
    BY <1>11 DEF ApplyEvent
  <2>2. UNCHANGED <<key, pid, copy, request, job>>
    BY <1>11 DEF ApplyEvent, row
  <2>3. QED
    BY <1>2, <2>1, <2>2
<1>12. CASE UNCHANGED <<row, copy, request, job>>
  BY <1>2, <1>12 DEF row
<1>13. QED
  BY <1>1, <1>3, <1>4, <1>5, <1>6, <1>7, <1>8, <1>9, <1>10, <1>11, <1>12
     DEF Next, vars, BrowserPut, RequestStep, JobStep, ApplyStep, ReceiveWebhook,
         LookUpAsset, AskTranscription, MarkProcessed, Acknowledge, CrashApply

(* An object a request has verified, or deleted, stays so. *)
LEMMA RequestInvStep == SourceInv /\ [Next]_vars => RequestInv'
<1>1. SUFFICES ASSUME SourceInv, [Next]_vars PROVE RequestInv'
  OBVIOUS
<1> USE DEF RequestInv
<1>2. TypeOK /\ KeyInv /\ RequestInv
  BY <1>1 DEF SourceInv
<1>3. ASSUME \A r \in Requests : request'[r] = request[r]
                                   \/ request'[r].at \notin {"passed", "rejected"}
      PROVE  RequestInv'
  <2>1. ASSUME NEW r \in Requests, request[r].at \in {"passed", "rejected"}
        PROVE  objects'[request[r].key] = objects[request[r].key]
    BY <1>1, <1>2, <2>1, ObjectsSettle DEF KeyInv, Settled
  <2>2. QED
    BY <1>2, <1>3, <2>1
<1>4. ASSUME NEW r \in Requests, VerifyObject(r) PROVE RequestInv'
  <2>1. request[r].at = "completing" /\ request[r].key \in Keys
    BY <1>2, <1>4 DEF VerifyObject, KeyInv
  <2>2. \A q \in Requests : q # r => request'[q] = request[q]
    BY <1>2, <1>4 DEF VerifyObject, TypeOK
  <2>3. /\ request'[r].at = "passed" =>
             request'[r].key = request[r].key /\ objects'[request[r].key] = "good"
        /\ request'[r].at = "rejected" =>
             request'[r].key = request[r].key /\ objects'[request[r].key] = "deleted"
    BY <1>2, <1>4, <2>1
       DEF VerifyObject, Acceptable, Delete, IdleRequest, TypeOK, RequestRec
  <2>4. ASSUME NEW q \in Requests, request[q].at \in {"passed", "rejected"}
        PROVE  objects'[request[q].key] = objects[request[q].key]
    BY <1>1, <1>2, <2>4, ObjectsSettle DEF KeyInv, Settled
  <2>5. QED
    BY <1>2, <2>2, <2>3, <2>4
<1>5. ASSUME NEW r \in Requests, BeginComplete(r) \/ BeginRetry(r) PROVE RequestInv'
  BY <1>2, <1>3, <1>5 DEF BeginComplete, BeginRetry, TypeOK
<1>6. ASSUME NEW r \in Requests,
             SaveUploaded(r) \/ SaveRejected(r) \/ SaveRetry(r) \/ CrashRequest(r)
      PROVE  RequestInv'
  BY <1>2, <1>3, <1>6 DEF SaveUploaded, SaveRejected, SaveRetry, CrashRequest,
                          IdleRequest, TypeOK
<1>7. CASE UNCHANGED request
  BY <1>3, <1>7
<1>8. QED
  BY <1>1, <1>4, <1>5, <1>6, <1>7
     DEF Next, vars, RequestUpload, BrowserPut, RequestStep, JobStep, StartJob,
         CallProvider, HandOver, ProviderRefused, DeadLetter, RetryLater, CrashJob,
         ProviderFinishes, ReceiveWebhook, ApplyStep, LookUpAsset, ApplyEvent,
         AskTranscription, MarkProcessed, Acknowledge, CrashApply

(* A finished copy was made of a good object, and a task that holds a copy *)
(* has made it of what it read.                                            *)
LEMMA CopyInvStep == SourceInv /\ [Next]_vars => CopyInv'
<1>1. SUFFICES ASSUME SourceInv, [Next]_vars PROVE CopyInv'
  OBVIOUS
<1>2. TypeOK /\ KeyInv /\ CopyInv
  BY <1>1 DEF SourceInv
<1>3. \A c \in Copies : copy'[c].st = "ready" => objects'[copy'[c].src] = "good"
  <2>1. SUFFICES ASSUME NEW c \in Copies, copy'[c].st = "ready"
                 PROVE  objects'[copy'[c].src] = "good"
    OBVIOUS
  <2>2. /\ copy[c].st # "none" /\ copy'[c].src = copy[c].src
        /\ objects[copy[c].src] = "good"
    <3>1. CASE copy'[c] = copy[c]
      BY <1>2, <2>1, <3>1 DEF CopyInv
    <3>2. ASSUME NEW d \in Copies, ProviderFinishes(d), copy'[c] # copy[c]
          PROVE  /\ copy[c].st # "none" /\ copy'[c].src = copy[c].src
                 /\ objects[copy[c].src] = "good"
      BY <1>2, <2>1, <3>2 DEF ProviderFinishes, Fetches, TypeOK
    <3>3. ASSUME NEW j \in Jobs, CallProvider(j) PROVE copy'[c] = copy[c]
      BY <1>2, <2>1, <3>3 DEF CallProvider, TypeOK
    <3>4. QED
      BY <1>1, <3>1, <3>2, <3>3
         DEF Next, vars, RequestUpload, BrowserPut, BeginComplete, BeginRetry, RequestStep,
             VerifyObject, SaveUploaded, SaveRejected, SaveRetry, CrashRequest, JobStep,
             StartJob, HandOver, ProviderRefused, DeadLetter, RetryLater, CrashJob,
             ReceiveWebhook, ApplyStep, LookUpAsset, ApplyEvent, AskTranscription,
             MarkProcessed, Acknowledge, CrashApply
  <2>3. copy[c].src \in Keys
    BY <1>2, <2>2 DEF KeyInv
  <2>4. QED
    BY <1>1, <1>2, <2>2, <2>3, ObjectsSettle DEF Settled
<1>4. ASSUME NEW j \in Jobs, job'[j].at = "created"
      PROVE  /\ job'[j].made \in Copies
             /\ copy'[job'[j].made].st # "none" /\ copy'[job'[j].made].src = job'[j].src
  <2>1. CASE job'[j] = job[j]
    <3>1. /\ job[j].made \in Copies
          /\ copy[job[j].made].st # "none" /\ copy[job[j].made].src = job[j].src
      BY <1>2, <1>4, <2>1 DEF CopyInv
    <3>2. QED
      BY <1>1, <1>2, <2>1, <3>1, CopiesSettle
  <2>2. CASE CallProvider(j)
    <3>1. PICK c \in Copies :
              /\ copy[c].st = "none"
              /\ copy' = [copy EXCEPT ![c] = [src |-> job[j].src, st |-> "processing"]]
              /\ job' = [job EXCEPT ![j].at = "created", ![j].made = c]
      <4>1. ASSUME NEW at \in {"refused", "raised"}, job' = [job EXCEPT ![j].at = at]
            PROVE  FALSE
        BY <1>2, <1>4, <4>1 DEF TypeOK, JobRec
      <4>2. QED
        BY <2>2, <4>1 DEF CallProvider
    <3>2. job'[j].made = c /\ job'[j].src = job[j].src
      BY <1>2, <3>1 DEF TypeOK, JobRec
    <3>3. copy'[c] = [src |-> job[j].src, st |-> "processing"]
      BY <1>2, <3>1 DEF TypeOK
    <3>4. QED
      BY <3>2, <3>3
  <2>3. ASSUME NEW i \in Jobs, CallProvider(i), i # j PROVE job'[j] = job[j]
    BY <1>2, <2>3 DEF CallProvider, TypeOK
  <2>4. ASSUME NEW i \in Jobs, StartJob(i) PROVE job'[j] = job[j]
    BY <1>2, <1>4, <2>4 DEF StartJob, IdleJob, TypeOK, JobRec
  <2>5. ASSUME NEW i \in Jobs,
               HandOver(i) \/ ProviderRefused(i) \/ DeadLetter(i) \/ RetryLater(i) \/ CrashJob(i)
        PROVE  job'[j] = job[j]
    <3>1. IdleJob.at = "idle" /\ \A n : QueuedJob(n).at = "queued"
      BY DEF QueuedJob, IdleJob
    <3>2. PICK new : new.at # "created" /\ job' = [job EXCEPT ![i] = new]
      BY <2>5, <3>1 DEF HandOver, ProviderRefused, DeadLetter, RetryLater, CrashJob,
                        Requeued, RedeliveredJob
    <3>3. QED
      BY <1>2, <1>4, <3>2 DEF TypeOK
  <2>6. ASSUME NEW r \in Requests, SaveUploaded(r) \/ SaveRetry(r) PROVE job'[j] = job[j]
    BY <1>2, <1>4, <2>6, EnqueueQueues DEF SaveUploaded, SaveRetry
  <2>7. QED
    BY <1>1, <2>1, <2>2, <2>3, <2>4, <2>5, <2>6
       DEF Next, vars, RequestUpload, BrowserPut, BeginComplete, BeginRetry, RequestStep,
           VerifyObject, SaveRejected, CrashRequest, JobStep, ProviderFinishes,
           ReceiveWebhook, ApplyStep, LookUpAsset, ApplyEvent, AskTranscription,
           MarkProcessed, Acknowledge, CrashApply
<1>5. pid' # NoCopy => copy'[pid'].st # "none"
  <2>1. CASE pid' = pid
    BY <1>1, <1>2, <2>1, CopiesSettle DEF CopyInv, TypeOK
  <2>2. ASSUME NEW j \in Jobs, HandOver(j) PROVE pid' # NoCopy => copy'[pid'].st # "none"
    <3>1. pid' = job[j].made /\ job[j].at = "created" /\ copy' = copy
      BY <2>2 DEF HandOver
    <3>2. QED
      BY <1>2, <3>1 DEF CopyInv
  <2>3. CASE RequestUpload
    BY <2>3 DEF RequestUpload
  <2>4. QED
    BY <1>1, <2>1, <2>2, <2>3
       DEF Next, vars, row, BrowserPut, BeginComplete, BeginRetry, RequestStep,
           VerifyObject, SaveUploaded, SaveRejected, SaveRetry, CrashRequest, JobStep,
           StartJob, CallProvider, ProviderRefused, DeadLetter, RetryLater, CrashJob,
           ProviderFinishes, ReceiveWebhook, ApplyStep, LookUpAsset, ApplyEvent,
           AskTranscription, MarkProcessed, Acknowledge, CrashApply
<1>6. QED
  BY <1>3, <1>4, <1>5 DEF CopyInv

(* The task of an event leaves it stored. *)
LEMMA StoredKept ==
    ASSUME TypeOK, NEW c \in Copies,
           LookUpAsset(c) \/ ApplyEvent(c) \/ AskTranscription(c) \/ Acknowledge(c)
             \/ CrashApply(c)
    PROVE  \A d \in Copies : event'[d].stored = event[d].stored
                               /\ (d # c => event'[d] = event[d])
<1>1. CASE LookUpAsset(c)
  BY <1>1 DEF LookUpAsset, TypeOK, EventRec
<1>2. CASE ApplyEvent(c)
  BY <1>2 DEF ApplyEvent, TypeOK, EventRec
<1>3. CASE AskTranscription(c) \/ Acknowledge(c) \/ CrashApply(c)
  BY <1>3 DEF AskTranscription, Acknowledge, CrashApply, TypeOK, EventRec
<1>4. QED
  BY <1>1, <1>2, <1>3

(* An event without a row has no task. *)
LEMMA StoredInvStep == SourceInv /\ [Next]_vars => StoredInv'
<1>1. SUFFICES ASSUME SourceInv, [Next]_vars PROVE StoredInv'
  OBVIOUS
<1>2. TypeOK /\ StoredInv
  BY <1>1 DEF SourceInv
<1>3. ASSUME NEW c \in Copies, ReceiveWebhook(c) \/ MarkProcessed(c) PROVE StoredInv'
  <2>1. event'[c].stored # "no"
    BY <1>2, <1>3 DEF ReceiveWebhook, MarkProcessed, TypeOK, EventRec
  <2>2. \A d \in Copies : d # c => event'[d] = event[d]
    BY <1>2, <1>3 DEF ReceiveWebhook, MarkProcessed, TypeOK
  <2>3. QED
    BY <1>2, <2>1, <2>2 DEF StoredInv
<1>4. ASSUME NEW c \in Copies,
             LookUpAsset(c) \/ ApplyEvent(c) \/ AskTranscription(c) \/ Acknowledge(c)
               \/ CrashApply(c)
      PROVE  StoredInv'
  <2>1. event[c].task # "none"
    BY <1>4 DEF LookUpAsset, ApplyEvent, AskTranscription, Acknowledge, CrashApply
  <2>2. \A d \in Copies : event'[d].stored = event[d].stored
                            /\ (d # c => event'[d] = event[d])
    BY <1>2, <1>4, StoredKept
  <2>3. QED
    BY <1>2, <2>1, <2>2 DEF StoredInv
<1>5. CASE UNCHANGED event
  BY <1>2, <1>5 DEF StoredInv
<1>6. QED
  BY <1>1, <1>3, <1>4, <1>5
     DEF Next, vars, RequestUpload, BrowserPut, BeginComplete, BeginRetry, RequestStep,
         VerifyObject, SaveUploaded, SaveRejected, SaveRetry, CrashRequest, JobStep,
         StartJob, CallProvider, HandOver, ProviderRefused, DeadLetter, RetryLater,
         CrashJob, ProviderFinishes, ApplyStep

LEMMA SourceInvariant == Spec => []SourceInv
<1>1. SourceInv /\ [Next]_vars => SourceInv'
  BY TypeStep, KeyStep, RequestInvStep, CopyInvStep, StoredInvStep DEF SourceInv
<1>2. QED
  BY <1>1, SourceInit, PTL DEF Spec

-----------------------------------------------------------------------------
(* What an accepted row names is one thing throughout, as long as no write *)
(* landed on a row that had moved.                                         *)
Accepted == {"UPLOADED", "TRANSCODING", "READY", "FAILED"}
NamesOneMaster ==
    /\ status \in {"TRANSCODING", "READY"} => pid # NoCopy /\ copy[pid].src = key
    /\ status = "READY" => copy[pid].st = "ready"
    /\ status \in Accepted => objects[key] \in Settled
MasterInv == ~stale => NamesOneMaster

(* Nothing the row names can change under it. *)
LEMMA MasterKept ==
    ASSUME SourceInv, [Next]_vars, NamesOneMaster, UNCHANGED <<status, key, pid>>
    PROVE  NamesOneMaster'
<1>1. TypeOK /\ KeyInv /\ CopyInv
  BY DEF SourceInv
<1>2. ASSUME status \in Accepted PROVE objects'[key] = objects[key]
  <2>1. key \in Keys
    BY <1>1, <1>2 DEF KeyInv, Accepted
  <2>2. QED
    BY <1>1, <1>2, <2>1, ObjectsSettle DEF NamesOneMaster
<1>3. ASSUME status \in {"TRANSCODING", "READY"}
      PROVE  /\ copy'[pid].src = copy[pid].src
             /\ copy[pid].st = "ready" => copy'[pid].st = "ready"
  <2>1. pid \in Copies /\ copy[pid].st # "none"
    BY <1>1, <1>3 DEF NamesOneMaster, CopyInv, TypeOK
  <2>2. QED
    BY <1>1, <2>1, CopiesSettle
<1>4. QED
  BY <1>2, <1>3 DEF NamesOneMaster, Accepted

LEMMA MasterRequests ==
    ASSUME SourceInv, MasterInv, NEW r \in Requests,
           SaveUploaded(r) \/ SaveRejected(r) \/ SaveRetry(r), ~stale'
    PROVE  NamesOneMaster'
<1>1. TypeOK /\ KeyInv /\ RequestInv
  BY DEF SourceInv
<1>2. CASE SaveUploaded(r)
  <2>1. ~stale /\ key = request[r].key
    BY <1>1, <1>2 DEF SaveUploaded, Writes, TypeOK
  <2>2. objects[key] = "good"
    BY <1>1, <1>2, <2>1 DEF SaveUploaded, RequestInv
  <2>3. status' = "UPLOADED" /\ UNCHANGED <<key, objects>>
    BY <1>2 DEF SaveUploaded
  <2>4. QED
    BY <2>2, <2>3 DEF NamesOneMaster, Settled
<1>3. CASE SaveRejected(r)
  <2>1. ~stale /\ key = request[r].key
    BY <1>1, <1>3 DEF SaveRejected, Writes, TypeOK
  <2>2. objects[key] = "deleted"
    BY <1>1, <1>3, <2>1 DEF SaveRejected, RequestInv
  <2>3. status' = "FAILED" /\ UNCHANGED <<key, objects>>
    BY <1>3 DEF SaveRejected, FailRow
  <2>4. QED
    BY <2>2, <2>3 DEF NamesOneMaster, Settled
<1>4. CASE SaveRetry(r)
  <2>1. ~stale /\ status = "FAILED"
    BY <1>1, <1>4 DEF SaveRetry, Writes, TypeOK
  <2>2. objects[key] \in Settled
    BY <2>1 DEF MasterInv, NamesOneMaster, Accepted
  <2>3. status' = "UPLOADED" /\ UNCHANGED <<key, objects>>
    BY <1>4 DEF SaveRetry
  <2>4. QED
    BY <2>2, <2>3 DEF NamesOneMaster
<1>5. QED
  BY <1>2, <1>3, <1>4

LEMMA MasterJobs ==
    ASSUME SourceInv, MasterInv, [Next]_vars, NEW j \in Jobs,
           HandOver(j) \/ ProviderRefused(j) \/ DeadLetter(j) \/ RetryLater(j), ~stale'
    PROVE  NamesOneMaster'
<1>1. TypeOK /\ CopyInv
  BY DEF SourceInv
<1>2. ~stale /\ JobSaw(j)
  BY <1>1 DEF HandOver, ProviderRefused, DeadLetter, RetryLater, Writes, TypeOK
<1>3. status = "UPLOADED" /\ key = job[j].src /\ NamesOneMaster
  BY <1>2 DEF JobSaw, MasterInv
<1>4. objects[key] \in Settled
  BY <1>3 DEF NamesOneMaster, Accepted
<1>5. CASE HandOver(j)
  <2>1. /\ pid' = job[j].made /\ status' = "TRANSCODING"
        /\ UNCHANGED <<key, objects, copy>>
    BY <1>5 DEF HandOver, HandedOver
  <2>2. job[j].made \in Copies /\ copy[job[j].made].src = key
    BY <1>1, <1>3, <1>5 DEF HandOver, CopyInv
  <2>3. QED
    BY <1>4, <2>1, <2>2 DEF NamesOneMaster
<1>6. CASE ProviderRefused(j) \/ DeadLetter(j)
  <2>1. status' = "FAILED" /\ UNCHANGED <<key, objects>>
    BY <1>6 DEF ProviderRefused, DeadLetter, FailRow
  <2>2. QED
    BY <1>4, <2>1 DEF NamesOneMaster
<1>7. CASE RetryLater(j)
  <2>1. UNCHANGED <<status, key, pid>>
    BY <1>7 DEF RetryLater
  <2>2. QED
    BY <1>3, <2>1, MasterKept
<1>8. QED
  BY <1>5, <1>6, <1>7

LEMMA MasterEvents ==
    ASSUME SourceInv, MasterInv, [Next]_vars, NEW c \in Copies, ApplyEvent(c), ~stale'
    PROVE  NamesOneMaster'
<1>1. TypeOK
  BY DEF SourceInv
<1>2. UNCHANGED <<key, pid, objects, copy>>
  BY DEF ApplyEvent, row
<1>3. CASE copy[c].st = "ready" /\ Playable
  <2>1. ~stale /\ pid = c /\ status \in {"TRANSCODING", "READY"} /\ status' = "READY"
    BY <1>1, <1>3 DEF ApplyEvent, Writes, TypeOK
  <2>2. QED
    BY <1>2, <1>3, <2>1 DEF MasterInv, NamesOneMaster, Accepted
<1>4. CASE copy[c].st = "ready" /\ ~Playable
  <2>1. ~stale /\ UNCHANGED status
    BY <1>4 DEF ApplyEvent, row
  <2>2. QED
    BY <1>2, <2>1, MasterKept DEF MasterInv
<1>5. CASE copy[c].st = "errored"
  <2>1. ~stale /\ status \in {"TRANSCODING", "FAILED"} /\ status' = "FAILED"
    BY <1>1, <1>5 DEF ApplyEvent, FailRow, Writes, TypeOK
  <2>2. QED
    BY <1>2, <2>1 DEF MasterInv, NamesOneMaster, Accepted
<1>6. QED
  BY <1>3, <1>4, <1>5 DEF ApplyEvent

LEMMA MasterStep == SourceInv /\ MasterInv /\ [Next]_vars => MasterInv'
<1>1. SUFFICES ASSUME SourceInv, MasterInv, [Next]_vars, ~stale'
               PROVE  NamesOneMaster'
  BY DEF MasterInv
<1>2. CASE RequestUpload
  BY <1>2 DEF RequestUpload, NamesOneMaster, Accepted
<1>3. CASE UNCHANGED <<status, key, pid, stale>>
  BY <1>1, <1>3, MasterKept DEF MasterInv
<1>4. QED
  BY <1>1, <1>2, <1>3, MasterRequests, MasterJobs, MasterEvents
     DEF Next, vars, row, BrowserPut, BeginComplete, BeginRetry, RequestStep, VerifyObject,
         CrashRequest, JobStep, StartJob, CallProvider, CrashJob, ProviderFinishes,
         ReceiveWebhook, ApplyStep, LookUpAsset, AskTranscription, MarkProcessed,
         Acknowledge, CrashApply

(* What learners play is made of the upload the row names, which passed    *)
(* verification, unless some handler saved over a row that had moved.      *)
THEOREM OneMaster == Spec => []OneMasterThroughout
<1>1. Init => MasterInv
  BY DEF Init, MasterInv, NamesOneMaster, Accepted
<1>2. SourceInv /\ MasterInv => OneMasterThroughout
  <2>1. SUFFICES ASSUME SourceInv, NamesOneMaster
                 PROVE  /\ status \in {"TRANSCODING", "READY"} => copy[pid].src = key
                        /\ status = "READY" => copy[pid].st = "ready" /\ objects[key] = "good"
                        /\ status = "UPLOADED" => objects[key] \in {"good", "deleted"}
    BY DEF MasterInv, OneMasterThroughout
  <2>2. ASSUME status = "READY" PROVE objects[key] = "good"
    <3>1. pid \in Copies /\ copy[pid].st = "ready" /\ copy[pid].src = key
      BY <2>1, <2>2 DEF SourceInv, TypeOK, NamesOneMaster
    <3>2. QED
      BY <2>1, <3>1 DEF SourceInv, CopyInv
  <2>3. QED
    BY <2>1, <2>2 DEF NamesOneMaster, Accepted, Settled
<1>3. QED
  BY <1>1, <1>2, MasterStep, SourceInvariant, PTL DEF Spec

-----------------------------------------------------------------------------
(* Whatever interleaves, a lesson that can be played has a finished copy   *)
(* of a verified file, and the provider has said so: the only write of     *)
(* READY is apply_media_webhook's.                                         *)
THEOREM ReadyOnTheProvidersWord == Spec => []ReadyWasReported
<1>1. Init => ReadyWasReported
  BY DEF Init, ReadyWasReported
<1>2. ASSUME SourceInv, [Next]_vars, NEW c \in Copies,
             copy[c].st = "ready", event[c].stored # "no"
      PROVE  copy'[c].st = "ready" /\ objects'[copy'[c].src] = "good"
               /\ event'[c].stored # "no"
  <2>1. TypeOK /\ KeyInv /\ CopyInv
    BY <1>2 DEF SourceInv
  <2>2. copy'[c].st = "ready" /\ copy'[c].src = copy[c].src
    BY <1>2, <2>1, CopiesSettle
  <2>3. copy[c].src \in Keys /\ objects[copy[c].src] = "good"
    BY <1>2, <2>1 DEF KeyInv, CopyInv
  <2>4. objects'[copy[c].src] = "good"
    BY <1>2, <2>1, <2>3, ObjectsSettle DEF Settled
  <2>5. event'[c].stored # "no"
    <3>1. ASSUME NEW d \in Copies, ReceiveWebhook(d) \/ MarkProcessed(d)
          PROVE  event'[c].stored # "no"
      BY <1>2, <2>1, <3>1 DEF ReceiveWebhook, MarkProcessed, TypeOK, EventRec
    <3>2. ASSUME NEW d \in Copies,
                 LookUpAsset(d) \/ ApplyEvent(d) \/ AskTranscription(d) \/ Acknowledge(d)
                   \/ CrashApply(d)
          PROVE  event'[c].stored # "no"
      BY <1>2, <2>1, <3>2, StoredKept
    <3>3. QED
      BY <1>2, <3>1, <3>2
         DEF Next, vars, RequestUpload, BrowserPut, BeginComplete, BeginRetry, RequestStep,
             VerifyObject, SaveUploaded, SaveRejected, SaveRetry, CrashRequest, JobStep,
             StartJob, CallProvider, HandOver, ProviderRefused, DeadLetter, RetryLater,
             CrashJob, ProviderFinishes, ApplyStep
  <2>6. QED
    BY <2>2, <2>4, <2>5
<1>3. ASSUME SourceInv, [Next]_vars, status' = "READY", status # "READY"
      PROVE  \E c \in Copies : copy[c].st = "ready" /\ event[c].stored # "no"
  <2>1. PICK c \in Copies : ApplyEvent(c)
    BY <1>3 DEF Next, vars, row, RequestUpload, BrowserPut, BeginComplete, BeginRetry,
       RequestStep, VerifyObject, SaveUploaded, SaveRejected, SaveRetry, FailRow,
       CrashRequest, JobStep, StartJob, CallProvider, HandOver, HandedOver,
       ProviderRefused, DeadLetter, RetryLater, CrashJob, ProviderFinishes,
       ReceiveWebhook, ApplyStep, LookUpAsset, AskTranscription, MarkProcessed,
       Acknowledge, CrashApply
  <2>2. copy[c].st = "ready" /\ event[c].task = "found"
    BY <1>3, <2>1 DEF ApplyEvent, FailRow, row
  <2>3. QED
    BY <1>3, <2>2 DEF SourceInv, StoredInv
<1>4. SourceInv /\ ReadyWasReported /\ [Next]_vars => ReadyWasReported'
  BY <1>2, <1>3 DEF ReadyWasReported
<1>5. QED
  BY <1>1, <1>4, SourceInvariant, PTL DEF Spec

-----------------------------------------------------------------------------
(* The unique constraint on WebhookEvent keeps an event whose task ended   *)
(* from being applied again, however often the provider redelivers it.     *)
THEOREM EventsApplyOnce == Spec => SettledEventsAreInert
<1>1. ASSUME SourceInv, [Next]_vars, NEW c \in Copies, event[c].task = "done"
      PROVE  event'[c] = event[c]
  <2>1. TypeOK /\ event[c].stored # "no"
    BY <1>1 DEF SourceInv, StoredInv
  <2>2. ASSUME NEW d \in Copies, ReceiveWebhook(d) \/ ApplyStep(d) \/ CrashApply(d)
        PROVE  event'[c] = event[c]
    <3>1. d # c
      BY <1>1, <2>1, <2>2
         DEF ReceiveWebhook, FirstDelivery, ApplyStep, LookUpAsset, ApplyEvent,
             AskTranscription, MarkProcessed, Acknowledge, CrashApply
    <3>2. \A b \in Copies : b # d => event'[b] = event[b]
      BY <2>1, <2>2
         DEF ReceiveWebhook, ApplyStep, LookUpAsset, ApplyEvent, AskTranscription,
             MarkProcessed, Acknowledge, CrashApply, TypeOK
    <3>3. QED
      BY <3>1, <3>2
  <2>3. QED
    BY <1>1, <2>2
       DEF Next, vars, RequestUpload, BrowserPut, BeginComplete, BeginRetry, RequestStep,
           VerifyObject, SaveUploaded, SaveRejected, SaveRetry, CrashRequest, JobStep,
           StartJob, CallProvider, HandOver, ProviderRefused, DeadLetter, RetryLater,
           CrashJob, ProviderFinishes
<1>2. SourceInv /\ [Next]_vars
        => [\A c \in Copies : event[c].task = "done" => event'[c] = event[c]]_vars
  BY <1>1
<1>3. QED
  BY <1>2, SourceInvariant, PTL DEF Spec, SettledEventsAreInert
=============================================================================
