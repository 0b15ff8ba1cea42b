----------------------- MODULE TranscriptReviewProofs -----------------------
(***************************************************************************)
(* Theorems about TranscriptReview for any number of jobs, messages,       *)
(* reviewers and learners, every retry budget and any number of crashes.   *)
(***************************************************************************)
EXTENDS TranscriptReviewProps, TLAPS

USE ConstantsAssumption

(* The types of the records the helpers build. *)
LEMMA HelperTypes ==
    /\ IdleTask \in TaskRec
    /\ \A n \in 0..MaxRetries : QueuedTask(n) \in TaskRec
    /\ NewCallback \in CallbackRec
    /\ IdleReview \in ReviewRec
<1>1. 0 \in 0..MaxRetries
  OBVIOUS
<1>2. IdleTask \in TaskRec
  BY <1>1 DEF IdleTask, TaskRec
<1>3. ASSUME NEW n \in 0..MaxRetries PROVE QueuedTask(n) \in TaskRec
  BY DEF QueuedTask, IdleTask, TaskRec
<1>4. NewCallback \in CallbackRec
  BY DEF NewCallback, CallbackRec
<1>5. IdleReview \in ReviewRec
  BY DEF IdleReview, ReviewRec, Statuses
<1>6. QED
  BY <1>2, <1>3, <1>4, <1>5

(* An edit works on a cue that was there when it was read, and an approval *)
(* was asked for of a transcript in review.                                *)
ReviewInv ==
    \A r \in Reviewers :
        /\ review[r].at = "editing" => review[r].cue \in Cue
        /\ review[r].at \in {"approving", "worded"} => review[r].saw = "IN_REVIEW"

(* A task that has submitted knows its job, and a callback that is being   *)
(* applied, or was, is stored.                                             *)
MadeInv == \A t \in Tasks : task[t].at = "submitted" => task[t].made \in Jobs
StoredInv == \A j \in Jobs : callback[j].stored = "no" => callback[j].task = "none"

TypeInv == TypeOK /\ ReviewInv /\ MadeInv /\ StoredInv

-----------------------------------------------------------------------------
LEMMA TypeInit == Init => TypeInv
<1>1. SUFFICES ASSUME Init PROVE TypeInv
  OBVIOUS
<1>2. 0 \in 0..MaxRetries /\ 0 \in 0..MaxTouches /\ 0 \in 0..MaxRows
      /\ 0 \in 0..MaxCrashes
  OBVIOUS
<1>3. TypeOK
  BY <1>1, <1>2, HelperTypes DEF Init, TypeOK, Statuses
<1>4. ReviewInv /\ MadeInv /\ StoredInv
  BY <1>1 DEF Init, ReviewInv, MadeInv, StoredInv, IdleReview, IdleTask, NewCallback
<1>5. QED
  BY <1>3, <1>4 DEF TypeInv

LEMMA TypeTasks ==
    ASSUME TypeInv, NEW t \in Tasks
    PROVE  Ask(t) \/ TaskStep(t) \/ CrashTask(t) => TypeInv'
<1> USE DEF TypeInv, ReviewInv, MadeInv, StoredInv
<1>1. /\ IdleTask \in TaskRec /\ QueuedTask(0) \in TaskRec
      /\ task[t] \in TaskRec /\ task[t].retries \in 0..MaxRetries
      /\ IdleTask.at = "idle" /\ \A n : QueuedTask(n).at = "queued"
  BY HelperTypes DEF TypeOK, TaskRec, IdleTask, QueuedTask
<1>2. ASSUME Ask(t) PROVE TypeInv'
  BY <1>1, <1>2 DEF Ask, TypeOK, row, text, history
<1>3. ASSUME StartTask(t) PROVE TypeInv'
  <2>1. [task[t] EXCEPT !.at = "submitting"] \in TaskRec
    BY <1>1 DEF TaskRec
  <2>2. task' \in [Tasks -> TaskRec] /\ MadeInv'
    BY <1>1, <1>3, <2>1 DEF StartTask, TypeOK, TaskRec
  <2>3. status' \in Statuses
    BY <1>3 DEF StartTask, TypeOK, Statuses
  <2>4. UNCHANGED <<jobId, err, retryCount, signed, text, playable, job, callback,
                    review, vtt, learner, crashes, history>>
    BY <1>3 DEF StartTask
  <2>5. QED
    BY <2>2, <2>3, <2>4 DEF TypeOK, text, history
<1>4. ASSUME Submit(t) PROVE TypeInv'
  <2>1. task' \in [Tasks -> TaskRec] /\ MadeInv'
    <3>1. PICK at \in {"submitted", "refused", "raised"}, made \in Jobs \cup {NoJob} :
              /\ task' = [task EXCEPT ![t].at = at, ![t].made = made]
              /\ at = "submitted" => made \in Jobs
      <4>1. CASE \E j \in Jobs : task' = [task EXCEPT ![t].at = "submitted", ![t].made = j]
        BY <4>1
      <4>2. CASE \E at \in {"refused", "raised"} : task' = [task EXCEPT ![t].at = at]
        <5>1. PICK at \in {"refused", "raised"} : task' = [task EXCEPT ![t].at = at]
          BY <4>2
        <5>2. task[t].made \in Jobs \cup {NoJob}
          BY <1>1 DEF TaskRec
        <5>3. task' = [task EXCEPT ![t].at = at, ![t].made = task[t].made]
          BY <1>1, <5>1 DEF TypeOK, TaskRec
        <5>4. QED
          BY <5>2, <5>3
      <4>3. QED
        BY <1>4, <4>1, <4>2 DEF Submit
    <3>2. [task[t] EXCEPT !.at = at, !.made = made] \in TaskRec
      BY <1>1 DEF TaskRec
    <3>3. QED
      BY <1>1, <3>1, <3>2 DEF TypeOK, TaskRec
  <2>2. job' \in [Jobs -> {"none", "running", "heard", "silent", "failed"}]
    BY <1>4 DEF Submit, TypeOK
  <2>3. QED
    BY <1>4, <2>1, <2>2 DEF Submit, TypeOK, row, text, history
<1>5. ASSUME RecordJob(t) PROVE TypeInv'
  BY <1>1, <1>5 DEF RecordJob, Writes, MayAsk, MayAskAgain, TypeOK, TaskRec, Statuses, text
<1>6. ASSUME DeadLetter(t) PROVE TypeInv'
  BY <1>1, <1>6 DEF DeadLetter, RecordFailure, Writes, TypeOK, Statuses, text
<1>7. ASSUME RetryLater(t) PROVE TypeInv'
  <2>1. task[t].retries + 1 \in 0..MaxRetries
    BY <1>1, <1>7 DEF RetryLater, PastBudget
  <2>2. QueuedTask(task[t].retries + 1) \in TaskRec
    BY <2>1, HelperTypes
  <2>3. QED
    BY <1>1, <1>7, <2>1, <2>2 DEF RetryLater, Requeued, TypeOK, text, history
<1>8. ASSUME CrashTask(t) PROVE TypeInv'
  <2>1. QueuedTask(task[t].retries) \in TaskRec
    BY <1>1, HelperTypes
  <2>2. QED
    BY <1>1, <1>8, <2>1 DEF CrashTask, RedeliveredTask, TypeOK, row, text, history
<1>9. QED
  BY <1>2, <1>3, <1>4, <1>5, <1>6, <1>7, <1>8 DEF TaskStep

LEMMA TypeCallbacks ==
    ASSUME TypeInv, NEW j \in Jobs
    PROVE  ProviderFinishes(j) \/ ReceiveCallback(j) \/ CallbackStep(j)
             \/ CrashCallback(j) => TypeInv'
<1> USE DEF TypeInv, ReviewInv, MadeInv, StoredInv
<1>1. /\ callback[j] \in CallbackRec
      /\ \A at \in {"queued", "found", "applied", "acking", "done"} :
            [callback[j] EXCEPT !.task = at] \in CallbackRec
  BY DEF TypeOK, CallbackRec
<1>2. ASSUME ProviderFinishes(j) PROVE TypeInv'
  BY <1>2 DEF ProviderFinishes, TypeOK, row, text, history
<1>3. ASSUME ReceiveCallback(j) PROVE TypeInv'
  BY <1>1, <1>3 DEF ReceiveCallback, TypeOK, CallbackRec, row, text, history
<1>4. ASSUME FindTranscript(j) PROVE TypeInv'
  BY <1>1, <1>4 DEF FindTranscript, TypeOK, CallbackRec, row, text, history
<1>5. ASSUME ApplyFailure(j) PROVE TypeInv'
  BY <1>1, <1>5 DEF ApplyFailure, RecordFailure, Writes, TypeOK, CallbackRec, Statuses, text
<1>6. ASSUME ApplyWords(j) PROVE TypeInv'
  <2>1. inserts' \in 1..MaxRows /\ inserts' = inserts + 1
    BY <1>6 DEF ApplyWords, TypeOK
  <2>2. cues' \in SUBSET Cue
    BY <1>6, <2>1 DEF ApplyWords, CuesReplaced, NewCues, Cue, Texts
  <2>3. callback' \in [Jobs -> CallbackRec] /\ StoredInv'
    BY <1>1, <1>6 DEF ApplyWords, TypeOK, CallbackRec
  <2>4. status' \in Statuses /\ err' \in BOOLEAN /\ stale' \in BOOLEAN
    BY <1>6 DEF ApplyWords, Writes, TypeOK, Statuses
  <2>5. QED
    BY <1>6, <2>1, <2>2, <2>3, <2>4 DEF ApplyWords, TypeOK
<1>7. ASSUME SetProcessed(j) PROVE TypeInv'
  <2>1. [callback[j] EXCEPT !.stored = "processed", !.task = "acking"] \in CallbackRec
    BY <1>1 DEF CallbackRec
  <2>2. callback' \in [Jobs -> CallbackRec] /\ StoredInv'
    BY <1>1, <1>7, <2>1 DEF SetProcessed, Processed, TypeOK, CallbackRec
  <2>3. QED
    BY <1>7, <2>2 DEF SetProcessed, TypeOK, row, text, history
<1>8. ASSUME Acknowledge(j) \/ CrashCallback(j) PROVE TypeInv'
  <2>1. PICK at \in {"queued", "done"} :
            callback[j].task # "none" /\ callback' = [callback EXCEPT ![j].task = at]
    BY <1>8 DEF Acknowledge, CrashCallback, Redelivered
  <2>2. crashes' \in 0..MaxCrashes
    BY <1>8 DEF Acknowledge, CrashCallback, TypeOK
  <2>3. UNCHANGED <<row, text, playable, job, task, review, vtt, learner, history>>
    BY <1>8 DEF Acknowledge, CrashCallback
  <2>4. callback' \in [Jobs -> CallbackRec] /\ StoredInv'
    BY <1>1, <2>1 DEF TypeOK, CallbackRec
  <2>5. QED
    BY <2>2, <2>3, <2>4 DEF TypeOK, row, text, history
<1>9. QED
  BY <1>2, <1>3, <1>4, <1>5, <1>6, <1>7, <1>8 DEF CallbackStep

(* What a request to edit or move the transcript has read. *)
LEMMA ReadsType ==
    ASSUME TypeInv, NEW r \in Reviewers,
           NEW at \in {"editing", "starting", "approving", "reopening"},
           NEW c \in Cue \cup {NoCue}, Reads(r, at, c),
           at = "editing" => c \in Cue,
           at = "approving" => status = "IN_REVIEW"
    PROVE  TypeInv'
<1>1. [at |-> at, saw |-> status, cue |-> c] \in ReviewRec
  BY DEF TypeInv, TypeOK, ReviewRec
<1>2. QED
  BY <1>1 DEF Reads, TypeInv, ReviewInv, MadeInv, StoredInv, TypeOK, row, text, history

LEMMA TypeReviews ==
    ASSUME TypeInv, NEW r \in Reviewers
    PROVE  ReviewStep(r) => TypeInv'
<1>1. review[r] \in ReviewRec /\ IdleReview \in ReviewRec /\ IdleReview.at = "idle"
  BY HelperTypes DEF TypeInv, TypeOK, IdleReview
<1>2. ASSUME BeginEdit(r) PROVE TypeInv'
  BY <1>2, ReadsType DEF BeginEdit, TypeInv, TypeOK
<1>3. ASSUME BeginReview(r) \/ BeginReopen(r) PROVE TypeInv'
  BY <1>3, ReadsType DEF BeginReview, BeginReopen
<1>4. ASSUME BeginApprove(r) PROVE TypeInv'
  <2>1. status = "IN_REVIEW"
    BY <1>4 DEF BeginApprove, ALLOWED_TRANSITIONS
  <2>2. QED
    BY <1>4, <2>1, ReadsType DEF BeginApprove
<1> USE DEF TypeInv, ReviewInv, MadeInv, StoredInv
<1>5. ASSUME CommitEdit(r) PROVE TypeInv'
  <2>1. PICK c \in cues, new \in Corrections(review[r].cue) :
            cues' = (cues \ {c}) \cup {new} /\ stale' \in BOOLEAN
    BY <1>5 DEF CommitEdit, Writes, TypeOK
  <2>2. new \in Cue
    BY <1>5, <2>1 DEF CommitEdit, Corrections, Cue
  <2>3. cues' \in SUBSET Cue
    BY <2>1, <2>2 DEF TypeOK
  <2>4. version' \in 0..MaxTouches /\ status' \in Statuses /\ signed' \in BOOLEAN
    <3>1. version < MaxTouches /\ version' = version + 1
      BY <1>5 DEF CommitEdit, TouchByEdit, Touch
    <3>2. status' \in {"IN_REVIEW", status} /\ (signed' = FALSE \/ signed' = signed)
      BY <1>5 DEF CommitEdit
    <3>3. version' \in 0..MaxTouches
      BY <3>1 DEF TypeOK
    <3>4. status' \in Statuses
      BY <3>2 DEF TypeOK, Statuses
    <3>5. signed' \in BOOLEAN
      BY <3>2 DEF TypeOK
    <3>6. QED
      BY <3>3, <3>4, <3>5
  <2>5. review' \in [Reviewers -> ReviewRec] /\ ReviewInv'
    BY <1>1, <1>5 DEF CommitEdit, TypeOK
  <2>6. UNCHANGED <<jobId, err, retryCount, inserts, playable, job, task, callback,
                    vtt, learner, crashes, opened, signedFor>>
    BY <1>5 DEF CommitEdit
  <2>7. QED
    BY <2>1, <2>3, <2>4, <2>5, <2>6 DEF TypeOK
<1>6. ASSUME RefuseEdit(r) PROVE TypeInv'
  BY <1>1, <1>6 DEF RefuseEdit, TypeOK, row, text, history
<1>7. ASSUME NEW from, NEW to \in Statuses, SaveMove(r, from, to)
      PROVE  /\ version' \in 0..MaxTouches /\ status' \in Statuses /\ stale' \in BOOLEAN
             /\ review' \in [Reviewers -> ReviewRec] /\ ReviewInv'
  BY <1>1, <1>7 DEF SaveMove, Touch, Writes, TypeOK
<1>8. ASSUME SaveReview(r) PROVE TypeInv'
  <2>1. opened' \in SUBSET (1..MaxRows)
    BY <1>8 DEF SaveReview, TypeOK, Cue
  <2>2. "IN_REVIEW" \in Statuses
    BY DEF Statuses
  <2>3. QED
    BY <1>7, <1>8, <2>1, <2>2 DEF SaveReview, SaveMove, TypeOK
<1>9. ASSUME CheckWords(r) PROVE TypeInv'
  <2>1. [review[r] EXCEPT !.at = "worded"] \in ReviewRec
    BY <1>1 DEF ReviewRec
  <2>2. QED
    BY <1>1, <1>9, <2>1 DEF CheckWords, TypeOK, ReviewRec, row, text, history
<1>10. ASSUME SaveApproval(r) PROVE TypeInv'
  <2>1. "APPROVED" \in Statuses
    BY DEF Statuses
  <2>2. QED
    BY <1>7, <1>10, <2>1 DEF SaveApproval, SaveMove, TypeOK
<1>11. ASSUME SaveReopen(r) PROVE TypeInv'
  <2>1. "MACHINE" \in Statuses
    BY DEF Statuses
  <2>2. QED
    BY <1>7, <1>11, <2>1 DEF SaveReopen, SaveMove, TypeOK
<1>12. QED
  BY <1>2, <1>3, <1>4, <1>5, <1>6, <1>8, <1>9, <1>10, <1>11 DEF ReviewStep

LEMMA TypeStep == TypeInv /\ [Next]_vars => TypeInv'
<1>1. SUFFICES ASSUME TypeInv, [Next]_vars PROVE TypeInv'
  OBVIOUS
<1> USE DEF TypeInv, ReviewInv, MadeInv, StoredInv
<1>2. CASE AssetFails
  BY <1>1, <1>2 DEF AssetFails, TypeOK, row, text, history
<1>3. ASSUME NEW l \in Learners, ReadTranscript(l) PROVE TypeInv'
  BY <1>1, <1>3 DEF ReadTranscript, TypeOK, row, text, history
<1>4. ASSUME NEW l \in Learners, RenderVtt(l) PROVE TypeInv'
  <2>1. 0 \in 0..MaxTouches
    OBVIOUS
  <2>2. QED
    BY <1>1, <1>4, <2>1 DEF RenderVtt, TypeOK, row, text, history
<1>5. CASE UNCHANGED vars
  BY <1>1, <1>5 DEF TypeOK, vars, row, text, history
<1>6. QED
  BY <1>1, <1>2, <1>3, <1>4, <1>5, TypeTasks, TypeCallbacks, TypeReviews DEF Next

LEMMA TypeInvariant == Spec => []TypeInv
BY TypeInit, TypeStep, PTL DEF Spec

(* Type correctness: statuses, retry counts within the budget of           *)
(* TRANSCRIPTION_MAX_RETRIES, cues with the row numbers that were handed   *)
(* out, cached bodies that are sets of cues.                               *)
THEOREM TypeCorrect == Spec => []TypeOK
<1>1. TypeInv => TypeOK
  BY DEF TypeInv
<1>2. QED
  BY <1>1, TypeInvariant, PTL

-----------------------------------------------------------------------------
(* RowConstraints is inductive as it stands. *)
LEMMA RowStep == TypeInv /\ RowConstraints /\ [Next]_vars => RowConstraints'
<1>1. SUFFICES ASSUME TypeInv, RowConstraints, [Next]_vars PROVE RowConstraints'
  OBVIOUS
<1> USE DEF RowConstraints
<1>2. CASE UNCHANGED <<status, err, signed, cues>>
  BY <1>1, <1>2
<1>3. ASSUME NEW t \in Tasks, StartTask(t) PROVE RowConstraints'
  BY <1>1, <1>3 DEF StartTask, text
<1>4. ASSUME NEW t \in Tasks, RecordJob(t) \/ DeadLetter(t) PROVE RowConstraints'
  BY <1>1, <1>4 DEF RecordJob, DeadLetter, RecordFailure, text
<1>5. ASSUME NEW j \in Jobs, ApplyFailure(j) PROVE RowConstraints'
  BY <1>1, <1>5 DEF ApplyFailure, RecordFailure, text
<1>6. ASSUME NEW j \in Jobs, ApplyWords(j) PROVE RowConstraints'
  BY <1>1, <1>6 DEF ApplyWords, CuesReplaced, NewCues
<1>7. ASSUME NEW r \in Reviewers, CommitEdit(r) PROVE RowConstraints'
  <2>1. PICK c \in cues, new \in Corrections(review[r].cue) :
            cues' = (cues \ {c}) \cup {new}
    BY <1>7 DEF CommitEdit
  <2>2. \A d, e \in cues' : d = e
    BY <1>1, <2>1
  <2>3. \/ status' = "IN_REVIEW"
        \/ UNCHANGED <<status, signed>>
    BY <1>7 DEF CommitEdit
  <2>4. UNCHANGED err
    BY <1>7 DEF CommitEdit
  <2>5. QED
    BY <1>1, <2>2, <2>3, <2>4
<1>8. ASSUME NEW r \in Reviewers, SaveReview(r) \/ SaveApproval(r) \/ SaveReopen(r)
      PROVE  RowConstraints'
  BY <1>1, <1>8 DEF SaveReview, SaveApproval, SaveReopen, SaveMove
<1>9. QED
  BY <1>1, <1>2, <1>3, <1>4, <1>5, <1>6, <1>7, <1>8
     DEF Next, vars, row, text, AssetFails, Ask, TaskStep, Submit, RetryLater, CrashTask,
         ProviderFinishes, ReceiveCallback, CallbackStep, FindTranscript, SetProcessed,
         Acknowledge, CrashCallback, ReviewStep, BeginEdit, BeginReview, BeginApprove,
         BeginReopen, Reads, RefuseEdit, CheckWords, ReadTranscript, RenderVtt

(* The constraints of transcripts/models.py never refuse a write of the    *)
(* handlers, and the row keeps its types.                                  *)
THEOREM RowsStaySound == Spec => []RowsAreSound
<1>1. Init => RowConstraints
  BY DEF Init, RowConstraints
<1>2. TypeInv => TypeOK
  BY DEF TypeInv
<1>3. Spec => []RowConstraints
  BY <1>1, RowStep, TypeInvariant, PTL DEF Spec
<1>4. TypeInv /\ RowConstraints => RowsAreSound
  BY <1>2 DEF RowsAreSound
<1>5. QED
  BY <1>3, <1>4, TypeInvariant, PTL

-----------------------------------------------------------------------------
(* A step that leaves the row waiting leaves a message behind. *)
LEMMA WaitingStep == TypeInv /\ NoStrandedRequest /\ [Next]_vars => NoStrandedRequest'
<1>1. SUFFICES ASSUME TypeInv, NoStrandedRequest, [Next]_vars
               PROVE  NoStrandedRequest'
  OBVIOUS
<1> USE DEF NoStrandedRequest
<1>2. ASSUME NEW t \in Tasks, task'[t].at # "idle" PROVE NoStrandedRequest'
  BY <1>2
<1>3. ASSUME UNCHANGED <<status, jobId, task>>, playable' => playable
      PROVE  NoStrandedRequest'
  BY <1>1, <1>3
<1>4. ASSUME NEW t \in Tasks, Ask(t) \/ Submit(t) \/ RetryLater(t) \/ CrashTask(t)
      PROVE  NoStrandedRequest'
  <2>1. task'[t].at # "idle"
    <3>1. CASE Ask(t) \/ RetryLater(t) \/ CrashTask(t)
      BY <1>1, <3>1 DEF Ask, RetryLater, Requeued, CrashTask, RedeliveredTask, QueuedTask,
                        IdleTask, TypeInv, TypeOK
    <3>2. CASE Submit(t)
      BY <1>1, <3>2 DEF Submit, TypeInv, TypeOK, TaskRec
    <3>3. QED
      BY <1>4, <3>1, <3>2
  <2>2. QED
    BY <1>2, <2>1
<1>5. ASSUME NEW t \in Tasks, StartTask(t) PROVE NoStrandedRequest'
  <2>1. CASE playable /\ MayAsk
    <3>1. task'[t].at = "submitting"
      BY <1>1, <1>5, <2>1 DEF StartTask, TypeInv, TypeOK, TaskRec
    <3>2. QED
      BY <1>2, <3>1
  <2>2. CASE ~(playable /\ MayAsk)
    BY <1>5, <2>2 DEF StartTask, MayAsk, MayAskAgain
  <2>3. QED
    BY <2>1, <2>2
<1>6. ASSUME NEW t \in Tasks, RecordJob(t) PROVE NoStrandedRequest'
  BY <1>1, <1>6 DEF RecordJob, TypeInv, MadeInv
<1>7. ASSUME NEW t \in Tasks, DeadLetter(t) PROVE NoStrandedRequest'
  BY <1>7 DEF DeadLetter, RecordFailure
<1>8. ASSUME NEW j \in Jobs, ApplyFailure(j) \/ ApplyWords(j) PROVE NoStrandedRequest'
  BY <1>8 DEF ApplyFailure, RecordFailure, ApplyWords
<1>9. ASSUME NEW r \in Reviewers, CommitEdit(r) PROVE NoStrandedRequest'
  <2>1. status' \in {"IN_REVIEW", status} /\ UNCHANGED <<jobId, task, playable>>
    BY <1>9 DEF CommitEdit
  <2>2. QED
    BY <1>1, <2>1
<1>10. ASSUME NEW r \in Reviewers, SaveReview(r) \/ SaveApproval(r) \/ SaveReopen(r)
       PROVE  NoStrandedRequest'
  BY <1>10 DEF SaveReview, SaveApproval, SaveReopen, SaveMove
<1>11. QED
  BY <1>1, <1>3, <1>4, <1>5, <1>6, <1>7, <1>8, <1>9, <1>10
     DEF Next, vars, row, AssetFails, TaskStep, ProviderFinishes, ReceiveCallback,
         CallbackStep, FindTranscript, SetProcessed, Acknowledge, CrashCallback,
         ReviewStep, BeginEdit, BeginReview, BeginApprove, BeginReopen, Reads,
         RefuseEdit, CheckWords, ReadTranscript, RenderVtt

(* Late acknowledgement and the row read again by every message keep a     *)
(* transcript that waits for its job in somebody's hands.                  *)
THEOREM RequestsNeverStranded == Spec => []NoStrandedRequest
<1>1. Init => NoStrandedRequest
  BY DEF Init, NoStrandedRequest
<1>2. QED
  BY <1>1, WaitingStep, TypeInvariant, PTL DEF Spec

-----------------------------------------------------------------------------
(* An approval covers the words as long as nothing landed on a row that    *)
(* had moved.  Then what is in review was opened; cues come only from the  *)
(* job the row names, which heard something, so that they are never taken  *)
(* away again under a request that has found some.                         *)
OpenedInv == status \in Reviewed => \A c \in cues : c.row \in opened
HeardInv == cues # {} => jobId \in Jobs /\ job[jobId] = "heard"
WordedInv == \A r \in Reviewers : review[r].at = "worded" => cues # {}
SignedInv == status = "APPROVED" => cues = signedFor /\ cues # {}
FreshInv == OpenedInv /\ HeardInv /\ WordedInv /\ SignedInv
ApprovalInv == ~stale => FreshInv

LEMMA ApprovalTasks ==
    ASSUME TypeInv, ApprovalInv, NEW t \in Tasks
    PROVE  Ask(t) \/ TaskStep(t) \/ CrashTask(t) => ApprovalInv'
<1> USE DEF ApprovalInv, FreshInv, OpenedInv, HeardInv, WordedInv, SignedInv
<1>1. ASSUME Ask(t) \/ RetryLater(t) \/ CrashTask(t) PROVE ApprovalInv'
  BY <1>1 DEF Ask, RetryLater, CrashTask, row, text, history
<1>2. ASSUME StartTask(t) PROVE ApprovalInv'
  BY <1>2 DEF StartTask, Reviewed, text, history
<1>3. ASSUME Submit(t) PROVE ApprovalInv'
  <2>1. \A j \in Jobs : job[j] = "heard" => job'[j] = "heard"
    BY <1>3 DEF Submit, TypeInv, TypeOK
  <2>2. UNCHANGED <<row, text, review, history>>
    BY <1>3 DEF Submit
  <2>3. QED
    BY <2>1, <2>2 DEF row, text, history
<1>4. ASSUME RecordJob(t), ~stale' PROVE FreshInv'
  <2>1. jobId = NoJob /\ ~stale
    BY <1>4 DEF RecordJob, Writes, MayAsk, TypeInv, TypeOK
  <2>2. cues = {}
    BY <2>1
  <2>3. status' = "PENDING" /\ UNCHANGED <<cues, review>>
    BY <1>4 DEF RecordJob, text
  <2>4. QED
    BY <2>1, <2>2, <2>3 DEF Reviewed
<1>5. ASSUME DeadLetter(t), ~stale' PROVE FreshInv'
  <2>1. ~stale
    BY <1>5 DEF DeadLetter, Writes, TypeInv, TypeOK
  <2>2. status' = "FAILED" /\ UNCHANGED <<jobId, job, text, review>>
    BY <1>5 DEF DeadLetter, RecordFailure
  <2>3. QED
    BY <2>1, <2>2 DEF Reviewed, text
<1>6. QED
  BY <1>1, <1>2, <1>3, <1>4, <1>5 DEF TaskStep

LEMMA ApprovalCallbacks ==
    ASSUME TypeInv, ApprovalInv, NEW j \in Jobs
    PROVE  ProviderFinishes(j) \/ ReceiveCallback(j) \/ CallbackStep(j)
             \/ CrashCallback(j) => ApprovalInv'
<1> USE DEF ApprovalInv, FreshInv, OpenedInv, HeardInv, WordedInv, SignedInv
<1>1. ASSUME UNCHANGED <<row, text, review, history>>,
             \A i \in Jobs : job[i] = "heard" => job'[i] = "heard"
      PROVE  ApprovalInv'
  BY <1>1 DEF row, text, history
<1>2. ASSUME ProviderFinishes(j) PROVE ApprovalInv'
  <2>1. \A i \in Jobs : job[i] = "heard" => job'[i] = "heard"
    BY <1>2 DEF ProviderFinishes, TypeInv, TypeOK
  <2>2. QED
    BY <1>1, <1>2, <2>1 DEF ProviderFinishes
<1>3. ASSUME ApplyFailure(j), ~stale' PROVE FreshInv'
  <2>1. ~stale
    BY <1>3 DEF ApplyFailure, Writes, TypeInv, TypeOK
  <2>2. status' = "FAILED" /\ UNCHANGED <<jobId, job, text, review>>
    BY <1>3 DEF ApplyFailure, RecordFailure
  <2>3. QED
    BY <2>1, <2>2 DEF Reviewed, text
<1>4. ASSUME ApplyWords(j), ~stale' PROVE FreshInv'
  <2>1. ~stale /\ jobId = j
    BY <1>4 DEF ApplyWords, Writes, TypeInv, TypeOK
  <2>2. status' = "MACHINE" /\ UNCHANGED <<jobId, job, review>> /\ cues' = NewCues(j)
    BY <1>4 DEF ApplyWords, CuesReplaced
  <2>3. /\ job[j] = "heard" <=> cues' # {}
    BY <2>2 DEF NewCues
  <2>4. cues # {} => cues' # {}
    BY <2>1, <2>3
  <2>5. QED
    BY <2>1, <2>2, <2>3, <2>4 DEF Reviewed
<1>5. QED
  BY <1>1, <1>2, <1>3, <1>4
     DEF ReceiveCallback, CallbackStep, FindTranscript, SetProcessed, Acknowledge,
         CrashCallback

LEMMA ApprovalReviews ==
    ASSUME TypeInv, ApprovalInv, NEW r \in Reviewers
    PROVE  ReviewStep(r) => ApprovalInv'
<1> USE DEF ApprovalInv, FreshInv, OpenedInv, HeardInv, WordedInv, SignedInv
<1>1. ASSUME UNCHANGED <<row, text, job, history>>,
             \A q \in Reviewers : review'[q].at = "worded" =>
                 review[q].at = "worded" \/ cues # {}
      PROVE  ApprovalInv'
  BY <1>1 DEF row, text, history
<1>2. ASSUME BeginEdit(r) \/ BeginReview(r) \/ BeginApprove(r) \/ BeginReopen(r)
      PROVE  ApprovalInv'
  <2>1. PICK at \in {"editing", "starting", "approving", "reopening"},
             c \in cues \cup {NoCue} : Reads(r, at, c)
    BY <1>2 DEF BeginEdit, BeginReview, BeginApprove, BeginReopen
  <2>2. QED
    BY <1>1, <2>1 DEF Reads, TypeInv, TypeOK
<1>3. ASSUME RefuseEdit(r) \/ CheckWords(r) PROVE ApprovalInv'
  <2>1. IdleReview.at # "worded"
    BY DEF IdleReview
  <2>2. \A q \in Reviewers : review'[q].at = "worded" =>
            review[q].at = "worded" \/ cues # {}
    BY <1>3, <2>1 DEF RefuseEdit, CheckWords, HasWords, TypeInv, TypeOK
  <2>3. QED
    BY <1>1, <1>3, <2>2 DEF RefuseEdit, CheckWords
<1>4. ASSUME review' = [review EXCEPT ![r] = IdleReview]
      PROVE  \A q \in Reviewers : review'[q].at = "worded" => review[q].at = "worded"
  BY <1>4 DEF IdleReview, TypeInv, TypeOK
<1>5. ASSUME CommitEdit(r), ~stale' PROVE FreshInv'
  <2>1. PICK c \in cues, new \in Corrections(review[r].cue) :
            c.row = new.row /\ cues' = (cues \ {c}) \cup {new}
            /\ Writes(c = review[r].cue /\ status = review[r].saw)
    BY <1>5 DEF CommitEdit
  <2>2. ~stale /\ status = review[r].saw
    BY <1>5, <2>1 DEF Writes, TypeInv, TypeOK
  <2>3. IF status = "APPROVED" THEN status' = "IN_REVIEW" ELSE status' = status
    BY <1>5, <2>2 DEF CommitEdit
  <2>4. UNCHANGED <<jobId, job, opened>> /\ review' = [review EXCEPT ![r] = IdleReview]
    BY <1>5 DEF CommitEdit
  <2>5. cues # {} /\ cues' # {} /\ (\A d \in cues' : \E e \in cues : d.row = e.row)
    BY <2>1
  <2>6. OpenedInv'
    BY <2>2, <2>3, <2>4, <2>5 DEF Reviewed
  <2>7. status' # "APPROVED"
    BY <2>3
  <2>8. QED
    BY <1>4, <2>2, <2>4, <2>5, <2>6, <2>7
<1>6. ASSUME NEW from, NEW to, SaveMove(r, from, to), ~stale'
      PROVE  /\ ~stale /\ status = review[r].saw /\ status' = to
             /\ HeardInv' /\ WordedInv' /\ UNCHANGED cues
  <2>1. ~stale /\ status = review[r].saw
    BY <1>6 DEF SaveMove, Writes, TypeInv, TypeOK
  <2>2. status' = to /\ UNCHANGED <<jobId, job, cues>>
        /\ review' = [review EXCEPT ![r] = IdleReview]
    BY <1>6 DEF SaveMove
  <2>3. QED
    BY <1>4, <2>1, <2>2
<1>7. ASSUME SaveReview(r), ~stale' PROVE FreshInv'
  BY <1>6, <1>7 DEF SaveReview
<1>8. ASSUME SaveApproval(r), ~stale' PROVE FreshInv'
  <2>1. review[r].at = "worded" /\ SaveMove(r, "worded", "APPROVED")
        /\ signedFor' = cues /\ UNCHANGED opened
    BY <1>8 DEF SaveApproval, SaveMove
  <2>2. /\ ~stale /\ status = review[r].saw /\ status' = "APPROVED"
        /\ HeardInv' /\ WordedInv' /\ UNCHANGED cues
    BY <1>6, <1>8, <2>1
  <2>3. status = "IN_REVIEW"
    BY <2>1, <2>2 DEF TypeInv, ReviewInv
  <2>4. QED
    BY <2>1, <2>2, <2>3 DEF Reviewed
<1>9. ASSUME SaveReopen(r), ~stale' PROVE FreshInv'
  BY <1>6, <1>9 DEF SaveReopen, Reviewed
<1>10. QED
  BY <1>2, <1>3, <1>5, <1>7, <1>8, <1>9 DEF ReviewStep

LEMMA ApprovalStep == TypeInv /\ ApprovalInv /\ [Next]_vars => ApprovalInv'
<1>1. SUFFICES ASSUME TypeInv, ApprovalInv, [Next]_vars PROVE ApprovalInv'
  OBVIOUS
<1>2. ASSUME UNCHANGED <<row, text, job, review, history>> PROVE ApprovalInv'
  BY <1>1, <1>2 DEF ApprovalInv, FreshInv, OpenedInv, HeardInv, WordedInv, SignedInv,
                    row, text, history
<1>3. QED
  BY <1>1, <1>2, ApprovalTasks, ApprovalCallbacks, ApprovalReviews
     DEF Next, vars, AssetFails, ReadTranscript, RenderVtt

(* As long as no write of approve, edit_segment or a callback landed on a  *)
(* row that had moved, what learners read was opened and signed for.       *)
THEOREM ApprovedWordsWereOpened == Spec => []ApprovalCoversTheWords
<1>1. Init => ApprovalInv
  BY DEF Init, ApprovalInv, FreshInv, OpenedInv, HeardInv, WordedInv, SignedInv,
         Reviewed, IdleReview
<1>2. ApprovalInv => ApprovalCoversTheWords
  BY DEF ApprovalInv, FreshInv, OpenedInv, SignedInv, Reviewed, ApprovalCoversTheWords
<1>3. QED
  BY <1>1, <1>2, ApprovalStep, TypeInvariant, PTL DEF Spec

-----------------------------------------------------------------------------
(* Nothing is cached, or about to be, under a version still to come.       *)
CacheInv ==
    /\ \A v \in 0..MaxTouches : v > version => vtt[v] = NoCue
    /\ \A l \in Learners : learner[l] <= version
    /\ CachedWordsAreCurrent

(* Whatever touches the row starts with an empty cache. *)
LEMMA TouchIsFresh ==
    ASSUME TypeInv, CacheInv, Touch, UNCHANGED <<vtt, learner>>
    PROVE  CacheInv'
<1>1. version \in Nat /\ version' = version + 1 /\ version' \in 0..MaxTouches
  BY DEF Touch, TypeInv, TypeOK
<1>2. vtt'[version'] = NoCue
  BY <1>1 DEF CacheInv
<1>3. \A l \in Learners : learner[l] \in Nat
  BY DEF TypeInv, TypeOK
<1>4. \A v \in 0..MaxTouches : v > version' => v > version
  BY <1>1
<1>5. \A l \in Learners : learner'[l] <= version'
  BY <1>1, <1>3 DEF CacheInv
<1>6. QED
  BY <1>2, <1>4, <1>5 DEF CacheInv, CachedWordsAreCurrent

LEMMA CacheStep == TypeInv /\ CacheInv /\ [Next]_vars => CacheInv'
<1>1. SUFFICES ASSUME TypeInv, CacheInv, [Next]_vars PROVE CacheInv'
  OBVIOUS
<1>2. ASSUME UNCHANGED <<version, vtt, learner>>,
             status' # "APPROVED" \/ UNCHANGED <<status, cues>>
      PROVE  CacheInv'
  BY <1>1, <1>2 DEF CacheInv, CachedWordsAreCurrent
<1>3. ASSUME NEW t \in Tasks, StartTask(t) PROVE CacheInv'
  BY <1>2, <1>3 DEF StartTask, text
<1>4. ASSUME NEW t \in Tasks, RecordJob(t) \/ DeadLetter(t) PROVE CacheInv'
  BY <1>2, <1>4 DEF RecordJob, DeadLetter, RecordFailure, text
<1>5. ASSUME NEW j \in Jobs, ApplyFailure(j) \/ ApplyWords(j) PROVE CacheInv'
  BY <1>2, <1>5 DEF ApplyFailure, RecordFailure, ApplyWords, text
<1>6. ASSUME NEW r \in Reviewers,
             CommitEdit(r) \/ SaveReview(r) \/ SaveApproval(r) \/ SaveReopen(r)
      PROVE  CacheInv'
  <2>1. Touch /\ UNCHANGED <<vtt, learner>>
    BY <1>6 DEF CommitEdit, TouchByEdit, SaveReview, SaveApproval, SaveReopen, SaveMove
  <2>2. QED
    BY <1>1, <2>1, TouchIsFresh
<1>7. ASSUME NEW l \in Learners, ReadTranscript(l) PROVE CacheInv'
  <2>1. version \in Nat /\ version <= version
    BY <1>1 DEF TypeInv, TypeOK
  <2>2. \A k \in Learners : learner'[k] <= version
    BY <1>1, <1>7, <2>1 DEF ReadTranscript, CacheInv, TypeInv, TypeOK
  <2>3. UNCHANGED <<status, cues, version, vtt>>
    BY <1>7 DEF ReadTranscript, row, text
  <2>4. QED
    BY <1>1, <2>2, <2>3 DEF CacheInv, CachedWordsAreCurrent
<1>8. ASSUME NEW l \in Learners, RenderVtt(l) PROVE CacheInv'
  <2>1. learner[l] \in 0..MaxTouches /\ learner[l] <= version /\ version \in 0..MaxTouches
    BY <1>1 DEF CacheInv, TypeInv, TypeOK
  <2>2. UNCHANGED <<status, cues, version>>
        /\ learner' = [learner EXCEPT ![l] = 0]
        /\ vtt' = [vtt EXCEPT ![learner[l]] = IF @ = NoCue THEN cues ELSE @]
    BY <1>8 DEF RenderVtt, row, text
  <2>3. \A v \in 0..MaxTouches : v # learner[l] => vtt'[v] = vtt[v]
    BY <1>1, <2>2 DEF TypeInv, TypeOK
  <2>4. vtt'[learner[l]] \in {cues, vtt[learner[l]]} /\
        (vtt[learner[l]] = NoCue => vtt'[learner[l]] = cues)
    BY <1>1, <2>1, <2>2 DEF TypeInv, TypeOK
  <2>5. \A v \in 0..MaxTouches : v > version => vtt'[v] = NoCue
    BY <1>1, <2>1, <2>3 DEF CacheInv
  <2>6. \A k \in Learners : learner'[k] <= version
    BY <1>1, <2>1, <2>2 DEF CacheInv, TypeInv, TypeOK
  <2>7. CachedWordsAreCurrent'
    BY <1>1, <2>1, <2>2, <2>3, <2>4 DEF CacheInv, CachedWordsAreCurrent
  <2>8. QED
    BY <2>2, <2>5, <2>6, <2>7 DEF CacheInv
<1>9. QED
  BY <1>1, <1>2, <1>3, <1>4, <1>5, <1>6, <1>7, <1>8
     DEF Next, vars, row, text, AssetFails, Ask, TaskStep, Submit, RetryLater, CrashTask,
         ProviderFinishes, ReceiveCallback, CallbackStep, FindTranscript, SetProcessed,
         Acknowledge, CrashCallback, ReviewStep, BeginEdit, BeginReview, BeginApprove,
         BeginReopen, Reads, RefuseEdit, CheckWords

(* The version in the cache key is all the invalidation there is, and it   *)
(* is enough: a learner who reads row and cues by two queries never leaves *)
(* old words behind for the next one.                                      *)
THEOREM CacheIsCurrent == Spec => []CachedWordsAreCurrent
<1>1. Init => CacheInv
  BY DEF Init, CacheInv, CachedWordsAreCurrent
<1>2. CacheInv => CachedWordsAreCurrent
  BY DEF CacheInv
<1>3. QED
  BY <1>1, <1>2, CacheStep, TypeInvariant, PTL DEF Spec

-----------------------------------------------------------------------------
(* The unique event id keeps a callback whose task has ended from running  *)
(* again, however often the provider delivers it.                          *)
THEOREM CallbacksRunOnce == Spec => SettledCallbacksAreInert
<1>1. ASSUME TypeInv, [Next]_vars, NEW j \in Jobs, callback[j].task = "done"
      PROVE  callback'[j] = callback[j]
  <2>1. callback[j].stored # "no"
    BY <1>1 DEF TypeInv, StoredInv
  <2>2. ASSUME NEW i \in Jobs,
               ReceiveCallback(i) \/ CallbackStep(i) \/ CrashCallback(i)
        PROVE  callback'[j] = callback[j]
    <3>1. i # j
      BY <1>1, <2>1, <2>2
         DEF ReceiveCallback, FirstCallback, CallbackStep, FindTranscript, ApplyFailure,
             ApplyWords, SetProcessed, Acknowledge, CrashCallback
    <3>2. \A k \in Jobs : k # i => callback'[k] = callback[k]
      BY <1>1, <2>2
         DEF ReceiveCallback, CallbackStep, FindTranscript, ApplyFailure, ApplyWords,
             SetProcessed, Acknowledge, CrashCallback, TypeInv, TypeOK
    <3>3. QED
      BY <3>1, <3>2
  <2>3. QED
    BY <1>1, <2>2
       DEF Next, vars, AssetFails, Ask, TaskStep, StartTask, Submit, RecordJob, DeadLetter,
           RetryLater, CrashTask, ProviderFinishes, ReviewStep, BeginEdit, CommitEdit,
           RefuseEdit, BeginReview, SaveReview, BeginApprove, CheckWords, SaveApproval,
           BeginReopen, SaveReopen, Reads, SaveMove, ReadTranscript, RenderVtt
<1>2. TypeInv /\ [Next]_vars
        => [\A j \in Jobs : callback[j].task = "done" => callback'[j] = callback[j]]_vars
  BY <1>1
<1>3. QED
  BY <1>2, TypeInvariant, PTL DEF Spec, SettledCallbacksAreInert
=============================================================================
