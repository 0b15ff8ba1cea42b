-------------------------- MODULE TranscriptReview --------------------------
(***************************************************************************)
(* One lesson's transcript, from the request for a machine transcription   *)
(* to the subtitles a learner reads: apps/transcripts tasks.py,            *)
(* webhooks.py, services.py and the VTT view, around one Transcript row    *)
(* (a lesson has one media asset and one target language) and its cues.    *)
(*                                                                         *)
(* No writer locks the row.  A handler is cut after it reads the row,      *)
(* after it calls the provider and after each transaction; the updates of  *)
(* one transaction become visible together.                                *)
(*                                                                         *)
(* Abstracted: a transcription is at most one cue, whose words and timing  *)
(* together are one of two texts; row numbers the insertion that made a    *)
(* cue, standing for its primary key.  updated_at is a counter, for only   *)
(* whether two readings are equal matters.  Who may review is left out.    *)
(***************************************************************************)
EXTENDS Naturals

CONSTANTS
    Jobs,        \* jobs the transcription provider may create
    Tasks,       \* request_transcription messages in flight at once
    Reviewers,   \* requests to edit or move the transcript in flight at once
    Learners,    \* requests for the subtitles in flight at once
    MaxRetries,  \* TRANSCRIPTION_MAX_RETRIES
    MaxCrashes,  \* bound: workers that die between two steps
    MaxRows,     \* bound: times a callback inserts cues
    MaxTouches,  \* bound: times updated_at moves
    NoJob, NoCue

ASSUME ConstantsAssumption ==
    /\ NoJob \notin Jobs
    /\ MaxRetries \in Nat /\ MaxCrashes \in Nat
    /\ MaxRows \in Nat /\ MaxTouches \in Nat

VARIABLES
    \* The Transcript row; status "NONE" before get_or_create.
    status, jobId, err, retryCount, signed, version,
    cues,     \* its TranscriptSegment rows
    playable, \* the media asset is READY
    job,      \* the provider's jobs: what each heard
    task,     \* request_transcription messages and the task running each
    callback, \* WebhookEvent rows and the apply_transcription_callback tasks
    review,   \* reviewers' requests between their read and their save
    vtt,      \* the cache, by version
    learner,  \* learners' requests between reading the row and the cues
    inserts,  \* how many times cues were inserted: the last row number
    crashes,
    \* History: cues opened for review and cues an approval was given to;
    \* whether some write landed on a row that had moved since it was read.
    opened, signedFor, stale

row == <<status, jobId, err, retryCount, signed>>
text == <<cues, inserts, version>>
history == <<opened, signedFor, stale>>
vars == <<row, text, playable, job, task, callback, review, vtt, learner,
          crashes, history>>

Statuses == {"NONE", "PENDING", "MACHINE", "IN_REVIEW", "APPROVED", "FAILED"}
Reviewed == {"IN_REVIEW", "APPROVED"}
Editable == {"MACHINE"} \cup Reviewed
Texts == {"heard", "corrected"}

ALLOWED_TRANSITIONS ==
    {<<"MACHINE", "IN_REVIEW">>, <<"IN_REVIEW", "APPROVED">>,
     <<"IN_REVIEW", "MACHINE">>, <<"APPROVED", "IN_REVIEW">>}

Cue == [row: 1..MaxRows, text: Texts, isEdited: BOOLEAN]
TaskRec ==
    [at: {"idle", "queued", "submitting", "submitted", "refused", "raised"},
     retries: 0..MaxRetries, made: Jobs \cup {NoJob}]
CallbackRec ==
    [stored: {"no", "unprocessed", "processed"},
     task: {"none", "queued", "found", "applied", "acking", "done"},
     unknown: BOOLEAN]
ReviewRec ==
    [at: {"idle", "editing", "starting", "approving", "worded", "reopening"},
     saw: Statuses, cue: Cue \cup {NoCue}]

TypeOK ==
    /\ status \in Statuses
    /\ jobId \in Jobs \cup {NoJob}
    /\ err \in BOOLEAN /\ signed \in BOOLEAN
    /\ retryCount \in 0..MaxRetries
    /\ version \in 0..MaxTouches /\ inserts \in 0..MaxRows
    /\ cues \in SUBSET Cue
    /\ playable \in BOOLEAN
    /\ job \in [Jobs -> {"none", "running", "heard", "silent", "failed"}]
    /\ task \in [Tasks -> TaskRec]
    /\ callback \in [Jobs -> CallbackRec]
    /\ review \in [Reviewers -> ReviewRec]
    /\ vtt \in [0..MaxTouches -> (SUBSET Cue) \cup {NoCue}]
    /\ learner \in [Learners -> 0..MaxTouches]
    /\ crashes \in 0..MaxCrashes
    /\ opened \in SUBSET (1..MaxRows)
    /\ signedFor \in SUBSET Cue
    /\ stale \in BOOLEAN

IdleTask == [at |-> "idle", retries |-> 0, made |-> NoJob]
QueuedTask(n) == [IdleTask EXCEPT !.at = "queued", !.retries = n]
NewCallback == [stored |-> "no", task |-> "none", unknown |-> FALSE]
IdleReview == [at |-> "idle", saw |-> "NONE", cue |-> NoCue]

(* CELERY_TASK_ACKS_LATE: what becomes of a dead worker's message. *)
LostTask(n) == IdleTask
RedeliveredTask(n) == QueuedTask(n)
AckedEarly == "done"
Redelivered == "queued"

Init ==
    /\ status = "NONE" /\ jobId = NoJob /\ err = FALSE /\ retryCount = 0
    /\ signed = FALSE /\ version = 0 /\ inserts = 0
    /\ cues = {}
    /\ playable = TRUE
    /\ job = [j \in Jobs |-> "none"]
    /\ task = [t \in Tasks |-> IdleTask]
    /\ callback = [j \in Jobs |-> NewCallback]
    /\ review = [r \in Reviewers |-> IdleReview]
    /\ vtt = [v \in 0..MaxTouches |-> NoCue]
    /\ learner = [l \in Learners |-> 0]
    /\ crashes = 0
    /\ opened = {} /\ signedFor = {} /\ stale = FALSE

(* A save or update that sets updated_at. *)
Touch ==
    /\ version < MaxTouches
    /\ version' = version + 1

(* What an edit does to it.  Without that, the subtitles stay as cached.   *)
TouchForgotten == version' = version
TouchByEdit == Touch

Writes(holds) == stale' = (stale \/ ~holds)

-----------------------------------------------------------------------------
(* apply_media_webhook asks once for every READY event it applies, and     *)
(* again when it is redelivered.                                           *)
Ask(t) ==
    /\ task[t].at = "idle"
    /\ playable
    /\ task' = [task EXCEPT ![t] = QueuedTask(0)]
    /\ UNCHANGED <<row, text, playable, job, callback, review, vtt, learner,
                   crashes, history>>

(* An ERRORED event may reach an asset that was READY. *)
AssetFails ==
    /\ playable
    /\ playable' = FALSE
    /\ UNCHANGED <<row, text, job, task, callback, review, vtt, learner,
                   crashes, history>>

(* Neither submitted nor answered yet. *)
MayAskAgain == status \in {"NONE", "PENDING", "FAILED"}
MayAsk == jobId = NoJob /\ MayAskAgain

(* request_transcription: the READY check, get_or_create, the two guards. *)
StartTask(t) ==
    /\ task[t].at = "queued"
    /\ task' = [task EXCEPT ![t] =
                  IF playable /\ MayAsk THEN [@ EXCEPT !.at = "submitting"]
                                        ELSE IdleTask]
    /\ status' = IF playable /\ status = "NONE" THEN "PENDING" ELSE status
    /\ UNCHANGED <<jobId, err, retryCount, signed, text, playable, job,
                   callback, review, vtt, learner, crashes, history>>

(* submit: accepted, refused, or raised - perhaps after the provider had   *)
(* accepted the job.                                                       *)
Submit(t) ==
    /\ task[t].at = "submitting"
    /\ \/ \E j \in Jobs :
            /\ job[j] = "none"
            /\ job' = [job EXCEPT ![j] = "running"]
            /\ \/ task' = [task EXCEPT ![t].at = "submitted", ![t].made = j]
               \/ task' = [task EXCEPT ![t].at = "raised"]
       \/ /\ \E outcome \in {"refused", "raised"} :
                task' = [task EXCEPT ![t].at = outcome]
          /\ UNCHANGED job
    /\ UNCHANGED <<row, text, playable, callback, review, vtt, learner,
                   crashes, history>>

(* The job id is recorded, by primary key, over whatever the row is now. *)
RecordJob(t) ==
    /\ task[t].at = "submitted"
    /\ jobId' = task[t].made
    /\ status' = "PENDING"
    /\ err' = FALSE
    /\ Writes(MayAsk)
    /\ task' = [task EXCEPT ![t] = IdleTask]
    /\ UNCHANGED <<retryCount, signed, text, playable, job, callback, review,
                   vtt, learner, crashes, opened, signedFor>>

(* _record_failure: the dead-letter queue. *)
RecordFailure(attempts) ==
    status' = "FAILED" /\ retryCount' = attempts /\ err' = TRUE

PastBudget(t) == task[t].retries + 1 > MaxRetries

DeadLetter(t) ==
    /\ \/ task[t].at = "refused"
       \/ task[t].at = "raised" /\ PastBudget(t)
    /\ RecordFailure(task[t].retries)
    /\ Writes(MayAsk)
    /\ task' = [task EXCEPT ![t] = IdleTask]
    /\ UNCHANGED <<jobId, signed, text, playable, job, callback, review, vtt,
                   learner, crashes, opened, signedFor>>

Requeued(attempts) == QueuedTask(attempts)
RetryLater(t) ==
    /\ task[t].at = "raised" /\ ~PastBudget(t)
    /\ retryCount' = task[t].retries + 1
    /\ task' = [task EXCEPT ![t] = Requeued(task[t].retries + 1)]
    /\ UNCHANGED <<status, jobId, err, signed, text, playable, job, callback,
                   review, vtt, learner, crashes, history>>

-----------------------------------------------------------------------------
(* The provider hears words, hears nothing, or fails. *)
ProviderFinishes(j) ==
    /\ job[j] = "running"
    /\ \E result \in {"heard", "silent", "failed"} :
        job' = [job EXCEPT ![j] = result]
    /\ UNCHANGED <<row, text, playable, task, callback, review, vtt, learner,
                   crashes, history>>

(* The receiver: one event per job id; a redelivery changes nothing. *)
FirstCallbackUnchecked(j) == callback[j].task \in {"none", "done"}
FirstCallback(j) == callback[j].stored = "no"
ReceiveCallback(j) ==
    /\ job[j] \in {"heard", "silent", "failed"}
    /\ FirstCallback(j)
    /\ callback' = [callback EXCEPT ![j].stored = "unprocessed",
                                    ![j].task = "queued"]
    /\ UNCHANGED <<row, text, playable, job, task, review, vtt, learner,
                   crashes, history>>

(* The refusal of apply_transcription_callback, on the row it looked up. *)
RefusesReviewed == status \in Reviewed

(* An unknown job and a reviewed transcript are both marked processed.     *)
FindTranscript(j) ==
    /\ callback[j].task = "queued"
    /\ callback' = [callback EXCEPT
          ![j].task = IF jobId = j /\ ~RefusesReviewed THEN "found" ELSE "applied",
          ![j].unknown = (jobId # j)]
    /\ UNCHANGED <<row, text, playable, job, task, review, vtt, learner,
                   crashes, history>>

ApplyFailure(j) ==
    /\ callback[j].task = "found" /\ job[j] = "failed"
    /\ RecordFailure(0)
    /\ Writes(status \notin Reviewed /\ jobId = j)
    /\ callback' = [callback EXCEPT ![j].task = "applied"]
    /\ UNCHANGED <<jobId, signed, text, playable, job, task, review, vtt,
                   learner, crashes, opened, signedFor>>

NewCues(j) ==
    IF job[j] = "heard"
    THEN {[row |-> inserts + 1, text |-> "heard", isEdited |-> FALSE]}
    ELSE {}
CuesAppended(j) == cues \cup NewCues(j)
CuesReplaced(j) == NewCues(j)

(* delete, bulk_create and the status, in one transaction. *)
ApplyWords(j) ==
    /\ callback[j].task = "found" /\ job[j] # "failed"
    /\ inserts < MaxRows
    /\ cues' = CuesReplaced(j)
    /\ inserts' = inserts + 1
    /\ status' = "MACHINE"
    /\ err' = FALSE
    /\ Writes(status \notin Reviewed /\ jobId = j)
    /\ callback' = [callback EXCEPT ![j].task = "applied"]
    /\ UNCHANGED <<jobId, retryCount, signed, version, playable, job, task,
                   review, vtt, learner, crashes, opened, signedFor>>

Processed(j) == "processed"
SetProcessed(j) ==
    /\ callback[j].task = "applied"
    /\ callback' = [callback EXCEPT ![j].stored = Processed(j),
                                    ![j].task = "acking"]
    /\ UNCHANGED <<row, text, playable, job, task, review, vtt, learner,
                   crashes, history>>

Acknowledge(j) ==
    /\ callback[j].task = "acking"
    /\ callback' = [callback EXCEPT ![j].task = "done"]
    /\ UNCHANGED <<row, text, playable, job, task, review, vtt, learner,
                   crashes, history>>

-----------------------------------------------------------------------------
(* A reviewer's request reads the row and finds the move legal. *)
Reads(r, at, c) ==
    /\ review[r].at = "idle"
    /\ review' = [review EXCEPT ![r] = [at |-> at, saw |-> status, cue |-> c]]
    /\ UNCHANGED <<row, text, playable, job, task, callback, vtt, learner,
                   crashes, history>>

BeginEdit(r) == status \in Editable /\ \E c \in cues : Reads(r, "editing", c)
BeginReview(r) ==
    <<status, "IN_REVIEW">> \in ALLOWED_TRANSITIONS /\ Reads(r, "starting", NoCue)
BeginApproveAnything(r) == status \in Editable /\ Reads(r, "approving", NoCue)
BeginApprove(r) ==
    <<status, "APPROVED">> \in ALLOWED_TRANSITIONS /\ Reads(r, "approving", NoCue)
BeginReopen(r) ==
    <<status, "MACHINE">> \in ALLOWED_TRANSITIONS /\ Reads(r, "reopening", NoCue)

(* A correction of what was read: other words, and is_edited for good.     *)
Corrections(c) ==
    {[c EXCEPT !.isEdited = TRUE, !.text = t] : t \in Texts \ {c.text}}

(* save(update_fields) of a cue a callback has deleted raises; otherwise   *)
(* all fields are written as merged with what was read.  An edit     *)
(* that read APPROVED also withdraws the approval (_return_to_review).     *)
CommitEdit(r) ==
    /\ review[r].at = "editing"
    /\ \E c \in cues, new \in Corrections(review[r].cue) :
        /\ c.row = new.row
        /\ cues' = (cues \ {c}) \cup {new}
        /\ Writes(c = review[r].cue /\ status = review[r].saw)
    /\ TouchByEdit
    /\ IF review[r].saw = "APPROVED"
       THEN status' = "IN_REVIEW" /\ signed' = FALSE
       ELSE UNCHANGED <<status, signed>>
    /\ review' = [review EXCEPT ![r] = IdleReview]
    /\ UNCHANGED <<jobId, err, retryCount, inserts, playable, job, task,
                   callback, vtt, learner, crashes, opened, signedFor>>

RefuseEdit(r) ==
    /\ review[r].at = "editing"
    /\ \A c \in cues : c.row # review[r].cue.row
    /\ review' = [review EXCEPT ![r] = IdleReview]
    /\ UNCHANGED <<row, text, playable, job, task, callback, vtt, learner,
                   crashes, history>>

(* start_review, approve and reopen save their own fields over the row. *)
SaveMove(r, from, to) ==
    /\ review[r].at = from
    /\ status' = to
    /\ Touch
    /\ Writes(status = review[r].saw)
    /\ review' = [review EXCEPT ![r] = IdleReview]
    /\ UNCHANGED <<jobId, err, retryCount, cues, inserts, playable, job, task,
                   callback, vtt, learner, crashes>>

SaveReview(r) ==
    /\ SaveMove(r, "starting", "IN_REVIEW")
    /\ opened' = {c.row : c \in cues}
    /\ UNCHANGED <<signed, signedFor>>

(* approve: there must be something to approve. *)
HasWords == cues # {}
CheckWords(r) ==
    /\ review[r].at = "approving"
    /\ review' = [review EXCEPT ![r] = IF HasWords THEN [@ EXCEPT !.at = "worded"]
                                                   ELSE IdleReview]
    /\ UNCHANGED <<row, text, playable, job, task, callback, vtt, learner,
                   crashes, history>>

SaveApproval(r) ==
    /\ SaveMove(r, "worded", "APPROVED")
    /\ signed' = TRUE
    /\ signedFor' = cues
    /\ UNCHANGED opened

SaveReopen(r) ==
    /\ SaveMove(r, "reopening", "MACHINE")
    /\ UNCHANGED <<signed, opened, signedFor>>

-----------------------------------------------------------------------------
(* LessonTranscriptView: the row under the APPROVED filter; then, in a     *)
(* query of its own, the cues, rendered and cached under the row's version *)
(* unless that version is cached already.                                  *)
Servable == status = "APPROVED"
ReadTranscript(l) ==
    /\ learner[l] = 0
    /\ Servable /\ vtt[version] = NoCue
    /\ learner' = [learner EXCEPT ![l] = version]
    /\ UNCHANGED <<row, text, playable, job, task, callback, review, vtt,
                   crashes, history>>

RenderVtt(l) ==
    /\ learner[l] # 0
    /\ vtt' = [vtt EXCEPT ![learner[l]] = IF @ = NoCue THEN cues ELSE @]
    /\ learner' = [learner EXCEPT ![l] = 0]
    /\ UNCHANGED <<row, text, playable, job, task, callback, review, crashes,
                   history>>

-----------------------------------------------------------------------------
(* A worker dies; the message comes back. *)
CrashTask(t) ==
    /\ crashes < MaxCrashes
    /\ task[t].at \in {"submitting", "submitted", "refused", "raised"}
    /\ task' = [task EXCEPT ![t] = RedeliveredTask(@.retries)]
    /\ crashes' = crashes + 1
    /\ UNCHANGED <<row, text, playable, job, callback, review, vtt, learner,
                   history>>

CrashCallback(j) ==
    /\ crashes < MaxCrashes
    /\ callback[j].task \in {"found", "applied", "acking"}
    /\ callback' = [callback EXCEPT ![j].task = Redelivered]
    /\ crashes' = crashes + 1
    /\ UNCHANGED <<row, text, playable, job, task, review, vtt, learner,
                   history>>

-----------------------------------------------------------------------------
TaskStep(t) ==
    StartTask(t) \/ Submit(t) \/ RecordJob(t) \/ DeadLetter(t) \/ RetryLater(t)
CallbackStep(j) ==
    FindTranscript(j) \/ ApplyFailure(j) \/ ApplyWords(j) \/ SetProcessed(j)
        \/ Acknowledge(j)
ReviewStep(r) ==
    BeginEdit(r) \/ CommitEdit(r) \/ RefuseEdit(r) \/ BeginReview(r)
        \/ SaveReview(r) \/ BeginApprove(r) \/ CheckWords(r) \/ SaveApproval(r)
        \/ BeginReopen(r) \/ SaveReopen(r)

Next ==
    \/ AssetFails
    \/ \E t \in Tasks : Ask(t) \/ TaskStep(t) \/ CrashTask(t)
    \/ \E j \in Jobs :
          ProviderFinishes(j) \/ ReceiveCallback(j) \/ CallbackStep(j)
            \/ CrashCallback(j)
    \/ \E r \in Reviewers : ReviewStep(r)
    \/ \E l \in Learners : ReadTranscript(l) \/ RenderVtt(l)

Spec == Init /\ [][Next]_vars

(* Workers keep taking messages and the provider keeps finishing and       *)
(* delivering; nobody has to review, read or crash.                        *)
Fairness ==
    /\ \A t \in Tasks : WF_vars(TaskStep(t))
    /\ \A j \in Jobs : WF_vars(ProviderFinishes(j)) /\ WF_vars(ReceiveCallback(j))
                          /\ WF_vars(CallbackStep(j))

FairSpec == Spec /\ Fairness

=============================================================================
