------------------------ MODULE TranscriptReviewProps ------------------------
(* What TranscriptReview is meant to guarantee, and what the repository    *)
(* says of it that the code does not keep.                                 *)
EXTENDS TranscriptReview

(***************************************************************************)
(* Properties that hold.                                                   *)
(***************************************************************************)

(* The database never refuses a write the handlers rely on: a FAILED row   *)
(* says why, an APPROVED one is signed (approved_transcript_is_signed),    *)
(* and no position holds two cues (segment_position_unique_per_transcript) *)
(* whatever interleaves, is redelivered or edits a replaced cue.           *)
RowConstraints ==
    /\ status = "FAILED" => err
    /\ status = "APPROVED" => signed
    /\ \A c, d \in cues : c = d

(* The variables keep their types, retry counts within the budget of       *)
(* request_transcription, and the rows the constraints of models.py.       *)
RowsAreSound == TypeOK /\ RowConstraints

(* As long as no write landed on a row that changed after it was read, an  *)
(* approval covers exactly the words learners read, there are some, and a  *)
(* reviewer had opened them.                                               *)
ApprovalCoversTheWords ==
    ~stale /\ status = "APPROVED" =>
        /\ cues = signedFor
        /\ cues # {}
        /\ \A c \in cues : c.row \in opened

(* Invalidation by content: whatever the order of edits, approvals and     *)
(* renderings, a body cached under the version an approved transcript has  *)
(* now holds the words it has now.                                         *)
CachedWordsAreCurrent ==
    status = "APPROVED" /\ vtt[version] # NoCue => vtt[version] = cues

(* A transcript waiting to be submitted has a request_transcription        *)
(* message queued or running as long as its asset is READY, whatever       *)
(* crashed.                                                                *)
NoStrandedRequest ==
    status = "PENDING" /\ jobId = NoJob /\ playable
        => \E t \in Tasks : task[t].at # "idle"

(* However often the provider redelivers, a callback whose task ended      *)
(* never runs again.                                                       *)
SettledCallbacksAreInert ==
    [][\A j \in Jobs : callback[j].task = "done" => callback'[j] = callback[j]]_vars

(* Every request leaves the queue: its retries are finite. *)
TasksEnd == \A t \in Tasks : task[t].at = "queued" ~> task[t].at = "idle"

(* Every stored callback is marked processed, known job or not, even when  *)
(* the worker died on the way.                                             *)
CallbacksSettle ==
    \A j \in Jobs :
        callback[j].stored = "unprocessed" ~> callback[j].stored = "processed"

(* A submitted transcript does not wait for ever, unless its callback was  *)
(* taken for an unknown job (UnknownJobIsNotOurs is why it can be).        *)
PendingSettles ==
    \A j \in Jobs :
        (status = "PENDING" /\ jobId = j)
            ~> (~(status = "PENDING" /\ jobId = j) \/ callback[j].unknown)

(* What the three say together: with workers that keep working a request   *)
(* ends, a callback is marked and a submitted transcript gets its result   *)
(* (tasks.py, CELERY_TASK_ACKS_LATE).                                      *)
EverythingSettles == TasksEnd /\ CallbacksSettle /\ PendingSettles

(***************************************************************************)
(* Statements of the repository that the code does not keep.               *)
(***************************************************************************)

(* services.py:7: "Editing an approved transcript sends it back to review":*)
(* an approval never stands over words nobody signed off.                  *)
ApprovedAsSigned == status = "APPROVED" => cues = signedFor

(* tasks.py:157: the callback "refuses to touch reviewed work".            *)
CallbackSparesReviewedWork ==
    [][\A j \in Jobs :
         callback[j].task = "found" /\ callback'[j].task = "applied"
           => status \notin Reviewed]_vars

(* tasks.py:108: "Human work exists against this transcript.  Re-running   *)
(* would replace reviewed words with machine output".                      *)
RequestSparesReviewedWork ==
    [][\A t \in Tasks :
         task[t].at = "submitted" /\ jobId' = task[t].made /\ jobId # jobId'
           => status \notin Reviewed]_vars

(* services.py:162: a move absent from the table is "impossible, whoever   *)
(* asks": here, whatever a reviewer's request saves.                       *)
ReviewersFollowTheTable ==
    [][\A r \in Reviewers :
         review[r].at # "idle" /\ review'[r].at = "idle" /\ status # status'
           => <<status, status'>> \in ALLOWED_TRANSITIONS]_vars

(* services.py:87: is_edited tells a later run "there is human work here   *)
(* to preserve rather than replace".                                       *)
EditedCuesSurvive ==
    [][\A c \in cues : c.isEdited => \E d \in cues' : d.row = c.row]_vars

(* tasks.py:173: a job without a transcript is "stale, or somebody else's  *)
(* account".                                                               *)
UnknownJobIsNotOurs ==
    \A j \in Jobs :
        callback[j].stored = "processed" /\ callback[j].unknown => jobId # j

(* services.py:140 and 240: withdrawing an approval clears the signature,  *)
(* and editing is its only route; a signature stands for an approval.      *)
SignatureMeansApproved == signed => status \in {"NONE", "APPROVED"}

(* tasks.py:98: a retry after a timeout must not "start a second job we    *)
(* pay for".                                                               *)
OneJobAtATime ==
    \A i, j \in Jobs :
        job[i] = "running" /\ job[j] = "running" => i = j

=============================================================================
