------------------------- MODULE MediaPipelineProps -------------------------
(* What MediaPipeline is meant to guarantee, and what the repository says  *)
(* of it that the code does not keep.                                      *)
EXTENDS MediaPipeline

(***************************************************************************)
(* Properties that hold.                                                   *)
(***************************************************************************)

(* The database never refuses one of the updates the handlers rely on: a   *)
(* FAILED row says why (failed_assets_explain_why) and a row handed over   *)
(* or playable has its provider ids (ready_assets_are_playable).           *)
RowConstraints ==
    /\ status = "FAILED" => err
    /\ status \in {"TRANSCODING", "READY"} => pid # NoCopy
    /\ status \in {"NONE", "PENDING"} => pid = NoCopy

(* An upload that was accepted or retried is never forgotten: while the    *)
(* broker loses nothing, an UPLOADED row without a provider copy has a     *)
(* process_media_asset message queued or running, whatever crashed.        *)
NoStrandedUpload ==
    lost = 0 /\ status = "UPLOADED" /\ pid = NoCopy
        => \E j \in Jobs : job[j].at # "idle"

(* As long as no write landed on a row that changed after it was read,     *)
(* what the row names is one thing: the copy being made or played comes    *)
(* from the current master, a playable copy is finished and its master is  *)
(* a verified object, and no rejected file is waiting to be processed.     *)
OneMasterThroughout ==
    ~stale =>
        /\ status \in {"TRANSCODING", "READY"} => copy[pid].src = key
        /\ status = "READY" => copy[pid].st = "ready" /\ objects[key] = "good"
        /\ status = "UPLOADED" => objects[key] \in {"good", "deleted"}

(* A lesson becomes playable only on the provider's word: some copy of a   *)
(* file that passed verification is finished and its event is stored.      *)
ReadyWasReported ==
    status = "READY" =>
        \E c \in Copies :
            /\ copy[c].st = "ready"
            /\ objects[copy[c].src] = "good"
            /\ event[c].stored # "no"

(* However often the provider redelivers, an event whose task ended is     *)
(* never applied to the row again.                                         *)
SettledEventsAreInert ==
    [][\A c \in Copies : event[c].task = "done" => event'[c] = event[c]]_vars

(* Every message leaves the queue: the retry budget ends in the            *)
(* dead-letter queue and crashes are finite.                               *)
JobsTerminate == \A j \in Jobs : job[j].at = "queued" ~> job[j].at = "idle"

(* While the broker loses nothing, an accepted upload without a provider   *)
(* copy is handed over, fails or is replaced.                              *)
UploadMovesOn ==
    (status = "UPLOADED" /\ pid = NoCopy)
        ~> (~(status = "UPLOADED" /\ pid = NoCopy) \/ lost > 0)

(* A stored event is marked processed, or its task ended in an error that  *)
(* leaves it in the unprocessed count metrics.py reports.                  *)
StoredEventsSettle ==
    \A c \in Copies :
        event[c].stored = "unprocessed" ~> (event[c].task = "done" \/ lost > 0)

(* An asset that became playable has its transcription requested, even     *)
(* when the worker died between the two.                                   *)
ReadyIsTranscribed ==
    status = "READY" ~> (asked # {} \/ status # "READY" \/ stale \/ lost > 0)

(* A handed-over asset reaches a result, unless its event was taken for    *)
(* that of an unknown asset (UnknownIsNotOurs is why that can happen).     *)
TranscodingSettles ==
    \A c \in Copies :
        (status = "TRANSCODING" /\ pid = c)
            ~> \/ ~(status = "TRANSCODING" /\ pid = c)
               \/ event[c].unknown
               \/ lost > 0

(* What the five say together: with workers that keep working nothing of   *)
(* the pipeline waits for ever, neither message, upload, event,            *)
(* transcription nor transcode (tasks.py, CELERY_TASK_ACKS_LATE).          *)
EverythingSettles ==
    /\ JobsTerminate
    /\ UploadMovesOn
    /\ StoredEventsSettle
    /\ ReadyIsTranscribed
    /\ TranscodingSettles

(***************************************************************************)
(* Statements of the repository that the code does not keep.               *)
(***************************************************************************)

(* tasks.py:100: "Something else moved it - a replacement upload, or an    *)
(* admin.  Acting now would overwrite that with a stale view of the world."*)
ReplacementNotOverwritten ==
    [][\A j \in Jobs : job[j].at = "created" /\ pid' = job[j].made /\ pid # pid'
         => key = job[j].src]_vars

(* tasks.py:12: a timed out call "may have been perfectly successful on    *)
(* the provider's side, and running it again would create a second asset". *)
OneCopyPerMaster ==
    \A c, d \in Copies :
        copy[c].st # "none" /\ copy[d].st # "none" /\ copy[c].src = copy[d].src
            => c = d

(* tasks.py:172: an event naming an asset we do not have is "a stale event *)
(* for something deleted, or an event for somebody else's account".        *)
UnknownIsNotOurs ==
    \A c \in Copies :
        event[c].stored = "processed" /\ event[c].unknown => pid # c

(* tasks.py:154: a redelivered task "re-applies the same state to the same *)
(* asset - which is a no-op".                                              *)
ReapplyIsNoOp ==
    [][\A c \in Copies :
         event[c].stored = "processed" /\ event[c].task = "found"
             /\ event'[c].task # "found"
           => UNCHANGED status]_vars

(* services.py:205: on a retry "the file is still in storage".             *)
RetriedMasterIsStored == status = "UPLOADED" => objects[key] # "deleted"

(* views.py:94: "Confirm an upload landed, and verify it before believing  *)
(* it."                                                                    *)
UploadedWasReceived == status = "UPLOADED" => objects[key] # "issued"

(* services.py:203, test_media_processing.py:267: a retry puts a           *)
(* dead-lettered asset back through the pipeline, and never "leaves the    *)
(* asset stuck in UPLOADED forever".                                       *)
RetryReachesProvider == status = "UPLOADED" ~> status # "UPLOADED"

=============================================================================
