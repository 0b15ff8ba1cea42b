--------------------------- MODULE MediaPipeline ---------------------------
(***************************************************************************)
(* One lesson's media, from the presigned upload to the READY webhook:     *)
(* apps/media_assets services.py, tasks.py and webhooks.py around one      *)
(* MediaAsset row.  A row is touched only by statements that name its own  *)
(* primary key or its own provider id, so assets do not interact and one   *)
(* row is enough; lessons have no delete action (ADR-039), so the row,     *)
(* once inserted, stays.                                                   *)
(*                                                                         *)
(* Every handler is cut where another process can run: after a read of the *)
(* row, after a call to the object store or the provider, and after each   *)
(* autocommitted statement.  A step between two cuts is one action.        *)
(*                                                                         *)
(* Abstracted: progress events, which change only their own WebhookEvent   *)
(* row (event is indexed by the copy whose result it reports), durations,  *)
(* sizes and checksums (an object is "good" when it passes the size and    *)
(* magic-byte checks and "bad" otherwise), messages                        *)
(* (err says only that error_message is not empty), and the pair of        *)
(* provider ids, written and cleared together (pid stands for both).       *)
(***************************************************************************)
EXTENDS Naturals

CONSTANTS
    Keys,        \* object keys that build_object_key may return
    Copies,      \* assets the video provider may create
    Requests,    \* complete / retry HTTP requests in flight at once
    Jobs,        \* process_media_asset messages in flight at once
    MaxRetries,  \* MEDIA_PROCESSING_MAX_RETRIES
    MaxCrashes,  \* bound: processes that die between two steps
    MaxLost,     \* bound: messages committed work never manages to enqueue
    NoKey, NoCopy

ASSUME ConstantsAssumption ==
    /\ NoKey \notin Keys
    /\ NoCopy \notin Copies
    /\ MaxRetries \in Nat
    /\ MaxCrashes \in Nat
    /\ MaxLost \in Nat

VARIABLES
    \* The MediaAsset row; status "NONE" is a lesson without one.
    status, key, pid, err, retryCount,
    objects,  \* the bucket, by key
    copy,     \* the provider's assets: the key each was made from, its state
    request,  \* web requests between their read of the row and their save
    job,      \* process_media_asset messages and the task running each
    event,    \* WebhookEvent rows and the apply_media_webhook task of each
    asked,    \* copies whose READY queued request_transcription
    crashes, lost,
    stale     \* history: some write landed on a row that had moved since read

row == <<status, key, pid, err, retryCount>>
faults == <<crashes, lost>>
vars == <<row, objects, copy, request, job, event, asked, faults, stale>>

Statuses == {"NONE", "PENDING", "UPLOADED", "TRANSCODING", "READY", "FAILED"}
Replaceable == {"NONE", "PENDING", "UPLOADED", "FAILED"}

RequestRec ==
    [at: {"idle", "completing", "passed", "rejected", "retrying"},
     key: Keys \cup {NoKey}]
JobRec ==
    [at: {"idle", "queued", "calling", "created", "refused", "raised"},
     retries: 0..MaxRetries, src: Keys \cup {NoKey}, made: Copies \cup {NoCopy}]
EventRec ==
    [stored: {"no", "unprocessed", "processed"},
     task: {"none", "queued", "found", "readied", "applied", "missed",
            "acking", "done"},
     seen: 0..MaxRetries, unknown: BOOLEAN]

TypeOK ==
    /\ status \in Statuses
    /\ key \in Keys \cup {NoKey}
    /\ pid \in Copies \cup {NoCopy}
    /\ err \in BOOLEAN
    /\ retryCount \in 0..MaxRetries
    /\ objects \in [Keys -> {"unissued", "issued", "good", "bad", "deleted"}]
    /\ copy \in [Copies -> [src: Keys \cup {NoKey},
                            st: {"none", "processing", "ready", "errored"}]]
    /\ request \in [Requests -> RequestRec]
    /\ job \in [Jobs -> JobRec]
    /\ event \in [Copies -> EventRec]
    /\ asked \in SUBSET Copies
    /\ crashes \in 0..MaxCrashes
    /\ lost \in 0..MaxLost
    /\ stale \in BOOLEAN

IdleRequest == [at |-> "idle", key |-> NoKey]
IdleJob == [at |-> "idle", retries |-> 0, src |-> NoKey, made |-> NoCopy]
QueuedJob(n) == [IdleJob EXCEPT !.at = "queued", !.retries = n]

(* acks_late with reject_on_worker_lost: a dead worker's message comes     *)
(* back.  Acknowledging on receipt would have lost it.                     *)
AckedEarlyJob(n) == IdleJob
RedeliveredJob(n) == QueuedJob(n)
AckedEarly == "done"
Redelivered == "queued"
NewEvent == [stored |-> "no", task |-> "none", seen |-> 0, unknown |-> FALSE]

Init ==
    /\ status = "NONE" /\ key = NoKey /\ pid = NoCopy
    /\ err = FALSE /\ retryCount = 0
    /\ objects = [k \in Keys |-> "unissued"]
    /\ copy = [c \in Copies |-> [src |-> NoKey, st |-> "none"]]
    /\ request = [r \in Requests |-> IdleRequest]
    /\ job = [j \in Jobs |-> IdleJob]
    /\ event = [c \in Copies |-> NewEvent]
    /\ asked = {}
    /\ crashes = 0 /\ lost = 0
    /\ stale = FALSE

-----------------------------------------------------------------------------
(* on_commit(lambda: process_media_asset.delay(pk)): the row is committed  *)
(* first, so the broker can still refuse the message.                      *)
Enqueue ==
    \/ \E j \in Jobs : /\ job[j].at = "idle"
                       /\ job' = [job EXCEPT ![j] = QueuedJob(0)]
                       /\ UNCHANGED lost
    \/ /\ lost < MaxLost
       /\ lost' = lost + 1
       /\ UNCHANGED job

(* _record_failure, _fail: the row joins the dead-letter queue. *)
FailRow(attempts) ==
    /\ status' = "FAILED"
    /\ err' = TRUE
    /\ retryCount' = attempts

(* History: a write by a process that saw the row as `holds` describes it. *)
Writes(holds) == stale' = (stale \/ ~holds)

-----------------------------------------------------------------------------
(* The object store, as the handlers see it (providers/storage.py): a key  *)
(* is handed out once, its URL admits an upload, head tells whether there  *)
(* has been one, and the opening bytes whether it is what was declared.    *)
Fresh(k) == objects[k] = "unissued"
PresignedUpload(k) == objects' = [objects EXCEPT ![k] = "issued"]
Received(k) == objects[k] \in {"good", "bad"}
AcceptableUnread(k) == Received(k)
Acceptable(k) == objects[k] = "good"
Delete(k) == objects' = [objects EXCEPT ![k] = "deleted"]

(* request_upload: under select_for_update, one step. *)
RequestUpload ==
    /\ status \in Replaceable
    /\ \E k \in Keys : Fresh(k) /\ PresignedUpload(k) /\ key' = k
    /\ pid' = NoCopy
    /\ status' = "PENDING"
    /\ err' = FALSE
    /\ retryCount' = 0
    /\ UNCHANGED <<copy, request, job, event, asked, faults, stale>>

(* The browser PUTs to the store; each presigned URL is used once. *)
BrowserPut(k) ==
    /\ objects[k] = "issued"
    /\ \E content \in {"good", "bad"} :
        objects' = [objects EXCEPT ![k] = content]
    /\ UNCHANGED <<row, copy, request, job, event, asked, faults, stale>>

(* complete_upload: the view's read and the PENDING check. *)
BeginComplete(r) ==
    /\ request[r].at = "idle"
    /\ status = "PENDING"
    /\ request' = [request EXCEPT ![r] = [at |-> "completing", key |-> key]]
    /\ UNCHANGED <<row, objects, copy, job, event, asked, faults, stale>>

(* head and read_prefix; a rejected object is deleted at once. *)
VerifyObject(r) ==
    /\ request[r].at = "completing"
    /\ LET k == request[r].key IN
        \/ /\ Received(k) /\ Acceptable(k)
           /\ request' = [request EXCEPT ![r].at = "passed"]
           /\ UNCHANGED objects
        \/ /\ Received(k) /\ ~Acceptable(k)
           /\ request' = [request EXCEPT ![r].at = "rejected"]
           /\ Delete(k)
        \/ /\ ~Received(k)
           /\ request' = [request EXCEPT ![r] = IdleRequest]
           /\ UNCHANGED objects
    /\ UNCHANGED <<row, copy, job, event, asked, faults, stale>>

(* save(update_fields=[..., "status"]): no lock, whatever the row is now. *)
SaveUploaded(r) ==
    /\ request[r].at = "passed"
    /\ status' = "UPLOADED"
    /\ Writes(status = "PENDING" /\ key = request[r].key)
    /\ request' = [request EXCEPT ![r] = IdleRequest]
    /\ Enqueue
    /\ UNCHANGED <<key, pid, err, retryCount, objects, copy, event, asked,
                   crashes>>

SaveRejected(r) ==
    /\ request[r].at = "rejected"
    /\ FailRow(retryCount)
    /\ Writes(status = "PENDING" /\ key = request[r].key)
    /\ request' = [request EXCEPT ![r] = IdleRequest]
    /\ UNCHANGED <<key, pid, objects, copy, job, event, asked, faults>>

(* retry_processing, from MediaAssetRetryView or the admin action: the row *)
(* is read by the caller and saved later, provider ids left as they are.   *)
BeginRetry(r) ==
    /\ request[r].at = "idle"
    /\ status = "FAILED"
    /\ request' = [request EXCEPT ![r] = [at |-> "retrying", key |-> key]]
    /\ UNCHANGED <<row, objects, copy, job, event, asked, faults, stale>>

SaveRetry(r) ==
    /\ request[r].at = "retrying"
    /\ status' = "UPLOADED"
    /\ err' = FALSE
    /\ retryCount' = 0
    /\ Writes(status = "FAILED" /\ key = request[r].key)
    /\ request' = [request EXCEPT ![r] = IdleRequest]
    /\ Enqueue
    /\ UNCHANGED <<key, pid, objects, copy, event, asked, crashes>>

-----------------------------------------------------------------------------
(* Whether the row the task reads is one to act on. *)
MayProcess == pid = NoCopy /\ status = "UPLOADED"

(* process_media_asset.  The task reads the row and either declines or     *)
(* goes on to call the provider with what it read.                         *)
StartJob(j) ==
    /\ job[j].at = "queued"
    /\ job' = [job EXCEPT ![j] =
                 IF MayProcess
                 THEN [@ EXCEPT !.at = "calling", !.src = key]
                 ELSE IdleJob]
    /\ UNCHANGED <<row, objects, copy, request, event, asked, faults, stale>>

(* create_asset returns PROCESSING, refuses the file, or raises - and a    *)
(* call that raises may still have created the asset at the provider.      *)
CallProvider(j) ==
    /\ job[j].at = "calling"
    /\ \/ \E c \in Copies :
            /\ copy[c].st = "none"
            /\ copy' = [copy EXCEPT ![c] =
                          [src |-> job[j].src, st |-> "processing"]]
            /\ \/ job' = [job EXCEPT ![j].at = "created", ![j].made = c]
               \/ job' = [job EXCEPT ![j].at = "raised"]
       \/ /\ \E outcome \in {"refused", "raised"} :
                job' = [job EXCEPT ![j].at = outcome]
          /\ UNCHANGED copy
    /\ UNCHANGED <<row, objects, request, event, asked, faults, stale>>

JobSaw(j) == status = "UPLOADED" /\ pid = NoCopy /\ key = job[j].src

HandedOverPlayable == "READY"
HandedOver == "TRANSCODING"

(* The update that hands the asset to the provider, by primary key only. *)
HandOver(j) ==
    /\ job[j].at = "created"
    /\ pid' = job[j].made
    /\ status' = HandedOver
    /\ err' = FALSE
    /\ Writes(JobSaw(j))
    /\ job' = [job EXCEPT ![j] = IdleJob]
    /\ UNCHANGED <<key, retryCount, objects, copy, request, event, asked, faults>>

ProviderRefused(j) ==
    /\ job[j].at = "refused"
    /\ FailRow(job[j].retries)
    /\ Writes(JobSaw(j))
    /\ job' = [job EXCEPT ![j] = IdleJob]
    /\ UNCHANGED <<key, pid, objects, copy, request, event, asked, faults>>

PastBudget(attempts) == attempts > MaxRetries

(* self.retry: the same message with its count of attempts. *)
Requeued(attempts) == QueuedJob(attempts)

(* except Exception: past the budget the row joins the dead-letter queue,  *)
(* and its retry_count is attempts - 1.                                    *)
DeadLetter(j) ==
    /\ job[j].at = "raised"
    /\ PastBudget(job[j].retries + 1)
    /\ FailRow(job[j].retries)
    /\ job' = [job EXCEPT ![j] = IdleJob]
    /\ Writes(JobSaw(j))
    /\ UNCHANGED <<key, pid, objects, copy, request, event, asked, faults>>

(* Within it the attempt is recorded and the message goes back.            *)
RetryLater(j) ==
    /\ job[j].at = "raised"
    /\ ~PastBudget(job[j].retries + 1)
    /\ retryCount' = job[j].retries + 1
    /\ job' = [job EXCEPT ![j] = Requeued(job[j].retries + 1)]
    /\ Writes(JobSaw(j))
    /\ UNCHANGED <<status, key, pid, err, objects, copy, request, event, asked, faults>>

-----------------------------------------------------------------------------
(* The provider fetches the master from its presigned URL and finishes     *)
(* transcoding; it can only do so from a real file.                        *)
Fetches(c) == objects[copy[c].src] = "good"
ProviderFinishes(c) ==
    /\ copy[c].st = "processing"
    /\ \E result \in {"ready", "errored"} :
        /\ result = "ready" => Fetches(c)
        /\ copy' = [copy EXCEPT ![c].st = result]
    /\ UNCHANGED <<row, objects, request, job, event, asked, faults, stale>>

(* What the provider reports: the copy's result, as often as it likes.     *)
Reportable(c) == copy[c].st \in {"ready", "errored"}

FirstDeliveryUnchecked(c) == event[c].task \in {"none", "done"}
FirstDelivery(c) == event[c].stored = "no"

(* VideoWebhookView.post: the unique constraint lets one insert through    *)
(* and every redelivery answers 200 and changes nothing.                   *)
ReceiveWebhook(c) ==
    /\ Reportable(c)
    /\ FirstDelivery(c)
    /\ \/ /\ event' = [event EXCEPT ![c].stored = "unprocessed", ![c].task = "queued"]
          /\ UNCHANGED lost
       \/ /\ lost < MaxLost
          /\ lost' = lost + 1
          /\ event' = [event EXCEPT ![c].stored = "unprocessed"]
    /\ UNCHANGED <<row, objects, copy, request, job, asked, crashes, stale>>

Names(c) == pid = c

(* apply_media_webhook: the lookup by provider id. *)
LookUpAsset(c) ==
    /\ event[c].task = "queued"
    /\ event' = [event EXCEPT ![c] =
                   IF Names(c)
                   THEN [@ EXCEPT !.task = "found", !.seen = retryCount,
                                  !.unknown = FALSE]
                   ELSE [@ EXCEPT !.task = "missed", !.unknown = TRUE]]
    /\ UNCHANGED <<row, objects, copy, request, job, asked, faults, stale>>

(* The CHECK constraint ready_assets_are_playable on the row as it is now. *)
PlayableUnchecked == TRUE
Playable == pid # NoCopy

(* update(status=...) by primary key.  READY on a row that lost its ids in *)
(* the meantime is refused by ready_assets_are_playable: the task raises   *)
(* and the event stays unprocessed.                                        *)
ApplyEvent(c) ==
    /\ event[c].task = "found"
    /\ \/ /\ copy[c].st = "ready" /\ Playable
          /\ status' = "READY"
          /\ err' = FALSE
          /\ event' = [event EXCEPT ![c].task = "readied"]
          /\ Writes(pid = c /\ status \in {"TRANSCODING", "READY"})
          /\ UNCHANGED <<key, pid, retryCount>>
       \/ /\ copy[c].st = "ready" /\ ~Playable
          /\ event' = [event EXCEPT ![c].task = "done"]
          /\ UNCHANGED <<row, stale>>
       \/ /\ copy[c].st = "errored"
          /\ FailRow(event[c].seen)
          /\ event' = [event EXCEPT ![c].task = "applied"]
          /\ Writes(pid = c /\ status \in {"TRANSCODING", "FAILED"})
          /\ UNCHANGED <<key, pid>>
    /\ UNCHANGED <<objects, copy, request, job, asked, faults>>

(* request_transcription.delay; when the broker refuses, the task raises. *)
AskTranscription(c) ==
    /\ event[c].task = "readied"
    /\ \/ /\ asked' = asked \cup {c}
          /\ event' = [event EXCEPT ![c].task = "applied"]
          /\ UNCHANGED lost
       \/ /\ lost < MaxLost
          /\ lost' = lost + 1
          /\ event' = [event EXCEPT ![c].task = "done"]
          /\ UNCHANGED asked
    /\ UNCHANGED <<row, objects, copy, request, job, crashes, stale>>

(* processed_at is set last, and also for an unknown asset. *)
MarkProcessed(c) ==
    /\ event[c].task \in {"applied", "missed"}
    /\ event' = [event EXCEPT ![c].stored = "processed", ![c].task = "acking"]
    /\ UNCHANGED <<row, objects, copy, request, job, asked, faults, stale>>

Acknowledge(c) ==
    /\ event[c].task = "acking"
    /\ event' = [event EXCEPT ![c].task = "done"]
    /\ UNCHANGED <<row, objects, copy, request, job, asked, faults, stale>>

-----------------------------------------------------------------------------
(* A process dies.  acks_late and reject_on_worker_lost put a worker's     *)
(* message back on the queue; a web request is simply gone.                *)
CrashJob(j) ==
    /\ crashes < MaxCrashes
    /\ job[j].at \in {"calling", "created", "refused", "raised"}
    /\ job' = [job EXCEPT ![j] = RedeliveredJob(@.retries)]
    /\ crashes' = crashes + 1
    /\ UNCHANGED <<row, objects, copy, request, event, asked, lost, stale>>

CrashApply(c) ==
    /\ crashes < MaxCrashes
    /\ event[c].task \in {"found", "readied", "applied", "missed", "acking"}
    /\ event' = [event EXCEPT ![c].task = Redelivered]
    /\ crashes' = crashes + 1
    /\ UNCHANGED <<row, objects, copy, request, job, asked, lost, stale>>

CrashRequest(r) ==
    /\ crashes < MaxCrashes
    /\ request[r].at # "idle"
    /\ request' = [request EXCEPT ![r] = IdleRequest]
    /\ crashes' = crashes + 1
    /\ UNCHANGED <<row, objects, copy, job, event, asked, lost, stale>>

-----------------------------------------------------------------------------
RequestStep(r) == VerifyObject(r) \/ SaveUploaded(r) \/ SaveRejected(r) \/ SaveRetry(r)

JobStep(j) ==
    StartJob(j) \/ CallProvider(j) \/ HandOver(j) \/ ProviderRefused(j)
        \/ DeadLetter(j) \/ RetryLater(j)

ApplyStep(c) ==
    LookUpAsset(c) \/ ApplyEvent(c) \/ AskTranscription(c) \/ MarkProcessed(c)
        \/ Acknowledge(c)

Next ==
    \/ RequestUpload
    \/ \E k \in Keys : BrowserPut(k)
    \/ \E r \in Requests : BeginComplete(r) \/ BeginRetry(r) \/ RequestStep(r)
                             \/ CrashRequest(r)
    \/ \E j \in Jobs : JobStep(j) \/ CrashJob(j)
    \/ \E c \in Copies :
          ProviderFinishes(c) \/ ReceiveWebhook(c) \/ ApplyStep(c) \/ CrashApply(c)

Spec == Init /\ [][Next]_vars

(* Workers keep taking messages, the provider finishes and keeps           *)
(* delivering until it gets a 200.  Nobody has to upload, complete, retry  *)
(* or crash.                                                               *)
Fairness ==
    /\ \A j \in Jobs : WF_vars(JobStep(j))
    /\ \A c \in Copies : WF_vars(ProviderFinishes(c)) /\ WF_vars(ReceiveWebhook(c))
                            /\ WF_vars(ApplyStep(c))

FairSpec == Spec /\ Fairness

=============================================================================
