# A TLA+ development of the language-learning platform

The platform is a Django backend (`src/backend/apps`) with Celery workers, PostgreSQL,
an S3-compatible object store, a video provider, a transcription provider, a billing
provider and a Next.js frontend (`src/frontend`). This directory models the parts whose
correctness depends on the order in which requests, transactions, tasks and webhooks run;
TLC checks each on a small instance, and TLAPS proves for every instance all that TLC checks,
liveness excepted.

Paths below are relative to `src/backend/apps` unless they say otherwise.

## 1. The system

| Component | State it keeps | Operations | Talks to |
|---|---|---|---|
| media pipeline (`media_assets`) | one `MediaAsset` row per lesson, the bucket's objects, `WebhookEvent` rows | `request_upload`, `complete_upload`, `retry_processing`; task `process_media_asset`; webhook endpoint; task `apply_media_webhook` | object store, video provider, broker; queues `request_transcription` when READY |
| transcription and review (`transcripts`) | one `Transcript` per lesson, its `TranscriptSegment` rows, `WebhookEvent` rows, the cache of rendered subtitles | task `request_transcription`; callback endpoint; task `apply_transcription_callback`; `edit_segment`, `start_review`, `approve`; the VTT view | transcription provider, broker, cache |
| course publication (`catalog`) | `Course` with its search vector, the trail of `CourseReviewEvent`s | create, update, submit, approve, reject, request changes, archive; the admin change form | audit log, notifications |
| curriculum (`catalog`) | the positions of sections in a course and of lessons in a section | create, update, move, reorder | `learning` reads the order |
| catalogue reads (`catalog`) | nothing | list by cursor, languages, search, course page, lesson gate, playback token, transcript panel | courses, `MediaAsset` rows, entitlements |
| learning progress (`learning`) | `LessonProgress` and `Enrollment` rows | `record_progress`, `mark_complete` | reads lessons, media durations, entitlements |
| entitlements (`entitlements`) | `Subscription`, `AccessOverride`, event rows | start, renew, fail_payment, cancel, expire, grant; `resolve_access`; `reconciliation_findings` | billing provider (only a fake exists) |
| beta admission (`accounts`) | `BetaInvitation`, the `User` registered with it | issue, revoke and consume invitation, register | audit log |
| credentials (`accounts`) | `User`, verification and reset tokens, sessions | register, verify, reset and change password, sign in and out | notifications |
| notifications | the queued messages | `deliver_email` (at least once, three retries) | mail provider |
| core | `AuditLog` (append-only), `WebhookEvent` | `record_admin_action`, metrics, health, middleware | all of the above |
| release step (`core/management`) | an advisory lock, the applied migrations | `predeploy` | PostgreSQL, directly or through a pooler |
| other commands (`core/management`) | nothing | `check_database`, `report_metrics`, `enrol_admin_totp` | PostgreSQL |
| browser session status (`src/frontend/src/lib/auth`) | snapshot, epoch, sequence, last observation, open operation | `begin`, `finish`, `confirm`, `authenticationRequired` | every API call of a page |
| lesson player (`src/frontend/src/components/learn`) | playhead, unreported seconds, progress shown | tick, beat, final beat, seek, mark complete | `record_progress` |

Components interact through committed rows and queued messages and through nothing else:
a request commits and then enqueues a message (`transaction.on_commit`), a worker reads the
row again, a provider calls back through a webhook that stores a `WebhookEvent` under a unique
id and enqueues its processing.

What is hard in it, and what makes each part correct:

* **Media.** The row is read, an external call is made and the row is written by primary
  key, so a replacement upload, a retry or a webhook can come in between. Workers die and
  their messages come back (`acks_late`, `reject_on_worker_lost`); a provider call that timed
  out may have succeeded; webhooks are duplicated, delayed and can overtake the task that
  caused them. Correct: a row satisfies its constraints, names one master throughout, is READY
  only on the provider's word, and no accepted upload, stored event or finished asset is
  forgotten.
* **Transcripts.** The same, with reviewers whose requests read and save the row without a
  lock, and a cache keyed by `updated_at`. Correct: an approval covers exactly the words
  learners read; cached subtitles are current; a request or callback is never forgotten.
* **Courses.** A move is checked on the instance the view loaded and an edit saves every column
  of it. Correct: a live course was approved, the trail explains the status, search finds the
  words.
* **Learning.** Several tabs report on one lesson and on sibling lessons at once, in
  READ COMMITTED transactions. Correct: no heartbeat is lost, a completion is never moved or
  taken back, and a course is dated exactly when its last lesson lands.
* **Entitlements.** Moves of stale rows meet; dates have boundaries. Correct: one live
  subscription, paid periods are served, nobody is served unreported past what was promised.
* **Admission.** Invitations are issued, withdrawn and spent at once, under row locks, unique indexes
  and clocks read before a wait. Correct: an invitation admits once, and only with the account it was spent for.
* **Credentials.** Single-use tokens under concurrent use; locks taken in different orders; an instance
  loaded with the request and saved after a reset; an account committed before its mail is queued.
  Correct: a link opens once, a reset ends the sessions before it, only resets can wait for each
  other, whoever registered is sent a link.
* **Curriculum.** A reorder locks the rows of a parent one after another while others insert, edit and
  move rows; positions are unique only at commit. Correct: there is one order at every commit, and a
  reorder numbers what it found and nothing else.
* **Catalogue reads.** A visit is several statements without a transaction, and a list is several
  requests. Correct: nothing unpublished is shown, a list read to its end misses and repeats nothing,
  a paid body is served only to who may have it.
* **Release step.** Replicas migrate at once, processes and the database die, a pooler breaks the
  session the lock needs. Correct: one deploy migrates, success means current, every deploy ends.
* **Session status.** Answers arrive in any order around a login, a logout or an expiry.
  Correct: an answer from before such an event never moves the notice.

`PROJECT.json` lists all of these hazards at their lines.

## 2. Modules and the code

### `MediaPipeline`, `MediaPipelineProps`, `MediaPipelineProofs`, `MCMediaPipeline`

One `MediaAsset` row. Lessons and assets are touched only by statements that name their own
keys, so assets do not interact and one row is enough. The variables `status`, `key`, `pid`,
`err` and `retryCount` are its columns (`pid` is the pair of provider ids, always written
together); `objects` is the bucket, `copy` the provider's assets, `request` the web requests
that have read the row and not yet saved it, `job` the `process_media_asset` messages and the
task that runs each, `event` the webhook inbox with its `apply_media_webhook` tasks.

A handler is cut into actions where another process can run: after a read, after a call to
the store or the provider, and after each autocommitted statement. A crash between two cuts
redelivers the message (`CrashJob`, `CrashApply`); `Enqueue` may lose a message, because the
broker is called after the commit. The provider and the uploading browser are external: the
provider finishes or fails a copy at any time and redelivers its event until it gets a 200.

What the pipeline sees of the store is in operators of their own (`Fresh`, `PresignedUpload`,
`Received`, `Acceptable`, `Delete`): a key is handed out once, and its URL may be used at any time, or never.

Not in the module: progress events of the provider, the metrics, the playback URL signing.

### `TranscriptReview`, `TranscriptReviewProps`, `TranscriptReviewProofs`, `MCTranscriptReview`

One `Transcript` row with its cues. A transcription is at most one cue, whose words and
timing are one of two texts, because the properties only compare what was signed with what is
shown; every insertion gives its cue a fresh row number, because the handlers distinguish a
replaced cue from an edited one. `version` is `updated_at`, a counter because only the equality
of two readings matters; `vtt` is the cache by version. The history variables
`opened`, `signedFor` and `stale` record what a reviewer had opened, which cues an approval was
given to, and whether a write landed on a row that had moved since it was read.

### `CoursePublication`, `CatalogProofs`, `MCCoursePublication`

One `Course`: every service is a `Load` and a save. Moves save their own fields and write
their event in the same transaction; `SaveEdit` (`update_course`) and `SaveAdminEdit` (the
change form) save every column as loaded. Two columns, each with two values, are enough to tell
an overwritten column from an edited one.

### `LearningProgress`, `LearningProgressProofs`, `MCLearningProgress`

One learner and one course. `progress` and `enrollment` are what is committed; what a
transaction has written is in its own record and invisible to the others, as READ COMMITTED
has it. `select_for_update` locks are implied by the states of the transactions
(`HoldsRow`, `HoldsEnrollment`). One transaction is cut at each statement that reads what
others may commit in between: the enrollment, the count of the lessons, the count of those that are done.
`completed_at` is the number of times it was written, so that "the date moved" is visible.

### `Entitlements`, `EntitlementsProofs`, `MCEntitlements`

One user's subscription rows, the day, the latest manual grant, and the calls that have
loaded a row. `DecideFor` and `AccountAccess` are the resolver, `Findings` the nightly
report. The fake provider is the only one the repository has, and its snapshots are
translated with its dates (`Snapshot`), since that is what the rows hold.

### `Admission`, `Invitations`, `InvitationsProofs`, `MCInvitations`

`Admission` is what the beta promises of one address, in four atomic steps. `Invitations` is how
`accounts/services.py` keeps it: each of `issue_invitation`, `revoke_invitation` and
`register_account` (with the `consume_invitation` inside it) is a transaction, cut where it waits for a
row lock or a unique index; the clock is read where the code reads it, before the wait.
A transaction's writes and its `AuditLog` row become visible together, by its last step. The
mapping `Place` is the state that `BetaInvitationAdmin.state` shows, without expiry, which
is a matter of the dates (`SpentInTime`). `CreateAccount` stands for management commands, and for
registration while `BETA_INVITATION_REQUIRED` is off.

### `Credentials`, `CredentialsProofs`, `MCCredentials`

One account, the links mailed for it and the sessions it opened. `verify_email` and
`reset_password` are READ COMMITTED transactions, cut where they wait for a row (the token
first, then the user, then the other tokens); everything else commits statement by
statement and is cut between statements. `mail` is the `deliver_email` message of each token,
queued after the commit, so that a process can be lost between the two (`unsent`). A password is
the number of times the column was written, because `set_password` salts anew and a session is valid while its
hash is made of the column's value. `late`, `overtaken` and `Sessions.ended` are history.

### `Curriculum`, `CatalogProofs`, `MCCurriculum`

The sections of one course and their lessons. A row is its parent and its position: an edit of
anything else writes these two back as it loaded them. A request's writes stay in its own record
until `Commit`; `_apply_order` takes its locks one row at a time, in the order it read; the deferred unique
constraints are checked at the commit, by the keys that were taken when the transaction wrote (`suspect`).
`NextLesson` is the order `learning/selectors.py` reads. The specification is `CurriculumSpec`.

### `Deployment`, `CatalogProofs`, `MCDeployment`

Several `predeploy` commands, cut wherever the command sends a statement. `lock` is the advisory lock
with the backend that holds it: a direct session has one backend, and one behind a
transaction-mode pooler may get another with every statement (`Backends`). A process may be killed and the
database restarted anywhere; a migration that is not atomic (`catalog.0005_search_vector`) may be left
half done. The specification is `RolloutSpec`.

### `Catalogue`, `CatalogueProofs`, `MCCatalogue`

What a reader is answered while courses are published, withdrawn, renamed and retyped, media are
measured and accounts gain and lose access. A visit is one request's statements, or the pages of
one list; readers write nothing, so one visit at a time stands for all. `during` is history: what was
live at some moment of the visit, what was live all along, and whether there was access at some moment. A
course is its label, which filters, search and ranking compare; any match may rank first.

## 3. The runs

Every run passes.

| Run | Configuration | Question | Properties |
|---|---|---|---|
| `media_races` | `MCMediaPipeline_races` | Do requests, workers, webhooks and the provider, interleaved in every way, keep the row honest? | `RowConstraints` (with the types), `OneMasterThroughout`, `ReadyWasReported` |
| `media_live` | `MCMediaPipeline_live` | With retries, one crash and one lost message: does everything accepted move on? | `NoStrandedUpload`, `SettledEventsAreInert`, `EverythingSettles` |
| `transcript_races` | `MCTranscriptReview_races` | Two requests, two reviewers, a learner: does an approval mean what it says? | `RowsAreSound`, `ApprovalCoversTheWords`, `CachedWordsAreCurrent` |
| `transcript_live` | `MCTranscriptReview_live` | With retries and a crash: is every request and every callback settled? | `NoStrandedRequest`, `SettledCallbacksAreInert`, `EverythingSettles` |
| `course_races` | `MCCoursePublication_races` | Two requests, five services and two ways to edit: was what is live approved, and is it found? | `PublishedWasApproved`, `TrailExplainsStatus`, `SearchFindsTheWords` |
| `curriculum` | `MCCurriculum_races` | Edits, moves and reorders at once: is there one order, and what does a reorder touch? | `OrderIsTotal`, `ReordersQueue`, `ReorderIsWhole` |
| `learning_tabs` | `MCLearningProgress_tabs` | Two tabs, two lessons, one added on the way: what may a beat lose or take back? | `DatedWhenFinished`, `LessonStaysDone`, `NoBeatIsLost` |
| `entitlement_calls` | `MCEntitlements_calls` | Two calls and two subscription rows while days pass: who is served, and who is reported? | `OneLiveSubscription`, `LeakIsReported`, `PaidIsServed`, `ReportAgreesWithResolver` |
| `admission_races` | `MCInvitations_races` | Four calls on one address: do the transactions implement the atomic admission? | `SpentInTime`, `TrailExplainsAdmission`, `AdmissionIsKept` |
| `credentials` | `MCCredentials_races` | Two requests on one account, three links, lost processes: what do a link and a reset promise? | `LinksAreSpentOnce`, `SessionsEndWithReset`, `OnlyResetsDeadlock`, `RegisteredIsMailed`, `ConfirmedStays` |
| `deployment` | `MCDeployment_rollout` | Three replicas deploy at once, with and without a pooler | `LockIsExclusive`, `SuccessIsEarned`, `EveryDeployEnds` |
| `catalogue_visits` | `MCCatalogue_visits` | Can a change between two statements or two pages put something false in an answer? | `OnlyPublishedIsShown`, `NothingIsMissedOrRepeated`, `AnswersAreExact`, `PaidBodiesArePaidFor` |

The type invariant of a module is the first conjunct of one of its properties, and
`EverythingSettles` is the conjunction of the liveness statements of its `Props` module:
every message ends, every stored event or callback settles, an accepted upload and a requested transcript
move on, a READY asset is transcribed and a transcoding one settles. The refinement is
`AdmissionIsKept`: `Invitations` implements `Admission`.

### Bounds, and why they are enough

* **media_races**: two keys (a master and its replacement), two provider copies, two requests
  and two messages: every pair of actors meets on one row. Crashes, lost messages and
  retries are zero here, for they only repeat steps; they are the subject of `media_live`.
* **media_live**: one crash, one lost message, a retry budget of one, two keys: each fault
  once, at every place it can occur. One copy suffices for the liveness of a copy; the property about
  redelivery (`SettledEventsAreInert`) needs one event delivered several times.
* **transcript_races**: two jobs, tasks and reviewers and one learner; `updated_at` moves at
  most three times and cues are inserted at most twice, which leaves room for transcribe,
  open, edit, approve and a second callback. **transcript_live**: one crash, one retry, two jobs.
* **course_races**: nothing counted; two requests and two words per column.
* **learning_tabs**: two tabs, two lessons of which the course starts with one, and a beat
  that is clamped from 3 seconds to 1 on lessons of length 2 or unknown, with a threshold of 50%:
  a beat may finish a lesson, or miss, or reach the cap. `MaxWatched` bounds the seconds on
  lessons of unknown length, which the code does not cap.
* **entitlement_calls**: a period of two days, a trial and a grace of one, five days: a
  row can be renewed, run out, be in grace and past it, and the days after everything
  promised are reached (a renewal on day 1 ends on day 3, its grace on day 4). Time is bounded, so the
  run does not check deadlock.
* **admission_races**: four interchangeable calls, a lifetime of two days and five days: an invitation can be issued,
  run out, be issued again and withdrawn while a registration waits with an old clock. Calls repeat without bound.
* **credentials**: two requests and one browser, one verification and two reset links, which live two hours and
  one, two moments of time and three passwords: two resets with two links meet, a reset meets a
  change, and a link is issued while another is spent. 1.2 million states.
* **curriculum**: two requests, two sections, two lessons, three positions: a row can be inserted
  before, between and after the others while a reorder holds half of its locks.
* **deployment**: three deploys of releases that need one or two migrations, the second not
  atomic: one deploy migrates, one waits, and a third finds what the first left behind.
* **catalogue_visits**: three courses, two of a language, two lessons, pages of one or two, two results
  and one related course: lists and results are cut, and continue. The constraint `OnlyWhatIsRead`
  keeps still what the visit in progress does not read (lessons during a list, labels at the
  gate); no property reads it either. 1.9 million states.

Deadlock is not checked where a system may stop. The media and transcript systems stop when
every lesson is READY, or approved, and every provider copy is used; deploys end; time is bounded in
entitlements and credentials. Requests of the curriculum and the credentials can really wait for each
other, until PostgreSQL ends one: `ReordersQueue` and `OnlyResetsDeadlock` say exactly which.

### Fairness

Only what the infrastructure promises is fair. A worker takes a queued message and
carries out the task's steps (weak fairness on the steps of jobs and of apply tasks); a stored message is
delivered again after a crash, because the settings acknowledge late and reject on a lost
worker; the provider finishes a copy and redelivers an event until it is answered 200, which
its protocol promises (`webhooks.py` relies on it). Nobody has to upload, retry, review,
edit, watch or crash: those actions carry no fairness. A deploy goes on while its process lives, its
deadlines included (weak fairness on `GoOn`); that a pooler happens to send it to the backend that holds its
lock is never assumed, so `EveryDeployEnds` holds by the deadline.

## 4. What is proved

Each component's theorems stand in a module of their own beside it. They hold for every value of the
constants, from the one assumption its module states: that null values are outside
their sets, that bounds and lengths are naturals, that a period and a trial last at least a
day, that there are finitely many rows, and finitely many skill areas to a course. `CoursePublication` assumes
nothing. The types are proved of every module, by `TypeCorrect` or as the first conjunct of its inductive
invariant, and the other theorems rest on them.

**`MediaPipelineProofs`**

* `ConstraintsHold`: `Spec => []RowConstraints`. The invariant is not inductive alone: a
  task that records the provider's answer writes the id it holds in its own record, and
  nothing in the row says that this is an id. `RowInv` adds `CreatedHoldsCopy`: a task at
  `created` holds a copy.
* `UploadsNeverStranded`: `Spec => []NoStrandedUpload`. Given `TypeOK` it is inductive as it
  stands: each step that makes a row UPLOADED also queues a message or counts a lost one, each step that ends a
  message leaves the row handed over or FAILED or naming something else, and a crash requeues.
* `OneMaster`: `Spec => []OneMasterThroughout`, and `ReadyOnTheProvidersWord`:
  `Spec => []ReadyWasReported`. A handler writes what it read some steps ago, so the row's invariant
  (`MasterInv`) needs one about the handlers: `SourceInv` says that what a request, a task or a
  copy holds was true when it was read and cannot change, because keys are handed out once, a
  finished copy stays finished and a verified or deleted object stays what it is
  (`ObjectsSettle`, `CopiesSettle`).
* `EventsApplyOnce`: `Spec => SettledEventsAreInert`, from the same invariant: a settled event is a stored one.

**`TranscriptReviewProofs`**

* `RowsStaySound`: `Spec => []RowsAreSound`; `RequestsNeverStranded`: `Spec => []NoStrandedRequest`;
  `CallbacksRunOnce`: `Spec => SettledCallbacksAreInert`. They rest on `TypeInv`: an edit holds a cue, an
  approval began in review, a task that has submitted knows its job, an applied callback is stored.
* `ApprovedWordsWereOpened`: `Spec => []ApprovalCoversTheWords`. `ApprovalInv` says, while
  nothing stale was saved, that cues in review were opened (`OpenedInv`), that cues come from
  the job the row names, which is never heard twice (`HeardInv`), and that an approval past its check
  still finds words (`WordedInv`).
* `CacheIsCurrent`: `Spec => []CachedWordsAreCurrent`. `CacheInv` adds that nothing is cached under a version
  still to come and that no learner holds one.

**`LearningProgressProofs`** (`ProgressInv` serves both action properties, `DatingInv` the date)

* `DoneStaysDone`: `Spec => LessonStaysDone`, and `BeatsAddUp`: `Spec => NoBeatIsLost`. Rows
  change only at a commit (`OnlyCommits`), so all depends on what the transaction holds.
  `RowsComputed` says that it is the committed row with this call folded in; it survives the
  commits of others only because of `RowsApart`: no two transactions hold the same lesson, which is
  what `select_for_update` gives.
* `DateIsDeserved`: `Spec => []DatedWhenFinished`. The date is given by a transaction that counts
  twice and compares numbers, so `DatingInv` says what the numbers stand for: what was counted is there
  (`CountInv`), so that equal counts are equal sets; a date about to be given is deserved, but for
  lessons that appeared between the counts (`Deserved`); a finish about to be committed finds the course
  dated or another lesson open (`NotForgotten`). That two finishes do not forget each other is `PairInv`:
  of two that are past their counts, one has seen the other's commit, or they overlapped.

**`EntitlementsProofs`**

* `ReportAgrees`: `Spec => []ReportAgreesWithResolver`, case by case over status and dates.
* `LeaksAreReported`: `Spec => []LeakIsReported`. `PromisesKept` is needed: no row, and no row a call has
  loaded, ends later than everything promised so far. A call that saves what it loaded
  weeks ago then still cannot extend access beyond it.
* `OneIsLive`: `Spec => []OneLiveSubscription`, through `AtMostOneLive`: the check at the load may be old
  at the save, and the unique index is asked again.
* `PaidPeriodsAreServed`: `Spec => []PaidIsServed`. `PaidIsCovered` names the row that serves
  a paid period (`Covered`), bounds what can have been paid for by the next period, and keeps trials to
  rows that had none before.

**`CatalogProofs`** (the write side of `apps/catalog` and the release step that migrates it, whose one
migration that is not atomic is that of the search vector: three specifications in one module, since
they share lemmas about finite sets and sequences of rows)

* `LiveWasApproved`: `Spec => []PublishedWasApproved`, with no condition on staleness. An edit
  writes back the status it loaded, so the invariant must also speak of what requests hold
  (`LoadedWereApproved`), and of the trail, which only grows.
* `TrailFollowsTheTable`: `Spec => []TrailExplainsStatus`. `LoadedFollowTheTable` says that,
  while nothing stale was saved, a request holds a move its table has and a course whose date fits its status;
  `MoveFollowsTheTable` turns this into the one fact each move needs.
* `SearchFollowsTheWords`: `Spec => []SearchFindsTheWords`. It is inductive as it stands, however stale the edit.
* `CurriculumInvariant`: `CurriculumSpec => []CurriculumInv`. `OrderIsTotal` alone is not inductive: a commit
  checks only the keys that were taken when it wrote. `KeysApart` says why this suffices: a key that a request
  writes and somebody else has, or writes too, is suspect to one of the two. `HeldApart` gives the row locks one
  holder, `ReorderInv` says what a reorder holds of what it found, `SeenSorted` that rows nobody wrote
  since are still in the order they were found.
* From it, `CurriculumOrderIsTotal`: `CurriculumSpec => []OrderIsTotal`, positions are unique at every commit and of
  any lessons left one comes first; `UndisturbedReordersQueue`: `CurriculumSpec => []ReordersQueue`, two
  reorders that lock in the order of positions cannot hold what the other wants; `ReordersAreWhole`:
  `CurriculumSpec => ReorderIsWhole`, a reorder moves no row to another parent and leaves none of its own out.
* `RolloutInvariant`: `RolloutSpec => []RolloutInv`, and from it `OneDeployHasTheLock`:
  `RolloutSpec => []LockIsExclusive`; `ReportedSuccessIsEarned`: `RolloutSpec => []SuccessIsEarned`. `LockAndHolder`
  ties the lock to the one deploy between its lock and its unlock, over direct connections; `PlanAhead` keeps plans free
  of what is applied, halfway through a migration too; `RestIsApplied` says that what a deploy has left is on
  its plan, which holds behind a pooler as well, where two deploys may migrate at once.

**`InvitationsProofs`**

* `SpentBeforeExpiry`: `Spec => []SpentInTime`; `TrailTellsTheState`:
  `Spec => []TrailExplainsAdmission`; `KeepsThePromise`: `Spec => AdmissionIsKept`, the
  refinement of `Admission`. All three rest on `LockInv`: the row lock and the two unique indexes have one
  holder each (`Alone`), what a holder found is still so when it commits (`Reliable`), and a row that
  does not exist yet is blank. `OnlyCommits` reduces the steps to the three that commit, `Commits` says
  what each does to the row, and each maps to one step of `Admission`; every other step stutters.

**`CredentialsProofs`** (one invariant, `IInv`, for all five properties)

* `LinksOpenOnce`: `Spec => LinksAreSpentOnce`; `ResetEndsSessions`: `Spec => []SessionsEndWithReset`;
  `ResetsAlone`: `Spec => []OnlyResetsDeadlock`; `LinkIsOwed`: `Spec => []RegisteredIsMailed`;
  `ConfirmedForGood`: `Spec => ConfirmedStays`. `HoldingInv` says that a request that spends a link
  holds one of the right kind, unused, that nobody else holds it, that one reset at a time makes the
  others moot and that it knows of all but the late ones. `SessionInv` says that a session from before a reset, and one that a
  request is about to store, is made of an older password, unless a change was saved over the reset. `AccountInv`
  says that nothing precedes the account.

**`CatalogueProofs`** (`IInv` is `CatalogueType /\ VisitShape /\ HistoryInv /\ VisitInv`; `ExactInv` is
`LiveOnce /\ SearchInv /\ PageInv`)

* `ShownIsPublished`: `Spec => []OnlyPublishedIsShown`; `ListsAreWhole`:
  `Spec => []NothingIsMissedOrRepeated`; `BodiesArePaidFor`: `Spec => []PaidBodiesArePaidFor`. `HistoryInv`
  ties the history to the present: what is live was live at some moment, what stood throughout is
  live. `ShownInv` and `CursorInv` are the two halves of the cursor: what was shown is not beyond it, what
  stood and was not shown is. The rest say what an answer half made already holds.
* `ExactAnswers`: `Spec => []AnswersAreExact`. Of a search: what full text did not match when the visit turned to
  similar titles, it does not match yet of the courses that stand (`SearchInv`). Of a length: while no lesson changes,
  total and outline are those of the lessons there are (`PageInv`); `MapThenSumSet` is a recursive
  function over subsets, so `SumIsMoments` compares it with the number of pairs of a lesson and one of its seconds, which
  solves the same equation and is the only solution (by a smallest set where they differ), and the sums
  over what counts and over the outline are then of one set. Of the strip: `BeforeIsAnOrder`, since a course is live once
  (`LiveOnce`), so that places in it are distinct numbers below the limit (`StripIsShort`), and whoever
  precedes a course left out precedes one that shares less (`StripIsClosest`).

Only model-checked: liveness (`EverythingSettles` of media and of transcripts, `EveryDeployEnds`), since fairness
and ENABLED are outside the prover. Every invariant and every action property of a run is a theorem.

## 5. Where the code and its documents disagree

The properties of the runs state what the code does keep. What a comment, a docstring or a test says
and the code does not keep is stated in the modules, under "Statements of the repository that
the code does not keep": TLC refutes each when it is added to the configuration of its module (in the media
and transcript modules under the fairness above, where it is temporal). No run of its own repeats them.

| Statement | What happens |
|---|---|
| `RetryReachesProvider` | a failure "costs a click" (`media_assets/services.py:203`). But a copy that ERRORED leaves its id on the row; the task sees the id and returns, and the asset stays UPLOADED (`:230`) |
| `ApprovedAsSigned` | an edit decides whether to withdraw the approval from the status it read with the cue (`transcripts/services.py:145`, against `:7`): an approval committed before it saves stays, over words nobody signed |
| `SignatureMeansApproved` | `approve`, then `start_review`: the status goes back and the signature stays (`transcripts/services.py:193`, against `:237`) |
| `LastLessonDatesTheCourse` | two tabs finish the last two lessons at once; each counts the other's as unfinished, and the course is never dated (`learning/services.py:100`, against `:107`) |
| `ReplacementNotOverwritten` | the hand-over is saved by primary key after the provider call; a replacement made meanwhile is overwritten |
| `OneCopyPerMaster`, `OneJobAtATime` | a call that raised after it succeeded is retried, and pays twice |
| `UnknownIsNotOurs`, `UnknownJobIsNotOurs` | an event overtakes the id it refers to, is taken for somebody else's and dropped |
| `ReapplyIsNoOp` | a redelivered event is applied over a row that has moved on |
| `RetriedMasterIsStored` | a rejected upload's object was deleted; it can be retried all the same |
| `UploadedWasReceived` | a completion verifies one key and saves the status of a row that names another |
| `CallbackSparesReviewedWork`, `RequestSparesReviewedWork`, `EditedCuesSurvive` | the check for human work precedes the transaction that replaces it |
| `ReviewersFollowTheTable` | moves are checked on what was loaded |
| `LiveUntilArchived` | an edit, or a second move, loaded before a decision saves the status it loaded: an approved course goes back without being archived |
| `CourseDateNeverMoves` | `completed_at` is saved from an enrollment read before the other tab dated it |
| `DatedMeansFinished` | lessons and finished lessons are counted by two statements; a lesson added and finished in between makes up for one that is not done |
| `CancelKeepsThePeriod` | the fake provider's cancellation ends a full period from now, whatever was paid |
| `ExpiredIsFinal` | a renewal loaded before an immediate cancellation brings the row back |
| `OtherLinksAreMoot` | a reset link issued while the closing UPDATE waits is not found by it and stays usable |
| `AllSessionsEnd`, `ChangedWhatItChecked` | a change of password checked before a reset is saved over it, and keeps its session |
| `PartialEditsKeepTheOrder` | an edit that names no position writes back the one it loaded, over a reorder |
| `ReordersNeverDeadlock` | two reorders that read different orders lock the same rows in different orders |
| `PooledIsRefused`, `OneMigratesBehindAPooler` | the two statements of the session check may reach one backend by luck; the deploy then believes in a lock that serialises nothing |
| `LockNeverLeaks` | behind a pooler the lock can stay with a backend nobody uses |
| `CutMeansMore` | a full list of exactly the limit says it was cut |
| `NewestPublishedFirst` | "paginated by publication date" (`catalog/public_views.py:137`): the pages are by the date of creation |
| `NoDeadEnd` | a language offered can have lost its last course by the next request |
| `NoPartialTotal` | the outline is read after the total: a lesson that is added, or loses its measure, between them is listed all the same |

Each of the properties that hold says under which condition (`~stale`, `~overlapped`,
`~grew`, `unknown`) the code keeps the promise; the table shows that the condition is needed.

One reading without a module: `UserAdmin.save_model` (`accounts/admin.py:65`) calls `change_role` with
an instance on which the form has already set the new role. The service sees no change and raises
`RoleUnchanged`, the admin suppresses it, and the new role is not saved. There is one actor and one call in it;
a test settles it better than a model.

## 6. Not modelled

* Browser session status (`src/frontend/src/lib/auth`): tickets, epochs and sequence numbers that keep an old
  answer from moving the notice. It is concurrent, and worth a module; what it guards is a
  notice on one page, so the server's own state came first.
* Lesson player (`src/frontend/src/components/learn`): the accumulator, its remainder and the order of answers
  inside a page. `LearningProgress` takes every heartbeat the player could send, in any order, so what
  is committed is covered; what the page shows meanwhile is not.
* Learning reads, the instructor's lists, metrics, admin views: reads of committed rows without
  state. Those of which staleness or dates are the subject are modelled: cached subtitles, the
  resolver, the catalogue's answers.
* Entitlement alerts: one nightly read and one mail, nothing kept. The decision it reports is `Findings`.
* Account administration (roles, deactivation, the data export): single calls under one actor, see the
  reading at the end of section 5.
* Authentication, permissions, throttles and lockouts: who may call an operation is left out of
  every module, save the two gates in front of a lesson; the operations are modelled for whoever may.
* Notices that carry nothing: no state follows from them. The messages that carry a link are in `Credentials`.
* `check_database`, `report_metrics`, `enrol_admin_totp`, the demo seed: they run once, alone.
* Settings, formatting, SEO, styling, infrastructure as code, CI and one-shot scripts.

## 7. Plan

1. **Session status** (`session-status.ts`, `client.ts`, `useCurrentUser.ts`): three requests in
   flight whose answers arrive in any order; an answer from before a login, logout or expiry
   never moves the snapshot.
2. **Lesson player**: the accumulator with its carried remainder, readiness, the final beat and the order of
   answers, above `LearningProgress`.
3. **Composition**: `MediaPipeline` with `TranscriptReview` through `request_transcription`, the transcript's
   `playable` replaced by the asset's status; the webhook inbox as an abstract module (an event
   is stored once and settled once) that both detailed inboxes implement.
4. **Theorems**: the refinement of point 3. Liveness stays with TLC.

## 8. Running it

    tlc -workers 2 -config MCMediaPipeline_races.cfg MCMediaPipeline
    tlapm MediaPipelineProofs.tla
    tlapm LearningProgressProofs.tla
    tlapm EntitlementsProofs.tla
    tlapm CatalogProofs.tla
    tlapm InvitationsProofs.tla
    tlapm TranscriptReviewProofs.tla
    tlapm CredentialsProofs.tla
    tlapm CatalogueProofs.tla

The table in section 3 names the configuration of each run; its module is the part before the
underscore. The longest run takes about a minute with two workers, and the longest proof
(`CatalogProofs`, `MediaPipelineProofs`) a few minutes from nothing.
