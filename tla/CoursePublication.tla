-------------------------- MODULE CoursePublication --------------------------
(***************************************************************************)
(* One course on its way through review: the state machine of              *)
(* apps/catalog services.py, reached from the instructor's API and from    *)
(* the admin's queue, with the edits that run beside it.                   *)
(*                                                                         *)
(* A caller loads the course, and the service checks and saves that        *)
(* instance later without a lock: the two are separate steps.  Moves save  *)
(* their own fields; edits, course.save() without update_fields, save      *)
(* every column as it was loaded.                                          *)
(*                                                                         *)
(* Abstracted: title and about stand for the edited columns, vector is the *)
(* pair of them that search has indexed, dated says that published_at is   *)
(* set, and the trail of CourseReviewEvents is the kinds it holds and its  *)
(* newest event.  The audit row and the mails that go with an event, and   *)
(* ownership and role checks, are left out.                                *)
(***************************************************************************)
CONSTANTS
    Words,     \* what a column may say
    Requests   \* requests between loading the course and saving it

VARIABLES
    status, dated, title, about, vector,  \* the Course row; "NONE" before it
    events, newest,                       \* its review trail
    request,                              \* requests and the row each loaded
    stale,     \* history: a move was saved on a row that had moved since
    bypassed   \* history: the last edit went through the admin change form

row == <<status, dated, title, about, vector>>
trail == <<events, newest>>
vars == <<row, trail, request, stale, bypassed>>

Statuses == {"NONE", "DRAFT", "IN_REVIEW", "PUBLISHED", "ARCHIVED"}
Actions == {"SUBMITTED", "APPROVED", "REJECTED", "CHANGES_REQUESTED"}
Decisions == {"REJECTED", "CHANGES_REQUESTED"}

TransitionsWithShortcut ==
    {<<"DRAFT", "IN_REVIEW">>, <<"IN_REVIEW", "PUBLISHED">>, <<"IN_REVIEW", "DRAFT">>,
     <<"PUBLISHED", "ARCHIVED">>, <<"ARCHIVED", "DRAFT">>, <<"IN_REVIEW", "ARCHIVED">>}
ALLOWED_TRANSITIONS ==
    {<<"DRAFT", "IN_REVIEW">>,
     <<"IN_REVIEW", "PUBLISHED">>,
     <<"IN_REVIEW", "DRAFT">>,
     <<"PUBLISHED", "ARCHIVED">>,
     <<"ARCHIVED", "DRAFT">>}

Course == [status: Statuses, dated: BOOLEAN, title: Words, about: Words,
           vector: Words \X Words]
Loaded == [status |-> status, dated |-> dated, title |-> title, about |-> about,
           vector |-> vector]

(* Where each service leads; the other purposes only edit. *)
Target == [submit |-> "IN_REVIEW", approve |-> "PUBLISHED",
           return |-> "DRAFT", archive |-> "ARCHIVED"]
Purposes == DOMAIN Target \cup {"edit", "admin edit"}

TypeOK ==
    /\ status \in Statuses /\ dated \in BOOLEAN
    /\ title \in Words /\ about \in Words /\ vector \in Words \X Words
    /\ events \in SUBSET Actions
    /\ newest \in Actions \cup {"NONE"}
    /\ request \in [Requests -> [for: Purposes \cup {"none"}, saw: Course]]
    /\ stale \in BOOLEAN /\ bypassed \in BOOLEAN

Idle == [for |-> "none", saw |-> CHOOSE c \in Course : c.status = "NONE"]

Init ==
    /\ status = "NONE" /\ dated = FALSE
    /\ title \in Words /\ about \in Words
    /\ vector = <<title, about>>
    /\ events = {} /\ newest = "NONE"
    /\ request = [r \in Requests |-> Idle]
    /\ stale = FALSE /\ bypassed = FALSE

(* create_course: a draft, indexed in the same transaction. *)
CreateCourse ==
    /\ status = "NONE"
    /\ status' = "DRAFT"
    /\ UNCHANGED <<dated, title, about, vector, trail, request, stale, bypassed>>

(* The view or the admin action loads the course; a service refuses at     *)
(* once a move its table does not have.                                    *)
Load(r, purpose) ==
    /\ request[r].for = "none"
    /\ status # "NONE"
    /\ purpose \in DOMAIN Target
         => <<status, Target[purpose]>> \in ALLOWED_TRANSITIONS
    /\ request' = [request EXCEPT ![r] = [for |-> purpose, saw |-> Loaded]]
    /\ UNCHANGED <<row, trail, stale, bypassed>>

-----------------------------------------------------------------------------
(* The loaded row with one or both of its columns changed. *)
Edited(old) ==
    {[old EXCEPT !.title = w[1], !.about = w[2]] : w \in Words \X Words} \ {old}

Overwrite(new) ==
    /\ status' = new.status /\ dated' = new.dated
    /\ title' = new.title /\ about' = new.about
    /\ stale' = (stale \/ status # new.status)

(* refresh_search_vector reads the columns back in the database. *)
IndexedBeforeSave == <<title, about>>
Indexed == <<title', about'>>

(* update_course: the whole row as loaded, then the index. *)
SaveEdit(r) ==
    /\ request[r].for = "edit"
    /\ \E new \in Edited(request[r].saw) : Overwrite(new)
    /\ vector' = Indexed
    /\ bypassed' = FALSE
    /\ request' = [request EXCEPT ![r] = Idle]
    /\ UNCHANGED trail

(* CourseAdmin's change form saves the whole row, its index included. *)
SaveAdminEdit(r) ==
    /\ request[r].for = "admin edit"
    /\ \E new \in Edited(request[r].saw) : Overwrite(new)
    /\ vector' = request[r].saw.vector
    /\ bypassed' = TRUE
    /\ request' = [request EXCEPT ![r] = Idle]
    /\ UNCHANGED trail

(* A move: the status, and in the same transaction its event.              *)
Move(r, purpose) ==
    /\ request[r].for = purpose
    /\ status' = Target[purpose]
    /\ stale' = (stale \/ status # request[r].saw.status)
    /\ request' = [request EXCEPT ![r] = Idle]
    /\ UNCHANGED <<title, about, vector, bypassed>>

Record(action) == newest' = action /\ events' = events \cup {action}

SubmitForReview(r) == Move(r, "submit") /\ Record("SUBMITTED") /\ UNCHANGED dated

DateKept == dated
PublicationDate == TRUE
Approve(r) == Move(r, "approve") /\ Record("APPROVED") /\ dated' = PublicationDate

(* reject and request_changes: one transition, two events. *)
ReturnToDraft(r) ==
    /\ Move(r, "return")
    /\ \E decision \in Decisions : Record(decision)
    /\ dated' = FALSE

(* archive writes no event. *)
Archive(r) == Move(r, "archive") /\ dated' = FALSE /\ UNCHANGED trail

-----------------------------------------------------------------------------
Next ==
    \/ CreateCourse
    \/ \E r \in Requests :
          \/ \E purpose \in Purposes : Load(r, purpose)
          \/ SaveEdit(r) \/ SaveAdminEdit(r)
          \/ SubmitForReview(r) \/ Approve(r) \/ ReturnToDraft(r) \/ Archive(r)

Spec == Init /\ [][Next]_vars

-----------------------------------------------------------------------------
(* course_published_has_published_at holds whatever interleaves, and every *)
(* course that is live was approved once: "each live course" has an event  *)
(* naming who approved it.                                                 *)
PublishedWasApproved == status = "PUBLISHED" => dated /\ "APPROVED" \in events

(* As long as no move was saved over a row that had moved, the newest      *)
(* event explains the status, and only a live course has a date.           *)
TrailExplainsStatus ==
    ~stale =>
        /\ status = "IN_REVIEW" => newest = "SUBMITTED"
        /\ status \in {"PUBLISHED", "ARCHIVED"} => newest = "APPROVED"
        /\ status = "DRAFT" => newest \in Decisions \cup {"NONE"}
        /\ dated <=> status = "PUBLISHED"

(* However edits and moves interleave, search finds the course by the      *)
(* words it has, unless the last edit bypassed refresh_search_vector.      *)
SearchFindsTheWords == ~bypassed => vector = <<title, about>>

-----------------------------------------------------------------------------
(* Statements of the repository that the code does not keep. *)

(* services.py:54: a transition absent from the table "cannot happen,      *)
(* whoever asks": a live course leaves the catalogue by being archived.    *)
LiveUntilArchived ==
    [][status = "PUBLISHED" => status' \in {"PUBLISHED", "ARCHIVED"}]_vars

=============================================================================
