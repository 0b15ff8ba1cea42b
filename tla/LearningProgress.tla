--------------------------- MODULE LearningProgress ---------------------------
(***************************************************************************)
(* What one learner has watched of one course: record_progress and         *)
(* mark_complete of apps/learning services.py, called from several tabs    *)
(* at once, while an instructor adds lessons.                              *)
(*                                                                         *)
(* Every call is one READ COMMITTED transaction.  lessons, progress and    *)
(* enrollment hold what is committed; a tab's uncommitted rows are in its  *)
(* record and seen by nobody else.  A row lock lasts until the transaction *)
(* ends, so who holds one follows from the states of the tabs.             *)
(*                                                                         *)
(* Abstracted: a completed_at is how often it has been written, 0 for a    *)
(* null, and seconds are small numbers.  A denied call (resolve_access)    *)
(* writes nothing and is left out, as are deletions of lessons and         *)
(* learners.                                                               *)
(***************************************************************************)
EXTENDS Integers, FiniteSets

CONSTANTS
    Lessons,
    FirstLessons,  \* those the course has to begin with
    Tabs,          \* requests of this learner that may run at once
    Durations,     \* lengths a provider may report
    Positions,     \* where a playhead may be
    Deltas,        \* seconds a heartbeat may claim
    MaxBeat,       \* PROGRESS_MAX_HEARTBEAT_SECONDS
    Percent,       \* LESSON_COMPLETION_THRESHOLD
    MaxWatched     \* bound on the seconds of a lesson of unknown length

ASSUME LearningAssumption ==
    /\ IsFiniteSet(Lessons) /\ FirstLessons \subseteq Lessons
    /\ Durations \subseteq Nat \ {0} /\ Positions \subseteq Nat
    /\ Deltas \subseteq Int
    /\ MaxBeat \in Nat /\ MaxWatched \in Nat /\ Percent \in 1..100

VARIABLES
    lessons,     \* the lessons of the course
    progress,    \* the LessonProgress rows
    enrollment,  \* the Enrollment row
    tab,         \* the transaction each tab is in
    overlapped,  \* history: a course was counted beside an unfinished finish
    grew         \* history: a lesson appeared between the two counts

vars == <<lessons, progress, enrollment, tab, overlapped, grew>>

(* furthest is max_position_seconds; the database refuses a row it is      *)
(* behind last_position_seconds in.                                        *)
Rows == {r \in [exists: BOOLEAN, last: Nat, furthest: Nat, watched: Nat, done: Nat] :
           r.last <= r.furthest}
Unstarted == [exists |-> FALSE, last |-> 0, furthest |-> 0, watched |-> 0, done |-> 0]

None == "none"
Enrollments == [exists: BOOLEAN, last: Lessons \cup {None}, done: Nat]
Unenrolled == [exists |-> FALSE, last |-> None, done |-> 0]

(* length is MediaAsset.duration_seconds, 0 while unknown; a mark carries  *)
(* no numbers.                                                             *)
Calls == [op: {"beat", "mark"}, lesson: Lessons, position: Positions \cup {0},
          delta: Deltas \cup {0}, length: Durations \cup {0}]

(* counted: the lessons the first count saw; sawDone: completed_at of the  *)
(* enrollment instance; mine: the row this transaction has written.        *)
Idle == [at |-> "idle"]
Steps == {"bookmark", "enrol", "move", "count", "compare", "date", "commit"}
Transaction == [at: Steps, call: Calls, row: Rows, finished: BOOLEAN,
                sawDone: Nat, counted: SUBSET Lessons, mine: Enrollments]

TypeOK ==
    /\ lessons \in SUBSET Lessons
    /\ progress \in [Lessons -> Rows]
    /\ enrollment \in Enrollments
    /\ tab \in [Tabs -> Transaction \cup {Idle}]
    /\ overlapped \in BOOLEAN /\ grew \in BOOLEAN

Init ==
    /\ lessons = FirstLessons
    /\ progress = [l \in Lessons |-> Unstarted]
    /\ enrollment = Unenrolled
    /\ tab = [t \in Tabs |-> Idle]
    /\ overlapped = FALSE /\ grew = FALSE

-----------------------------------------------------------------------------
(* The lock on the progress row of l, and the one on the enrollment row.   *)
HoldsRow(u, l) == tab[u].at # "idle" /\ tab[u].call.lesson = l
HoldsEnrollment(u) == tab[u].at # "idle" /\ tab[u].mine.exists

Unlocked(t, l) == TRUE
RowFree(t, l) == ~\E u \in Tabs \ {t} : HoldsRow(u, l)
EnrollmentFree(t) == ~\E u \in Tabs \ {t} : HoldsEnrollment(u)

Smaller(m, n) == IF m <= n THEN m ELSE n
Larger(m, n) == IF m >= n THEN m ELSE n

Clamped(delta) == Larger(0, Smaller(delta, MaxBeat))
Capped(watched, length) == IF length = 0 THEN watched ELSE Smaller(watched, length)

IsComplete(watched, length) ==
    length # 0 /\ 100 * watched >= Percent * length

(* A row after a heartbeat, its date apart. *)
Fold(row, call) ==
    [row EXCEPT !.exists = TRUE, !.last = call.position,
                !.furthest = Larger(@, call.position),
                !.watched = Capped(@ + Clamped(call.delta), call.length)]

Refinishes(row, call) ==
    call.op = "mark" \/ IsComplete(Fold(row, call).watched, call.length)
Finishes(row, call) ==
    /\ row.done = 0
    /\ call.op = "mark" \/ IsComplete(Fold(row, call).watched, call.length)

(* What the call makes of the row it has locked. *)
Written(row, call) ==
    LET kept == IF call.op = "mark" THEN [row EXCEPT !.exists = TRUE]
                                    ELSE Fold(row, call)
    IN  IF Finishes(row, call) THEN [kept EXCEPT !.done = @ + 1] ELSE kept

-----------------------------------------------------------------------------
Goto(t, step) == tab' = [tab EXCEPT ![t].at = step]

(* The call reads the lesson's length, waits for the row                   *)
(* (select_for_update().get_or_create), folds the call in and saves.  The  *)
(* length is what some ready video had at some time before: any of them.   *)
LockAndSave(t) ==
    /\ tab[t].at = "idle"
    /\ \E call \in Calls :
         LET row == progress[call.lesson]
         IN  /\ call.lesson \in lessons
             /\ call.op = "mark" => call.position = 0 /\ call.delta = 0 /\ call.length = 0
             /\ RowFree(t, call.lesson)
             /\ Written(row, call).watched <= MaxWatched
             /\ tab' = [tab EXCEPT ![t] =
                  [at |-> "bookmark", call |-> [call EXCEPT !.position = 0],
                   row |-> Written(row, call), finished |-> Finishes(row, call),
                   sawDone |-> 0, counted |-> {}, mine |-> Unenrolled]]
    /\ UNCHANGED <<lessons, progress, enrollment, overlapped, grew>>

(* Where a transaction goes once the enrollment is at hand. *)
Onward(t, sawDone) == IF tab[t].finished /\ sawDone = 0 THEN "count" ELSE "commit"

(* _bookmark: the read. *)
FindEnrollment(t) ==
    /\ tab[t].at = "bookmark"
    /\ \/ /\ ~enrollment.exists
          /\ Goto(t, "enrol")
       \/ /\ enrollment.exists
          /\ enrollment.last = tab[t].call.lesson
          /\ Goto(t, Onward(t, enrollment.done))
       \/ /\ enrollment.exists
          /\ enrollment.last # tab[t].call.lesson
          /\ tab' = [tab EXCEPT ![t].at = "move", ![t].sawDone = enrollment.done]
    /\ UNCHANGED <<lessons, progress, enrollment, overlapped, grew>>

(* The insert waits for an uncommitted one; one_enrollment_per_course then *)
(* refuses it and the whole call with it.                                  *)
Enrol(t) ==
    /\ tab[t].at = "enrol"
    /\ EnrollmentFree(t)
    /\ IF enrollment.exists
       THEN tab' = [tab EXCEPT ![t] = Idle]
       ELSE tab' = [tab EXCEPT ![t].at = Onward(t, 0),
              ![t].mine = [exists |-> TRUE, last |-> tab[t].call.lesson, done |-> 0]]
    /\ UNCHANGED <<lessons, progress, enrollment, overlapped, grew>>

MoveBookmark(t) ==
    /\ tab[t].at = "move"
    /\ EnrollmentFree(t)
    /\ tab' = [tab EXCEPT ![t].at = Onward(t, tab[t].sawDone), ![t].sawDone = 0,
                          ![t].mine = [enrollment EXCEPT !.last = tab[t].call.lesson]]
    /\ UNCHANGED <<lessons, progress, enrollment, overlapped, grew>>

(* course_is_complete counts twice: the lessons, then those that are done  *)
(* in what is committed and in its own writes.                             *)
CountLessons(t) ==
    /\ tab[t].at = "count"
    /\ tab' = [tab EXCEPT ![t].at = "compare", ![t].counted = lessons]
    /\ UNCHANGED <<lessons, progress, enrollment, overlapped, grew>>

StartedSeen(t) == {l \in lessons : progress[l].exists \/ l = tab[t].call.lesson}
DoneSeen(t) == {l \in lessons : progress[l].done # 0 \/ l = tab[t].call.lesson}

CountDone(t) ==
    /\ tab[t].at = "compare"
    /\ tab' = [tab EXCEPT
         ![t].counted = {},
         ![t].at = IF Cardinality(DoneSeen(t)) >= Cardinality(tab[t].counted)
                   THEN "date" ELSE "commit"]
    /\ grew' = (grew \/ lessons # tab[t].counted)
    /\ overlapped' = (overlapped \/ \E u \in Tabs \ {t} :
                                      tab[u].at # "idle" /\ tab[u].finished)
    /\ UNCHANGED <<lessons, progress, enrollment>>

(* Saves completed_at of the instance that was loaded, over whatever the   *)
(* row now holds.                                                          *)
DateCourse(t) ==
    /\ tab[t].at = "date"
    /\ EnrollmentFree(t)
    /\ LET row == IF tab[t].mine.exists THEN tab[t].mine ELSE enrollment
       IN  tab' = [tab EXCEPT ![t].at = "commit",
                              ![t].mine = [row EXCEPT !.done = @ + 1]]
    /\ UNCHANGED <<lessons, progress, enrollment, overlapped, grew>>

Commit(t) ==
    /\ tab[t].at = "commit"
    /\ progress' = [progress EXCEPT ![tab[t].call.lesson] = tab[t].row]
    /\ enrollment' = IF tab[t].mine.exists THEN tab[t].mine ELSE enrollment
    /\ tab' = [tab EXCEPT ![t] = Idle]
    /\ UNCHANGED <<lessons, overlapped, grew>>

(* The process or its connection dies, and the transaction with it. *)
Abort(t) ==
    /\ tab[t].at # "idle"
    /\ tab' = [tab EXCEPT ![t] = Idle]
    /\ UNCHANGED <<lessons, progress, enrollment, overlapped, grew>>

CreateLesson(l) ==
    /\ l \notin lessons
    /\ lessons' = lessons \cup {l}
    /\ UNCHANGED <<progress, enrollment, tab, overlapped, grew>>

Next ==
    \/ \E t \in Tabs : \/ LockAndSave(t) \/ FindEnrollment(t)
                       \/ Enrol(t) \/ MoveBookmark(t)
                       \/ CountLessons(t) \/ CountDone(t) \/ DateCourse(t)
                       \/ Commit(t) \/ Abort(t)
    \/ \E l \in Lessons : CreateLesson(l)

Spec == Init /\ [][Next]_vars

-----------------------------------------------------------------------------
(* A lesson's completion, once committed, is neither taken back nor        *)
(* re-dated, and the furthest point reached never falls, whatever tabs     *)
(* interleave (record_progress: "completed_at is never cleared here";      *)
(* mark_complete: "it never moves the date").                              *)
LessonStaysDone ==
    [][\A l \in Lessons :
         /\ progress[l].done # 0 => progress'[l].done = progress[l].done
         /\ progress'[l].furthest >= progress[l].furthest]_vars

(* Every heartbeat that commits adds its clamped seconds to what was       *)
(* committed before it, not to what it read while another tab was writing  *)
(* (record_progress' select_for_update).                                   *)
NoBeatIsLost ==
    [][\A t \in Tabs : Commit(t) /\ tab[t].call.op = "beat" =>
         LET l == tab[t].call.lesson
         IN  progress'[l].watched =
               Capped(progress[l].watched + Larger(0, Smaller(tab[t].call.delta, MaxBeat)),
                      tab[t].call.length)]_vars

(* A course is dated only when every lesson it has had since the learner   *)
(* began was finished (course_is_complete: "All of them, not a             *)
(* proportion"), unless a lesson appeared between the two counts.          *)
DatedWasFinished ==
    enrollment.done # 0 /\ ~grew => \A l \in FirstLessons : progress[l].done # 0

AllDone == lessons # {} /\ \A l \in lessons : progress[l].done # 0

(* The moment the last lesson lands the course is dated, unless two        *)
(* lessons were being finished at once (_complete_course_if_finished).     *)
FinishedIsDated == AllDone /\ ~overlapped => enrollment.done # 0

(* The date of a course says that it was finished, and is there when it is *)
(* (_complete_course_if_finished).                                         *)
DatedWhenFinished == DatedWasFinished /\ FinishedIsDated

-----------------------------------------------------------------------------
(* Statements of the repository that the code does not keep. *)

(* "Set Enrollment.completed_at the moment the last lesson lands."         *)
LastLessonDatesTheCourse == AllDone => enrollment.done # 0

(* "Never cleared, and never recomputed afterwards."                       *)
CourseDateNeverMoves ==
    [][enrollment.done # 0 => enrollment'.done = enrollment.done]_vars

(* "Every lesson finished."                                                *)
DatedMeansFinished ==
    enrollment.done # 0 => \A l \in FirstLessons : progress[l].done # 0
=============================================================================
