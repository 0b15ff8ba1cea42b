----------------------- MODULE LearningProgressProofs -----------------------
(* Proofs about LearningProgress: the row a transaction holds was computed *)
(* from what is committed, so committing it loses no heartbeat and moves   *)
(* no completion; and a course is dated when it was finished, whichever of *)
(* the tabs brings the last lesson.                                        *)
EXTENDS LearningProgress, FiniteSetTheorems, TLAPS

-----------------------------------------------------------------------------
(* Types. *)

(* What an action may assume of a tab inside a transaction. *)
LEMMA TabTypes ==
    ASSUME TypeOK, NEW t \in Tabs, tab[t].at # "idle"
    PROVE  /\ tab[t] \in Transaction
           /\ tab[t].call \in Calls
           /\ tab[t].call.lesson \in Lessons
           /\ tab[t].row \in Rows
           /\ tab[t].mine \in Enrollments
           /\ tab[t].sawDone \in Nat
<1>1. tab[t] \in Transaction
  BY DEF TypeOK, Idle
<1>2. QED
  BY <1>1 DEF Transaction, Calls

(* The numbers a call carries, and the seconds it may leave on a row.      *)
LEMMA CallNumbers ==
    /\ \A d \in Deltas \cup {0} : d \in Int
    /\ \A n \in Durations \cup {0} : n \in Nat
    /\ \A p \in Positions \cup {0} : p \in Nat
BY LearningAssumption

LEMMA ClampedType == \A d \in Int : Clamped(d) \in Nat
BY LearningAssumption DEF Clamped, Larger, Smaller

LEMMA WatchedType ==
    \A m, n \in Nat, d \in Int : Capped(m + Clamped(d), n) \in Nat
BY ClampedType DEF Capped, Smaller

(* A heartbeat turns a row into a row, and never lowers its maximum. *)
LEMMA FoldType ==
    ASSUME NEW row \in Rows, NEW call \in Calls
    PROVE  /\ Fold(row, call) \in Rows
           /\ Fold(row, call).done = row.done
           /\ Fold(row, call).furthest >= row.furthest
           /\ Fold(row, call).watched =
                Capped(row.watched + Clamped(call.delta), call.length)
<1> DEFINE w == Capped(row.watched + Clamped(call.delta), call.length)
           f == Larger(row.furthest, call.position)
<1>1. /\ call.delta \in Int /\ call.length \in Nat /\ call.position \in Nat
      /\ row.watched \in Nat /\ row.furthest \in Nat
  <2>1. /\ call.delta \in Deltas \cup {0} /\ call.length \in Durations \cup {0}
        /\ call.position \in Positions \cup {0}
    BY DEF Calls
  <2>2. row.watched \in Nat /\ row.furthest \in Nat
    BY DEF Rows
  <2>3. QED
    BY <2>1, <2>2, CallNumbers
<1>2. w \in Nat
  BY <1>1, WatchedType
<1>3. f \in Nat /\ f >= row.furthest /\ f >= call.position
  BY <1>1 DEF Larger
<1>4. Fold(row, call) = [row EXCEPT !.exists = TRUE, !.last = call.position,
                                    !.furthest = f, !.watched = w]
  BY DEF Fold, Rows
<1> HIDE DEF w, f
<1>5. QED
  BY <1>1, <1>2, <1>3, <1>4 DEF Rows, w

LEMMA WrittenType ==
    ASSUME NEW row \in Rows, NEW call \in Calls
    PROVE  /\ Written(row, call) \in Rows
           /\ row.done # 0 => Written(row, call).done = row.done
           /\ Written(row, call).furthest >= row.furthest
           /\ call.op = "beat" => Written(row, call).watched =
                Capped(row.watched + Clamped(call.delta), call.length)
<1> DEFINE kept == IF call.op = "mark" THEN [row EXCEPT !.exists = TRUE]
                                       ELSE Fold(row, call)
<1>1. /\ kept \in Rows /\ kept.done = row.done
      /\ kept.furthest >= row.furthest
      /\ call.op = "beat" => kept.watched =
           Capped(row.watched + Clamped(call.delta), call.length)
  <2>1. CASE call.op = "mark"
    <3>1. kept = [row EXCEPT !.exists = TRUE]
      BY <2>1
    <3>2. [row EXCEPT !.exists = TRUE] \in Rows
      BY DEF Rows
    <3>3. kept.done = row.done /\ kept.furthest = row.furthest /\ row.furthest \in Nat
      BY <3>1 DEF Rows
    <3> HIDE DEF kept
    <3>4. QED
      BY <2>1, <3>1, <3>2, <3>3
  <2>2. CASE call.op # "mark"
    BY <2>2, FoldType
  <2>3. QED
    BY <2>1, <2>2
<1>2. Written(row, call) = IF Finishes(row, call) THEN [kept EXCEPT !.done = @ + 1]
                                                  ELSE kept
  BY DEF Written
<1>3. Finishes(row, call) => row.done = 0
  BY DEF Finishes
<1> HIDE DEF kept
<1>4. QED
  BY <1>1, <1>2, <1>3 DEF Rows

LEMMA OnwardType == \A t \in Tabs, n \in Nat : Onward(t, n) \in {"count", "commit"}
BY DEF Onward

-----------------------------------------------------------------------------
(* A step inside a transaction keeps its call and its row, or ends it; the *)
(* other tabs and the progress rows stay as they are.                      *)
Inside(t) ==
    /\ tab[t].at # "idle"
    /\ \/ tab' = [tab EXCEPT ![t] = Idle]
       \/ \E x \in Transaction :
            /\ x.at # "idle" /\ x.call = tab[t].call /\ x.row = tab[t].row
            /\ tab' = [tab EXCEPT ![t] = x]
    /\ UNCHANGED <<lessons, progress, enrollment>>
    /\ overlapped' \in BOOLEAN /\ grew' \in BOOLEAN

LEMMA InsideRecord ==
    ASSUME TypeOK, NEW t \in Tabs, tab[t].at # "idle",
           NEW x \in Transaction, x.call = tab[t].call, x.row = tab[t].row,
           tab' = [tab EXCEPT ![t] = x],
           UNCHANGED <<lessons, progress, enrollment>>,
           overlapped' \in BOOLEAN, grew' \in BOOLEAN
    PROVE  Inside(t)
<1>1. x.at # "idle"
  BY DEF Transaction, Steps
<1>2. QED
  BY <1>1 DEF Inside

(* The step Goto(t, s) is such a step. *)
LEMMA InsideGoto ==
    ASSUME TypeOK, NEW t \in Tabs, tab[t].at # "idle",
           NEW s \in Steps, Goto(t, s),
           UNCHANGED <<lessons, progress, enrollment, overlapped, grew>>
    PROVE  Inside(t)
<1> DEFINE x == [tab[t] EXCEPT !.at = s]
<1>1. x \in Transaction /\ x.call = tab[t].call /\ x.row = tab[t].row
  BY TabTypes DEF Transaction
<1>2. tab' = [tab EXCEPT ![t] = x]
  BY DEF Goto
<1> HIDE DEF x
<1>3. QED
  BY <1>1, <1>2, InsideRecord DEF TypeOK

LEMMA InsideBookmark ==
    ASSUME TypeOK, NEW t \in Tabs
    PROVE  FindEnrollment(t) \/ Enrol(t) \/ MoveBookmark(t) => Inside(t)
<1>1. enrollment.done \in Nat /\ enrollment \in Enrollments
  BY DEF TypeOK, Enrollments
<1>2. overlapped \in BOOLEAN /\ grew \in BOOLEAN
  BY DEF TypeOK
<1>3. ASSUME FindEnrollment(t) PROVE Inside(t)
  <2>1. tab[t].at # "idle"
    BY <1>3 DEF FindEnrollment
  <2>2. CASE Goto(t, "enrol")
    BY <1>3, <2>1, <2>2, InsideGoto DEF FindEnrollment, Steps
  <2>3. CASE Goto(t, Onward(t, enrollment.done))
    <3>1. Onward(t, enrollment.done) \in Steps
      BY <1>1, OnwardType DEF Steps
    <3>2. QED
      BY <1>3, <2>1, <2>3, <3>1, InsideGoto DEF FindEnrollment
  <2>4. CASE tab' = [tab EXCEPT ![t].at = "move", ![t].sawDone = enrollment.done]
    <3> DEFINE x == [tab[t] EXCEPT !.at = "move", !.sawDone = enrollment.done]
    <3>1. x \in Transaction /\ x.call = tab[t].call /\ x.row = tab[t].row
      BY <1>1, <2>1, TabTypes DEF Transaction, Steps
    <3>2. tab' = [tab EXCEPT ![t] = x]
      BY <2>4
    <3> HIDE DEF x
    <3>3. QED
      BY <1>2, <1>3, <2>1, <3>1, <3>2, InsideRecord DEF FindEnrollment
  <2>5. QED
    BY <1>3, <2>2, <2>3, <2>4 DEF FindEnrollment
<1>4. ASSUME Enrol(t) PROVE Inside(t)
  <2>1. tab[t].at # "idle"
    BY <1>4 DEF Enrol
  <2>2. CASE enrollment.exists
    BY <1>2, <1>4, <2>1, <2>2 DEF Enrol, Inside
  <2>3. CASE ~enrollment.exists
    <3> DEFINE m == [exists |-> TRUE, last |-> tab[t].call.lesson, done |-> 0]
               x == [tab[t] EXCEPT !.at = Onward(t, 0), !.mine = m]
    <3>1. m \in Enrollments
      BY <2>1, TabTypes DEF Enrollments
    <3>2. Onward(t, 0) \in Steps
      BY OnwardType DEF Steps
    <3>3. tab' = [tab EXCEPT ![t] = x]
      BY <1>4, <2>3 DEF Enrol
    <3> HIDE DEF m
    <3>4. x \in Transaction /\ x.call = tab[t].call /\ x.row = tab[t].row
      BY <2>1, <3>1, <3>2, TabTypes DEF Transaction
    <3> HIDE DEF x
    <3>5. QED
      BY <1>2, <1>4, <2>1, <3>3, <3>4, InsideRecord DEF Enrol
  <2>4. QED
    BY <2>2, <2>3
<1>5. ASSUME MoveBookmark(t) PROVE Inside(t)
  <2>1. tab[t].at # "idle"
    BY <1>5 DEF MoveBookmark
  <2> DEFINE m == [enrollment EXCEPT !.last = tab[t].call.lesson]
             o == Onward(t, tab[t].sawDone)
             x == [tab[t] EXCEPT !.at = o, !.sawDone = 0, !.mine = m]
  <2>2. m \in Enrollments
    BY <1>1, <2>1, TabTypes DEF Enrollments
  <2>3. o \in Steps
    BY <2>1, TabTypes, OnwardType DEF Steps
  <2>4. tab' = [tab EXCEPT ![t] = x]
    BY <1>5 DEF MoveBookmark
  <2> HIDE DEF m, o
  <2>5. x \in Transaction /\ x.call = tab[t].call /\ x.row = tab[t].row
    BY <2>1, <2>2, <2>3, TabTypes DEF Transaction
  <2> HIDE DEF x
  <2>6. QED
    BY <1>2, <1>5, <2>1, <2>4, <2>5, InsideRecord DEF MoveBookmark
<1>6. QED
  BY <1>3, <1>4, <1>5

LEMMA InsideCount ==
    ASSUME TypeOK, NEW t \in Tabs
    PROVE  CountLessons(t) \/ CountDone(t) \/ DateCourse(t) \/ Abort(t) => Inside(t)
<1>1. /\ enrollment \in Enrollments /\ lessons \in SUBSET Lessons
      /\ overlapped \in BOOLEAN /\ grew \in BOOLEAN
  BY DEF TypeOK
<1>2. ASSUME CountLessons(t) PROVE Inside(t)
  <2> DEFINE x == [tab[t] EXCEPT !.at = "compare", !.counted = lessons]
  <2>1. tab[t].at # "idle" /\ tab' = [tab EXCEPT ![t] = x]
    BY <1>2 DEF CountLessons
  <2>2. x \in Transaction /\ x.call = tab[t].call /\ x.row = tab[t].row
    BY <1>1, <2>1, TabTypes DEF Transaction, Steps
  <2> HIDE DEF x
  <2>3. QED
    BY <1>1, <1>2, <2>1, <2>2, InsideRecord DEF CountLessons
<1>3. ASSUME CountDone(t) PROVE Inside(t)
  <2> DEFINE s == IF Cardinality(DoneSeen(t)) >= Cardinality(tab[t].counted)
                  THEN "date" ELSE "commit"
             x == [tab[t] EXCEPT !.counted = {}, !.at = s]
  <2>1. tab[t].at # "idle" /\ tab' = [tab EXCEPT ![t] = x]
    BY <1>3 DEF CountDone
  <2>2. s \in Steps
    BY DEF Steps
  <2> HIDE DEF s
  <2>3. x \in Transaction /\ x.call = tab[t].call /\ x.row = tab[t].row
    BY <2>1, <2>2, TabTypes DEF Transaction
  <2>4. overlapped' \in BOOLEAN /\ grew' \in BOOLEAN
    BY <1>1, <1>3 DEF CountDone
  <2> HIDE DEF x
  <2>5. QED
    BY <1>3, <2>1, <2>3, <2>4, InsideRecord DEF CountDone
<1>4. ASSUME DateCourse(t) PROVE Inside(t)
  <2>1. tab[t].at # "idle"
    BY <1>4 DEF DateCourse
  <2> DEFINE r == IF tab[t].mine.exists THEN tab[t].mine ELSE enrollment
             m == [r EXCEPT !.done = @ + 1]
             x == [tab[t] EXCEPT !.at = "commit", !.mine = m]
  <2>2. r \in Enrollments
    BY <1>1, <2>1, TabTypes
  <2>3. tab' = [tab EXCEPT ![t] = x]
    BY <1>4 DEF DateCourse
  <2> HIDE DEF r
  <2>4. m \in Enrollments
    BY <2>2 DEF Enrollments
  <2> HIDE DEF m
  <2>5. x \in Transaction /\ x.call = tab[t].call /\ x.row = tab[t].row
    BY <2>1, <2>4, TabTypes DEF Transaction, Steps
  <2> HIDE DEF x
  <2>6. QED
    BY <1>1, <1>4, <2>1, <2>3, <2>5, InsideRecord DEF DateCourse
<1>5. ASSUME Abort(t) PROVE Inside(t)
  BY <1>1, <1>5 DEF Abort, Inside
<1>6. QED
  BY <1>2, <1>3, <1>4, <1>5

-----------------------------------------------------------------------------
(* The rows of two transactions are different, and each was computed from  *)
(* the one that is committed: what the row locks are for.                  *)
RowsApart ==
    \A t, u \in Tabs :
        t # u /\ tab[t].at # "idle" /\ tab[u].at # "idle"
            => tab[t].call.lesson # tab[u].call.lesson

Extends(new, old, call) ==
    /\ old.done # 0 => new.done = old.done
    /\ new.furthest >= old.furthest
    /\ call.op = "beat" =>
         new.watched = Capped(old.watched + Clamped(call.delta), call.length)

RowsComputed ==
    \A t \in Tabs : tab[t].at # "idle" =>
        Extends(tab[t].row, progress[tab[t].call.lesson], tab[t].call)

ProgressInv == TypeOK /\ RowsApart /\ RowsComputed

LEMMA ProgressInit == Init => ProgressInv
<1>1. SUFFICES ASSUME Init PROVE ProgressInv
  OBVIOUS
<1>2. \A t \in Tabs : tab[t].at = "idle"
  <2>1. \A t \in Tabs : tab[t] = Idle
    BY <1>1 DEF Init
  <2>2. Idle.at = "idle"
    BY DEF Idle
  <2>3. QED
    BY <2>1, <2>2
<1>3. Unstarted \in Rows /\ Unenrolled \in Enrollments
  BY DEF Unstarted, Rows, Unenrolled, Enrollments
<1>4. FirstLessons \in SUBSET Lessons
  BY LearningAssumption
<1>5. TypeOK
  <2>1. /\ lessons \in SUBSET Lessons
        /\ progress \in [Lessons -> Rows]
        /\ enrollment \in Enrollments
    BY <1>1, <1>3, <1>4 DEF Init
  <2>2. tab \in [Tabs -> Transaction \cup {Idle}]
    BY <1>1 DEF Init
  <2>3. overlapped \in BOOLEAN /\ grew \in BOOLEAN
    BY <1>1 DEF Init
  <2>4. QED
    BY <2>1, <2>2, <2>3 DEF TypeOK
<1>6. QED
  BY <1>2, <1>5 DEF ProgressInv, RowsApart, RowsComputed

(* A step inside a transaction. *)
LEMMA ProgressInside ==
    ASSUME ProgressInv, NEW t \in Tabs, Inside(t)
    PROVE  ProgressInv'
<1>1. Idle.at = "idle"
  BY DEF Idle
<1>2. TypeOK'
  <2>1. tab' \in [Tabs -> Transaction \cup {Idle}]
    BY DEF ProgressInv, TypeOK, Inside
  <2>2. QED
    BY <2>1 DEF ProgressInv, TypeOK, Inside
<1>3. \A u \in Tabs : tab'[u].at # "idle" =>
        tab[u].at # "idle" /\ tab'[u].call = tab[u].call /\ tab'[u].row = tab[u].row
  BY <1>1 DEF ProgressInv, TypeOK, Inside
<1>4. RowsApart'
  BY <1>3 DEF ProgressInv, RowsApart
<1>5. RowsComputed'
  BY <1>3 DEF ProgressInv, RowsComputed, Inside
<1>6. QED
  BY <1>2, <1>4, <1>5 DEF ProgressInv

(* A call begins: the lock keeps the rows apart. *)
LEMMA ProgressLock ==
    ASSUME ProgressInv, NEW t \in Tabs, LockAndSave(t)
    PROVE  ProgressInv'
<1>1. PICK call \in Calls :
        /\ call.lesson \in lessons
        /\ RowFree(t, call.lesson)
        /\ tab' = [tab EXCEPT ![t] =
             [at |-> "bookmark", call |-> [call EXCEPT !.position = 0],
              row |-> Written(progress[call.lesson], call),
              finished |-> Finishes(progress[call.lesson], call),
              sawDone |-> 0, counted |-> {}, mine |-> Unenrolled]]
  BY DEF LockAndSave
<1>2. UNCHANGED <<lessons, progress, enrollment, overlapped, grew>>
  BY DEF LockAndSave
<1> DEFINE kept == [call EXCEPT !.position = 0]
           new == Written(progress[call.lesson], call)
           fin == Finishes(progress[call.lesson], call)
           x == [at |-> "bookmark", call |-> kept, row |-> new, finished |-> fin,
                 sawDone |-> 0, counted |-> {}, mine |-> Unenrolled]
<1>3. /\ kept \in Calls /\ kept.lesson = call.lesson /\ kept.op = call.op
      /\ kept.delta = call.delta /\ kept.length = call.length
  BY DEF Calls
<1>4. progress[call.lesson] \in Rows
  BY <1>1 DEF ProgressInv, TypeOK
<1>5. new \in Rows /\ Extends(new, progress[call.lesson], kept)
  BY <1>3, <1>4, WrittenType DEF Extends
<1>6. fin \in BOOLEAN
  BY DEF Finishes
<1>7. tab' = [tab EXCEPT ![t] = x]
  BY <1>1
<1> HIDE DEF kept, new, fin
<1>8. x \in Transaction /\ x.call = kept /\ x.row = new
  BY <1>3, <1>5, <1>6 DEF Transaction, Steps, Unenrolled, Enrollments
<1> HIDE DEF x
<1>9. TypeOK'
  BY <1>2, <1>7, <1>8 DEF ProgressInv, TypeOK
<1>10. tab'[t] = x /\ \A u \in Tabs \ {t} : tab'[u] = tab[u]
  BY <1>7 DEF ProgressInv, TypeOK
<1>11. RowsApart'
  BY <1>1, <1>3, <1>8, <1>10 DEF ProgressInv, RowsApart, RowFree, HoldsRow
<1>12. RowsComputed'
  BY <1>2, <1>3, <1>5, <1>8, <1>10 DEF ProgressInv, RowsComputed
<1>13. QED
  BY <1>9, <1>11, <1>12 DEF ProgressInv

(* A transaction ends: what it computed becomes what is committed.         *)
LEMMA ProgressCommit ==
    ASSUME ProgressInv, NEW t \in Tabs, Commit(t)
    PROVE  /\ ProgressInv'
           /\ progress' = [progress EXCEPT ![tab[t].call.lesson] = tab[t].row]
           /\ Extends(tab[t].row, progress[tab[t].call.lesson], tab[t].call)
<1> DEFINE l == tab[t].call.lesson
           r == tab[t].row
           e == IF tab[t].mine.exists THEN tab[t].mine ELSE enrollment
<1>1. /\ tab[t].at # "idle"
      /\ progress' = [progress EXCEPT ![l] = r]
      /\ enrollment' = e
      /\ tab' = [tab EXCEPT ![t] = Idle]
      /\ UNCHANGED <<lessons, overlapped, grew>>
  BY DEF Commit
<1>2. l \in Lessons /\ r \in Rows /\ tab[t].mine \in Enrollments
  BY <1>1, TabTypes DEF ProgressInv
<1>3. Extends(r, progress[l], tab[t].call)
  BY <1>1 DEF ProgressInv, RowsComputed
<1>4. e \in Enrollments
  BY <1>2 DEF ProgressInv, TypeOK
<1> HIDE DEF l, r, e
<1>5. TypeOK'
  BY <1>1, <1>2, <1>4 DEF ProgressInv, TypeOK
<1>6. /\ tab'[t].at = "idle"
      /\ \A u \in Tabs \ {t} : tab'[u] = tab[u]
  BY <1>1 DEF ProgressInv, TypeOK, Idle
<1>7. RowsApart'
  BY <1>6 DEF ProgressInv, RowsApart
<1>8. RowsComputed'
  <2>1. SUFFICES ASSUME NEW u \in Tabs, tab'[u].at # "idle"
                 PROVE  Extends(tab'[u].row, progress'[tab'[u].call.lesson], tab'[u].call)
    BY DEF RowsComputed
  <2>2. u # t /\ tab'[u] = tab[u]
    BY <1>6, <2>1
  <2>3. tab[u].call.lesson \in Lessons /\ tab[u].call.lesson # l
    BY <1>1, <2>1, <2>2, TabTypes DEF ProgressInv, RowsApart, l
  <2>4. progress'[tab[u].call.lesson] = progress[tab[u].call.lesson]
    BY <1>1, <2>3 DEF ProgressInv, TypeOK
  <2>5. QED
    BY <2>1, <2>2, <2>4 DEF ProgressInv, RowsComputed
<1>9. QED
  BY <1>1, <1>3, <1>5, <1>7, <1>8 DEF ProgressInv, l, r

LEMMA ProgressStep == ProgressInv /\ [Next]_vars => ProgressInv'
<1>1. SUFFICES ASSUME ProgressInv, [Next]_vars PROVE ProgressInv'
  OBVIOUS
<1>2. ASSUME NEW t \in Tabs,
             FindEnrollment(t) \/ Enrol(t) \/ MoveBookmark(t)
               \/ CountLessons(t) \/ CountDone(t) \/ DateCourse(t) \/ Abort(t)
      PROVE  ProgressInv'
  BY <1>1, <1>2, InsideBookmark, InsideCount, ProgressInside DEF ProgressInv
<1>3. ASSUME NEW l \in Lessons, CreateLesson(l) PROVE ProgressInv'
  BY <1>1, <1>3 DEF CreateLesson, ProgressInv, TypeOK, RowsApart, RowsComputed
<1>4. CASE UNCHANGED vars
  BY <1>1, <1>4 DEF vars, ProgressInv, TypeOK, RowsApart, RowsComputed
<1>5. QED
  BY <1>1, <1>2, <1>3, <1>4, ProgressLock, ProgressCommit DEF Next

-----------------------------------------------------------------------------
(* The rows of a step: only a commit changes them.                         *)
LEMMA OnlyCommits ==
    ASSUME ProgressInv, Next
    PROVE  progress' = progress \/ \E t \in Tabs : Commit(t)
BY DEF Next, LockAndSave, FindEnrollment, Enrol, MoveBookmark, CountLessons,
       CountDone, DateCourse, Abort, CreateLesson

(* Types hold, for every number of tabs and lessons. *)
THEOREM TypeCorrect == Spec => []TypeOK
<1>1. ProgressInv => TypeOK
  BY DEF ProgressInv
<1>2. QED
  BY <1>1, ProgressInit, ProgressStep, PTL DEF Spec

(* A committed completion is neither taken back nor re-dated and the       *)
(* furthest point never falls (record_progress, mark_complete).            *)
THEOREM DoneStaysDone == Spec => LessonStaysDone
<1>1. ASSUME ProgressInv, Next, NEW l \in Lessons
      PROVE  /\ progress[l].done # 0 => progress'[l].done = progress[l].done
             /\ progress'[l].furthest >= progress[l].furthest
  <2>1. progress[l].furthest \in Nat
    BY <1>1 DEF ProgressInv, TypeOK, Rows
  <2>2. CASE progress' = progress
    BY <2>1, <2>2
  <2>3. ASSUME NEW t \in Tabs, Commit(t)
        PROVE  /\ progress[l].done # 0 => progress'[l].done = progress[l].done
               /\ progress'[l].furthest >= progress[l].furthest
    <3>1. CASE l = tab[t].call.lesson
      BY <1>1, <2>3, <3>1, ProgressCommit DEF Extends, ProgressInv, TypeOK
    <3>2. CASE l # tab[t].call.lesson
      BY <1>1, <2>1, <2>3, <3>2, ProgressCommit DEF ProgressInv, TypeOK
    <3>3. QED
      BY <3>1, <3>2
  <2>4. QED
    BY <1>1, <2>2, <2>3, OnlyCommits
<1>2. ProgressInv /\ Next =>
        \A l \in Lessons :
          /\ progress[l].done # 0 => progress'[l].done = progress[l].done
          /\ progress'[l].furthest >= progress[l].furthest
  BY <1>1
<1>3. QED
  BY <1>2, ProgressInit, ProgressStep, PTL DEF Spec, LessonStaysDone

(* A heartbeat that commits adds its clamped seconds to what was committed *)
(* before it (record_progress' select_for_update).                         *)
THEOREM BeatsAddUp == Spec => NoBeatIsLost
<1> DEFINE Added == \A t \in Tabs : Commit(t) /\ tab[t].call.op = "beat" =>
             LET l == tab[t].call.lesson
             IN  progress'[l].watched =
                   Capped(progress[l].watched
                            + Larger(0, Smaller(tab[t].call.delta, MaxBeat)),
                          tab[t].call.length)
<1>1. ASSUME ProgressInv, NEW t \in Tabs, Commit(t), tab[t].call.op = "beat"
      PROVE  LET l == tab[t].call.lesson
             IN  progress'[l].watched =
                   Capped(progress[l].watched
                            + Larger(0, Smaller(tab[t].call.delta, MaxBeat)),
                          tab[t].call.length)
  <2>1. tab[t].call.lesson \in Lessons
    BY <1>1, TabTypes DEF ProgressInv, Commit
  <2>2. progress'[tab[t].call.lesson] = tab[t].row
    BY <1>1, <2>1, ProgressCommit DEF ProgressInv, TypeOK
  <2>3. QED
    BY <1>1, <2>2, ProgressCommit DEF Extends, Clamped
<1>2. ProgressInv => Added
  BY <1>1
<1>3. QED
  BY <1>2, ProgressInit, ProgressStep, PTL DEF Spec, NoBeatIsLost

-----------------------------------------------------------------------------
(* The date of the course.                                                 *)

Active(t) == tab[t].at # "idle"
Finishing(t) == Active(t) /\ tab[t].finished

(* A lesson that somebody is at is there; a call that finishes one has     *)
(* dated its row, and no other call dates a row that was not.              *)
CallInv(t) ==
    LET l == tab[t].call.lesson
    IN  /\ l \in lessons
        /\ tab[t].finished => tab[t].row.done # 0
        /\ ~tab[t].finished /\ tab[t].row.done # 0 => progress[l].done # 0

(* On the way to the date: what was counted is there, and so is the        *)
(* enrollment; one seen or loaded with a date has not lost it since.       *)
CountInv(t) ==
    /\ tab[t].at \in {"count", "compare", "date"} =>
         tab[t].finished /\ (tab[t].mine.exists \/ enrollment.exists)
    /\ tab[t].at = "compare" => tab[t].counted \subseteq lessons
    /\ tab[t].at = "move" =>
         enrollment.exists /\ (tab[t].sawDone # 0 => enrollment.done # 0)
    /\ tab[t].mine.exists /\ enrollment.done # 0 => tab[t].mine.done # 0

(* A date about to be given is deserved, but for what grew meanwhile.      *)
Deserved(t) ==
    (tab[t].at = "date" \/ tab[t].mine.done # 0) /\ ~grew =>
        \A l \in FirstLessons :
            progress[l].done # 0 \/ (l = tab[t].call.lesson /\ tab[t].row.done # 0)

(* A finish about to be committed dates the course, unless it has a date   *)
(* or another lesson is still open.                                        *)
NotForgotten(t) ==
    tab[t].at = "commit" /\ tab[t].finished /\ ~overlapped =>
        \/ tab[t].mine.exists /\ tab[t].mine.done # 0
        \/ enrollment.done # 0
        \/ \E l \in lessons \ {tab[t].call.lesson} : progress[l].done = 0

TabInv(t) == CallInv(t) /\ CountInv(t) /\ Deserved(t) /\ NotForgotten(t)

(* One transaction at a time writes the enrollment; and of two finishes    *)
(* that are past the count, one has seen the other, unless they saw a date. *)
PairInv(t, u) ==
    /\ ~(tab[t].mine.exists /\ tab[u].mine.exists)
    /\ tab[t].finished /\ tab[u].finished
       /\ tab[t].at \in {"date", "commit"} /\ tab[u].at \in {"date", "commit"}
         => overlapped \/ enrollment.done # 0

CourseInv ==
    /\ FirstLessons \subseteq lessons
    /\ \A l \in Lessons \ lessons : progress[l].done = 0
    /\ ~enrollment.exists => enrollment.done = 0

DatingInv ==
    /\ CourseInv
    /\ \A t \in Tabs : Active(t) => TabInv(t)
    /\ \A t, u \in Tabs : t # u /\ Active(t) /\ Active(u) => PairInv(t, u)
    /\ DatedWhenFinished

(* A date on a row is there because the call finishes it or because it had *)
(* one.                                                                    *)
LEMMA WrittenDates ==
    ASSUME NEW row \in Rows, NEW call \in Calls
    PROVE  /\ Finishes(row, call) => Written(row, call).done # 0
           /\ ~Finishes(row, call) => Written(row, call).done = row.done
<1> DEFINE kept == IF call.op = "mark" THEN [row EXCEPT !.exists = TRUE]
                                       ELSE Fold(row, call)
<1>1. kept \in Rows /\ kept.done = row.done
  <2>1. CASE call.op = "mark"
    BY <2>1 DEF Rows
  <2>2. CASE call.op # "mark"
    BY <2>2, FoldType
  <2>3. QED
    BY <2>1, <2>2
<1>2. Written(row, call) = IF Finishes(row, call) THEN [kept EXCEPT !.done = @ + 1]
                                                  ELSE kept
  BY DEF Written
<1>3. Finishes(row, call) => row.done = 0
  BY DEF Finishes
<1> HIDE DEF kept
<1>4. QED
  BY <1>1, <1>2, <1>3 DEF Rows

(* A step of one tab that leaves what is committed alone. *)
Quiet(t) ==
    /\ UNCHANGED <<lessons, progress, enrollment>>
    /\ overlapped => overlapped'
    /\ grew => grew'
    /\ \A u \in Tabs \ {t} : tab'[u] = tab[u]

LEMMA QuietKeeps ==
    ASSUME DatingInv, NEW t \in Tabs, Quiet(t),
           Active(t)' => /\ TabInv(t)'
                         /\ \A u \in Tabs \ {t} : Active(u) => PairInv(t, u)'
    PROVE  DatingInv'
<1>1. CourseInv'
  BY DEF DatingInv, CourseInv, Quiet
<1>2. ASSUME NEW u \in Tabs, Active(u)'
      PROVE  TabInv(u)'
  <2>1. CASE u = t
    BY <1>2, <2>1
  <2>2. CASE u # t
    <3>1. tab'[u] = tab[u] /\ Active(u) /\ TabInv(u)
      BY <1>2, <2>2 DEF Quiet, Active, DatingInv
    <3>2. CallInv(u)' /\ CountInv(u)'
      BY <3>1 DEF TabInv, CallInv, CountInv, Quiet
    <3>3. Deserved(u)' /\ NotForgotten(u)'
      BY <3>1 DEF TabInv, Deserved, NotForgotten, Quiet
    <3>4. QED
      BY <3>2, <3>3 DEF TabInv
  <2>3. QED
    BY <2>1, <2>2
<1>3. ASSUME NEW u \in Tabs, NEW v \in Tabs, u # v, Active(u)', Active(v)'
      PROVE  PairInv(u, v)'
  <2>1. CASE u = t
    BY <1>3, <2>1 DEF Quiet, Active
  <2>2. CASE v = t
    <3>1. PairInv(v, u)'
      BY <1>3, <2>2 DEF Quiet, Active
    <3>2. QED
      BY <3>1 DEF PairInv
  <2>3. CASE u # t /\ v # t
    BY <1>3, <2>3 DEF Quiet, Active, DatingInv, PairInv
  <2>4. QED
    BY <2>1, <2>2, <2>3
<1>4. DatedWhenFinished'
  BY DEF DatingInv, DatedWhenFinished, DatedWasFinished, FinishedIsDated, AllDone, Quiet
<1>5. QED
  BY <1>1, <1>2, <1>3, <1>4 DEF DatingInv

LEMMA AbortDates ==
    ASSUME TypeOK, DatingInv, NEW t \in Tabs, Abort(t) \/ (Enrol(t) /\ enrollment.exists)
    PROVE  DatingInv'
<1>1. tab' = [tab EXCEPT ![t] = Idle]
      /\ UNCHANGED <<lessons, progress, enrollment, overlapped, grew>>
  BY DEF Abort, Enrol
<1>2. ~Active(t)' /\ Quiet(t)
  BY <1>1 DEF TypeOK, Active, Idle, Quiet
<1>3. QED
  BY <1>2, QuietKeeps

LEMMA LockDates ==
    ASSUME TypeOK, DatingInv, NEW t \in Tabs, LockAndSave(t)
    PROVE  DatingInv'
<1>1. PICK call \in Calls :
        /\ call.lesson \in lessons
        /\ tab' = [tab EXCEPT ![t] =
             [at |-> "bookmark", call |-> [call EXCEPT !.position = 0],
              row |-> Written(progress[call.lesson], call),
              finished |-> Finishes(progress[call.lesson], call),
              sawDone |-> 0, counted |-> {}, mine |-> Unenrolled]]
  BY DEF LockAndSave
<1>2. Quiet(t)
  BY <1>1 DEF LockAndSave, Quiet, TypeOK
<1>3. /\ tab'[t].at = "bookmark" /\ tab'[t].call.lesson = call.lesson
      /\ tab'[t].row = Written(progress[call.lesson], call)
      /\ tab'[t].finished = Finishes(progress[call.lesson], call)
      /\ tab'[t].mine = Unenrolled
  BY <1>1 DEF TypeOK, Calls
<1>4. progress[call.lesson] \in Rows /\ UNCHANGED <<lessons, progress>>
  BY <1>1 DEF TypeOK, LockAndSave
<1>5. CallInv(t)'
  BY <1>1, <1>3, <1>4, WrittenDates DEF CallInv
<1>6. CountInv(t)' /\ Deserved(t)' /\ NotForgotten(t)'
  BY <1>3 DEF CountInv, Deserved, NotForgotten, Unenrolled
<1>7. \A u \in Tabs \ {t} : PairInv(t, u)'
  BY <1>3 DEF PairInv, Unenrolled
<1>8. QED
  BY <1>2, <1>5, <1>6, <1>7, QuietKeeps DEF TabInv

LEMMA FindDates ==
    ASSUME TypeOK, DatingInv, NEW t \in Tabs, FindEnrollment(t)
    PROVE  DatingInv'
<1>1. tab[t] \in Transaction /\ tab[t].at = "bookmark" /\ TabInv(t) /\ enrollment.done \in Nat
  BY TabTypes DEF FindEnrollment, DatingInv, Active, TypeOK, Enrollments
<1>2. Quiet(t)
  BY DEF FindEnrollment, Goto, Quiet, TypeOK
<1>3. /\ tab'[t].call = tab[t].call /\ tab'[t].row = tab[t].row
      /\ tab'[t].finished = tab[t].finished /\ tab'[t].mine = tab[t].mine
      /\ \/ tab'[t].at = "enrol"
         \/ tab'[t].at = Onward(t, enrollment.done) /\ enrollment.exists
         \/ tab'[t].at = "move" /\ tab'[t].sawDone = enrollment.done /\ enrollment.exists
  BY <1>1 DEF FindEnrollment, Goto, TypeOK, Transaction
<1>4. /\ tab'[t].at \in {"enrol", "count", "commit", "move"}
      /\ tab'[t].at \in {"count", "move"} => enrollment.exists
      /\ tab'[t].at = "count" => tab[t].finished
      /\ tab'[t].at = "move" => tab'[t].sawDone = enrollment.done
      /\ tab'[t].at = "commit" /\ tab[t].finished => enrollment.done # 0
  BY <1>3 DEF Onward
<1>5. UNCHANGED <<lessons, progress, enrollment, overlapped, grew>>
  BY DEF FindEnrollment
<1>6. CallInv(t)' /\ CountInv(t)'
  BY <1>1, <1>3, <1>4, <1>5 DEF TabInv, CallInv, CountInv
<1>7. Deserved(t)' /\ NotForgotten(t)'
  BY <1>1, <1>3, <1>4, <1>5 DEF TabInv, Deserved, NotForgotten
<1>8. \A u \in Tabs \ {t} : Active(u) => PairInv(t, u)'
  <2>1. \A u \in Tabs \ {t} : Active(u) => PairInv(t, u) /\ tab'[u] = tab[u]
    BY <1>1, <1>2 DEF DatingInv, Active, Quiet
  <2>2. QED
    BY <1>3, <1>4, <1>5, <2>1 DEF PairInv
<1>9. QED
  BY <1>2, <1>6, <1>7, <1>8, QuietKeeps DEF TabInv

(* A tab that gets at the enrollment is the only one. *)
LEMMA EnrolDates ==
    ASSUME TypeOK, DatingInv, NEW t \in Tabs, Enrol(t), ~enrollment.exists
    PROVE  DatingInv'
<1>1. tab[t] \in Transaction /\ tab[t].at = "enrol" /\ TabInv(t)
  BY TabTypes DEF Enrol, DatingInv, Active
<1>2. Quiet(t)
  BY DEF Enrol, Quiet, TypeOK
<1>3. /\ tab'[t].call = tab[t].call /\ tab'[t].row = tab[t].row
      /\ tab'[t].finished = tab[t].finished
      /\ tab'[t].mine.exists /\ tab'[t].mine.done = 0
      /\ tab'[t].at = IF tab[t].finished THEN "count" ELSE "commit"
  BY <1>1 DEF Enrol, Onward, TypeOK, Transaction
<1>4. UNCHANGED <<lessons, progress, enrollment, overlapped, grew>> /\ enrollment.done = 0
  BY DEF Enrol, DatingInv, CourseInv
<1>5. CallInv(t)' /\ CountInv(t)'
  BY <1>1, <1>3, <1>4 DEF TabInv, CallInv, CountInv
<1>6. Deserved(t)' /\ NotForgotten(t)'
  BY <1>1, <1>3, <1>4 DEF TabInv, Deserved, NotForgotten
<1>7. \A u \in Tabs \ {t} : Active(u) => PairInv(t, u)'
  <2>1. \A u \in Tabs \ {t} : Active(u) => ~tab[u].mine.exists /\ tab'[u] = tab[u]
    BY <1>2 DEF Enrol, EnrollmentFree, HoldsEnrollment, Active, Quiet
  <2>2. QED
    BY <1>3, <1>4, <2>1 DEF PairInv
<1>8. QED
  BY <1>2, <1>5, <1>6, <1>7, QuietKeeps DEF TabInv

LEMMA MoveDates ==
    ASSUME TypeOK, DatingInv, NEW t \in Tabs, MoveBookmark(t)
    PROVE  DatingInv'
<1>1. tab[t] \in Transaction /\ tab[t].at = "move" /\ TabInv(t)
  BY TabTypes DEF MoveBookmark, DatingInv, Active
<1>2. Quiet(t)
  BY DEF MoveBookmark, Quiet, TypeOK
<1>3. /\ tab'[t].call = tab[t].call /\ tab'[t].row = tab[t].row
      /\ tab'[t].finished = tab[t].finished /\ tab'[t].sawDone = 0
      /\ tab'[t].mine.exists = enrollment.exists /\ tab'[t].mine.done = enrollment.done
      /\ tab'[t].at = IF tab[t].finished /\ tab[t].sawDone = 0 THEN "count" ELSE "commit"
  BY <1>1 DEF MoveBookmark, Onward, TypeOK, Transaction, Enrollments
<1>4. UNCHANGED <<lessons, progress, enrollment, overlapped, grew>>
  BY DEF MoveBookmark
<1>5. enrollment.exists
  BY <1>1 DEF TabInv, CountInv
<1>6. CallInv(t)' /\ CountInv(t)'
  BY <1>1, <1>3, <1>4, <1>5 DEF TabInv, CallInv, CountInv
<1>7. Deserved(t)' /\ NotForgotten(t)'
  BY <1>1, <1>3, <1>4 DEF TabInv, Deserved, NotForgotten, CountInv, DatingInv,
     DatedWhenFinished, DatedWasFinished
<1>8. \A u \in Tabs \ {t} : Active(u) => PairInv(t, u)'
  <2>1. \A u \in Tabs \ {t} : Active(u) => ~tab[u].mine.exists /\ tab'[u] = tab[u]
    BY <1>2 DEF MoveBookmark, EnrollmentFree, HoldsEnrollment, Active, Quiet
  <2>2. QED
    BY <1>1, <1>3, <1>4, <2>1 DEF PairInv, TabInv, CountInv
<1>9. QED
  BY <1>2, <1>6, <1>7, <1>8, QuietKeeps DEF TabInv


(* Deciding: all of the course counted as done, or a lesson left over. *)
LEMMA CountedAll ==
    ASSUME TypeOK, NEW t \in Tabs, tab[t].counted \subseteq lessons
    PROVE  /\ Cardinality(DoneSeen(t)) >= Cardinality(tab[t].counted)
                /\ lessons = tab[t].counted => DoneSeen(t) = lessons
           /\ ~(Cardinality(DoneSeen(t)) >= Cardinality(tab[t].counted))
                => \E l \in lessons : l \notin DoneSeen(t)
<1>1. /\ IsFiniteSet(lessons) /\ DoneSeen(t) \in SUBSET lessons
      /\ tab[t].counted \in SUBSET lessons
  BY LearningAssumption, FS_Subset DEF TypeOK, DoneSeen
<1>2. /\ Cardinality(lessons) \in Nat /\ Cardinality(DoneSeen(t)) \in Nat
      /\ Cardinality(tab[t].counted) \in Nat
      /\ Cardinality(DoneSeen(t)) <= Cardinality(lessons)
      /\ Cardinality(tab[t].counted) <= Cardinality(lessons)
      /\ Cardinality(lessons) = Cardinality(DoneSeen(t)) => lessons = DoneSeen(t)
  BY <1>1, FS_Subset, FS_CardinalityType
<1>3. ASSUME DoneSeen(t) = lessons
      PROVE  Cardinality(DoneSeen(t)) >= Cardinality(tab[t].counted)
  BY <1>2, <1>3
<1>4. ASSUME Cardinality(DoneSeen(t)) >= Cardinality(tab[t].counted),
             lessons = tab[t].counted
      PROVE  DoneSeen(t) = lessons
  BY <1>2, <1>4
<1>5. QED
  BY <1>1, <1>3, <1>4

LEMMA CountLessonsDates ==
    ASSUME TypeOK, DatingInv, NEW t \in Tabs, CountLessons(t)
    PROVE  DatingInv'
<1>1. tab[t] \in Transaction /\ tab[t].at = "count" /\ TabInv(t)
  BY TabTypes DEF CountLessons, DatingInv, Active
<1>2. Quiet(t)
  BY DEF CountLessons, Quiet, TypeOK
<1>3. /\ tab'[t].call = tab[t].call /\ tab'[t].row = tab[t].row
      /\ tab'[t].finished = tab[t].finished /\ tab'[t].mine = tab[t].mine
      /\ tab'[t].counted = lessons /\ tab'[t].at = "compare"
  BY <1>1 DEF CountLessons, TypeOK, Transaction
<1>4. UNCHANGED <<lessons, progress, enrollment, overlapped, grew>>
  BY DEF CountLessons
<1>5. CallInv(t)' /\ CountInv(t)'
  BY <1>1, <1>3, <1>4 DEF TabInv, CallInv, CountInv
<1>6. Deserved(t)' /\ NotForgotten(t)'
  BY <1>1, <1>3, <1>4 DEF TabInv, Deserved, NotForgotten
<1>7. \A u \in Tabs \ {t} : Active(u) => PairInv(t, u)'
  <2>1. \A u \in Tabs \ {t} : Active(u) => PairInv(t, u) /\ tab'[u] = tab[u]
    BY <1>1, <1>2 DEF DatingInv, Active, Quiet
  <2>2. QED
    BY <1>3, <1>4, <2>1 DEF PairInv
<1>8. QED
  BY <1>2, <1>5, <1>6, <1>7, QuietKeeps DEF TabInv

LEMMA CountDoneDates ==
    ASSUME TypeOK, DatingInv, NEW t \in Tabs, CountDone(t)
    PROVE  DatingInv'
<1> DEFINE all == Cardinality(DoneSeen(t)) >= Cardinality(tab[t].counted)
<1>1. /\ tab[t] \in Transaction /\ tab[t].at = "compare" /\ TabInv(t)
      /\ tab[t].finished /\ tab[t].row.done # 0 /\ tab[t].counted \subseteq lessons
  BY TabTypes DEF CountDone, DatingInv, Active, TabInv, CountInv, CallInv
<1>2. Quiet(t)
  BY DEF CountDone, Quiet, TypeOK
<1>3. /\ tab'[t].call = tab[t].call /\ tab'[t].row = tab[t].row
      /\ tab'[t].finished = tab[t].finished /\ tab'[t].mine = tab[t].mine
      /\ tab'[t].at = IF all THEN "date" ELSE "commit"
  BY <1>1 DEF CountDone, TypeOK, Transaction
<1>4. /\ UNCHANGED <<lessons, progress, enrollment>>
      /\ ~grew' => ~grew /\ lessons = tab[t].counted
      /\ ~overlapped' => /\ ~overlapped
                         /\ \A u \in Tabs \ {t} : ~(Active(u) /\ tab[u].finished)
  BY DEF CountDone, TypeOK, Active
<1>5. /\ all /\ lessons = tab[t].counted => DoneSeen(t) = lessons
      /\ ~all => \E l \in lessons : l \notin DoneSeen(t)
  BY <1>1, CountedAll
<1> HIDE DEF all
<1>6. CallInv(t)' /\ CountInv(t)'
  BY <1>1, <1>3, <1>4 DEF TabInv, CallInv, CountInv
<1>7. Deserved(t)'
  BY <1>1, <1>3, <1>4, <1>5 DEF TabInv, Deserved, DoneSeen, DatingInv, CourseInv
<1>8. NotForgotten(t)'
  BY <1>1, <1>3, <1>4, <1>5 DEF NotForgotten, DoneSeen
<1>9. \A u \in Tabs \ {t} : Active(u) => PairInv(t, u)'
  <2>1. \A u \in Tabs \ {t} : Active(u) => PairInv(t, u) /\ tab'[u] = tab[u]
    BY <1>1, <1>2 DEF DatingInv, Active, Quiet
  <2>2. QED
    BY <1>3, <1>4, <2>1 DEF PairInv
<1>10. QED
  BY <1>2, <1>6, <1>7, <1>8, <1>9, QuietKeeps DEF TabInv

LEMMA DateDates ==
    ASSUME TypeOK, DatingInv, NEW t \in Tabs, DateCourse(t)
    PROVE  DatingInv'
<1> DEFINE base == IF tab[t].mine.exists THEN tab[t].mine ELSE enrollment
<1>1. /\ tab[t] \in Transaction /\ tab[t].at = "date" /\ TabInv(t)
  BY TabTypes DEF DateCourse, DatingInv, Active
<1>2. Quiet(t)
  BY DEF DateCourse, Quiet, TypeOK
<1>3. base \in Enrollments /\ base.exists
  BY <1>1 DEF TypeOK, Transaction, TabInv, CountInv
<1>4. /\ tab'[t].call = tab[t].call /\ tab'[t].row = tab[t].row
      /\ tab'[t].finished = tab[t].finished /\ tab'[t].at = "commit"
      /\ tab'[t].mine = [base EXCEPT !.done = base.done + 1]
  BY <1>1 DEF DateCourse, TypeOK, Transaction, Enrollments
<1>5. UNCHANGED <<lessons, progress, enrollment, overlapped, grew>>
  BY DEF DateCourse
<1> HIDE DEF base
<1>6. tab'[t].mine.exists /\ tab'[t].mine.done # 0
  BY <1>3, <1>4 DEF Enrollments
<1>7. CallInv(t)' /\ CountInv(t)'
  BY <1>1, <1>4, <1>5, <1>6 DEF TabInv, CallInv, CountInv
<1>8. Deserved(t)' /\ NotForgotten(t)'
  BY <1>1, <1>4, <1>5, <1>6 DEF TabInv, Deserved, NotForgotten
<1>9. \A u \in Tabs \ {t} : Active(u) => PairInv(t, u)'
  <2>1. \A u \in Tabs \ {t} : Active(u) =>
           PairInv(t, u) /\ tab'[u] = tab[u] /\ ~tab[u].mine.exists
    BY <1>1, <1>2 DEF DatingInv, Active, Quiet, DateCourse, EnrollmentFree, HoldsEnrollment
  <2>2. QED
    BY <1>1, <1>4, <1>5, <2>1 DEF PairInv
<1>10. QED
  BY <1>2, <1>7, <1>8, <1>9, QuietKeeps DEF TabInv

(* A new lesson is open. *)
LEMMA CreateDates ==
    ASSUME TypeOK, DatingInv, NEW l \in Lessons, CreateLesson(l)
    PROVE  DatingInv'
<1>1. /\ lessons' = lessons \cup {l} /\ progress[l].done = 0
      /\ UNCHANGED <<progress, enrollment, tab, overlapped, grew>>
  BY DEF CreateLesson, DatingInv, CourseInv
<1>2. CourseInv'
  BY <1>1 DEF DatingInv, CourseInv
<1>3. \A t \in Tabs : Active(t)' => TabInv(t)'
  BY <1>1 DEF DatingInv, Active, TabInv, CallInv, CountInv, Deserved, NotForgotten
<1>4. \A t, u \in Tabs : t # u /\ Active(t)' /\ Active(u)' => PairInv(t, u)'
  BY <1>1 DEF DatingInv, Active, PairInv
<1>5. DatedWhenFinished'
  BY <1>1 DEF DatingInv, DatedWhenFinished, DatedWasFinished, FinishedIsDated, AllDone
<1>6. QED
  BY <1>2, <1>3, <1>4, <1>5 DEF DatingInv

(* What is committed: the date of a row and that of the enrollment stay,   *)
(* and only a finish dates a row.                                          *)
LEMMA CommitDates ==
    ASSUME ProgressInv, DatingInv, NEW t \in Tabs, Commit(t)
    PROVE  DatingInv'
<1> DEFINE l == tab[t].call.lesson
<1>1. /\ tab[t] \in Transaction /\ tab[t].at = "commit" /\ TabInv(t)
      /\ l \in Lessons /\ l \in lessons
  BY TabTypes DEF Commit, DatingInv, Active, ProgressInv, TabInv, CallInv
<1>2. /\ tab'[t].at = "idle" /\ \A u \in Tabs \ {t} : tab'[u] = tab[u]
      /\ UNCHANGED <<lessons, overlapped, grew>>
      /\ enrollment' = IF tab[t].mine.exists THEN tab[t].mine ELSE enrollment
      /\ progress'[l] = tab[t].row
      /\ \A k \in Lessons \ {l} : progress'[k] = progress[k]
  BY <1>1 DEF Commit, ProgressInv, TypeOK, Idle
<1>3. \A k \in Lessons : progress[k].done # 0 => progress'[k].done # 0
  BY <1>1, <1>2 DEF Commit, ProgressInv, RowsComputed, Extends
<1>4. /\ enrollment.done # 0 => enrollment'.done # 0
      /\ enrollment.exists => enrollment'.exists
  BY <1>1, <1>2 DEF TabInv, CountInv
<1>5. ASSUME NEW k \in Lessons, progress[k].done = 0, progress'[k].done # 0
      PROVE  k = l /\ tab[t].finished
  BY <1>1, <1>2, <1>5 DEF TabInv, CallInv
<1>6. \A u \in Tabs \ {t} : Active(u)' => Active(u) /\ TabInv(u) /\ PairInv(t, u)
  BY <1>1, <1>2 DEF Active, DatingInv
<1>7. ASSUME NEW u \in Tabs \ {t}, Active(u)
      PROVE  tab[u].mine.exists => enrollment' = enrollment
  BY <1>1, <1>2, <1>7 DEF DatingInv, Active, PairInv
<1> HIDE DEF l
<1>8. FirstLessons \subseteq Lessons
  BY LearningAssumption
<1>9. CourseInv'
  <2>1. FirstLessons \subseteq lessons'
    BY <1>2 DEF DatingInv, CourseInv
  <2>2. \A k \in Lessons \ lessons' : progress'[k].done = 0
    BY <1>1, <1>2 DEF DatingInv, CourseInv
  <2>3. ~enrollment'.exists => enrollment'.done = 0
    BY <1>2 DEF DatingInv, CourseInv
  <2>4. QED
    BY <2>1, <2>2, <2>3 DEF CourseInv
<1>10. ASSUME NEW u \in Tabs, Active(u)'
       PROVE  TabInv(u)'
  <2>1. /\ u # t /\ Active(u) /\ TabInv(u) /\ PairInv(t, u) /\ tab'[u] = tab[u]
        /\ tab[u].call.lesson \in Lessons
    BY <1>2, <1>6, <1>10, TabTypes DEF Active, ProgressInv
  <2>2. CallInv(u)'
    BY <1>2, <1>3, <2>1 DEF TabInv, CallInv
  <2>3. CountInv(u)'
    <3>1. CountInv(u)
      BY <2>1 DEF TabInv
    <3>2. tab[u].mine.exists => enrollment' = enrollment
      BY <1>7, <2>1
    <3>3. QED
      BY <1>2, <1>4, <2>1, <3>1, <3>2 DEF CountInv
  <2>4. Deserved(u)'
    BY <1>2, <1>3, <1>8, <2>1 DEF TabInv, Deserved
  <2>5. NotForgotten(u)'
    <3>1. SUFFICES ASSUME tab[u].at = "commit", tab[u].finished, ~overlapped,
                          ~(tab[u].mine.exists /\ tab[u].mine.done # 0),
                          enrollment.done = 0, enrollment'.done = 0
                   PROVE  \E k \in lessons \ {tab[u].call.lesson} : progress'[k].done = 0
      BY <1>2, <1>4, <2>1 DEF NotForgotten
    <3>2. PICK k \in lessons \ {tab[u].call.lesson} : progress[k].done = 0
      BY <2>1, <3>1 DEF TabInv, NotForgotten
    <3>3. k \in Lessons
      BY <3>2 DEF ProgressInv, TypeOK
    <3>4. ~tab[t].finished
      BY <1>1, <2>1, <3>1 DEF PairInv
    <3>5. progress'[k].done = 0
      BY <1>5, <3>2, <3>3, <3>4
    <3>6. QED
      BY <3>2, <3>5
  <2>6. QED
    BY <2>2, <2>3, <2>4, <2>5 DEF TabInv
<1>11. ASSUME NEW u \in Tabs, NEW v \in Tabs, u # v, Active(u)', Active(v)'
       PROVE  PairInv(u, v)'
  <2>1. /\ u # t /\ v # t /\ Active(u) /\ Active(v)
        /\ tab'[u] = tab[u] /\ tab'[v] = tab[v]
    BY <1>2, <1>11 DEF Active
  <2>2. PairInv(u, v)
    BY <1>11, <2>1 DEF DatingInv
  <2>3. QED
    BY <1>2, <1>4, <2>1, <2>2 DEF PairInv
<1>12. DatedWasFinished'
  <2>1. SUFFICES ASSUME enrollment'.done # 0, ~grew, NEW k \in FirstLessons
                 PROVE  progress'[k].done # 0
    BY <1>2 DEF DatedWasFinished
  <2>2. CASE tab[t].mine.exists
    BY <1>1, <1>2, <1>3, <1>8, <2>1, <2>2 DEF TabInv, Deserved, l
  <2>3. CASE ~tab[t].mine.exists
    BY <1>2, <1>3, <1>8, <2>1, <2>3 DEF DatingInv, DatedWhenFinished, DatedWasFinished
  <2>4. QED
    BY <2>2, <2>3
<1>13. FinishedIsDated'
  <2>1. SUFFICES ASSUME lessons # {}, \A k \in lessons : progress'[k].done # 0, ~overlapped
                 PROVE  enrollment'.done # 0
    BY <1>2 DEF FinishedIsDated, AllDone
  <2>2. lessons \subseteq Lessons
    BY DEF ProgressInv, TypeOK
  <2>3. CASE \A k \in lessons : progress[k].done # 0
    BY <1>4, <2>1, <2>3 DEF DatingInv, DatedWhenFinished, FinishedIsDated, AllDone
  <2>4. CASE \E k \in lessons : progress[k].done = 0
    <3>1. tab[t].finished
      BY <1>5, <2>1, <2>2, <2>4
    <3>2. \A k \in lessons \ {l} : progress[k].done # 0
      BY <1>5, <2>1, <2>2
    <3>3. \/ tab[t].mine.exists /\ tab[t].mine.done # 0
          \/ enrollment.done # 0
      BY <1>1, <2>1, <3>1, <3>2 DEF TabInv, NotForgotten, l
    <3>4. QED
      BY <1>2, <1>4, <3>3
  <2>5. QED
    BY <2>3, <2>4
<1>14. QED
  BY <1>9, <1>10, <1>11, <1>12, <1>13 DEF DatingInv, DatedWhenFinished

LEMMA DatingInit == Init => DatingInv
<1>1. SUFFICES ASSUME Init PROVE DatingInv
  OBVIOUS
<1>2. \A t \in Tabs : ~Active(t)
  BY <1>1 DEF Init, Active, Idle
<1>3. /\ lessons = FirstLessons /\ enrollment.done = 0
      /\ \A l \in Lessons : progress[l].done = 0
  BY <1>1 DEF Init, Unenrolled, Unstarted
<1>4. DatedWhenFinished
  BY <1>3, LearningAssumption DEF DatedWhenFinished, DatedWasFinished, FinishedIsDated, AllDone
<1>5. QED
  BY <1>2, <1>3, <1>4 DEF DatingInv, CourseInv

LEMMA DatingStep == ProgressInv /\ DatingInv /\ [Next]_vars => DatingInv'
<1>1. SUFFICES ASSUME ProgressInv, DatingInv, [Next]_vars PROVE DatingInv'
  OBVIOUS
<1>2. TypeOK
  BY <1>1 DEF ProgressInv
<1>3. CASE UNCHANGED vars
  <2>1. UNCHANGED <<lessons, progress, enrollment, tab, overlapped, grew>>
    BY <1>3 DEF vars
  <2>2. CourseInv' /\ DatedWhenFinished'
    BY <1>1, <2>1 DEF DatingInv, CourseInv, DatedWhenFinished, DatedWasFinished,
       FinishedIsDated, AllDone
  <2>3. \A t \in Tabs : Active(t)' => TabInv(t)'
    BY <1>1, <2>1 DEF DatingInv, Active, TabInv, CallInv, CountInv, Deserved, NotForgotten
  <2>4. \A t, u \in Tabs : t # u /\ Active(t)' /\ Active(u)' => PairInv(t, u)'
    BY <1>1, <2>1 DEF DatingInv, Active, PairInv
  <2>5. QED
    BY <2>2, <2>3, <2>4 DEF DatingInv
<1>4. QED
  BY <1>1, <1>2, <1>3, LockDates, FindDates, EnrolDates, MoveDates, CountLessonsDates,
     CountDoneDates, DateDates, CommitDates, AbortDates, CreateDates DEF Next

(* A course is dated only when every lesson it had to begin with was       *)
(* finished, unless one appeared between the two counts; and once all are  *)
(* finished it is dated, unless two finishes overlapped                    *)
(* (_complete_course_if_finished, course_is_complete).                     *)
THEOREM DateIsDeserved == Spec => []DatedWhenFinished
<1>1. Init => ProgressInv /\ DatingInv
  BY ProgressInit, DatingInit
<1>2. ProgressInv /\ DatingInv /\ [Next]_vars => (ProgressInv /\ DatingInv)'
  BY ProgressStep, DatingStep
<1>3. DatingInv => DatedWhenFinished
  BY DEF DatingInv
<1>4. QED
  BY <1>1, <1>2, <1>3, PTL DEF Spec
=============================================================================
