---------------------------- MODULE CatalogProofs ----------------------------
(***************************************************************************)
(* Proofs about the write side of apps/catalog and about the release step  *)
(* that migrates it.                                                       *)
(*                                                                         *)
(* CoursePublication: whatever interleaves, a live course was approved,    *)
(* and while no move is saved over a row that moved, the trail explains    *)
(* its status.                                                             *)
(* Curriculum: a course has one order of its lessons at every commit, and  *)
(* a reorder numbers what it found, in turn with the others.               *)
(* Deployment: the advisory lock has one holder, the deploy that migrates, *)
(* and a reported success is a schema that is up to date.                  *)
(***************************************************************************)
EXTENDS CoursePublication, Curriculum, Deployment, FiniteSetTheorems, TLAPS

(* A set of numbers that is not empty has a least one. *)
LEMMA LeastNatural ==
    ASSUME NEW S \in SUBSET Nat, S # {}
    PROVE  \E m \in S : \A n \in S : m <= n
<1> DEFINE T == {0..n : n \in S}
<1>1. \A n \in Nat : 0..n \in FiniteSubsetsOf(Nat)
  BY FS_Interval DEF FiniteSubsetsOf
<1>2. T \subseteq FiniteSubsetsOf(Nat) /\ T # {}
  BY <1>1
<1>3. \E t \in T : \A u \in T : <<u, t>> \notin StrictSubsetOrdering(Nat)
  BY <1>2, FS_StrictSubsetOrderingWellFounded, WFMin
<1>4. PICK m \in S : \A n \in S : <<0..n, 0..m>> \notin StrictSubsetOrdering(Nat)
  BY <1>3
<1>5. ASSUME NEW n \in S, ~(m <= n)
      PROVE  FALSE
  <2>1. 0..n \subseteq 0..m /\ m \in 0..m /\ m \notin 0..n
    BY <1>5
  <2>2. 0..n \in SUBSET Nat /\ 0..m \in SUBSET Nat
    OBVIOUS
  <2>3. <<0..n, 0..m>> \in StrictSubsetOrdering(Nat)
    BY <2>1, <2>2 DEF StrictSubsetOrdering
  <2>4. QED
    BY <2>3, <1>4
<1>6. QED
  BY <1>5

(***************************************************************************)
(* The status of a course.                                                 *)
(***************************************************************************)

(* The idle record holds a course: there is a word to call it by. *)
LEMMA IdleType ==
    ASSUME NEW w \in Words
    PROVE  Idle.saw \in Course /\ Idle.for = "none"
<1>1. [status |-> "NONE", dated |-> FALSE, title |-> w, about |-> w, vector |-> <<w, w>>]
        \in Course
  BY DEF Course, Statuses
<1>2. \E c \in Course : c.status = "NONE"
  BY <1>1
<1>3. QED
  BY <1>2 DEF Idle

LEMMA LoadedType ==
    ASSUME TypeOK
    PROVE  /\ Loaded \in Course
           /\ Loaded.status = status /\ Loaded.dated = dated
BY DEF TypeOK, Loaded, Course

LEMMA EditedType ==
    ASSUME NEW old \in Course, NEW new \in Edited(old)
    PROVE  /\ new \in Course
           /\ new.status = old.status /\ new.dated = old.dated
<1>1. PICK w \in Words \X Words : new = [old EXCEPT !.title = w[1], !.about = w[2]]
  BY DEF Edited
<1>2. QED
  BY <1>1 DEF Course

LEMMA TargetType == \A p \in DOMAIN Target : Target[p] \in Statuses
BY DEF Target, Statuses

-----------------------------------------------------------------------------
(* What the steps do to a request, and to the row.                         *)

Ends(r) ==
    request[r].for # "none" /\ request' = [request EXCEPT ![r] = Idle]

LEMMA SavesEnd ==
    ASSUME NEW r \in Requests
    PROVE  SaveEdit(r) \/ SaveAdminEdit(r) \/ SubmitForReview(r) \/ Approve(r)
             \/ ReturnToDraft(r) \/ Archive(r) => Ends(r)
BY DEF Ends, SaveEdit, SaveAdminEdit, SubmitForReview, Approve, ReturnToDraft, Archive, Move

(* A request under way after a step was under way before it, or has just   *)
(* loaded a row the step leaves alone.                                     *)
LEMMA RequestSteps ==
    ASSUME TypeOK, [Next]_vars, NEW q \in Requests, request'[q].for # "none"
    PROVE  \/ request[q].for # "none" /\ request'[q] = request[q]
           \/ request'[q].saw = Loaded /\ UNCHANGED <<row, trail, stale>>
<1>1. Idle.for = "none"
  BY IdleType DEF TypeOK
<1>2. ASSUME NEW r \in Requests, Ends(r)
      PROVE  request[q].for # "none" /\ request'[q] = request[q]
  BY <1>1, <1>2 DEF Ends, TypeOK
<1>3. ASSUME NEW r \in Requests, NEW p \in Purposes, Load(r, p)
      PROVE  \/ request[q].for # "none" /\ request'[q] = request[q]
             \/ request'[q].saw = Loaded /\ UNCHANGED <<row, trail, stale>>
  <2>1. CASE q = r
    BY <1>3, <2>1 DEF Load, TypeOK
  <2>2. CASE q # r
    BY <1>3, <2>2 DEF Load, TypeOK
  <2>3. QED
    BY <2>1, <2>2
<1>4. CASE CreateCourse \/ UNCHANGED vars
  BY <1>4 DEF CreateCourse, vars
<1>5. QED
  BY <1>2, <1>3, <1>4, SavesEnd DEF Next

LEMMA SawType ==
    ASSUME TypeOK, NEW r \in Requests
    PROVE  request[r].saw \in Course /\ request[r].saw.status \in Statuses
BY DEF TypeOK, Course

LEMMA TypeInit == Init => TypeOK
<1>1. SUFFICES ASSUME Init PROVE TypeOK
  OBVIOUS
<1>2. Idle.saw \in Course /\ Idle.for = "none"
  BY <1>1, IdleType DEF Init
<1>3. Idle \in [for: Purposes \cup {"none"}, saw: Course]
  BY <1>2 DEF Idle
<1>4. request \in [Requests -> [for: Purposes \cup {"none"}, saw: Course]]
  BY <1>1, <1>3 DEF Init
<1>5. QED
  BY <1>1, <1>4 DEF Init, TypeOK, Statuses

LEMMA TypeStep == TypeOK /\ [Next]_vars => TypeOK'
<1>1. SUFFICES ASSUME TypeOK, [Next]_vars PROVE TypeOK'
  OBVIOUS
<1>2. Idle \in [for: Purposes \cup {"none"}, saw: Course]
  BY <1>1, IdleType DEF TypeOK, Idle
<1>3. ASSUME NEW r \in Requests, Ends(r)
      PROVE  request' \in [Requests -> [for: Purposes \cup {"none"}, saw: Course]]
  BY <1>1, <1>2, <1>3 DEF Ends, TypeOK
<1>4. ASSUME NEW r \in Requests, NEW p \in Purposes, Load(r, p) PROVE TypeOK'
  <2>1. [for |-> p, saw |-> Loaded] \in [for: Purposes \cup {"none"}, saw: Course]
    BY <1>1, LoadedType
  <2>2. request' \in [Requests -> [for: Purposes \cup {"none"}, saw: Course]]
    BY <1>1, <1>4, <2>1 DEF Load, TypeOK
  <2>3. QED
    BY <1>1, <1>4, <2>2 DEF Load, row, trail, TypeOK
<1>5. ASSUME NEW r \in Requests, NEW new \in Edited(request[r].saw), Overwrite(new)
      PROVE  /\ status' \in Statuses /\ dated' \in BOOLEAN
             /\ title' \in Words /\ about' \in Words /\ stale' \in BOOLEAN
  <2>1. new \in Course
    BY <1>1, EditedType, SawType
  <2>2. QED
    BY <1>1, <1>5, <2>1 DEF Overwrite, Course, TypeOK
<1>6. ASSUME NEW r \in Requests, SaveEdit(r) PROVE TypeOK'
  <2>1. PICK new \in Edited(request[r].saw) : Overwrite(new)
    BY <1>6 DEF SaveEdit
  <2>2. vector' = <<title', about'>> /\ bypassed' \in BOOLEAN /\ UNCHANGED <<events, newest>>
    BY <1>6 DEF SaveEdit, Indexed, trail
  <2>3. QED
    BY <1>1, <1>3, <1>5, <1>6, <2>1, <2>2, SavesEnd DEF TypeOK
<1>7. ASSUME NEW r \in Requests, SaveAdminEdit(r) PROVE TypeOK'
  <2>1. PICK new \in Edited(request[r].saw) : Overwrite(new)
    BY <1>7 DEF SaveAdminEdit
  <2>2. vector' \in Words \X Words
    BY <1>1, <1>7, SawType DEF SaveAdminEdit, Course
  <2>3. bypassed' \in BOOLEAN /\ UNCHANGED <<events, newest>>
    BY <1>7 DEF SaveAdminEdit, trail
  <2>4. QED
    BY <1>1, <1>3, <1>5, <1>7, <2>1, <2>2, <2>3, SavesEnd DEF TypeOK
<1>8. ASSUME NEW r \in Requests,
             SubmitForReview(r) \/ Approve(r) \/ ReturnToDraft(r) \/ Archive(r)
      PROVE  TypeOK'
  <2>1. PICK p \in DOMAIN Target : Move(r, p)
    BY <1>8 DEF SubmitForReview, Approve, ReturnToDraft, Archive, Target
  <2>2. /\ status' \in Statuses /\ stale' \in BOOLEAN
        /\ UNCHANGED <<title, about, vector, bypassed>>
    BY <1>1, <2>1, TargetType DEF Move, TypeOK
  <2>3. dated' \in BOOLEAN /\ events' \in SUBSET Actions /\ newest' \in Actions \cup {"NONE"}
    BY <1>1, <1>8 DEF SubmitForReview, Approve, ReturnToDraft, Archive, Record, Decisions,
       Actions, PublicationDate, trail, TypeOK
  <2>4. QED
    BY <1>1, <1>3, <1>8, <2>2, <2>3, SavesEnd DEF TypeOK
<1>9. CASE CreateCourse
  BY <1>1, <1>9 DEF CreateCourse, trail, Statuses, TypeOK
<1>10. CASE UNCHANGED vars
  BY <1>1, <1>10 DEF vars, row, trail, TypeOK
<1>11. QED
  BY <1>1, <1>4, <1>6, <1>7, <1>8, <1>9, <1>10 DEF Next

(* Types hold for every number of words and requests. *)
THEOREM TypeCorrect == Spec => []TypeOK
BY TypeInit, TypeStep, PTL DEF Spec

-----------------------------------------------------------------------------
(* An edit can bring back only what was loaded: a live course some request *)
(* holds was dated and approved when it was loaded.                        *)
LoadedWereApproved ==
    \A r \in Requests :
        request[r].for # "none" /\ request[r].saw.status = "PUBLISHED"
            => request[r].saw.dated /\ "APPROVED" \in events

LEMMA ApprovedStep ==
    TypeOK /\ PublishedWasApproved /\ LoadedWereApproved /\ [Next]_vars
        => PublishedWasApproved' /\ LoadedWereApproved'
<1>1. SUFFICES ASSUME TypeOK, PublishedWasApproved, LoadedWereApproved, [Next]_vars
               PROVE  PublishedWasApproved' /\ LoadedWereApproved'
  OBVIOUS
<1>2. events \subseteq events'
  BY <1>1 DEF Next, vars, trail, CreateCourse, Load, SaveEdit, SaveAdminEdit,
     SubmitForReview, Approve, ReturnToDraft, Archive, Record
<1>3. LoadedWereApproved'
  <2>1. SUFFICES ASSUME NEW q \in Requests, request'[q].for # "none",
                        request'[q].saw.status = "PUBLISHED"
                 PROVE  request'[q].saw.dated /\ "APPROVED" \in events'
    BY DEF LoadedWereApproved
  <2>2. CASE request[q].for # "none" /\ request'[q] = request[q]
    BY <1>1, <1>2, <2>1, <2>2 DEF LoadedWereApproved
  <2>3. CASE request'[q].saw = Loaded /\ UNCHANGED <<row, trail, stale>>
    BY <1>1, <2>1, <2>3, LoadedType DEF PublishedWasApproved, trail
  <2>4. QED
    BY <1>1, <2>1, <2>2, <2>3, RequestSteps
<1>4. ASSUME NEW r \in Requests, request[r].for # "none",
             NEW new \in Edited(request[r].saw), Overwrite(new)
      PROVE  PublishedWasApproved'
  <2>1. new.status = request[r].saw.status /\ new.dated = request[r].saw.dated
    BY <1>1, <1>4, EditedType, SawType
  <2>2. QED
    BY <1>1, <1>2, <1>4, <2>1 DEF Overwrite, LoadedWereApproved, PublishedWasApproved
<1>5. ASSUME NEW r \in Requests, SaveEdit(r) \/ SaveAdminEdit(r)
      PROVE  PublishedWasApproved'
  BY <1>4, <1>5 DEF SaveEdit, SaveAdminEdit
<1>6. ASSUME NEW r \in Requests, Approve(r) PROVE PublishedWasApproved'
  BY <1>6 DEF Approve, PublicationDate, Record, PublishedWasApproved
<1>7. ASSUME NEW r \in Requests, SubmitForReview(r) \/ ReturnToDraft(r) \/ Archive(r)
      PROVE  PublishedWasApproved'
  BY <1>7 DEF SubmitForReview, ReturnToDraft, Archive, Move, Target, PublishedWasApproved
<1>8. ASSUME CreateCourse PROVE PublishedWasApproved'
  BY <1>8 DEF CreateCourse, PublishedWasApproved
<1>9. ASSUME UNCHANGED vars \/ \E r \in Requests, p \in Purposes : Load(r, p)
      PROVE  PublishedWasApproved'
  BY <1>1, <1>9 DEF vars, row, trail, Load, PublishedWasApproved
<1>10. QED
  BY <1>1, <1>3, <1>5, <1>6, <1>7, <1>8, <1>9 DEF Next

(* A live course has a date and was approved once, whatever interleaves    *)
(* (course_published_has_published_at).                                    *)
THEOREM LiveWasApproved == Spec => []PublishedWasApproved
<1>1. Init => PublishedWasApproved /\ LoadedWereApproved
  <2>1. SUFFICES ASSUME Init PROVE PublishedWasApproved /\ LoadedWereApproved
    OBVIOUS
  <2>2. \A r \in Requests : request[r].for = "none"
    BY <2>1, IdleType DEF Init
  <2>3. QED
    BY <2>1, <2>2 DEF Init, PublishedWasApproved, LoadedWereApproved
<1>2. QED
  BY <1>1, TypeInit, TypeStep, ApprovedStep, PTL DEF Spec

-----------------------------------------------------------------------------
(* While nothing stale was saved: a loaded course is dated when it is      *)
(* live, a move is one its table has from the status it was loaded with,   *)
(* and a course that is not there yet has no trail.                        *)
LoadedFollowTheTable ==
    ~stale =>
        /\ status = "NONE" => newest = "NONE"
        /\ \A r \in Requests : request[r].for # "none" =>
             /\ request[r].saw.dated <=> request[r].saw.status = "PUBLISHED"
             /\ request[r].for \in DOMAIN Target =>
                  <<request[r].saw.status, Target[request[r].for]>> \in ALLOWED_TRANSITIONS

TrailInv == TrailExplainsStatus /\ LoadedFollowTheTable

LEMMA MoveFollowsTheTable ==
    ASSUME TypeOK, TrailInv, NEW r \in Requests, NEW p \in DOMAIN Target,
           Move(r, p), ~stale'
    PROVE  <<status, Target[p]>> \in ALLOWED_TRANSITIONS /\ status' = Target[p] /\ ~stale
<1>1. request[r].for = p /\ ~stale /\ status = request[r].saw.status /\ status' = Target[p]
  BY DEF Move, TypeOK
<1>2. p # "none"
  BY DEF Target
<1>3. QED
  BY <1>1, <1>2 DEF TrailInv, LoadedFollowTheTable

(* Every kind of step, once, and what it leaves of the row and the trail.  *)
LEMMA TrailStep == TypeOK /\ TrailInv /\ [Next]_vars => TrailInv'
<1>1. SUFFICES ASSUME TypeOK, TrailInv, [Next]_vars, ~stale' PROVE TrailInv'
  BY DEF TrailInv, TrailExplainsStatus, LoadedFollowTheTable
<1> DEFINE Sound(r) ==
         /\ request[r].saw.dated <=> request[r].saw.status = "PUBLISHED"
         /\ request[r].for \in DOMAIN Target =>
              <<request[r].saw.status, Target[request[r].for]>> \in ALLOWED_TRANSITIONS
           Explained ==
         /\ status = "NONE" => newest = "NONE"
         /\ status = "IN_REVIEW" => newest = "SUBMITTED"
         /\ status \in {"PUBLISHED", "ARCHIVED"} => newest = "APPROVED"
         /\ status = "DRAFT" => newest \in Decisions \cup {"NONE"}
         /\ dated <=> status = "PUBLISHED"
<1>2. ~stale
  BY <1>1 DEF Next, vars, CreateCourse, Load, SaveEdit, SaveAdminEdit, Overwrite,
     SubmitForReview, Approve, ReturnToDraft, Archive, Move, TypeOK
<1>3. Explained /\ \A r \in Requests : request[r].for # "none" => Sound(r)
  BY <1>1, <1>2 DEF TrailInv, TrailExplainsStatus, LoadedFollowTheTable
<1>4. \A q \in Requests : request'[q].for # "none" => Sound(q)'
  <2>1. SUFFICES ASSUME NEW q \in Requests, request'[q].for # "none" PROVE Sound(q)'
    OBVIOUS
  <2>2. CASE request[q].for # "none" /\ request'[q] = request[q]
    BY <1>3, <2>2
  <2>3. ASSUME NEW r \in Requests, Ends(r) PROVE Sound(q)'
    <3>1. Idle.for = "none"
      BY <1>1, IdleType DEF TypeOK
    <3>2. QED
      BY <1>1, <2>1, <2>2, <2>3, <3>1 DEF Ends, TypeOK
  <2>4. ASSUME NEW r \in Requests, NEW p \in Purposes, Load(r, p) PROVE Sound(q)'
    <3>1. CASE q # r
      BY <1>1, <2>1, <2>2, <2>4, <3>1 DEF Load, TypeOK
    <3>2. CASE q = r
      <4>1. request'[q].for = p /\ request'[q].saw = Loaded
        BY <1>1, <2>4, <3>2 DEF Load, TypeOK
      <4>2. p \in DOMAIN Target => <<status, Target[p]>> \in ALLOWED_TRANSITIONS
        BY <2>4 DEF Load
      <4>3. QED
        BY <1>1, <1>3, <4>1, <4>2, LoadedType
    <3>3. QED
      BY <3>1, <3>2
  <2>5. CASE CreateCourse \/ UNCHANGED vars
    BY <2>1, <2>2, <2>5 DEF CreateCourse, vars
  <2>6. QED
    BY <1>1, <2>3, <2>4, <2>5, SavesEnd DEF Next
<1>5. ASSUME NEW r \in Requests, SaveEdit(r) \/ SaveAdminEdit(r) PROVE Explained'
  <2>1. PICK new \in Edited(request[r].saw) : Overwrite(new)
    BY <1>5 DEF SaveEdit, SaveAdminEdit
  <2>2. new.status = request[r].saw.status /\ new.dated = request[r].saw.dated
    BY <1>1, <2>1, EditedType, SawType
  <2>3. Sound(r)
    BY <1>3, <1>5 DEF SaveEdit, SaveAdminEdit
  <2>4. status' = status /\ newest' = newest /\ status' = new.status /\ dated' = new.dated
    BY <1>1, <1>5, <2>1 DEF SaveEdit, SaveAdminEdit, Overwrite, trail
  <2>5. dated' <=> status' = "PUBLISHED"
    BY <2>2, <2>3, <2>4
  <2>6. QED
    BY <1>3, <2>4, <2>5
<1>6. ASSUME NEW r \in Requests, SubmitForReview(r) PROVE Explained'
  <2>1. <<status, "IN_REVIEW">> \in ALLOWED_TRANSITIONS /\ status' = "IN_REVIEW"
    BY <1>1, <1>6, MoveFollowsTheTable DEF SubmitForReview, Target
  <2>2. QED
    BY <1>3, <1>6, <2>1 DEF SubmitForReview, Record, ALLOWED_TRANSITIONS
<1>7. ASSUME NEW r \in Requests, Approve(r) PROVE Explained'
  BY <1>7 DEF Approve, Move, Target, Record, PublicationDate
<1>8. ASSUME NEW r \in Requests, ReturnToDraft(r) PROVE Explained'
  BY <1>8 DEF ReturnToDraft, Move, Target, Record
<1>9. ASSUME NEW r \in Requests, Archive(r) PROVE Explained'
  <2>1. <<status, "ARCHIVED">> \in ALLOWED_TRANSITIONS /\ status' = "ARCHIVED"
    BY <1>1, <1>9, MoveFollowsTheTable DEF Archive, Target
  <2>2. QED
    BY <1>3, <1>9, <2>1 DEF Archive, trail, ALLOWED_TRANSITIONS
<1>10. ASSUME CreateCourse \/ UNCHANGED vars \/ \E r \in Requests, p \in Purposes : Load(r, p)
       PROVE  Explained'
  <2>1. CASE CreateCourse
    <3>1. newest' = "NONE" /\ dated' = dated /\ status' = "DRAFT" /\ status = "NONE"
      BY <1>3, <2>1 DEF CreateCourse, trail
    <3>2. QED
      BY <1>3, <3>1
  <2>2. ASSUME UNCHANGED <<status, dated, newest>> PROVE Explained'
    BY <1>3, <2>2
  <2>3. CASE UNCHANGED vars \/ \E r \in Requests, p \in Purposes : Load(r, p)
    BY <2>2, <2>3 DEF Load, vars, row, trail
  <2>4. QED
    BY <1>10, <2>1, <2>3
<1>11. Explained'
  BY <1>1, <1>5, <1>6, <1>7, <1>8, <1>9, <1>10 DEF Next
<1>12. QED
  BY <1>4, <1>11 DEF TrailInv, TrailExplainsStatus, LoadedFollowTheTable

(* As long as no move was saved over a row that had moved, the newest      *)
(* event explains the status and only a live course has a date.            *)
THEOREM TrailFollowsTheTable == Spec => []TrailExplainsStatus
<1>1. Init => TrailInv
  <2>1. SUFFICES ASSUME Init PROVE TrailInv
    OBVIOUS
  <2>2. \A r \in Requests : request[r].for = "none"
    BY <2>1, IdleType DEF Init
  <2>3. QED
    BY <2>1, <2>2 DEF Init, TrailInv, TrailExplainsStatus, LoadedFollowTheTable
<1>2. TrailInv => TrailExplainsStatus
  BY DEF TrailInv
<1>3. QED
  BY <1>1, <1>2, TypeInit, TypeStep, TrailStep, PTL DEF Spec

-----------------------------------------------------------------------------
(* update_course reads the columns back before it indexes them, moves save *)
(* neither, and the change form marks what it did: search finds a course   *)
(* by the words it has whatever else was saved in between.                 *)
THEOREM SearchFollowsTheWords == Spec => []SearchFindsTheWords
<1>1. Init => SearchFindsTheWords
  BY DEF Init, SearchFindsTheWords
<1>2. SearchFindsTheWords /\ [Next]_vars => SearchFindsTheWords'
  <2>1. SUFFICES ASSUME SearchFindsTheWords, [Next]_vars PROVE SearchFindsTheWords'
    OBVIOUS
  <2>2. ASSUME NEW r \in Requests, SaveEdit(r) \/ SaveAdminEdit(r)
        PROVE  SearchFindsTheWords'
    BY <2>2 DEF SaveEdit, SaveAdminEdit, Indexed, SearchFindsTheWords
  <2>3. CASE UNCHANGED <<title, about, vector, bypassed>>
    BY <2>1, <2>3 DEF SearchFindsTheWords
  <2>4. QED
    BY <2>1, <2>2, <2>3
       DEF Next, vars, row, CreateCourse, Load, SubmitForReview, Approve, ReturnToDraft,
           Archive, Move
<1>3. QED
  BY <1>1, <1>2, PTL DEF Spec

(***************************************************************************)
(* The order of a course.                                                  *)
(***************************************************************************)

(* A row is a section's or a lesson's, committed, written or loaded.       *)
KindOf(i) == IF i \in Sections THEN Section ELSE Lesson
RowsAreOfTheirKind ==
    \A c \in Calls :
       /\ \A i \in Items : call[c].write[i] \in KindOf(i) \cup {Absent}
       /\ call[c].at = "editing" =>
            call[c].item \in Items /\ call[c].loaded \in KindOf(call[c].item)

(* A lesson is in a section that is there. *)
ParentsExist ==
    \A l \in Lessons :
       /\ Exists(l) => Exists(item[l].parent)
       /\ \A c \in Calls : call[c].write[l] # Absent => Exists(call[c].write[l].parent)

(* What a request has not done yet, and what it has once it has written.   *)
PhaseInv ==
    \A c \in Calls :
       /\ call[c].at # "written" => call[c].write = Unwritten /\ call[c].suspect = {}
       /\ call[c].at \in {"idle", "editing"} =>
            call[c].seen = <<>> /\ call[c].locked = 0 /\ call[c].named = {}
       /\ call[c].at = "written" /\ call[c].seen # <<>> =>
            call[c].locked = Len(call[c].seen) /\ Written(c) \subseteq call[c].named

(* No row is held by two requests. *)
HeldApart == \A c, d \in Calls : c # d => Held(c) \cap Held(d) = {}

(* A reorder's rows are there; those it has locked are named as long as    *)
(* they are its parent's, and are written as that parent's.                *)
ReorderInv ==
    \A c \in Calls :
       /\ \A n \in 1..Len(call[c].seen) : Exists(call[c].seen[n])
       /\ \A n \in 1..call[c].locked :
            call[c].seen[n] \in call[c].named <=> item[call[c].seen[n]].parent = call[c].parent
       /\ call[c].seen # <<>> =>
            \A i \in Written(c) : call[c].write[i].parent = call[c].parent

(* Rows nobody has written since are still in the order they were found.   *)
SeenSorted ==
    \A c \in Calls : ~call[c].changed =>
       \A m, n \in 1..Len(call[c].seen) :
          m < n => item[call[c].seen[m]].position < item[call[c].seen[n]].position

(* The keys a request writes are different, and one that is committed or   *)
(* written by another request too is suspect to one of the two.            *)
KeysApart ==
    \A c \in Calls : \A i \in Written(c) : \A j \in Items \ {i} :
       /\ call[c].write[j] # call[c].write[i]
       /\ item[j] = call[c].write[i] => j \in Written(c) \/ i \in call[c].suspect
       /\ \A d \in Calls \ {c} : call[d].write[j] = call[c].write[i] =>
            i \in call[c].suspect \/ j \in call[d].suspect

CurriculumInv ==
    /\ CurriculumTypeOK /\ RowsAreOfTheirKind /\ ParentsExist /\ PhaseInv
    /\ HeldApart /\ ReorderInv /\ SeenSorted /\ PositionsAreUnique /\ KeysApart

-----------------------------------------------------------------------------
(* Rows.                                                                   *)

LEMMA RowFacts ==
    /\ Absent \notin Row /\ Absent.parent = None /\ None \notin Parents
    /\ \A i \in Items : KindOf(i) \subseteq Row
    /\ \A r \in Row : r.parent \in Parents /\ r.position \in Positions
    /\ \A s \in Sections : s \in Items /\ s \notin Lessons /\ KindOf(s) = Section
    /\ \A l \in Lessons : l \in Items /\ l \notin Sections /\ KindOf(l) = Lesson
    /\ \A r \in Section : r.parent = TheCourse
    /\ \A r \in Lesson : r.parent \in Sections /\ r.parent # TheCourse
    /\ Positions \subseteq Nat
<1>1. \A r \in Section : r.parent = TheCourse /\ r.position \in Positions
  BY DEF Section
<1>2. \A r \in Lesson : r.parent \in Sections /\ r.position \in Positions
  BY DEF Lesson
<1>3. Absent.parent = None /\ None \notin Parents /\ TheCourse \notin Sections
  BY CurriculumAssumption DEF Absent, Parents
<1>4. Absent \notin Row
  BY <1>1, <1>2, <1>3 DEF Row, Parents
<1>5. /\ \A s \in Sections : s \in Items /\ s \notin Lessons /\ KindOf(s) = Section
      /\ \A l \in Lessons : l \in Items /\ l \notin Sections /\ KindOf(l) = Lesson
  BY CurriculumAssumption DEF Items, KindOf
<1>6. Positions \subseteq Nat
  BY CurriculumAssumption DEF Positions
<1>7. QED
  BY <1>1, <1>2, <1>3, <1>4, <1>5, <1>6 DEF Row, Parents, KindOf

LEMMA ItemFacts ==
    ASSUME CurriculumTypeOK, NEW i \in Items
    PROVE  /\ item[i] \in KindOf(i) \cup {Absent}
           /\ Exists(i) => item[i] \in KindOf(i) /\ item[i] \in Row
           /\ \A p \in Parents : i \in Children(p) <=> item[i].parent = p
           /\ \A p \in Parents : item[i].parent = p => Exists(i)
BY RowFacts DEF CurriculumTypeOK, KindOf, Exists, Items, Children

(* The rows of a parent are all sections or all lessons. *)
LEMMA Siblings ==
    ASSUME CurriculumTypeOK, NEW p \in Parents,
           NEW S \in SUBSET Items, \A i \in S : item[i].parent = p
    PROVE  /\ S \subseteq Sections \/ S \subseteq Lessons
           /\ IsFiniteSet(S) /\ Cardinality(S) \in Nat /\ Cardinality(S) <= MaxPosition
<1>1. S \subseteq Sections \/ S \subseteq Lessons
  <2>1. CASE p = TheCourse
    BY <2>1, ItemFacts, RowFacts DEF Items
  <2>2. CASE p # TheCourse
    BY <2>2, ItemFacts, RowFacts DEF Items
  <2>3. QED
    BY <2>1, <2>2
<1>2. /\ IsFiniteSet(S) /\ Cardinality(S) \in Nat
      /\ Cardinality(S) <= Cardinality(Sections) \/ Cardinality(S) <= Cardinality(Lessons)
  BY <1>1, CurriculumAssumption, FS_Subset, FS_CardinalityType
<1>3. Cardinality(Sections) \in Nat /\ Cardinality(Lessons) \in Nat
  BY CurriculumAssumption, FS_CardinalityType
<1>4. QED
  BY <1>1, <1>2, <1>3, CurriculumAssumption

(* An order of a finite set, and the place of a member in it. *)
LEMMA OrderFacts ==
    ASSUME NEW S \in SUBSET Items, IsFiniteSet(S), NEW seq \in SetToSeqs(S)
    PROVE  /\ seq \in Seq(S) /\ Len(seq) = Cardinality(S) /\ DOMAIN seq = 1..Len(seq)
           /\ IsInjective(seq)
           /\ \A i \in S : Place(seq, i) \in 1..Len(seq) /\ seq[Place(seq, i)] = i
<1>1. Cardinality(S) \in Nat
  BY FS_CardinalityType
<1>2. /\ seq \in [1..Cardinality(S) -> S]
      /\ \A m, n \in 1..Cardinality(S) : m # n => seq[m] # seq[n]
  BY DEF SetToSeqs
<1>3. seq \in Seq(S) /\ Len(seq) = Cardinality(S) /\ DOMAIN seq = 1..Len(seq)
  BY <1>1, <1>2
<1>4. IsInjective(seq)
  BY <1>2 DEF IsInjective
<1>5. seq \in Injection(1..Cardinality(S), S)
  BY <1>2 DEF Injection, IsInjective
<1>6. IsFiniteSet(1..Cardinality(S)) /\ Cardinality(1..Cardinality(S)) = Cardinality(S)
  BY <1>1, FS_Interval
<1>7. seq \in Surjection(1..Cardinality(S), S)
  BY <1>5, <1>6, FS_Injection
<1>8. \A i \in S : \E n \in DOMAIN seq : seq[n] = i
  BY <1>2, <1>7 DEF Surjection
<1>9. QED
  BY <1>3, <1>4, <1>8 DEF Place

-----------------------------------------------------------------------------
(* The steps of a request, by what they do to its record.                  *)

(* It starts over: idle again, or with what it has just read. *)
Restarts(c, r) ==
    /\ r \in Request /\ r.write = Unwritten /\ r.suspect = {}
    /\ r.named = {} /\ r.locked = 0 /\ r.at # "written"
    /\ r.at # "locking" => r.seen = <<>>
    /\ r.at = "editing" => r.item \in Items /\ r.loaded \in KindOf(r.item)
    /\ IsInjective(r.seen)
    /\ \A n \in 1..Len(r.seen) : Exists(r.seen[n])
    /\ \A m, n \in 1..Len(r.seen) :
          m < n => item[r.seen[m]].position < item[r.seen[n]].position
    /\ call' = [call EXCEPT ![c] = r]
    /\ UNCHANGED item

(* It writes rows that nobody else holds. *)
Writes(c, rows) ==
    /\ call[c].at # "written"
    /\ rows \in [Items -> Row \cup {Absent}]
    /\ \A i \in Items : rows[i] \in KindOf(i) \cup {Absent}
    /\ \A l \in Lessons : rows[l] # Absent => Exists(rows[l].parent)
    /\ \A i \in Items : rows[i] # Absent => RowFree(c, i)
    /\ \A i \in Items : \A j \in Items \ {i} : rows[i] # Absent => rows[j] # rows[i]
    /\ call[c].seen # <<>> =>
         /\ call[c].locked = Len(call[c].seen)
         /\ \A i \in Items : rows[i] # Absent =>
               i \in call[c].named /\ rows[i].parent = call[c].parent
    /\ Write(c, rows)
    /\ UNCHANGED item

LEMMA WaitingRestarts ==
    /\ Waiting \in Request /\ Waiting.write = Unwritten /\ Waiting.suspect = {}
    /\ Waiting.named = {} /\ Waiting.locked = 0 /\ Waiting.at = "idle"
    /\ Waiting.seen = <<>> /\ IsInjective(Waiting.seen) /\ Waiting.changed = FALSE
<1>1. Unwritten \in [Items -> Row \cup {Absent}]
  BY DEF Unwritten
<1>2. <<>> \in Seq(Items) /\ IsInjective(<<>>)
  BY DEF IsInjective
<1>3. QED
  BY <1>1, <1>2 DEF Waiting, Request, Steps

LEMMA AbortRestarts ==
    ASSUME NEW c \in Calls, Abort(c)
    PROVE  Restarts(c, Waiting)
BY WaitingRestarts DEF Abort, Finish, Restarts

LEMMA GetObjectRestarts ==
    ASSUME CurriculumTypeOK, NEW c \in Calls, NEW i \in Items, GetObject(c, i)
    PROVE  \E r : Restarts(c, r)
<1> DEFINE r == [Waiting EXCEPT !.at = "editing", !.item = i, !.loaded = item[i]]
<1>1. item[i] \in KindOf(i) /\ item[i] \in Row
  BY ItemFacts DEF GetObject
<1>2. /\ r \in Request /\ r.write = Unwritten /\ r.suspect = {}
      /\ r.named = {} /\ r.locked = 0 /\ r.at = "editing" /\ r.seen = <<>>
      /\ r.item = i /\ r.loaded = item[i]
  BY <1>1, WaitingRestarts DEF Request, Steps
<1>3. IsInjective(r.seen) /\ Len(r.seen) = 0
  BY <1>2, WaitingRestarts
<1>4. call' = [call EXCEPT ![c] = r] /\ UNCHANGED item
  BY DEF GetObject
<1> HIDE DEF r
<1>5. Restarts(c, r)
  BY <1>1, <1>2, <1>3, <1>4 DEF Restarts
<1>6. QED
  BY <1>5

LEMMA ReorderRestarts ==
    ASSUME CurriculumTypeOK, NEW c \in Calls, NEW p \in Parents, Reorder(c, p)
    PROVE  \E r : Restarts(c, r)
<1>1. PICK seq \in InOrder(p) : call' = [call EXCEPT ![c] =
         [Waiting EXCEPT !.at = "locking", !.parent = p, !.seen = seq]]
  BY DEF Reorder
<1> DEFINE r == [Waiting EXCEPT !.at = "locking", !.parent = p, !.seen = seq]
<1>2. /\ Children(p) \in SUBSET Items /\ \A i \in Children(p) : item[i].parent = p /\ Exists(i)
  BY ItemFacts DEF Children
<1>3. IsFiniteSet(Children(p))
  BY <1>2, Siblings
<1>4. /\ seq \in Seq(Children(p)) /\ DOMAIN seq = 1..Len(seq) /\ IsInjective(seq)
      /\ \A m, n \in DOMAIN seq : m < n => item[seq[m]].position < item[seq[n]].position
  BY <1>2, <1>3, OrderFacts DEF InOrder
<1>5. seq \in Seq(Items) /\ \A n \in 1..Len(seq) : seq[n] \in Children(p)
  BY <1>2, <1>4
<1>6. /\ r \in Request /\ r.write = Unwritten /\ r.suspect = {}
      /\ r.named = {} /\ r.locked = 0 /\ r.at = "locking" /\ r.seen = seq
  BY <1>5, WaitingRestarts DEF Request, Steps
<1>7. call' = [call EXCEPT ![c] = r] /\ UNCHANGED item
  BY <1>1 DEF Reorder
<1> HIDE DEF r
<1>8. Restarts(c, r)
  BY <1>2, <1>4, <1>5, <1>6, <1>7 DEF Restarts
<1>9. QED
  BY <1>8

(* One row written, that is nobody else's. *)
LEMMA OneRowWrites ==
    ASSUME CurriculumTypeOK, NEW c \in Calls, NEW i \in Items, NEW new \in KindOf(i),
           call[c].at # "written", call[c].seen = <<>>, RowFree(c, i),
           i \in Lessons => Exists(new.parent),
           Write(c, [Unwritten EXCEPT ![i] = new]), UNCHANGED item
    PROVE  \E rows : Writes(c, rows)
<1> DEFINE rows == [Unwritten EXCEPT ![i] = new]
<1>1. rows = [j \in Items |-> IF j = i THEN new ELSE Absent] /\ new \in Row /\ new # Absent
  BY RowFacts DEF Unwritten
<1>2. Write(c, rows)
  OBVIOUS
<1> HIDE DEF rows
<1>3. /\ rows \in [Items -> Row \cup {Absent}]
      /\ \A j \in Items : rows[j] \in KindOf(j) \cup {Absent}
      /\ \A j \in Items : rows[j] # Absent => j = i /\ rows[j] = new
      /\ rows[i] = new
  BY <1>1
<1>4. Writes(c, rows)
  BY <1>1, <1>2, <1>3, RowFacts DEF Writes
<1>5. QED
  BY <1>4

LEMMA InsertWrites ==
    ASSUME CurriculumTypeOK, PhaseInv, ReorderInv, NEW c \in Calls, NEW i \in Items,
           NEW new \in KindOf(i), i \in Lessons => Exists(new.parent), Insert(c, i, new)
    PROVE  \E rows : Writes(c, rows)
<1>1. call[c].at # "written" /\ call[c].seen = <<>>
  BY DEF Insert, PhaseInv
<1>2. RowFree(c, i)
  <2>1. SUFFICES ASSUME NEW d \in Calls \ {c} PROVE i \notin Held(d)
    BY DEF RowFree
  <2>2. \A n \in 1..call[d].locked : Exists(call[d].seen[n])
    BY DEF ReorderInv, CurriculumTypeOK, Request
  <2>3. QED
    BY <2>2 DEF Insert, Held
<1>3. QED
  BY <1>1, <1>2, OneRowWrites DEF Insert

LEMMA SaveWrites ==
    ASSUME CurriculumTypeOK, PhaseInv, NEW c \in Calls, call[c].at = "editing",
           call[c].item \in Items, NEW new \in KindOf(call[c].item),
           call[c].item \in Lessons => Exists(new.parent), Save(c, new)
    PROVE  \E rows : Writes(c, rows)
BY OneRowWrites DEF Save, PhaseInv

LEMMA UpdateWrites ==
    ASSUME CurriculumTypeOK, RowsAreOfTheirKind, PhaseInv, NEW c \in Calls,
           UpdateSection(c) \/ UpdateLesson(c)
    PROVE  \E rows : Writes(c, rows)
<1>1. CASE UpdateSection(c)
  <2>1. PICK p \in Positions : Save(c, [call[c].loaded EXCEPT !.position = p])
    BY <1>1 DEF UpdateSection
  <2>2. call[c].item \in Sections /\ call[c].loaded \in Section /\ call[c].at = "editing"
    BY <1>1, RowFacts DEF UpdateSection, RowsAreOfTheirKind
  <2>3. [call[c].loaded EXCEPT !.position = p] \in Section
    BY <2>2 DEF Section
  <2>4. QED
    BY <2>1, <2>2, <2>3, RowFacts, SaveWrites
<1>2. CASE UpdateLesson(c)
  <2>1. PICK s \in Children(TheCourse), p \in Positions :
           Save(c, [parent |-> s, position |-> p])
    BY <1>2 DEF UpdateLesson
  <2>2. call[c].item \in Lessons /\ call[c].at = "editing"
    BY <1>2 DEF UpdateLesson
  <2>3. s \in Sections /\ Exists(s)
    BY ItemFacts, RowFacts DEF Children, Parents, Items
  <2>4. [parent |-> s, position |-> p] \in Lesson
    BY <2>3 DEF Lesson
  <2>5. QED
    BY <2>1, <2>2, <2>3, <2>4, RowFacts, SaveWrites
<1>3. QED
  BY <1>1, <1>2

LEMMA CreateWrites ==
    ASSUME CurriculumTypeOK, PhaseInv, ReorderInv, NEW c \in Calls,
           \/ \E s \in Sections : CreateSection(c, s)
           \/ \E l \in Lessons : CreateLesson(c, l)
    PROVE  \E rows : Writes(c, rows)
<1>1. ASSUME NEW s \in Sections, CreateSection(c, s)
      PROVE  \E rows : Writes(c, rows)
  <2>1. PICK p \in Positions : Insert(c, s, [parent |-> TheCourse, position |-> p])
    BY <1>1 DEF CreateSection
  <2>2. [parent |-> TheCourse, position |-> p] \in Section
    BY DEF Section
  <2>3. QED
    BY <2>1, <2>2, RowFacts, InsertWrites
<1>2. ASSUME NEW l \in Lessons, CreateLesson(c, l)
      PROVE  \E rows : Writes(c, rows)
  <2>1. PICK s \in Children(TheCourse), p \in Positions :
           Insert(c, l, [parent |-> s, position |-> p])
    BY <1>2 DEF CreateLesson
  <2>2. s \in Sections /\ Exists(s)
    BY ItemFacts, RowFacts DEF Children, Parents, Items
  <2>3. [parent |-> s, position |-> p] \in Lesson
    BY <2>2 DEF Lesson
  <2>4. QED
    BY <2>1, <2>2, <2>3, RowFacts, InsertWrites
<1>3. QED
  BY <1>1, <1>2

LEMMA ApplyOrderWrites ==
    ASSUME CurriculumTypeOK, ParentsExist, PhaseInv, HeldApart, ReorderInv,
           NEW c \in Calls, ApplyOrder(c)
    PROVE  \E rows : Writes(c, rows)
<1> DEFINE S == call[c].named
           p == call[c].parent
<1>1. /\ call[c].at = "locking" /\ call[c].seen \in Seq(Items)
      /\ call[c].locked = Len(call[c].seen) /\ S # {}
      /\ S \subseteq {call[c].seen[n] : n \in 1..call[c].locked}
      /\ S \in SUBSET Items
  BY DEF ApplyOrder, Locking, CurriculumTypeOK, Request
<1>2. \A i \in S : item[i].parent = p /\ i \in Held(c) /\ Exists(i)
  BY <1>1 DEF ReorderInv, Held
<1>3. p \in Parents
  <2>1. PICK i \in S : TRUE
    BY <1>1
  <2>2. item[i] \in Row /\ item[i].parent = p
    BY <1>1, <1>2, <2>1, ItemFacts
  <2>3. QED
    BY <2>2, RowFacts
<1>4. /\ S \subseteq Sections \/ S \subseteq Lessons
      /\ IsFiniteSet(S) /\ Cardinality(S) \in Nat /\ Cardinality(S) <= MaxPosition
  BY <1>1, <1>2, <1>3, Siblings
<1>5. PICK order \in SetToSeqs(S) :
         Write(c, [i \in Items |-> IF i \in S THEN [item[i] EXCEPT !.position = Place(order, i)]
                                             ELSE Absent])
  BY DEF ApplyOrder
<1> DEFINE rows == [i \in Items |-> IF i \in S THEN [item[i] EXCEPT !.position = Place(order, i)]
                                             ELSE Absent]
<1>6. \A i \in S : Place(order, i) \in Positions /\ order[Place(order, i)] = i
  <2>1. /\ Len(order) = Cardinality(S)
        /\ \A i \in S : Place(order, i) \in 1..Len(order) /\ order[Place(order, i)] = i
    BY <1>1, <1>4, OrderFacts
  <2>2. 1..Len(order) \subseteq Positions
    BY <1>4, <2>1, CurriculumAssumption DEF Positions
  <2>3. QED
    BY <2>1, <2>2
<1>7. ASSUME NEW i \in S
      PROVE  rows[i] \in KindOf(i) /\ rows[i].parent = p /\ rows[i].position = Place(order, i)
  <2>1. item[i] \in KindOf(i) /\ item[i].parent = p
    BY <1>1, <1>2, ItemFacts
  <2>2. rows[i] = [item[i] EXCEPT !.position = Place(order, i)]
    BY <1>1
  <2>3. CASE KindOf(i) = Section
    BY <1>6, <2>1, <2>2, <2>3 DEF Section
  <2>4. CASE KindOf(i) = Lesson
    BY <1>6, <2>1, <2>2, <2>4 DEF Lesson
  <2>5. QED
    BY <2>3, <2>4 DEF KindOf
<1>8. \A i \in Items \ S : rows[i] = Absent
  OBVIOUS
<1>9. Write(c, rows) /\ UNCHANGED item
  BY <1>5 DEF ApplyOrder
<1>10. rows = [i \in Items |-> rows[i]]
  OBVIOUS
<1> HIDE DEF rows
<1>11. rows \in [Items -> Row \cup {Absent}] /\ \A i \in Items : rows[i] \in KindOf(i) \cup {Absent}
  BY <1>1, <1>7, <1>8, <1>10, RowFacts
<1>12. \A l \in Lessons : rows[l] # Absent => Exists(rows[l].parent)
  BY <1>2, <1>7, <1>8, RowFacts DEF ParentsExist
<1>13. \A i \in Items : rows[i] # Absent => RowFree(c, i)
  BY <1>2, <1>8 DEF RowFree, HeldApart
<1>14. \A i \in Items : \A j \in Items \ {i} : rows[i] # Absent => rows[j] # rows[i]
  BY <1>6, <1>7, <1>8
<1>15. Writes(c, rows)
  BY <1>1, <1>7, <1>8, <1>9, <1>11, <1>12, <1>13, <1>14 DEF Writes
<1>16. QED
  BY <1>15

(* Every step is one of these, takes a lock, commits, or does nothing.     *)
LEMMA KindsOfStep ==
    ASSUME CurriculumTypeOK, RowsAreOfTheirKind, ParentsExist, PhaseInv, HeldApart, ReorderInv,
           [CurriculumNext]_curriculum
    PROVE  \/ \E c \in Calls : \/ \E r : Restarts(c, r)
                               \/ \E rows : Writes(c, rows)
                               \/ LockRow(c) \/ Commit(c)
           \/ UNCHANGED curriculum
<1>1. ASSUME NEW c \in Calls, ReorderSections(c) \/ ReorderLessons(c)
      PROVE  \E r : Restarts(c, r)
  <2>1. Children(TheCourse) \subseteq Parents
    BY ItemFacts, RowFacts DEF Children, Parents, Items
  <2>2. TheCourse \in Parents
    BY DEF Parents
  <2>3. QED
    BY <1>1, <2>1, <2>2, ReorderRestarts DEF ReorderSections, ReorderLessons
<1>2. ASSUME NEW c \in Calls, Abort(c) \/ \E i \in Items : GetObject(c, i)
      PROVE  \E r : Restarts(c, r)
  BY <1>2, AbortRestarts, GetObjectRestarts
<1>3. ASSUME NEW c \in Calls,
             \/ \E s \in Sections : CreateSection(c, s)
             \/ \E l \in Lessons : CreateLesson(c, l)
             \/ UpdateSection(c) \/ UpdateLesson(c) \/ ApplyOrder(c)
      PROVE  \E rows : Writes(c, rows)
  BY <1>3, CreateWrites, UpdateWrites, ApplyOrderWrites
<1>4. QED
  BY <1>1, <1>2, <1>3 DEF CurriculumNext

-----------------------------------------------------------------------------
(* Each kind of step keeps the invariant.                                  *)

LEMMA RestartsKeep ==
    ASSUME CurriculumInv, NEW c \in Calls, NEW r, Restarts(c, r)
    PROVE  CurriculumInv'
<1>1. /\ UNCHANGED item /\ call' \in [Calls -> Request] /\ call'[c] = r
      /\ \A d \in Calls \ {c} : call'[d] = call[d]
      /\ r \in Request /\ r.write = Unwritten /\ r.suspect = {} /\ r.named = {}
      /\ r.locked = 0 /\ r.at # "written" /\ IsInjective(r.seen)
  BY DEF Restarts, CurriculumInv, CurriculumTypeOK
<1>2. /\ \A i \in Items : r.write[i] = Absent
      /\ Written(c)' = {} /\ Held(c)' = {}
      /\ \A d \in Calls \ {c} : Written(d)' = Written(d) /\ Held(d)' = Held(d)
  BY <1>1 DEF Written, Held, Unwritten
<1>3. CurriculumTypeOK'
  <2>1. r.seen \in Seq(Items) /\ Len(r.seen) \in Nat
    BY <1>1 DEF Request
  <2>2. /\ IsInjective(call'[c].seen) /\ call'[c].locked <= Len(call'[c].seen)
        /\ call'[c].named \subseteq {call'[c].seen[n] : n \in 1..call'[c].locked}
    BY <1>1, <2>1
  <2>3. QED
    BY <1>1, <2>2 DEF CurriculumInv, CurriculumTypeOK
<1>4. RowsAreOfTheirKind'
  BY <1>1, <1>2 DEF CurriculumInv, RowsAreOfTheirKind, Restarts
<1>5. ParentsExist'
  BY <1>1, <1>2, RowFacts DEF CurriculumInv, ParentsExist, Exists
<1>6. PhaseInv'
  BY <1>1, <1>2 DEF CurriculumInv, PhaseInv, Restarts, Request, Steps
<1>7. HeldApart'
  BY <1>1, <1>2 DEF CurriculumInv, HeldApart
<1>8. ReorderInv'
  BY <1>1, <1>2 DEF CurriculumInv, ReorderInv, Restarts, Exists
<1>9. SeenSorted'
  BY <1>1 DEF CurriculumInv, SeenSorted, Restarts
<1>10. PositionsAreUnique'
  BY <1>1 DEF CurriculumInv, PositionsAreUnique, Exists
<1>11. KeysApart'
  BY <1>1, <1>2 DEF CurriculumInv, KeysApart, Written
<1>12. QED
  BY <1>3, <1>4, <1>5, <1>6, <1>7, <1>8, <1>9, <1>10, <1>11 DEF CurriculumInv

LEMMA WritesKeep ==
    ASSUME CurriculumInv, NEW c \in Calls, NEW rows, Writes(c, rows)
    PROVE  CurriculumInv'
<1> DEFINE mine == {i \in Items : rows[i] # Absent}
           suspects == {i \in Items : rows[i] # Absent /\ Taken(c, i, rows[i])}
<1>1. /\ UNCHANGED item
      /\ call' = [call EXCEPT ![c].at = "written", ![c].write = rows, ![c].suspect = suspects]
      /\ call[c].write = Unwritten
  BY DEF Writes, Write, CurriculumInv, PhaseInv
<1>2. /\ call' \in [Calls -> Request]
      /\ \A d \in Calls \ {c} : call'[d] = call[d]
      /\ call'[c].at = "written" /\ call'[c].write = rows /\ call'[c].suspect = suspects
      /\ call'[c].seen = call[c].seen /\ call'[c].locked = call[c].locked
      /\ call'[c].named = call[c].named /\ call'[c].parent = call[c].parent
      /\ call'[c].changed = call[c].changed
  <2>1. suspects \in SUBSET Items /\ rows \in [Items -> Row \cup {Absent}]
    BY DEF Writes
  <2> HIDE DEF suspects
  <2>2. call \in [Calls -> Request]
    BY DEF CurriculumInv, CurriculumTypeOK
  <2>3. call' = [call EXCEPT ![c] =
           [call[c] EXCEPT !.at = "written", !.write = rows, !.suspect = suspects]]
    BY <1>1, <2>2
  <2>4. [call[c] EXCEPT !.at = "written", !.write = rows, !.suspect = suspects] \in Request
    BY <2>1, <2>2 DEF Request, Steps
  <2>5. call[c] \in Request
    BY <2>2
  <2>6. QED
    BY <2>2, <2>3, <2>4, <2>5 DEF Request
<1>3. /\ Written(c)' = mine /\ Written(c) = {}
      /\ Held(c)' = Held(c) \cup mine
      /\ \A d \in Calls \ {c} : Written(d)' = Written(d) /\ Held(d)' = Held(d)
  BY <1>1, <1>2 DEF Written, Held, Unwritten
<1>4. CurriculumTypeOK'
  BY <1>1, <1>2 DEF CurriculumInv, CurriculumTypeOK
<1>5. RowsAreOfTheirKind'
  BY <1>1, <1>2 DEF CurriculumInv, RowsAreOfTheirKind, Writes
<1>6. ParentsExist'
  BY <1>1, <1>2 DEF CurriculumInv, ParentsExist, Exists, Writes
<1>7. PhaseInv'
  BY <1>2, <1>3 DEF CurriculumInv, PhaseInv, Writes
<1>8. HeldApart'
  <2>1. \A i \in mine : \A d \in Calls \ {c} : i \notin Held(d)
    BY DEF Writes, RowFree
  <2>2. QED
    BY <1>2, <1>3, <2>1 DEF CurriculumInv, HeldApart
<1>9. ReorderInv'
  BY <1>1, <1>2, <1>3 DEF CurriculumInv, ReorderInv, Writes, Exists
<1>10. SeenSorted'
  BY <1>1, <1>2 DEF CurriculumInv, SeenSorted
<1>11. PositionsAreUnique'
  BY <1>1 DEF CurriculumInv, PositionsAreUnique, Exists
<1>12. KeysApart'
  <2>1. ASSUME NEW i \in mine, NEW j \in Items \ {i}
        PROVE  /\ rows[j] # rows[i]
               /\ item[j] = rows[i] => i \in suspects
               /\ \A d \in Calls \ {c} : call[d].write[j] = rows[i] => i \in suspects
    BY <2>1 DEF Writes, Taken
  <2>2. ASSUME NEW e \in Calls, NEW i \in Written(e)', NEW j \in Items \ {i}
        PROVE  /\ call'[e].write[j] # call'[e].write[i]
               /\ item'[j] = call'[e].write[i] => j \in Written(e)' \/ i \in call'[e].suspect
               /\ \A d \in Calls \ {e} : call'[d].write[j] = call'[e].write[i] =>
                    i \in call'[e].suspect \/ j \in call'[d].suspect
    <3>1. CASE e = c
      <4> HIDE DEF suspects, mine
      <4>1. i \in mine
        BY <1>3, <3>1
      <4>2. QED
        BY <1>1, <1>2, <2>1, <3>1, <4>1
    <3>2. CASE e # c
      <4>1. /\ i \in Written(e) /\ call'[e] = call[e] /\ Written(e)' = Written(e)
            /\ call[e].write[i] # Absent /\ i \in Items
        BY <1>2, <1>3, <3>2 DEF Written
      <4>2. /\ call[e].write[j] # call[e].write[i]
            /\ item[j] = call[e].write[i] => j \in Written(e) \/ i \in call[e].suspect
            /\ \A d \in Calls \ {e} : call[d].write[j] = call[e].write[i] =>
                    i \in call[e].suspect \/ j \in call[d].suspect
        BY <4>1 DEF CurriculumInv, KeysApart
      <4>3. rows[j] = call[e].write[i] => j \in suspects
        <5>1. SUFFICES ASSUME rows[j] = call[e].write[i] PROVE j \in suspects
          OBVIOUS
        <5>2. j \in mine /\ i \in Items \ {j} /\ call[e].write[i] = rows[j]
          BY <4>1, <5>1
        <5>3. QED
          BY <2>1, <3>2, <5>2
      <4> HIDE DEF suspects, mine
      <4>4. QED
        BY <1>1, <1>2, <4>1, <4>2, <4>3
    <3>3. QED
      BY <3>1, <3>2
  <2>3. QED
    BY <2>2 DEF KeysApart
<1>13. QED
  BY <1>4, <1>5, <1>6, <1>7, <1>8, <1>9, <1>10, <1>11, <1>12 DEF CurriculumInv

LEMMA LockRowKeeps ==
    ASSUME CurriculumInv, NEW c \in Calls, LockRow(c)
    PROVE  CurriculumInv'
<1> DEFINE n == call[c].locked + 1
           i == call[c].seen[n]
<1>1. /\ UNCHANGED item /\ call[c].at = "locking" /\ RowFree(c, i)
      /\ call' = [call EXCEPT ![c].locked = n, ![c].named = @ \cup StillThere(c, i)]
      /\ call[c].locked < Len(call[c].seen)
  BY DEF LockRow, Locking, NextToLock
<1>2. /\ call[c].seen \in Seq(Items) /\ call[c].locked \in Nat /\ n \in 1..Len(call[c].seen)
      /\ i \in Items
  BY <1>1 DEF CurriculumInv, CurriculumTypeOK, Request
<1>3. /\ call' \in [Calls -> Request]
      /\ \A d \in Calls \ {c} : call'[d] = call[d]
      /\ call'[c].locked = n /\ call'[c].named = call[c].named \cup StillThere(c, i)
      /\ call'[c].at = "locking" /\ call'[c].seen = call[c].seen
      /\ call'[c].write = call[c].write /\ call'[c].suspect = call[c].suspect
      /\ call'[c].parent = call[c].parent /\ call'[c].changed = call[c].changed
  <2>1. call \in [Calls -> Request] /\ StillThere(c, i) \in SUBSET Items
    BY <1>2 DEF CurriculumInv, CurriculumTypeOK, StillThere
  <2>2. /\ call[c] \in Request /\ n \in Nat
        /\ call[c].named \cup StillThere(c, i) \in SUBSET Items
    BY <1>2, <2>1 DEF Request
  <2>3. call' = [call EXCEPT ![c] =
           [call[c] EXCEPT !.locked = n, !.named = call[c].named \cup StillThere(c, i)]]
    BY <1>1, <2>1
  <2> HIDE DEF n, i
  <2>4. [call[c] EXCEPT !.locked = n, !.named = call[c].named \cup StillThere(c, i)] \in Request
    BY <2>2 DEF Request
  <2>5. QED
    BY <1>1, <2>1, <2>2, <2>3, <2>4 DEF Request
<1>4. /\ \A d \in Calls : Written(d)' = Written(d)
      /\ Held(c)' = Held(c) \cup {i}
      /\ \A d \in Calls \ {c} : Held(d)' = Held(d)
  <2>1. 1..n = (1..call[c].locked) \cup {n}
    BY <1>2
  <2>2. \A d \in Calls : Written(d)' = Written(d)
    BY <1>3 DEF Written
  <2>3. {call'[c].seen[m] : m \in 1..call'[c].locked} =
           {call[c].seen[m] : m \in 1..call[c].locked} \cup {i}
    BY <1>3, <2>1
  <2>4. QED
    BY <1>3, <2>2, <2>3 DEF Held
<1>5. \A m \in 1..n : m # n => m \in 1..call[c].locked
  BY <1>2
<1>6. CurriculumTypeOK'
  BY <1>1, <1>2, <1>3, <1>5 DEF CurriculumInv, CurriculumTypeOK, StillThere
<1>7. RowsAreOfTheirKind' /\ ParentsExist' /\ PositionsAreUnique' /\ KeysApart'
  BY <1>1, <1>3, <1>4 DEF CurriculumInv, RowsAreOfTheirKind, ParentsExist, PositionsAreUnique,
     KeysApart, Exists
<1>8. PhaseInv'
  BY <1>1, <1>3, <1>4 DEF CurriculumInv, PhaseInv
<1>9. HeldApart'
  BY <1>1, <1>4 DEF CurriculumInv, HeldApart, RowFree
<1>10. ReorderInv'
  <2>1. \A m \in 1..n : call[c].seen[m] = i => m = n
    BY <1>2 DEF CurriculumInv, CurriculumTypeOK, IsInjective
  <2>2. \A m \in 1..n : call[c].seen[m] \in call'[c].named
                            <=> item[call[c].seen[m]].parent = call[c].parent
    <3>1. SUFFICES ASSUME NEW m \in 1..n
                   PROVE  call[c].seen[m] \in call'[c].named
                            <=> item[call[c].seen[m]].parent = call[c].parent
      OBVIOUS
    <3>2. CASE m # n
      BY <1>3, <1>5, <2>1, <3>2 DEF CurriculumInv, ReorderInv, StillThere
    <3>3. CASE m = n
      <4>1. i \notin call[c].named
        <5>1. \A k \in 1..call[c].locked : k \in 1..n /\ k # n
          BY <1>2
        <5>2. call[c].named \subseteq {call[c].seen[k] : k \in 1..call[c].locked}
          BY DEF CurriculumInv, CurriculumTypeOK
        <5>3. QED
          BY <2>1, <5>1, <5>2
      <4>2. QED
        BY <1>2, <1>3, <3>3, <4>1 DEF StillThere, Children
    <3>4. QED
      BY <3>2, <3>3
  <2> HIDE DEF n, i
  <2>3. QED
    BY <1>1, <1>3, <1>4, <2>2 DEF CurriculumInv, ReorderInv, Exists
<1>11. SeenSorted'
  BY <1>1, <1>3 DEF CurriculumInv, SeenSorted
<1>12. QED
  BY <1>6, <1>7, <1>8, <1>9, <1>10, <1>11 DEF CurriculumInv

LEMMA CommitKeeps ==
    ASSUME CurriculumInv, NEW c \in Calls, Commit(c)
    PROVE  CurriculumInv'
<1> DEFINE moved(d) == \E i \in Range(call[d].seen) : item'[i] # item[i]
           W == Written(c)
<1>1. /\ call[c].at = "written" /\ item' = Overlay(c)
      /\ \A i \in call[c].suspect : ~Disputed(c, i) /\ ~Collides(c, i)
      /\ call' = [d \in Calls |-> IF d = c THEN Waiting
                    ELSE [call[d] EXCEPT !.changed = call[d].changed \/ moved(d)]]
  BY DEF Commit, CurriculumInv, CurriculumTypeOK, Request
<1>2. /\ \A i \in Items : item'[i] = IF i \in W THEN call[c].write[i] ELSE item[i]
      /\ item' = [i \in Items |-> item'[i]]
      /\ \A i \in W : i \in Items /\ call[c].write[i] # Absent
      /\ \A i \in Items \ W : call[c].write[i] = Absent
  BY <1>1 DEF Overlay, Written
<1>3. \A i \in Items : Exists(i) => Exists(i)'
  BY <1>2 DEF Exists
<1>4. call'[c] = Waiting /\ call'[c] \in Request
  BY <1>1, WaitingRestarts
<1>5. ASSUME NEW d \in Calls \ {c}
      PROVE  /\ call'[d] \in Request
             /\ call'[d].at = call[d].at /\ call'[d].item = call[d].item
             /\ call'[d].loaded = call[d].loaded /\ call'[d].parent = call[d].parent
             /\ call'[d].seen = call[d].seen /\ call'[d].locked = call[d].locked
             /\ call'[d].named = call[d].named /\ call'[d].write = call[d].write
             /\ call'[d].suspect = call[d].suspect
             /\ call'[d].changed = (call[d].changed \/ moved(d))
  <2>1. call[d] \in Request
    BY DEF CurriculumInv, CurriculumTypeOK
  <2>2. call[d].changed \/ moved(d) \in BOOLEAN
    OBVIOUS
  <2>3. call'[d] = [call[d] EXCEPT !.changed = call[d].changed \/ moved(d)]
    BY <1>1
  <2> HIDE DEF moved
  <2>4. QED
    BY <2>1, <2>2, <2>3 DEF Request
<1> HIDE DEF moved
<1>6. /\ Written(c)' = {} /\ Held(c)' = {}
      /\ \A d \in Calls \ {c} : Written(d)' = Written(d) /\ Held(d)' = Held(d)
  BY <1>4, <1>5, WaitingRestarts DEF Written, Held, Unwritten
<1>7. CurriculumTypeOK'
  <2>1. /\ item' \in [Items -> Row \cup {Absent}]
        /\ \A i \in Items : item'[i] \in KindOf(i) \cup {Absent}
    BY <1>2, ItemFacts, RowFacts DEF CurriculumInv, RowsAreOfTheirKind
  <2>2. call' \in [Calls -> Request]
    <3>1. \A d \in Calls : call'[d] \in Request
      BY <1>4, <1>5
    <3>2. call' = [d \in Calls |-> call'[d]]
      BY <1>1
    <3>3. QED
      BY <3>1, <3>2
  <2>3. \A d \in Calls :
          /\ IsInjective(call'[d].seen) /\ call'[d].locked <= Len(call'[d].seen)
          /\ call'[d].named \subseteq {call'[d].seen[n] : n \in 1..call'[d].locked}
    BY <1>4, <1>5, WaitingRestarts DEF CurriculumInv, CurriculumTypeOK
  <2>4. QED
    BY <2>1, <2>2, <2>3, RowFacts DEF CurriculumTypeOK
<1>8. RowsAreOfTheirKind'
  BY <1>4, <1>5, WaitingRestarts DEF CurriculumInv, RowsAreOfTheirKind, Unwritten
<1>9. ParentsExist'
  <2>1. \A l \in Lessons : Exists(l)' => Exists(item'[l].parent)
    BY <1>2, RowFacts DEF CurriculumInv, ParentsExist, Exists
  <2>2. ASSUME NEW l \in Lessons, item'[l] # Absent
        PROVE  item'[item'[l].parent] # Absent
    <3>1. item'[l].parent \in Items /\ Exists(item'[l].parent)
      <4>1. item'[l] \in Lesson
        BY <1>7, <2>2 DEF CurriculumTypeOK
      <4>2. QED
        BY <2>1, <2>2, <4>1, RowFacts DEF Exists
    <3>2. QED
      BY <1>3, <3>1 DEF Exists
  <2>3. ASSUME NEW l \in Lessons, NEW d \in Calls, call'[d].write[l] # Absent
        PROVE  item'[call'[d].write[l].parent] # Absent
    <3>1. d # c /\ call[d].write[l] = call'[d].write[l]
      BY <1>4, <1>5, <2>3, WaitingRestarts, RowFacts DEF Unwritten
    <3>2. call[d].write[l] \in Lesson /\ Exists(call[d].write[l].parent)
      BY <2>3, <3>1, RowFacts DEF CurriculumInv, ParentsExist, RowsAreOfTheirKind
    <3>3. call[d].write[l].parent \in Items
      BY <3>2, RowFacts
    <3>4. QED
      BY <1>3, <3>1, <3>2, <3>3 DEF Exists
  <2>4. QED
    BY <2>2, <2>3 DEF ParentsExist, Exists
<1>10. PhaseInv'
  BY <1>4, <1>5, <1>6, WaitingRestarts DEF CurriculumInv, PhaseInv
<1>11. HeldApart'
  BY <1>6 DEF CurriculumInv, HeldApart
<1>12. ReorderInv'
  <2>1. ASSUME NEW d \in Calls \ {c}, NEW n \in 1..call[d].locked
        PROVE  item'[call[d].seen[n]] = item[call[d].seen[n]]
    <3>1. call[d].seen[n] \in Held(d) /\ call[d].seen[n] \in Items
      BY DEF Held, CurriculumInv, CurriculumTypeOK, Request
    <3>2. call[d].seen[n] \notin W
      BY <3>1 DEF CurriculumInv, HeldApart, Held
    <3>3. QED
      BY <1>2, <3>1, <3>2
  <2>2. ASSUME NEW d \in Calls \ {c}, NEW n \in 1..Len(call[d].seen)
        PROVE  item'[call[d].seen[n]] # Absent
    <3>1. call[d].seen[n] \in Items /\ Exists(call[d].seen[n])
      BY DEF CurriculumInv, CurriculumTypeOK, Request, ReorderInv
    <3>2. QED
      BY <1>3, <3>1 DEF Exists
  <2>3. QED
    BY <1>4, <1>5, <1>6, <2>1, <2>2, WaitingRestarts DEF CurriculumInv, ReorderInv, Exists
<1>13. SeenSorted'
  <2>1. ASSUME NEW d \in Calls, ~call'[d].changed, NEW m \in 1..Len(call'[d].seen),
               NEW n \in 1..Len(call'[d].seen), m < n
        PROVE  item'[call'[d].seen[m]].position < item'[call'[d].seen[n]].position
    <3>1. CASE d = c
      BY <1>4, <2>1, <3>1, WaitingRestarts
    <3>2. CASE d # c
      <4>1. ~call[d].changed /\ ~moved(d) /\ call'[d].seen = call[d].seen
        BY <1>5, <2>1, <3>2
      <4>2. call[d].seen \in Seq(Items)
        BY DEF CurriculumInv, CurriculumTypeOK, Request
      <4>3. \A k \in 1..Len(call[d].seen) : item'[call[d].seen[k]] = item[call[d].seen[k]]
        BY <4>1, <4>2 DEF moved, Range
      <4>4. QED
        BY <2>1, <4>1, <4>3 DEF CurriculumInv, SeenSorted
    <3>3. QED
      BY <3>1, <3>2
  <2>2. QED
    BY <2>1 DEF SeenSorted
<1>14. PositionsAreUnique'
  <2>1. ASSUME NEW i \in W, NEW j \in Items \ {i}
        PROVE  item'[j] # call[c].write[i]
    <3>1. CASE j \in W
      BY <1>2, <2>1, <3>1 DEF CurriculumInv, KeysApart
    <3>2. CASE j \notin W /\ i \in call[c].suspect
      BY <1>1, <1>2, <2>1, <3>2 DEF Collides
    <3>3. CASE j \notin W /\ i \notin call[c].suspect
      BY <1>2, <2>1, <3>3 DEF CurriculumInv, KeysApart
    <3>4. QED
      BY <3>1, <3>2, <3>3
  <2>2. ASSUME NEW i \in Items, NEW j \in Items \ {i}, item'[i] # Absent
        PROVE  item'[i] # item'[j]
    <3>1. CASE i \in W
      BY <1>2, <2>1, <2>2, <3>1
    <3>2. CASE j \in W
      BY <1>2, <2>1, <2>2, <3>2
    <3>3. CASE i \notin W /\ j \notin W
      BY <1>2, <2>2, <3>3 DEF CurriculumInv, PositionsAreUnique, Exists
    <3>4. QED
      BY <3>1, <3>2, <3>3
  <2>3. QED
    BY <2>2 DEF PositionsAreUnique, Exists
<1>15. KeysApart'
  <2>1. ASSUME NEW d \in Calls, NEW i \in Written(d)', NEW j \in Items \ {i}
        PROVE  /\ call'[d].write[j] # call'[d].write[i]
               /\ item'[j] = call'[d].write[i] => j \in Written(d)' \/ i \in call'[d].suspect
               /\ \A e \in Calls \ {d} : call'[e].write[j] = call'[d].write[i] =>
                    i \in call'[d].suspect \/ j \in call'[e].suspect
    <3>1. /\ d # c /\ i \in Written(d) /\ i \in Items /\ call[d].write[i] # Absent
          /\ call'[d].write = call[d].write /\ call'[d].suspect = call[d].suspect
      BY <1>5, <1>6, <2>1 DEF Written
    <3>2. /\ call[d].write[j] # call[d].write[i]
          /\ item[j] = call[d].write[i] => j \in Written(d) \/ i \in call[d].suspect
          /\ \A e \in Calls \ {d} : call[e].write[j] = call[d].write[i] =>
                    i \in call[d].suspect \/ j \in call[e].suspect
      BY <3>1 DEF CurriculumInv, KeysApart
    <3>3. ASSUME j \in W, call[c].write[j] = call[d].write[i]
          PROVE  i \in call[d].suspect
      <4>1. CASE j \in call[c].suspect
        <5>1. Disputed(c, j)
          BY <3>1, <3>3 DEF Disputed
        <5>2. QED
          BY <1>1, <4>1, <5>1
      <4>2. CASE j \notin call[c].suspect
        BY <3>1, <3>2, <3>3, <4>2
      <4>3. QED
        BY <4>1, <4>2
    <3>4. item'[j] = call[d].write[i] => j \in Written(d) \/ i \in call[d].suspect
      BY <1>2, <3>2, <3>3
    <3>5. \A e \in Calls \ {d} : call'[e].write[j] = call'[d].write[i] =>
                    i \in call'[d].suspect \/ j \in call'[e].suspect
      BY <1>4, <1>5, <3>1, <3>2, WaitingRestarts DEF Unwritten
    <3>6. QED
      BY <1>6, <3>1, <3>2, <3>4, <3>5
  <2>2. QED
    BY <2>1 DEF KeysApart
<1>16. QED
  BY <1>7, <1>8, <1>9, <1>10, <1>11, <1>12, <1>13, <1>14, <1>15 DEF CurriculumInv

LEMMA CurriculumStarts == ASSUME CurriculumInit PROVE CurriculumInv
<1>1. /\ \A i \in Items : item[i] = Absent
      /\ item = [i \in Items |-> Absent] /\ call \in [Calls -> Request]
      /\ \A c \in Calls : call[c] = Waiting /\ Written(c) = {} /\ Held(c) = {}
  BY WaitingRestarts DEF CurriculumInit, Written, Held, Unwritten
<1>2. CurriculumTypeOK
  BY <1>1, WaitingRestarts, RowFacts DEF CurriculumTypeOK
<1>3. RowsAreOfTheirKind /\ PhaseInv
  BY <1>1, WaitingRestarts DEF RowsAreOfTheirKind, PhaseInv, Unwritten
<1>4. ParentsExist /\ PositionsAreUnique
  BY <1>1, WaitingRestarts, RowFacts DEF ParentsExist, PositionsAreUnique, Exists, Unwritten
<1>5. HeldApart /\ ReorderInv /\ SeenSorted /\ KeysApart
  BY <1>1, WaitingRestarts DEF HeldApart, ReorderInv, SeenSorted, KeysApart
<1>6. QED
  BY <1>2, <1>3, <1>4, <1>5 DEF CurriculumInv

LEMMA CurriculumSteps ==
    ASSUME CurriculumInv, [CurriculumNext]_curriculum
    PROVE  CurriculumInv'
<1>1. \/ \E c \in Calls : \/ \E r : Restarts(c, r)
                          \/ \E rows : Writes(c, rows)
                          \/ LockRow(c) \/ Commit(c)
      \/ UNCHANGED curriculum
  BY KindsOfStep DEF CurriculumInv
<1>2. ASSUME UNCHANGED curriculum
      PROVE  CurriculumInv'
  BY <1>2 DEF curriculum, CurriculumInv, CurriculumTypeOK, RowsAreOfTheirKind, ParentsExist,
     PhaseInv, HeldApart, ReorderInv, SeenSorted, PositionsAreUnique, KeysApart, Exists, Held,
     Written
<1>3. QED
  BY <1>1, <1>2, RestartsKeep, WritesKeep, LockRowKeeps, CommitKeeps

(* At every moment of every interleaving: rows of their kind in parents    *)
(* that exist, no row held twice, no key taken twice without a suspect.    *)
THEOREM CurriculumInvariant == CurriculumSpec => []CurriculumInv
BY CurriculumStarts, CurriculumSteps, PTL DEF CurriculumSpec

-----------------------------------------------------------------------------
(* What follows from it.                                                   *)

(* Of the lessons left, those in the first section, and of these the first. *)
LEMMA TotalOrder ==
    ASSUME CurriculumTypeOK, ParentsExist, PositionsAreUnique
    PROVE  OneNextLesson
<1> DEFINE place(l) == item[item[l].parent].position
<1>1. ASSUME NEW l \in Lessons, Exists(l)
      PROVE  /\ place(l) \in Nat /\ item[l].position \in Nat
             /\ item[l] \in Lesson /\ item[l].parent \in Sections
             /\ item[item[l].parent] \in Section
  <2>1. item[l] \in Lesson /\ item[l].parent \in Sections /\ item[l].position \in Nat
    BY <1>1, ItemFacts, RowFacts
  <2>2. item[item[l].parent] \in Section
    BY <1>1, <2>1, ItemFacts, RowFacts DEF ParentsExist
  <2>3. place(l) \in Nat
    BY <2>2, RowFacts DEF Row
  <2>4. QED
    BY <2>1, <2>2, <2>3
<1>2. ASSUME NEW l \in Lessons, NEW m \in Lessons, Exists(l), Exists(m),
             place(l) = place(m), item[l].position = item[m].position
      PROVE  l = m
  <2>1. item[item[l].parent] = item[item[m].parent]
    BY <1>1, <1>2 DEF Section
  <2>2. item[l].parent = item[m].parent
    BY <1>1, <1>2, <2>1, RowFacts DEF PositionsAreUnique, ParentsExist
  <2>3. item[l] = item[m]
    BY <1>1, <1>2, <2>2 DEF Lesson
  <2>4. QED
    BY <1>2, <2>3, RowFacts DEF PositionsAreUnique
<1>3. ASSUME NEW left \in SUBSET {l \in Lessons : Exists(l)}, left # {}
      PROVE  Cardinality(NextLesson(left)) = 1
  <2>1. \A l \in left : /\ l \in Lessons /\ Exists(l)
                        /\ place(l) \in Nat /\ item[l].position \in Nat
    BY <1>1, <1>3
  <2>2. PICK f \in left : \A l \in left : place(f) <= place(l)
    <3>1. {place(l) : l \in left} \in SUBSET Nat /\ {place(l) : l \in left} # {}
      BY <1>3, <2>1
    <3>2. \E p \in {place(l) : l \in left} : \A q \in {place(l) : l \in left} : p <= q
      BY <3>1, LeastNatural
    <3>3. QED
      BY <3>2
  <2> DEFINE tied == {l \in left : place(l) = place(f)}
  <2>3. PICK g \in tied : \A l \in tied : item[g].position <= item[l].position
    <3>1. {item[l].position : l \in tied} \in SUBSET Nat /\ {item[l].position : l \in tied} # {}
      BY <2>1
    <3>2. \E p \in {item[l].position : l \in tied} :
             \A q \in {item[l].position : l \in tied} : p <= q
      BY <3>1, LeastNatural
    <3>3. QED
      BY <3>2
  <2>4. ASSUME NEW l \in left \ {g}
        PROVE  Before(g, l) /\ ~Before(l, g)
    <3>1. CASE place(l) = place(f)
      <4>1. item[g].position <= item[l].position /\ item[g].position # item[l].position
        BY <1>2, <2>1, <2>3, <3>1
      <4>2. QED
        BY <2>1, <2>3, <3>1, <4>1 DEF Before
    <3>2. CASE place(l) # place(f)
      BY <2>1, <2>2, <2>3, <3>2 DEF Before
    <3>3. QED
      BY <3>1, <3>2
  <2>5. NextLesson(left) = {g}
    BY <2>3, <2>4 DEF NextLesson
  <2>6. QED
    BY <2>5, FS_Singleton
<1>4. QED
  BY <1>3 DEF OneNextLesson

(* Every lesson of a course has one place, at every commit: no two rows of *)
(* a parent share a position, though nobody checks before the commit, and  *)
(* of any lessons left one comes first (models.py:233 and 307,             *)
(* selectors.py:45).                                                       *)
THEOREM CurriculumOrderIsTotal == CurriculumSpec => []OrderIsTotal
<1>1. CurriculumInv => OrderIsTotal
  BY TotalOrder DEF CurriculumInv, OrderIsTotal
<1>2. QED
  BY <1>1, CurriculumInvariant, PTL

LEMMA OrderedLocks ==
    ASSUME CurriculumInv
    PROVE  ReordersQueue
<1>1. SUFFICES ASSUME NEW c \in Calls, NEW d \in Calls, Waits(c, d), Waits(d, c),
                      ~call[c].changed, ~call[d].changed
               PROVE  FALSE
  BY DEF ReordersQueue, CurriculumInv, CurriculumTypeOK, Request
<1>2. ASSUME NEW b \in Calls, NEW e \in Calls, Waits(b, e), call[e].at = "locking"
      PROVE  /\ call[b].locked + 1 \in 1..Len(call[b].seen)
             /\ \E n \in 1..call[e].locked :
                   call[e].seen[n] = call[b].seen[call[b].locked + 1]
             /\ call[b].locked \in Nat /\ call[b].locked <= Len(call[b].seen)
             /\ Len(call[b].seen) \in Nat
  <2>1. /\ call[b].locked \in Nat /\ call[b].locked < Len(call[b].seen)
        /\ Len(call[b].seen) \in Nat
    BY <1>2 DEF Waits, Locking, CurriculumInv, CurriculumTypeOK, Request
  <2>2. Written(e) = {}
    BY <1>2 DEF CurriculumInv, PhaseInv, Written, Unwritten
  <2>3. QED
    BY <1>2, <2>1, <2>2 DEF Waits, NextToLock, Held
<1>3. call[c].at = "locking" /\ call[d].at = "locking"
  BY <1>1 DEF Waits, Locking
<1>4. PICK n \in 1..call[d].locked : call[d].seen[n] = call[c].seen[call[c].locked + 1]
  BY <1>1, <1>2, <1>3
<1>5. PICK m \in 1..call[c].locked : call[c].seen[m] = call[d].seen[call[d].locked + 1]
  BY <1>1, <1>2, <1>3
<1>6. /\ call[c].locked + 1 \in 1..Len(call[c].seen) /\ m < call[c].locked + 1
      /\ m \in 1..Len(call[c].seen)
      /\ call[d].locked + 1 \in 1..Len(call[d].seen) /\ n < call[d].locked + 1
      /\ n \in 1..Len(call[d].seen)
  BY <1>1, <1>2, <1>3
<1> DEFINE x == call[c].seen[call[c].locked + 1]
           y == call[d].seen[call[d].locked + 1]
<1>7. item[y].position < item[x].position /\ item[x].position < item[y].position
  BY <1>1, <1>4, <1>5, <1>6 DEF CurriculumInv, SeenSorted
<1>8. item[x].position \in Nat /\ item[y].position \in Nat
  <2>1. x \in Items /\ y \in Items /\ Exists(x) /\ Exists(y)
    BY <1>6 DEF CurriculumInv, CurriculumTypeOK, Request, ReorderInv
  <2>2. QED
    BY <2>1, ItemFacts, RowFacts DEF CurriculumInv
<1> HIDE DEF x, y
<1>9. QED
  BY <1>7, <1>8

(* Reorders queue behind each other as long as no edit moves their rows    *)
(* meanwhile: each locks in the order of positions it found, so that two   *)
(* cannot hold what the other wants (_apply_order).                        *)
THEOREM UndisturbedReordersQueue == CurriculumSpec => []ReordersQueue
BY OrderedLocks, CurriculumInvariant, PTL

(* A reorder numbers what it found and nothing else: it moves no row to    *)
(* another parent, touches no row of another one, and leaves none of its   *)
(* own out, whatever is moved away while it locks (_apply_order).          *)
THEOREM ReordersAreWhole == CurriculumSpec => ReorderIsWhole
<1>1. ASSUME CurriculumInv, NEW c \in Calls, Commit(c), call[c].seen # <<>>
      PROVE  /\ \A i \in Items : /\ item'[i].parent = item[i].parent
                                 /\ item[i].parent # call[c].parent => item'[i] = item[i]
             /\ \A i \in Range(call[c].seen) :
                   item'[i].parent = call[c].parent => i \in call[c].named
  <2>1. /\ call[c].at = "written" /\ call[c].seen \in Seq(Items)
        /\ \A i \in Items : item'[i] = IF i \in Written(c) THEN call[c].write[i] ELSE item[i]
    BY <1>1 DEF Commit, Overlay, CurriculumInv, CurriculumTypeOK, Request
  <2>2. /\ call[c].locked = Len(call[c].seen) /\ Written(c) \subseteq call[c].named
        /\ \A i \in Written(c) : i \in Items /\ call[c].write[i].parent = call[c].parent
    BY <1>1, <2>1 DEF CurriculumInv, PhaseInv, ReorderInv, Written
  <2>3. \A i \in call[c].named : item[i].parent = call[c].parent
    BY <1>1 DEF CurriculumInv, CurriculumTypeOK, ReorderInv
  <2>4. \A i \in Items : /\ item'[i].parent = item[i].parent
                         /\ item[i].parent # call[c].parent => item'[i] = item[i]
    BY <2>1, <2>2, <2>3
  <2>5. ASSUME NEW i \in Range(call[c].seen), item'[i].parent = call[c].parent
        PROVE  i \in call[c].named
    <3>1. PICK n \in 1..Len(call[c].seen) : i = call[c].seen[n]
      BY <2>1 DEF Range
    <3>2. i \in Items
      BY <2>1, <3>1
    <3>3. item[i].parent = call[c].parent
      BY <2>4, <2>5, <3>2
    <3>4. QED
      BY <1>1, <2>2, <3>1, <3>3 DEF CurriculumInv, ReorderInv
  <2>6. QED
    BY <2>4, <2>5
<1>2. CurriculumInv /\ [CurriculumNext]_curriculum =>
        [\A c \in Calls : Commit(c) /\ call[c].seen # <<>> =>
           \A i \in Items :
              /\ item'[i].parent = item[i].parent
              /\ item[i].parent # call[c].parent => item'[i] = item[i]]_curriculum
  BY <1>1
<1>3. CurriculumInv /\ [CurriculumNext]_curriculum =>
        [\A c \in Calls : Commit(c) /\ call[c].seen # <<>> =>
           \A i \in Range(call[c].seen) :
              item'[i].parent = call[c].parent => i \in call[c].named]_curriculum
  BY <1>1
<1>4. CurriculumSpec => [][CurriculumNext]_curriculum
  BY PTL DEF CurriculumSpec
<1>5. QED
  BY <1>2, <1>3, <1>4, CurriculumInvariant, PTL
     DEF ReorderIsWhole, ReorderStaysInside, ReorderCoversWhatItFound

(***************************************************************************)
(* The release step.                                                       *)
(***************************************************************************)

(* Whoever is past its attempt at the lock. *)
PastTheLock == {d \in Deploys : deploy[d].at \notin {"waiting", "connected", "locking"}}

(* Each deploy takes the lock once, whichever backend gets it. *)
TakenOnceEach == lock = Free \/ lock.times <= Cardinality(PastTheLock)

(* Between the two halves of a migration it is still on the plan. *)
HalfwayOnPlan == \A d \in Deploys : At(d, "halfway") => deploy[d].plan # {}

(* Over direct connections the lock and whoever is between its lock and    *)
(* its unlock are each other's, and the lock is held once.                 *)
LockAndHolder ==
    pooled \/ /\ lock = Free \/ (lock.times = 1 /\ deploy[lock.by].at \in Holding)
              /\ \A d \in Deploys : deploy[d].at \in Holding => lock.by = d

(* PlanIsFresh, halfway through a migration too. *)
PlanAhead ==
    pooled \/ \A d \in Deploys :
        deploy[d].at \in {"migrating", "halfway"} => deploy[d].plan \cap applied = {}

(* What a deploy has left is on its plan, and nothing is once it unlocks   *)
(* without a failure.                                                      *)
RestIsApplied ==
    \A d \in Deploys :
       /\ deploy[d].at \in {"migrating", "halfway"}
            => (1..release[d]) \ deploy[d].plan \subseteq applied
       /\ At(d, "unlocking") /\ ~deploy[d].failed => 1..release[d] \subseteq applied
       /\ At(d, "done") => 1..release[d] \subseteq applied

RolloutInv ==
    /\ RolloutTypeOK /\ TakenOnceEach /\ HalfwayOnPlan
    /\ LockAndHolder /\ PlanAhead /\ RestIsApplied

-----------------------------------------------------------------------------
(* Helpers. *)

(* The next migration is one of the plan. *)
LEMMA FirstOfPlan ==
    ASSUME RolloutTypeOK, NEW d \in Deploys, deploy[d].plan # {}
    PROVE  FirstOf(d) \in deploy[d].plan /\ FirstOf(d) \in Migrations
<1>1. deploy[d].plan \subseteq Migrations /\ Migrations \subseteq Nat
  BY DeploymentAssumption DEF RolloutTypeOK, Migrations
<1>2. \E m \in deploy[d].plan : \A n \in deploy[d].plan : m <= n
  BY <1>1, LeastNatural
<1>3. QED
  BY <1>1, <1>2 DEF FirstOf

(* What a deploy does leaves the others and what they bring alone. *)
LEMMA OthersWait ==
    ASSUME RolloutTypeOK, NEW d \in Deploys, Handle(d) \/ Kill(d)
    PROVE  /\ UNCHANGED <<pooled, release, up>>
           /\ DOMAIN deploy' = Deploys
           /\ \A e \in Deploys \ {d} : deploy'[e] = deploy[e]
BY DEF RolloutTypeOK, Handle, Kill, WaitForDatabase, ReadPending, TryLock, GiveUpLock,
       RequireARealSession, StartMigrate, Migrate, StartNonAtomic, FinishNonAtomic,
       MigrateFails, Migrated, Unlock, Applied, Goto, Exit

-----------------------------------------------------------------------------
(* Types. *)

LEMMA LockCounts ==
    ASSUME RolloutTypeOK
    PROVE  /\ Cardinality(Deploys) \in Nat
           /\ IsFiniteSet(PastTheLock) /\ Cardinality(PastTheLock) \in Nat
           /\ Cardinality(PastTheLock) <= Cardinality(Deploys)
           /\ lock = Free \/ (lock.by \in Deploys /\ lock.times \in Nat \ {0})
<1>1. IsFiniteSet(Deploys) /\ PastTheLock \in SUBSET Deploys
  BY DeploymentAssumption DEF PastTheLock
<1>2. QED
  BY <1>1, FS_Subset, FS_CardinalityType DEF RolloutTypeOK

(* No deploy goes back behind its attempt at the lock. *)
LEMMA PastGrows ==
    ASSUME RolloutTypeOK, NEW d \in Deploys, Handle(d) \/ Kill(d)
    PROVE  PastTheLock \subseteq PastTheLock'
<1>1. deploy[d].at \notin {"waiting", "connected", "locking"}
        => deploy'[d].at \notin {"waiting", "connected", "locking"}
  BY DEF RolloutTypeOK, Handle, Kill, WaitForDatabase, ReadPending, TryLock, GiveUpLock,
         RequireARealSession, StartMigrate, Migrate, StartNonAtomic, FinishNonAtomic,
         MigrateFails, Migrated, Unlock, Applied, Goto, Exit, At, Outcome
<1>2. QED
  BY <1>1, OthersWait DEF PastTheLock

(* The lock itself, as RolloutTypeOK and TakenOnceEach have it. *)
LockTyped ==
    lock = Free \/ (/\ lock \in [by : Deploys, times : Nat \ {0}]
                    /\ lock.times <= Cardinality(PastTheLock))

LEMMA LockTypedIs ==
    ASSUME LockTyped'
    PROVE  /\ TakenOnceEach'
           /\ lock' \in {Free} \cup [by : Deploys, times : 1..Cardinality(Deploys)]
<1>1. IsFiniteSet(Deploys) /\ PastTheLock' \in SUBSET Deploys
  BY DeploymentAssumption DEF PastTheLock
<1>2. /\ Cardinality(Deploys) \in Nat /\ Cardinality(PastTheLock') \in Nat
      /\ Cardinality(PastTheLock') <= Cardinality(Deploys)
  BY <1>1, FS_Subset, FS_CardinalityType
<1>3. QED
  BY <1>2 DEF LockTyped, TakenOnceEach

LEMMA LockSteps ==
    ASSUME RolloutTypeOK, TakenOnceEach, NEW d \in Deploys, Handle(d) \/ Kill(d)
    PROVE  LockTyped'
<1>1. LockTyped
  BY LockCounts DEF LockTyped, TakenOnceEach, RolloutTypeOK
<1>2. /\ IsFiniteSet(PastTheLock) /\ IsFiniteSet(PastTheLock')
      /\ Cardinality(PastTheLock) \in Nat /\ Cardinality(PastTheLock') \in Nat
      /\ Cardinality(PastTheLock) <= Cardinality(PastTheLock')
  <2>1. IsFiniteSet(Deploys) /\ PastTheLock' \in SUBSET Deploys
    BY DeploymentAssumption DEF PastTheLock
  <2>2. IsFiniteSet(PastTheLock')
    BY <2>1, FS_Subset
  <2>3. QED
    BY <2>2, PastGrows, LockCounts, FS_Subset, FS_CardinalityType
<1>3. CASE TryLock(d)
  <2>1. PICK b \in Backends(d) : Grants(b) /\ lock' = [by |-> b, times |-> lock.times + 1]
    BY <1>3 DEF TryLock
  <2>2. b \in Deploys
    BY DEF Backends
  <2>3. lock.times \in Nat /\ (lock = Free => lock.times = 0)
    BY <1>1 DEF LockTyped, Free
  <2>4. d \notin PastTheLock /\ d \in PastTheLock'
    BY <1>3 DEF TryLock, PastTheLock, Goto, At, RolloutTypeOK
  <2>5. PastTheLock \cup {d} \in SUBSET PastTheLock'
    BY <2>4, PastGrows
  <2>6. Cardinality(PastTheLock) + 1 <= Cardinality(PastTheLock')
    BY <1>2, <2>4, <2>5, FS_AddElement, FS_Subset
  <2>7. lock.times <= Cardinality(PastTheLock)
    BY <1>1, <1>2, <2>3 DEF LockTyped
  <2>8. QED
    BY <1>2, <2>1, <2>2, <2>3, <2>6, <2>7 DEF LockTyped
<1>4. CASE Unlock(d)
  <2>1. PICK b \in Backends(d) : lock' = GivenBack(b)
    BY <1>4 DEF Unlock
  <2>2. CASE lock.by # b
    BY <1>1, <1>2, <2>1, <2>2 DEF GivenBack, LockTyped, Free
  <2>3. CASE lock.by = b
    <3>1. lock # Free
      BY <2>3, DeploymentAssumption DEF Backends, Free
    <3>2. CASE lock.times = 1
      BY <2>1, <2>3, <3>2 DEF GivenBack, LockTyped, Free
    <3>3. CASE lock.times # 1
      BY <1>1, <1>2, <2>1, <2>3, <3>1, <3>3 DEF GivenBack, LockTyped
    <3>4. QED
      BY <3>2, <3>3
  <2>4. QED
    BY <2>2, <2>3
<1>5. CASE lock' \in {Free, lock}
  BY <1>1, <1>2, <1>5 DEF LockTyped, Free
<1>6. QED
  BY <1>3, <1>4, <1>5 DEF Handle, Kill, WaitForDatabase, ReadPending, GiveUpLock,
     RequireARealSession, StartMigrate, Migrate, StartNonAtomic, FinishNonAtomic,
     MigrateFails, Migrated, Applied, Exit, SessionLock

(* The steps that a migration takes. *)
LEMMA MigrateTypes ==
    ASSUME RolloutTypeOK, HalfwayOnPlan, NEW d \in Deploys,
           Migrate(d) \/ StartNonAtomic(d) \/ FinishNonAtomic(d)
    PROVE  /\ FirstOf(d) \in deploy[d].plan /\ FirstOf(d) \in Migrations
           /\ schema' \in [Migrations -> {"none", "half", "full"}]
           /\ applied' = {m \in Migrations : schema'[m] = "full"}
           /\ deploy'[d] \in [at : Stages, plan : SUBSET Migrations, failed : BOOLEAN]
<1>1. FirstOf(d) \in deploy[d].plan /\ FirstOf(d) \in Migrations
  BY FirstOfPlan DEF Migrate, StartNonAtomic, FinishNonAtomic, HalfwayOnPlan
<1>2. CASE StartNonAtomic(d)
  BY <1>1, <1>2 DEF StartNonAtomic, Goto, At, RolloutTypeOK, Stages
<1>3. CASE Applied(d, FirstOf(d))
  BY <1>1, <1>3 DEF Applied, RolloutTypeOK, Stages
<1>4. QED
  BY <1>1, <1>2, <1>3 DEF Migrate, FinishNonAtomic

(* Every record stays one, and every count within its bounds. *)
LEMMA RolloutTypeSteps ==
    ASSUME RolloutTypeOK, TakenOnceEach, HalfwayOnPlan, [RolloutNext]_rollout
    PROVE  RolloutTypeOK' /\ TakenOnceEach'
<1>1. ASSUME NEW d \in Deploys, Handle(d) \/ Kill(d)
      PROVE  RolloutTypeOK' /\ TakenOnceEach'
  <2>1. UNCHANGED <<pooled, release, up>>
    BY <1>1, OthersWait
  <2>2. /\ deploy'[d] \in [at : Stages, plan : SUBSET Migrations, failed : BOOLEAN]
        /\ schema' \in [Migrations -> {"none", "half", "full"}]
        /\ applied' = {m \in Migrations : schema'[m] = "full"}
    <3>1. deploy[d] \in [at : Stages, plan : SUBSET Migrations, failed : BOOLEAN]
      BY DEF RolloutTypeOK
    <3>2. Pending(d) \in SUBSET Migrations
      BY DeploymentAssumption DEF Pending, RolloutTypeOK, Migrations
    <3>3. CASE Migrate(d) \/ StartNonAtomic(d) \/ FinishNonAtomic(d)
      BY <3>3, MigrateTypes
    <3>4. CASE ReadPending(d) \/ StartMigrate(d) \/ MigrateFails(d)
      <4>1. UNCHANGED <<schema, applied>>
        BY <3>4 DEF ReadPending, StartMigrate, MigrateFails
      <4>2. deploy'[d] \in [at : Stages, plan : SUBSET Migrations, failed : BOOLEAN]
        BY <3>1, <3>2, <3>4 DEF ReadPending, StartMigrate, MigrateFails, Plan, Goto, Exit,
           RolloutTypeOK, Stages, Ended
      <4>3. QED
        BY <4>1, <4>2 DEF RolloutTypeOK
    <3>5. CASE \/ WaitForDatabase(d) \/ TryLock(d) \/ GiveUpLock(d) \/ RequireARealSession(d)
               \/ Migrated(d) \/ Unlock(d) \/ Kill(d)
      <4>1. UNCHANGED <<schema, applied>>
        BY <3>5 DEF WaitForDatabase, TryLock, GiveUpLock, RequireARealSession, Migrated,
           Unlock, Kill
      <4>2. \E s \in Stages : deploy' = [deploy EXCEPT ![d].at = s]
        BY <3>5 DEF WaitForDatabase, TryLock, GiveUpLock, RequireARealSession, Migrated,
           Unlock, Kill, Goto, Exit, Outcome, Stages, Ended
      <4>3. QED
        BY <3>1, <4>1, <4>2 DEF RolloutTypeOK
    <3>6. QED
      BY <1>1, <3>3, <3>4, <3>5 DEF Handle
  <2>3. deploy' \in [Deploys -> [at : Stages, plan : SUBSET Migrations, failed : BOOLEAN]]
    <3>1. DOMAIN deploy' = Deploys /\ \A e \in Deploys \ {d} : deploy'[e] = deploy[e]
      BY <1>1, OthersWait
    <3>2. \E f : deploy' = [e \in Deploys |-> f[e]]
      BY <1>1 DEF RolloutTypeOK, Handle, Kill, WaitForDatabase, ReadPending, TryLock,
         GiveUpLock, RequireARealSession, StartMigrate, Migrate, StartNonAtomic,
         FinishNonAtomic, MigrateFails, Migrated, Unlock, Applied, Goto, Exit
    <3>3. QED
      BY <3>1, <3>2, <2>2 DEF RolloutTypeOK
  <2>4. LockTyped'
    BY <1>1, LockSteps
  <2>5. TakenOnceEach' /\ lock' \in {Free} \cup [by : Deploys, times : 1..Cardinality(Deploys)]
    BY <2>4, LockTypedIs
  <2>6. QED
    BY <2>1, <2>2, <2>3, <2>5 DEF RolloutTypeOK
<1>2. CASE DatabaseStops
  <2>1. deploy' \in [Deploys -> [at : Stages, plan : SUBSET Migrations, failed : BOOLEAN]]
    BY <1>2 DEF DatabaseStops, RolloutTypeOK, Stages, Ended
  <2>2. QED
    BY <1>2, <2>1 DEF DatabaseStops, RolloutTypeOK, TakenOnceEach
<1>3. CASE DatabaseStarts
  BY <1>3 DEF DatabaseStarts, RolloutTypeOK, TakenOnceEach, PastTheLock
<1>4. ASSUME NEW m \in Migrations, DropByHand(m)
      PROVE  RolloutTypeOK' /\ TakenOnceEach'
  BY <1>4 DEF DropByHand, RolloutTypeOK, TakenOnceEach, PastTheLock
<1>5. CASE UNCHANGED rollout
  BY <1>5 DEF rollout, RolloutTypeOK, TakenOnceEach, PastTheLock
<1>6. QED
  BY <1>1, <1>2, <1>3, <1>4, <1>5 DEF RolloutNext

-----------------------------------------------------------------------------
(* The lock over direct connections.                                       *)

(* Only a migration in progress applies one, and none is ever taken back.  *)
LEMMA AppliedGrows ==
    ASSUME RolloutTypeOK, [RolloutNext]_rollout
    PROVE  /\ applied \subseteq applied'
           /\ UNCHANGED <<pooled, release>>
BY DEF RolloutNext, rollout, Handle, Kill, WaitForDatabase, ReadPending,
   TryLock, GiveUpLock, RequireARealSession, StartMigrate, Migrate, StartNonAtomic,
   FinishNonAtomic, MigrateFails, Migrated, Unlock, Applied, DropByHand, DatabaseStarts,
   DatabaseStops

(* What the steps of a deploy that has the lock do to it.                  *)
LEMMA LockFollowsHolder ==
    ASSUME RolloutTypeOK, LockAndHolder, ~pooled, NEW d \in Deploys, Handle(d) \/ Kill(d)
    PROVE  IF deploy'[d].at \in Holding
           THEN lock' = [by |-> d, times |-> 1] /\ lock.by \in {Nobody, d}
           ELSE lock' = IF lock.by = d THEN Free ELSE lock
<1>1. /\ d # Nobody
      /\ lock = Free \/ (lock.times = 1 /\ deploy[lock.by].at \in Holding)
      /\ deploy[d].at \in Holding => lock = [by |-> d, times |-> 1]
      /\ lock.by = d => deploy[d].at \in Holding
      /\ Free.by = Nobody /\ Free.times = 0
  BY DeploymentAssumption DEF LockAndHolder, Free, RolloutTypeOK
<1>2. CASE TryLock(d)
  <2>1. lock.by \in {Nobody, d} /\ lock' = [by |-> d, times |-> lock.times + 1]
    BY <1>2 DEF TryLock, Backends, Grants
  <2>2. deploy[d].at \notin Holding /\ deploy'[d].at \in Holding
    BY <1>2 DEF TryLock, At, Goto, Holding, RolloutTypeOK
  <2>3. lock = Free
    BY <1>1, <2>1, <2>2, DeploymentAssumption DEF RolloutTypeOK
  <2>4. QED
    BY <1>1, <2>1, <2>2, <2>3
<1>3. CASE Unlock(d)
  BY <1>1, <1>3 DEF Unlock, Backends, GivenBack, At, Goto, Holding, Outcome, RolloutTypeOK
<1>4. CASE RequireARealSession(d) \/ GiveUpLock(d) \/ WaitForDatabase(d) \/ ReadPending(d) \/ Kill(d)
  BY <1>1, <1>4 DEF RequireARealSession, GiveUpLock, WaitForDatabase, ReadPending, Kill,
     Backends, Grants, At, Goto, Exit, SessionLock, Holding, Ended, RolloutTypeOK
<1>5. CASE \/ StartMigrate(d) \/ Migrate(d) \/ StartNonAtomic(d) \/ FinishNonAtomic(d)
           \/ MigrateFails(d) \/ Migrated(d)
  BY <1>1, <1>5 DEF StartMigrate, Migrate, StartNonAtomic, FinishNonAtomic, MigrateFails,
     Migrated, Applied, At, Goto, Holding, RolloutTypeOK
<1>6. QED
  BY <1>2, <1>3, <1>4, <1>5 DEF Handle

LEMMA LockSteady ==
    ASSUME RolloutTypeOK, LockAndHolder, [RolloutNext]_rollout
    PROVE  LockAndHolder'
<1> SUFFICES ASSUME ~pooled
             PROVE  /\ lock' = Free \/ (lock'.times = 1 /\ deploy'[lock'.by].at \in Holding)
                    /\ \A d \in Deploys : deploy'[d].at \in Holding => lock'.by = d
  BY AppliedGrows DEF LockAndHolder
<1>1. /\ lock = Free \/ (lock.times = 1 /\ deploy[lock.by].at \in Holding)
      /\ \A d \in Deploys : deploy[d].at \in Holding => lock.by = d
      /\ Free.by = Nobody /\ Nobody \notin Deploys
  BY DeploymentAssumption DEF LockAndHolder, Free
<1>2. ASSUME NEW d \in Deploys, Handle(d) \/ Kill(d)
      PROVE  /\ lock' = Free \/ (lock'.times = 1 /\ deploy'[lock'.by].at \in Holding)
             /\ \A e \in Deploys : deploy'[e].at \in Holding => lock'.by = e
  <2>1. /\ \A e \in Deploys \ {d} : deploy'[e] = deploy[e]
        /\ lock = Free \/ lock.by \in Deploys
    BY <1>2, OthersWait DEF RolloutTypeOK
  <2>2. CASE deploy'[d].at \in Holding
    <3>1. lock' = [by |-> d, times |-> 1] /\ lock.by \in {Nobody, d}
      BY <1>2, <2>2, LockFollowsHolder
    <3>2. QED
      BY <1>1, <2>1, <2>2, <3>1
  <2>3. CASE deploy'[d].at \notin Holding
    <3>1. lock' = IF lock.by = d THEN Free ELSE lock
      BY <1>2, <2>3, LockFollowsHolder
    <3>2. QED
      BY <1>1, <2>1, <2>3, <3>1
  <2>4. QED
    BY <2>2, <2>3
<1>3. CASE DatabaseStops
  BY <1>1, <1>3 DEF DatabaseStops, Holding, Ended, RolloutTypeOK
<1>4. CASE UNCHANGED <<lock, deploy>>
  BY <1>1, <1>4
<1>5. QED
  BY <1>2, <1>3, <1>4 DEF RolloutNext, DropByHand, DatabaseStarts, rollout

-----------------------------------------------------------------------------
(* Plans and reports.                                                      *)

(* How a deploy comes to migrate, to unlock without a failure and to end.  *)
LEMMA PlanSteps ==
    ASSUME RolloutTypeOK, HalfwayOnPlan, NEW d \in Deploys, Handle(d) \/ Kill(d)
    PROVE  /\ deploy'[d].at \in {"migrating", "halfway"} =>
                \/ At(d, "locked") /\ deploy'[d].plan = Pending(d) /\ UNCHANGED applied
                   /\ deploy'[d].at = "migrating"
                \/ deploy[d].at \in {"migrating", "halfway"}
                   /\ \/ deploy'[d].plan = deploy[d].plan /\ UNCHANGED applied
                         /\ (deploy'[d].at = "halfway" => deploy[d].plan # {})
                      \/ \E m \in deploy[d].plan : /\ deploy'[d].plan = deploy[d].plan \ {m}
                                                   /\ applied' = applied \cup {m}
                                                   /\ deploy'[d].at = "migrating"
           /\ deploy'[d].at = "unlocking" /\ ~deploy'[d].failed =>
                At(d, "migrating") /\ deploy[d].plan = {}
           /\ deploy'[d].at = "done" =>
                \/ At(d, "connected") /\ Pending(d) = {}
                \/ At(d, "unlocking") /\ ~deploy[d].failed
<1>1. CASE Migrate(d) \/ StartNonAtomic(d) \/ FinishNonAtomic(d)
  BY <1>1, MigrateTypes DEF Migrate, StartNonAtomic, FinishNonAtomic, Applied, Goto, At,
     RolloutTypeOK
<1>2. CASE ~(Migrate(d) \/ StartNonAtomic(d) \/ FinishNonAtomic(d))
  BY <1>2 DEF Handle, Kill, WaitForDatabase, ReadPending, TryLock, GiveUpLock,
     RequireARealSession, StartMigrate, MigrateFails, Migrated, Unlock, Goto, Exit, At,
     Outcome, Plan, RolloutTypeOK
<1>3. QED
  BY <1>1, <1>2

LEMMA PlansSteady ==
    ASSUME RolloutTypeOK, HalfwayOnPlan, LockAndHolder, PlanAhead, RestIsApplied,
           [RolloutNext]_rollout
    PROVE  HalfwayOnPlan' /\ PlanAhead' /\ RestIsApplied'
<1>1. applied \subseteq applied' /\ UNCHANGED <<pooled, release>>
  BY AppliedGrows
<1>2. CASE UNCHANGED applied
           /\ \A d \in Deploys : deploy'[d] = deploy[d] \/ deploy'[d].at = "failed"
  BY <1>1, <1>2 DEF HalfwayOnPlan, PlanAhead, RestIsApplied, At
<1>3. ASSUME NEW d \in Deploys, Handle(d) \/ Kill(d)
      PROVE  HalfwayOnPlan' /\ PlanAhead' /\ RestIsApplied'
  <2>1. \A e \in Deploys \ {d} : deploy'[e] = deploy[e]
    BY <1>3, OthersWait
  <2>2. HalfwayOnPlan'
    BY <1>3, <2>1, PlanSteps DEF HalfwayOnPlan, At
  <2>3. PlanAhead'
    <3>1. SUFFICES ASSUME ~pooled, NEW e \in Deploys, deploy'[e].at \in {"migrating", "halfway"}
                   PROVE  deploy'[e].plan \cap applied' = {}
      BY <1>1 DEF PlanAhead
    <3>2. CASE e = d
      BY <1>3, <3>1, <3>2, PlanSteps DEF PlanAhead, Pending
    <3>3. CASE e # d
      <4>1. deploy[e].at \in Holding /\ deploy[e].plan \cap applied = {}
        BY <2>1, <3>1, <3>3 DEF PlanAhead, Holding
      <4>2. deploy[d].at \notin Holding
        BY <3>1, <3>3, <4>1 DEF LockAndHolder
      <4>3. applied' = applied
        BY <1>3, <4>2 DEF Handle, Kill, WaitForDatabase, ReadPending, TryLock, GiveUpLock,
           RequireARealSession, StartMigrate, Migrate, StartNonAtomic, FinishNonAtomic,
           MigrateFails, Migrated, Unlock, At, Holding
      <4>4. QED
        BY <2>1, <3>3, <4>1, <4>3
    <3>4. QED
      BY <3>2, <3>3
  <2>4. RestIsApplied'
    <3>1. SUFFICES ASSUME NEW e \in Deploys
                   PROVE  /\ deploy'[e].at \in {"migrating", "halfway"}
                               => (1..release[e]) \ deploy'[e].plan \subseteq applied'
                          /\ deploy'[e].at = "unlocking" /\ ~deploy'[e].failed
                               => 1..release[e] \subseteq applied'
                          /\ deploy'[e].at = "done" => 1..release[e] \subseteq applied'
      BY <1>1 DEF RestIsApplied, At
    <3>2. /\ deploy[e].at \in {"migrating", "halfway"}
               => (1..release[e]) \ deploy[e].plan \subseteq applied
          /\ deploy[e].at = "unlocking" /\ ~deploy[e].failed
               => 1..release[e] \subseteq applied
          /\ deploy[e].at = "done" => 1..release[e] \subseteq applied
      BY DEF RestIsApplied, At
    <3>3. CASE e # d
      BY <1>1, <2>1, <3>2, <3>3
    <3>4. CASE e = d
      <4>1. ASSUME deploy'[d].at \in {"migrating", "halfway"}
            PROVE  (1..release[d]) \ deploy'[d].plan \subseteq applied'
        BY <1>1, <1>3, <3>2, <3>4, <4>1, PlanSteps DEF Pending
      <4>2. ASSUME deploy'[d].at = "unlocking" /\ ~deploy'[d].failed
            PROVE  1..release[d] \subseteq applied'
        BY <1>1, <1>3, <3>2, <3>4, <4>2, PlanSteps DEF At
      <4>3. ASSUME deploy'[d].at = "done"
            PROVE  1..release[d] \subseteq applied'
        BY <1>1, <1>3, <3>2, <3>4, <4>3, PlanSteps DEF Pending, At
      <4>4. QED
        BY <3>4, <4>1, <4>2, <4>3
    <3>5. QED
      BY <3>3, <3>4
  <2>5. QED
    BY <2>2, <2>3, <2>4
<1>4. CASE DatabaseStops
  <2>1. UNCHANGED applied /\ \A d \in Deploys : deploy'[d] = deploy[d] \/ deploy'[d].at = "failed"
    BY <1>4 DEF DatabaseStops, RolloutTypeOK
  <2>2. QED
    BY <1>2, <2>1
<1>5. CASE UNCHANGED <<applied, deploy>>
  BY <1>2, <1>5
<1>6. QED
  BY <1>3, <1>4, <1>5 DEF RolloutNext, DropByHand, DatabaseStarts, rollout

-----------------------------------------------------------------------------
(* The inductive invariant, and what it gives.                             *)

LEMMA RolloutStarts == ASSUME RolloutInit PROVE RolloutInv
BY DEF RolloutInit, RolloutInv, RolloutTypeOK, TakenOnceEach, HalfwayOnPlan, LockAndHolder,
   PlanAhead, RestIsApplied, At, Stages, Ended, Holding

(* At every moment: the lock and its holder are each other's, plans are     *)
(* what is left to apply, and what is off the plan is applied.             *)
THEOREM RolloutInvariant == RolloutSpec => []RolloutInv
<1>1. RolloutInv /\ [RolloutNext]_rollout => RolloutInv'
  BY RolloutTypeSteps, LockSteady, PlansSteady DEF RolloutInv
<1>2. QED
  BY <1>1, RolloutStarts, PTL DEF RolloutSpec

(* Over direct connections the advisory lock is held once, by the one      *)
(* deploy between its lock and its unlock, and by nobody once that one has *)
(* ended; and every record is one (_deploy_lock).                          *)
THEOREM OneDeployHasTheLock == RolloutSpec => []LockIsExclusive
<1>1. RolloutInv => LockIsExclusive
  BY DEF RolloutInv, LockAndHolder, LockIsExclusive, OneMigratesAtATime, LockDiesWithItsDeploy
<1>2. QED
  BY <1>1, RolloutInvariant, PTL

(* Nobody is about to apply again what another deploy applied between the  *)
(* announcement and the lock, and whoever reports success leaves its       *)
(* release applied, behind a pooler too (handle, __exit__).                *)
THEOREM ReportedSuccessIsEarned == RolloutSpec => []SuccessIsEarned
<1>1. RolloutInv => SuccessIsEarned
  BY DEF RolloutInv, PlanAhead, RestIsApplied, SuccessIsEarned, PlanIsFresh,
     SuccessMeansCurrent, At
<1>2. QED
  BY <1>1, RolloutInvariant, PTL
=============================================================================
