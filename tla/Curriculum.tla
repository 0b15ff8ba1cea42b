------------------------------ MODULE Curriculum ------------------------------
(***************************************************************************)
(* The order of a course: its sections, and the lessons of each, created,  *)
(* edited, moved and reordered by several requests of its instructor at    *)
(* once (apps/catalog services.py and views.py), and the reads that need   *)
(* an order (apps/learning selectors.py).                                  *)
(*                                                                         *)
(* A request loads a row, or the rows of a parent, and writes in a READ    *)
(* COMMITTED transaction.  item holds what is committed; what a request    *)
(* has written is in its record until it commits.  Both position           *)
(* constraints are deferred to the commit.                                 *)
(*                                                                         *)
(* Abstracted: a row is its parent and its position; an edit of a title,   *)
(* slug, body or type writes these two back as it loaded them.  Checks     *)
(* that only refuse (ownership, serializers, slugs) are left out, as is    *)
(* deletion, which no endpoint offers.                                     *)
(***************************************************************************)
EXTENDS Integers, FiniteSets, Sequences, SequencesExt, Functions

CONSTANTS
    Calls,         \* requests running at once
    Sections, Lessons,
    TheCourse, None,
    MaxPosition    \* bound on the positions

ASSUME CurriculumAssumption ==
    /\ IsFiniteSet(Sections) /\ IsFiniteSet(Lessons)
    /\ Sections \cap Lessons = {}
    /\ TheCourse \notin Sections /\ None \notin Sections \cup {TheCourse}
    /\ MaxPosition \in Nat
    /\ Cardinality(Sections) <= MaxPosition /\ Cardinality(Lessons) <= MaxPosition

VARIABLES
    item,   \* the committed rows
    call    \* where each request is, and what it has read and written

curriculum == <<item, call>>

Items == Sections \cup Lessons
Parents == Sections \cup {TheCourse}
Positions == 1..MaxPosition

Section == [parent: {TheCourse}, position: Positions]
Lesson == [parent: Sections, position: Positions]
Row == Section \cup Lesson
Absent == [parent |-> None, position |-> 0]

(* loaded: the row an edit found; seen: the rows of parent in the order a  *)
(* reorder found them; locked: how many of those it holds; named: those    *)
(* still there when locked; changed is history: one of them was written    *)
(* meanwhile.  write: its uncommitted rows; suspect: those whose key was   *)
(* taken when they were written.                                           *)
Steps == {"idle", "editing", "locking", "written"}
Unwritten == [i \in Items |-> Absent]
Waiting == [at |-> "idle", item |-> None, loaded |-> Absent, parent |-> None,
         seen |-> <<>>, locked |-> 0, named |-> {}, changed |-> FALSE,
         write |-> Unwritten, suspect |-> {}]

Request == [at : Steps, item : Items \cup {None}, loaded : Row \cup {Absent},
            parent : Parents \cup {None}, seen : Seq(Items), locked : Nat,
            named : SUBSET Items, changed : BOOLEAN,
            write : [Items -> Row \cup {Absent}], suspect : SUBSET Items]

Exists(i) == item[i] # Absent
Children(p) == {i \in Items : item[i].parent = p}

CurriculumTypeOK ==
    /\ item \in [Items -> Row \cup {Absent}]
    /\ \A s \in Sections : item[s] \in Section \cup {Absent}
    /\ \A l \in Lessons : item[l] \in Lesson \cup {Absent}
    /\ call \in [Calls -> Request]
    /\ \A c \in Calls :
         /\ IsInjective(call[c].seen) /\ call[c].locked <= Len(call[c].seen)
         /\ call[c].named \subseteq {call[c].seen[n] : n \in 1..call[c].locked}

CurriculumInit ==
    /\ item = [i \in Items |-> Absent]
    /\ call = [c \in Calls |-> Waiting]

Finish(c) == call' = [call EXCEPT ![c] = Waiting]

-----------------------------------------------------------------------------
(* What the database does. *)

Written(c) == {i \in Items : call[c].write[i] # Absent}
Held(c) == {call[c].seen[n] : n \in 1..call[c].locked} \cup Written(c)
Unlocked(c, i) == TRUE
RowFree(c, i) == \A d \in Calls \ {c} : i \notin Held(d)

(* A row enters a deferred unique index: taken keys are looked at again at *)
(* the commit, be they committed or not.                                   *)
CommittedOnly(c, i, row) == \E j \in Items \ {i} : item[j] = row
Taken(c, i, row) ==
    \E j \in Items \ {i} : item[j] = row \/ \E d \in Calls \ {c} : call[d].write[j] = row

Write(c, rows) ==
    call' = [call EXCEPT ![c].at = "written", ![c].write = rows, ![c].suspect =
               {i \in Items : rows[i] # Absent /\ Taken(c, i, rows[i])}]

(* That look waits for a transaction that is giving the key up or taking   *)
(* it, and fails where the key is committed.                               *)
Disputed(c, i) ==
    \E d \in Calls \ {c} : \E j \in Written(d) \ {i} :
        call[c].write[i] \in {item[j], call[d].write[j]}
Collides(c, i) ==
    \E j \in Items \ {i} : call[c].write[i] =
        IF j \in Written(c) THEN call[c].write[j] ELSE item[j]

Overlay(c) ==
    [i \in Items |-> IF i \in Written(c) THEN call[c].write[i] ELSE item[i]]

Commit(c) ==
    /\ call[c].at = "written"
    /\ \A i \in call[c].suspect : ~Disputed(c, i) /\ ~Collides(c, i)
    /\ item' = Overlay(c)
    /\ call' = [d \in Calls |->
          IF d = c THEN Waiting
          ELSE [call[d] EXCEPT
                  !.changed = @ \/ \E i \in Range(call[d].seen) : item'[i] # item[i]]]

(* InvalidReorder, an IntegrityError, a deadlock, a lost connection. *)
Abort(c) ==
    /\ call[c].at # "idle"
    /\ Finish(c)
    /\ UNCHANGED item

-----------------------------------------------------------------------------
(* create_section and create_lesson. *)
Insert(c, i, row) ==
    /\ call[c].at = "idle" /\ ~Exists(i)
    /\ \A d \in Calls : i \notin Written(d)
    /\ Write(c, [Unwritten EXCEPT ![i] = row])
    /\ UNCHANGED item

CreateSection(c, s) ==
    \E p \in Positions : Insert(c, s, [parent |-> TheCourse, position |-> p])
CreateLesson(c, l) ==
    \E s \in Children(TheCourse), p \in Positions :
        Insert(c, l, [parent |-> s, position |-> p])

(* The view's get_object: before the service, and without a lock. *)
GetObject(c, i) ==
    /\ call[c].at = "idle" /\ Exists(i)
    /\ call' = [call EXCEPT ![c] =
          [Waiting EXCEPT !.at = "editing", !.item = i, !.loaded = item[i]]]
    /\ UNCHANGED item

(* save() writes every column of the instance. *)
Save(c, row) ==
    /\ RowFree(c, call[c].item)
    /\ Write(c, [Unwritten EXCEPT ![call[c].item] = row])
    /\ UNCHANGED item

UpdateSection(c) ==
    /\ call[c].at = "editing" /\ call[c].item \in Sections
    /\ \E p \in Positions : Save(c, [call[c].loaded EXCEPT !.position = p])
UpdateLesson(c) ==
    /\ call[c].at = "editing" /\ call[c].item \in Lessons
    /\ \E s \in Children(TheCourse), p \in Positions :
          Save(c, [parent |-> s, position |-> p])

(* _apply_order, for reorder_sections and reorder_lessons: one statement   *)
(* finds the rows and locks them one by one, in the order of the positions *)
(* it found.                                                               *)
AnyOrder(p) == SetToSeqs(Children(p))
InOrder(p) ==
    {seq \in SetToSeqs(Children(p)) : \A m, n \in DOMAIN seq :
        m < n => item[seq[m]].position < item[seq[n]].position}

Reorder(c, p) ==
    /\ call[c].at = "idle" /\ Children(p) # {}
    /\ \E seq \in InOrder(p) : call' = [call EXCEPT ![c] =
          [Waiting EXCEPT !.at = "locking", !.parent = p, !.seen = seq]]
    /\ UNCHANGED item

(* The lessons of one section, which the view finds within the course. *)
ReorderSections(c) == Reorder(c, TheCourse)
ReorderLessons(c) == \E s \in Children(TheCourse) : Reorder(c, s)

NextToLock(c) == call[c].seen[call[c].locked + 1]
Locking(c) == call[c].at = "locking" /\ call[c].locked < Len(call[c].seen)

(* A row is looked at again once it is locked: one that was moved away     *)
(* stays locked and is not returned.                                       *)
AsSeen(c, i) == {i}
StillThere(c, i) == {i} \cap Children(call[c].parent)
LockRow(c) ==
    /\ Locking(c) /\ RowFree(c, NextToLock(c))
    /\ call' = [call EXCEPT ![c].locked = @ + 1,
                            ![c].named = @ \cup StillThere(c, NextToLock(c))]
    /\ UNCHANGED item

(* An order that names exactly these rows, by one UPDATE of the position.  *)
Place(order, i) == CHOOSE n \in DOMAIN order : order[n] = i
ApplyOrder(c) ==
    /\ call[c].at = "locking" /\ ~Locking(c) /\ call[c].named # {}
    /\ \E order \in SetToSeqs(call[c].named) :
          Write(c, [i \in Items |-> IF i \in call[c].named
                      THEN [item[i] EXCEPT !.position = Place(order, i)]
                      ELSE Absent])
    /\ UNCHANGED item

-----------------------------------------------------------------------------
(* The curriculum order that lessons_for_course, my courses and            *)
(* next_lesson_for sort by, and what comes first of the lessons left.      *)
Before(l, m) ==
    LET s == item[item[l].parent].position
        t == item[item[m].parent].position
    IN  s < t \/ (s = t /\ item[l].position < item[m].position)
NextLesson(left) == {l \in left : \A m \in left \ {l} : Before(l, m)}

-----------------------------------------------------------------------------
CurriculumNext ==
    \E c \in Calls :
       \/ \E s \in Sections : CreateSection(c, s)
       \/ \E l \in Lessons : CreateLesson(c, l)
       \/ \E i \in Items : GetObject(c, i)
       \/ ReorderSections(c) \/ ReorderLessons(c)
       \/ UpdateSection(c) \/ UpdateLesson(c)
       \/ LockRow(c) \/ ApplyOrder(c) \/ Commit(c) \/ Abort(c)

CurriculumSpec == CurriculumInit /\ [][CurriculumNext]_curriculum

-----------------------------------------------------------------------------
(* No two sections of a course and no two lessons of a section share a     *)
(* position once committed, though nobody checks before the commit and a   *)
(* transaction looks only at keys that were taken when it wrote            *)
(* (section_position_unique_per_course, lesson_position_unique_per_section). *)
PositionsAreUnique ==
    \A i \in Items : \A j \in Items \ {i} : Exists(i) => item[i] # item[j]

(* A reorder takes no row to another parent and touches no row of another  *)
(* parent, also one that was moved there while it ran (_apply_order).      *)
ReorderStaysInside ==
    [][\A c \in Calls : Commit(c) /\ call[c].seen # <<>> =>
         \A i \in Items :
            /\ item'[i].parent = item[i].parent
            /\ item[i].parent # call[c].parent => item'[i] = item[i]]_curriculum

(* A row a reorder has found is numbered by it, unless it left the parent: *)
(* "an id that belongs here but was left out" is none of those (_apply_order). *)
ReorderCoversWhatItFound ==
    [][\A c \in Calls : Commit(c) /\ call[c].seen # <<>> =>
         \A i \in Range(call[c].seen) :
            item'[i].parent = call[c].parent => i \in call[c].named]_curriculum

Waits(c, d) == Locking(c) /\ NextToLock(c) \in Held(d)

(* Reorders queue behind each other: two of them wait for each other only  *)
(* if the rows of one were written after it had read their order           *)
(* ("select_for_update serialises concurrent reorders of the same parent"). *)
ReordersQueue ==
    \A c, d \in Calls : Waits(c, d) /\ Waits(d, c) => call[c].changed \/ call[d].changed

(* Whatever lessons are left there is one that comes next, so that the two *)
(* subqueries of my courses name the same one, and it is the id and the    *)
(* slug of one lesson ("Ordered identically ... and that is load-bearing"). *)
OneNextLesson ==
    \A left \in SUBSET {l \in Lessons : Exists(l)} :
        left # {} => Cardinality(NextLesson(left)) = 1

(* What the curriculum promises whoever reads it: one order of all its     *)
(* lessons, at every commit (models.py:233 and 307, selectors.py:45).      *)
OrderIsTotal == CurriculumTypeOK /\ PositionsAreUnique /\ OneNextLesson

(* What a reorder promises, both ways: it numbers what it found and        *)
(* nothing else (_apply_order).                                            *)
ReorderIsWhole == ReorderStaysInside /\ ReorderCoversWhatItFound

-----------------------------------------------------------------------------
(* Statements of the repository that the code does not keep: TLC refutes   *)
(* each of them.                                                           *)

(* "Preserving partial edits" (services.py:174, 230): an edit that names   *)
(* no position writes back the one it loaded, over a reorder that was      *)
(* committed meanwhile.                                                    *)
PartialEditsKeepTheOrder ==
    [][\A c \in Calls : Commit(c) /\ call[c].item # None =>
         LET i == call[c].item
         IN  call[c].write[i].position = call[c].loaded.position
               => item'[i].position = item[i].position]_curriculum

(* "select_for_update serialises concurrent reorders of the same parent"   *)
(* (services.py:448), taken without an exception.                          *)
ReordersNeverDeadlock == \A c, d \in Calls : ~(Waits(c, d) /\ Waits(d, c))
=============================================================================
