--------------------------- MODULE CatalogueProofs ---------------------------
(* Proofs about Catalogue: for any number of courses and lessons, any page *)
(* sizes and any changes meanwhile, lists miss and repeat nothing, only    *)
(* what was published is shown, paid bodies reach who may have them, and a *)
(* search, a length and a related strip say what is the case.              *)
EXTENDS Catalogue, FiniteSetTheorems, SequenceTheorems, TLAPS

(***************************************************************************)
(* What is known of a visit, whatever the length of a course adds up to.   *)
(***************************************************************************)

Lists == [at: {"page", "listed"}, language: Languages \cup {Anything},
          after: Nat \cup {Unknown}, shown: SUBSET Courses, twice: BOOLEAN]
Answers == [at: {"found"}, query: Queries, results: SUBSET Courses, truncated: BOOLEAN]
Details(total) ==
    [at: {"outline", "related", "detail"}, course: Courses, saw: Labels,
     total: {total}, outline: SUBSET Lessons, related: SUBSET Courses]
Lectures == [at: {"gate", "mint", "body"}, reader: Readers, route: Routes, lesson: Lessons]

VisitShape ==
    \/ visit = Idle
    \/ visit \in [at: {"languages"}, offered: SUBSET Languages]
    \/ visit \in Lists
    \/ visit \in [at: {"similar"}, query: Queries]
    \/ visit \in Answers
    \/ \E total : visit \in Details(total)
    \/ visit \in Lectures

CatalogueType ==
    /\ live \in Seq(Courses)
    /\ label \in [Courses -> Labels]
    /\ lesson \in [Lessons -> Assets]
    /\ entitled \in BOOLEAN
    /\ during \in Histories

(***************************************************************************)
(* The inductive invariant: what the history of a visit says of the        *)
(* present, and what each kind of visit knows.                             *)
(***************************************************************************)

HistoryInv ==
    visit # Idle =>
        /\ Live \subseteq during.live
        /\ during.standing \subseteq Live
        /\ entitled => during.entitled

(* Whatever was shown is not behind the cursor, and was live. *)
ShownInv ==
    visit \in Lists =>
        /\ ~visit.twice
        /\ visit.shown \subseteq during.live
        /\ \A c \in visit.shown : visit.after # Unknown /\ CreatedAt[c] >= visit.after

(* What stands and is not behind the cursor was shown. *)
CursorInv ==
    visit \in Lists =>
        \A c \in during.standing \cap Matching(visit.language) :
            \/ c \in visit.shown
            \/ visit.at = "page" /\ c \in Rest(visit)

FoundInv == visit \in Answers => visit.results \subseteq during.live

DetailInv ==
    visit.at \in {"outline", "related", "detail"} =>
        visit.related \cup {visit.course} \subseteq during.live

LessonInv ==
    visit \in Lectures /\ visit.reader \in {"anonymous", "learner"} =>
        CourseOf[visit.lesson] \in during.live

PaidInv ==
    visit \in Lectures /\ visit.at \in {"mint", "body"} /\ visit.lesson \notin Previews =>
            \/ visit.reader \in {"owner", "administrator"}
            \/ visit.reader = "learner" /\ during.entitled

VisitInv ==
    ShownInv /\ CursorInv /\ FoundInv /\ DetailInv /\ LessonInv /\ PaidInv

IInv == CatalogueType /\ VisitShape /\ HistoryInv /\ VisitInv

-----------------------------------------------------------------------------
LEMMA LiveType ==
    ASSUME CatalogueType PROVE Live \subseteq Courses
BY DEF CatalogueType, Live, Range

LEMMA PublishedPlaces ==
    ASSUME CatalogueType, NEW c \in Courses
    PROVE  LET new == <<c>> \o live
           IN  /\ new \in Seq(Courses) /\ Len(live) \in Nat
               /\ DOMAIN live = 1..Len(live) /\ DOMAIN new = 1..(Len(live) + 1)
               /\ new[1] = c
               /\ \A i \in 1..Len(live) : new[i + 1] = live[i]
               /\ \A i \in 1..(Len(live) + 1) :
                    i # 1 => i - 1 \in 1..Len(live) /\ new[i] = live[i - 1]
<1> DEFINE new == <<c>> \o live
<1>0. live \in Seq(Courses)
  BY DEF CatalogueType
<1>1. /\ new \in Seq(Courses)
      /\ Len(new) = Len(live) + 1
      /\ new[1] = c
      /\ \A i \in 1..Len(live) : new[i + 1] = live[i]
  BY <1>0
<1> HIDE DEF new
<1>2. DOMAIN new = 1..(Len(live) + 1) /\ DOMAIN live = 1..Len(live) /\ Len(live) \in Nat
  BY <1>0, <1>1
<1>3. ASSUME NEW i \in 1..(Len(live) + 1), i # 1
      PROVE  i - 1 \in 1..Len(live) /\ new[i] = live[i - 1]
  <2>1. i - 1 \in 1..Len(live) /\ i = (i - 1) + 1
    BY <1>2, <1>3
  <2>2. QED
    BY <1>1, <2>1
<1>4. QED
  BY <1>1, <1>2, <1>3 DEF new

LEMMA PublishedLive ==
    ASSUME CatalogueType, NEW c \in Courses
    PROVE  /\ <<c>> \o live \in Seq(Courses)
           /\ Range(<<c>> \o live) = Live \cup {c}
<1> DEFINE new == <<c>> \o live
<1>1. /\ new \in Seq(Courses) /\ Len(live) \in Nat
      /\ DOMAIN live = 1..Len(live) /\ DOMAIN new = 1..(Len(live) + 1)
      /\ new[1] = c
      /\ \A i \in 1..Len(live) : new[i + 1] = live[i]
      /\ \A i \in 1..(Len(live) + 1) :
           i # 1 => i - 1 \in 1..Len(live) /\ new[i] = live[i - 1]
  BY PublishedPlaces
<1> HIDE DEF new
<1>3. ASSUME NEW d \in Range(new) PROVE d \in Live \cup {c}
  <2>1. PICK i \in 1..(Len(live) + 1) : d = new[i]
    BY <1>1, <1>3 DEF Range
  <2>2. QED
    BY <1>1, <2>1 DEF Live, Range
<1>4. ASSUME NEW d \in Live \cup {c} PROVE d \in Range(new)
  <2>1. CASE d = c
    BY <1>1, <2>1 DEF Range
  <2>2. CASE d \in Live
    <3>1. PICK i \in 1..Len(live) : d = live[i]
      BY <1>1, <2>2 DEF Live, Range
    <3>2. i + 1 \in DOMAIN new /\ new[i + 1] = d
      BY <1>1, <3>1
    <3>3. QED
      BY <3>2 DEF Range
  <2>3. QED
    BY <1>4, <2>1, <2>2
<1>5. QED
  BY <1>1, <1>3, <1>4 DEF new

LEMMA WithdrawnPlaces ==
    ASSUME CatalogueType, NEW i \in DOMAIN live
    PROVE  LET new == SubSeq(live, 1, i - 1) \o SubSeq(live, i + 1, Len(live))
           IN  /\ new \in Seq(Courses) /\ Len(live) \in Nat
               /\ DOMAIN live = 1..Len(live) /\ DOMAIN new = 1..(Len(live) - 1)
               /\ \A j \in 1..(Len(live) - 1) : new[j] = IF j < i THEN live[j] ELSE live[j + 1]
<1> DEFINE head == SubSeq(live, 1, i - 1)
           tail == SubSeq(live, i + 1, Len(live))
           new == head \o tail
<1>0. live \in Seq(Courses) /\ Len(live) \in Nat /\ DOMAIN live = 1..Len(live) /\ i \in 1..Len(live)
  BY DEF CatalogueType
<1>1. /\ head \in Seq(Courses) /\ Len(head) = i - 1
      /\ \A j \in 1..(i - 1) : head[j] = live[j]
  BY <1>0
<1>2. /\ tail \in Seq(Courses) /\ Len(tail) = Len(live) - i
      /\ \A j \in 1..(Len(live) - i) : tail[j] = live[i + j]
  BY <1>0
<1> HIDE DEF head, tail
<1>3. /\ new \in Seq(Courses) /\ Len(new) = Len(live) - 1
      /\ DOMAIN new = 1..(Len(live) - 1)
      /\ \A j \in 1..(Len(live) - 1) : new[j] = IF j < i THEN live[j] ELSE live[j + 1]
  <2>0. new \in Seq(Courses) /\ Len(new) = Len(head) + Len(tail)
    BY <1>1, <1>2, ConcatProperties
  <2>1. new \in Seq(Courses) /\ Len(new) = Len(live) - 1 /\ DOMAIN new = 1..(Len(live) - 1)
    <3>1. Len(new) = Len(live) - 1
      BY <1>0, <1>1, <1>2, <2>0
    <3> HIDE DEF new
    <3>2. DOMAIN new = 1..Len(new)
      BY <2>0
    <3>3. QED
      BY <2>0, <3>1, <3>2
  <2>2. ASSUME NEW j \in 1..(Len(live) - 1), j < i PROVE new[j] = live[j]
    BY <1>0, <1>1, <1>2, <2>2
  <2>3. ASSUME NEW j \in 1..(Len(live) - 1), ~(j < i) PROVE new[j] = live[j + 1]
    <3>1. j - (i - 1) \in 1..(Len(live) - i) /\ i + (j - (i - 1)) = j + 1
      BY <1>0, <2>3
    <3>2. new[j] = tail[j - (i - 1)]
      BY <1>0, <1>1, <1>2, <2>3, <3>1
    <3>3. QED
      BY <1>2, <3>1, <3>2
  <2>4. QED
    BY <2>1, <2>2, <2>3
<1>4. QED
  BY <1>0, <1>3 DEF head, tail

LEMMA WithdrawnLive ==
    ASSUME CatalogueType, NEW i \in DOMAIN live
    PROVE  LET new == SubSeq(live, 1, i - 1) \o SubSeq(live, i + 1, Len(live))
           IN  /\ new \in Seq(Courses)
               /\ Range(new) \subseteq Live
               /\ Live \ {live[i]} \subseteq Range(new)
<1> DEFINE new == SubSeq(live, 1, i - 1) \o SubSeq(live, i + 1, Len(live))
<1>0. live \in Seq(Courses) /\ Len(live) \in Nat /\ DOMAIN live = 1..Len(live) /\ i \in 1..Len(live)
  BY DEF CatalogueType
<1>3. /\ new \in Seq(Courses) /\ DOMAIN new = 1..(Len(live) - 1)
      /\ \A j \in 1..(Len(live) - 1) : new[j] = IF j < i THEN live[j] ELSE live[j + 1]
  BY WithdrawnPlaces
<1> HIDE DEF new
<1>4. Range(new) \subseteq Live
  BY <1>0, <1>3 DEF Live, Range
<1>5. ASSUME NEW d \in Live \ {live[i]} PROVE d \in Range(new)
  <2>1. PICK j \in 1..Len(live) : d = live[j] /\ j # i
    BY <1>0 DEF Live, Range
  <2>2. CASE j < i
    <3>1. j \in 1..(Len(live) - 1) /\ new[j] = d
      BY <1>0, <1>3, <2>1, <2>2
    <3>2. QED
      BY <1>3, <3>1 DEF Range
  <2>3. CASE j > i
    <3>1. j - 1 \in 1..(Len(live) - 1) /\ ~(j - 1 < i) /\ (j - 1) + 1 = j
      BY <1>0, <2>1, <2>3
    <3>2. new[j - 1] = d
      BY <1>3, <2>1, <3>1
    <3>3. QED
      BY <1>3, <3>1, <3>2 DEF Range
  <2>4. QED
    BY <1>0, <2>1, <2>2, <2>3
<1>6. QED
  BY <1>3, <1>4, <1>5 DEF new

-----------------------------------------------------------------------------
(* Which kind of visit is where. *)
LEMMA KindOfVisit ==
    ASSUME VisitShape
    PROVE  /\ visit.at = "idle" => visit = Idle
           /\ visit.at \in {"page", "listed"} <=> visit \in Lists
           /\ visit.at = "found" <=> visit \in Answers
           /\ visit.at \in {"outline", "related", "detail"}
                => \E total : visit \in Details(total)
           /\ visit.at \in {"gate", "mint", "body"} <=> visit \in Lectures
           /\ visit.at # "idle" => visit # Idle
BY DEF VisitShape, Idle, Lists, Answers, Details, Lectures

LEMMA HistoryFields ==
    ASSUME NEW h \in Histories
    PROVE  /\ h = [live |-> h.live, standing |-> h.standing,
                   edited |-> h.edited, entitled |-> h.entitled]
           /\ h.live \subseteq Courses /\ h.standing \subseteq Courses
           /\ h.edited \in BOOLEAN /\ h.entitled \in BOOLEAN
BY DEF Histories

LEMMA FreshHistories ==
    ASSUME CatalogueType
    PROVE  FromNow \in Histories /\ Blank \in Histories
BY LiveType DEF CatalogueType, FromNow, Blank, Histories

(* A visit that begins, and one that goes on, keep the history right. *)
LEMMA BeginKeeps ==
    ASSUME IInv, NEW v, Begin(v)
    PROVE  /\ CatalogueType' /\ HistoryInv' /\ Live' = Live /\ UNCHANGED catalogue
           /\ visit' = v
           /\ during'.live = Live /\ during'.standing = Live /\ during'.entitled = entitled
<1>1. UNCHANGED <<live, label, lesson, entitled>> /\ during' = FromNow /\ visit' = v
  BY DEF Begin, catalogue
<1>2. Live' = Live
  BY <1>1 DEF Live
<1>3. QED
  BY <1>1, <1>2, FreshHistories
  DEF IInv, CatalogueType, HistoryInv, FromNow, Begin

LEMMA AnswerKeeps ==
    ASSUME IInv, visit # Idle, NEW v, Answer(v)
    PROVE  /\ CatalogueType' /\ HistoryInv' /\ Live' = Live
           /\ UNCHANGED <<live, label, lesson, entitled, during>> /\ visit' = v
<1>1. UNCHANGED <<live, label, lesson, entitled, during>> /\ visit' = v
  BY DEF Answer, catalogue
<1>2. Live' = Live
  BY <1>1 DEF Live
<1>3. QED
  BY <1>1, <1>2 DEF IInv, CatalogueType, HistoryInv

(* A visit that ends leaves nothing to be right about. *)
LEMMA EndKeeps ==
    ASSUME IInv, visit' = Idle, during' = Blank, UNCHANGED catalogue
    PROVE  IInv'
<1>1. CatalogueType'
  BY FreshHistories DEF IInv, CatalogueType, catalogue
<1>2. VisitShape' /\ HistoryInv'
  BY DEF VisitShape, HistoryInv
<1>3. visit'.at = "idle" /\ visit' \notin Lists /\ visit' \notin Answers /\ visit' \notin Lectures
  BY DEF Idle, Lists, Answers, Lectures
<1>4. VisitInv'
  BY <1>3 DEF VisitInv, ShownInv, CursorInv, FoundInv, DetailInv, LessonInv, PaidInv
<1>5. QED
  BY <1>1, <1>2, <1>4 DEF IInv

-----------------------------------------------------------------------------
(* The pages of a list. *)

(* Nothing that is left is newer than what is on a page. *)
LEMMA PageIsNewest ==
    ASSUME NEW rest \in SUBSET Courses, NEW n \in Nat,
           NEW c \in rest, NEW p \in Page(rest, n), CreatedAt[c] >= CreatedAt[p]
    PROVE  c \in Page(rest, n)
<1> DEFINE newer(x) == {d \in rest : CreatedAt[d] > CreatedAt[x]}
<1>1. /\ \A d \in rest : CreatedAt[d] \in Nat
      /\ IsFiniteSet(rest)
      /\ p \in rest /\ Cardinality(newer(p)) < n
  BY CatalogueAssumption, FS_Subset DEF Page
<1>2. newer(c) \subseteq newer(p)
  BY <1>1
<1>3. IsFiniteSet(newer(p)) /\ IsFiniteSet(newer(c))
  BY <1>1, FS_Subset
<1>4. Cardinality(newer(c)) <= Cardinality(newer(p))
  BY <1>2, <1>3, FS_Subset
<1>5. Cardinality(newer(c)) \in Nat /\ Cardinality(newer(p)) \in Nat
  BY <1>3, FS_CardinalityType
<1>6. Cardinality(newer(c)) < n
  BY <1>1, <1>4, <1>5
<1>7. QED
  BY <1>6 DEF Page

LEMMA RestType ==
    ASSUME IInv PROVE Rest(visit) \subseteq Courses /\ Rest(visit) \subseteq Live
BY LiveType DEF IInv, Rest, Matching

LEMMA ReadLanguagesKeeps ==
    ASSUME IInv, ReadLanguages PROVE IInv'
<1> DEFINE v == [at |-> "languages", offered |-> LanguagesWithPublishedCourses]
<1>1. Begin(v)
  BY DEF ReadLanguages
<1>2. CatalogueType' /\ HistoryInv' /\ visit' = v
  BY <1>1, BeginKeeps
<1>3. LanguagesWithPublishedCourses \in SUBSET Languages
  BY LiveType DEF IInv, CatalogueType, LanguagesWithPublishedCourses, Languages
<1>4. visit' \in [at: {"languages"}, offered: SUBSET Languages]
  BY <1>2, <1>3
<1>5. VisitInv'
  BY <1>2 DEF VisitInv, ShownInv, CursorInv, FoundInv, DetailInv, LessonInv, PaidInv,
              Lists, Answers, Lectures
<1>6. QED
  BY <1>2, <1>4, <1>5 DEF IInv, VisitShape

LEMMA OpenListKeeps ==
    ASSUME IInv, OpenList PROVE IInv'
<1>1. visit.at = "languages" /\ visit # Idle
  BY KindOfVisit DEF OpenList, IInv
<1>2. PICK language \in visit.offered \cup {Anything} :
        Answer([at |-> "page", language |-> language, after |-> Unknown,
                shown |-> {}, twice |-> FALSE])
  BY DEF OpenList
<1>3. /\ CatalogueType' /\ HistoryInv' /\ Live' = Live
      /\ UNCHANGED <<live, label, during>>
      /\ visit' = [at |-> "page", language |-> language, after |-> Unknown,
                   shown |-> {}, twice |-> FALSE]
  BY <1>1, <1>2, AnswerKeeps
<1>4. visit.offered \subseteq Languages
  BY <1>1 DEF IInv, VisitShape, Idle, Lists, Answers, Details, Lectures
<1>5. visit' \in Lists
  BY <1>2, <1>3, <1>4 DEF Lists
<1>6. ShownInv' /\ FoundInv' /\ DetailInv' /\ LessonInv' /\ PaidInv'
  BY <1>3 DEF ShownInv, FoundInv, DetailInv, LessonInv, PaidInv, Answers, Lectures
<1>7. CursorInv'
  BY <1>3 DEF CursorInv, Rest
<1>8. QED
  BY <1>3, <1>5, <1>6, <1>7 DEF IInv, VisitShape, VisitInv

LEMMA EndOfList ==
    ASSUME IInv, visit.at = "page", Rest(visit) = {},
           Answer([visit EXCEPT !.at = "listed"])
    PROVE  IInv'
<1>1. visit \in Lists /\ visit # Idle
  BY KindOfVisit DEF IInv
<1>2. /\ CatalogueType' /\ HistoryInv' /\ Live' = Live
      /\ UNCHANGED <<live, label, during>>
      /\ visit' = [visit EXCEPT !.at = "listed"]
  BY <1>1, AnswerKeeps
<1>3. /\ visit' \in Lists /\ visit'.at = "listed" /\ visit'.twice = visit.twice
      /\ visit'.shown = visit.shown /\ visit'.after = visit.after
      /\ visit'.language = visit.language
  BY <1>1, <1>2 DEF Lists
<1>4. ShownInv'
  BY <1>1, <1>2, <1>3 DEF IInv, VisitInv, ShownInv
<1>5. Matching(visit.language)' = Matching(visit.language)
  BY <1>2 DEF Matching
<1>6. CursorInv'
  BY <1>1, <1>2, <1>3, <1>5 DEF IInv, VisitInv, CursorInv, Matching
<1>7. FoundInv' /\ DetailInv' /\ LessonInv' /\ PaidInv'
  BY <1>3 DEF FoundInv, DetailInv, LessonInv, PaidInv, Lists, Answers, Lectures
<1>8. QED
  BY <1>2, <1>3, <1>4, <1>6, <1>7 DEF IInv, VisitShape, VisitInv

(* A page: what it shows is new, and what it leaves is behind the cursor   *)
(* no more than before.                                                    *)
LEMMA NextOfList ==
    ASSUME IInv, visit.at = "page", NEW n \in PageSizes,
           NEW last \in Oldest(Page(Rest(visit), n)),
           Answer([visit EXCEPT
                     !.at = IF Page(Rest(visit), n) = Rest(visit) THEN "listed" ELSE "page",
                     !.after = CreatedAt[last],
                     !.shown = @ \cup Page(Rest(visit), n),
                     !.twice = @ \/ visit.shown \cap Page(Rest(visit), n) # {}])
    PROVE  IInv'
<1> DEFINE page == Page(Rest(visit), n)
<1>1. visit \in Lists /\ visit # Idle
  BY KindOfVisit DEF IInv
<1>2. /\ CatalogueType' /\ HistoryInv' /\ Live' = Live
      /\ UNCHANGED <<live, label, during>>
      /\ visit' = [visit EXCEPT
                     !.at = IF page = Rest(visit) THEN "listed" ELSE "page",
                     !.after = CreatedAt[last],
                     !.shown = @ \cup page,
                     !.twice = @ \/ visit.shown \cap page # {}]
  BY <1>1, AnswerKeeps
<1>3. /\ page \subseteq Rest(visit) /\ Rest(visit) \subseteq Courses /\ Rest(visit) \subseteq Live
      /\ last \in page /\ n \in Nat
      /\ \A c \in Courses : CreatedAt[c] \in Nat
      /\ \A c \in page : CreatedAt[last] <= CreatedAt[c]
  BY RestType, CatalogueAssumption DEF Page, Oldest
<1>4. /\ visit'.at = (IF page = Rest(visit) THEN "listed" ELSE "page")
      /\ visit'.after = CreatedAt[last] /\ visit'.language = visit.language
      /\ visit'.shown = visit.shown \cup page
      /\ visit'.twice = (visit.twice \/ visit.shown \cap page # {})
  BY <1>1, <1>2 DEF Lists
<1>5. visit' \in Lists
  <2>1. /\ visit.after \in Nat \cup {Unknown} /\ visit.shown \subseteq Courses
        /\ visit.twice \in BOOLEAN /\ CreatedAt[last] \in Nat
    BY <1>1, <1>3 DEF Lists
  <2>2. page \subseteq Courses /\ (visit.twice \/ visit.shown \cap page # {}) \in BOOLEAN
    BY <1>3
  <2>3. QED
    BY <1>1, <1>2, <2>1, <2>2 DEF Lists
<1>6. \A c \in visit.shown :
         visit.after \in Nat /\ CreatedAt[c] >= visit.after /\ c \in Courses
  BY <1>1, <1>3 DEF IInv, VisitInv, ShownInv, Lists
<1>7. \A c \in Rest(visit) : visit.after # Unknown => CreatedAt[c] < visit.after
  BY DEF Rest
<1>8. visit.shown \cap page = {}
  <2>1. ASSUME NEW c \in visit.shown \cap page PROVE FALSE
    <3>1. visit.after \in Nat /\ CreatedAt[c] >= visit.after /\ CreatedAt[c] \in Nat
      BY <1>3, <1>6
    <3>2. CreatedAt[c] < visit.after
      BY <1>3, <1>7, <3>1 DEF Unknown
    <3>3. QED
      BY <3>1, <3>2
  <2>2. QED
    BY <2>1
<1>9. ASSUME NEW c \in visit.shown \cup page PROVE CreatedAt[c] >= CreatedAt[last]
  <2>1. CASE c \in page
    BY <1>3, <2>1
  <2>2. CASE c \in visit.shown
    <3>1. /\ visit.after \in Nat /\ CreatedAt[c] >= visit.after
          /\ CreatedAt[c] \in Nat /\ CreatedAt[last] \in Nat
      BY <1>3, <1>6, <2>2
    <3>2. CreatedAt[last] < visit.after
      BY <1>3, <1>7, <3>1 DEF Unknown
    <3>3. QED
      BY <3>1, <3>2
  <2>3. QED
    BY <2>1, <2>2
<1>10. ShownInv'
  <2>1. ~visit.twice /\ visit.shown \subseteq during.live
    BY <1>1 DEF IInv, VisitInv, ShownInv
  <2>2. ~visit'.twice
    BY <1>4, <1>8, <2>1
  <2>3. visit'.shown \subseteq during'.live
    BY <1>1, <1>2, <1>3, <1>4, <2>1 DEF IInv, HistoryInv
  <2>4. CreatedAt[last] # Unknown
    BY <1>3 DEF Unknown
  <2>5. QED
    BY <1>4, <1>9, <2>2, <2>3, <2>4 DEF ShownInv
<1>11. Matching(visit.language)' = Matching(visit.language)
  BY <1>2 DEF Matching
<1>12. CursorInv'
  <2>1. SUFFICES ASSUME NEW c \in during.standing \cap Matching(visit.language),
                        c \notin visit'.shown
                 PROVE  visit'.at = "page" /\ c \in Rest(visit)'
    BY <1>2, <1>4, <1>11 DEF CursorInv, Matching
  <2>2. c \in Rest(visit) /\ c \notin page
    BY <1>1, <1>4, <2>1 DEF IInv, VisitInv, CursorInv
  <2>3. ~(CreatedAt[c] >= CreatedAt[last])
    BY <1>3, <2>2, PageIsNewest
  <2>4. CreatedAt[c] < CreatedAt[last]
    BY <1>3, <2>2, <2>3
  <2>5. QED
    BY <1>2, <1>4, <1>11, <2>1, <2>2, <2>4 DEF Rest, Matching
<1>13. FoundInv' /\ DetailInv' /\ LessonInv' /\ PaidInv'
  BY <1>4, <1>5 DEF FoundInv, DetailInv, LessonInv, PaidInv, Lists, Answers, Lectures
<1>14. QED
  BY <1>2, <1>5, <1>10, <1>12, <1>13 DEF IInv, VisitShape, VisitInv

LEMMA ReadPageKeeps ==
    ASSUME IInv, ReadPage PROVE IInv'
<1>1. visit.at = "page"
  BY DEF ReadPage
<1>2. CASE Rest(visit) = {} /\ Answer([visit EXCEPT !.at = "listed"])
  BY <1>1, <1>2, EndOfList
<1>3. CASE \E n \in PageSizes :
             LET page == Page(Rest(visit), n)
             IN  \E last \in Oldest(page) :
                   Answer([visit EXCEPT
                      !.at = IF page = Rest(visit) THEN "listed" ELSE "page",
                      !.after = CreatedAt[last],
                      !.shown = @ \cup page,
                      !.twice = @ \/ visit.shown \cap page # {}])
  BY <1>1, <1>3, NextOfList
<1>4. QED
  BY <1>2, <1>3 DEF ReadPage

-----------------------------------------------------------------------------
(* Search. *)
LEMMA FoundType ==
    ASSUME NEW query \in Queries, NEW matches \in SUBSET Courses,
           NEW v \in Found(query, matches)
    PROVE  v \in Answers /\ v.results \subseteq matches
<1>1. PICK results \in Best(matches) :
        v = [at |-> "found", query |-> query, results |-> results,
             truncated |-> Truncated(results)]
  BY DEF Found
<1>2. results \subseteq matches /\ Truncated(results) \in BOOLEAN
  BY DEF Best, Truncated
<1>3. QED
  BY <1>1, <1>2 DEF Answers

LEMMA SearchFullTextKeeps ==
    ASSUME IInv, SearchFullText PROVE IInv'
<1>1. PICK query \in Queries :
        IF Exact(query) = {} THEN Begin([at |-> "similar", query |-> query])
                             ELSE \E v \in Found(query, Exact(query)) : Begin(v)
  BY DEF SearchFullText
<1>2. Exact(query) \subseteq Live /\ Exact(query) \subseteq Courses
  BY LiveType DEF IInv, Exact
<1>3. CASE Begin([at |-> "similar", query |-> query])
  <2>1. CatalogueType' /\ HistoryInv' /\ visit' = [at |-> "similar", query |-> query]
    BY <1>3, BeginKeeps
  <2>2. VisitInv'
    BY <2>1 DEF VisitInv, ShownInv, CursorInv, FoundInv, DetailInv, LessonInv, PaidInv,
                Lists, Answers, Lectures
  <2>3. visit' \in [at: {"similar"}, query: Queries]
    BY <2>1
  <2>4. QED
    BY <2>1, <2>2, <2>3 DEF IInv, VisitShape
<1>4. CASE \E v \in Found(query, Exact(query)) : Begin(v)
  <2>1. PICK v \in Found(query, Exact(query)) : Begin(v)
    BY <1>4
  <2>2. /\ CatalogueType' /\ HistoryInv' /\ visit' = v /\ during'.live = Live
        /\ v \in Answers /\ v.results \subseteq Live
    BY <1>2, <2>1, BeginKeeps, FoundType
  <2>3. VisitInv'
    BY <2>2 DEF VisitInv, ShownInv, CursorInv, FoundInv, DetailInv, LessonInv, PaidInv,
                Lists, Answers, Lectures
  <2>4. QED
    BY <2>2, <2>3 DEF IInv, VisitShape
<1>5. QED
  BY <1>1, <1>3, <1>4

LEMMA SearchSimilarKeeps ==
    ASSUME IInv, SearchSimilar PROVE IInv'
<1>1. visit.at = "similar" /\ visit # Idle
  BY KindOfVisit DEF SearchSimilar, IInv
<1>2. visit.query \in Queries
  BY <1>1 DEF IInv, VisitShape, Lists, Answers, Details, Lectures, Idle
<1>3. PICK v \in Found(visit.query, Similar(visit.query)) : Answer(v)
  BY DEF SearchSimilar
<1>4. Similar(visit.query) \subseteq Live /\ Similar(visit.query) \subseteq Courses
  BY LiveType DEF IInv, Similar
<1>5. /\ CatalogueType' /\ HistoryInv' /\ visit' = v /\ during' = during
      /\ v \in Answers /\ v.results \subseteq Live
  BY <1>1, <1>2, <1>3, <1>4, AnswerKeeps, FoundType
<1>6. v.results \subseteq during.live
  BY <1>1, <1>5 DEF IInv, HistoryInv
<1>7. VisitInv'
  BY <1>5, <1>6 DEF VisitInv, ShownInv, CursorInv, FoundInv, DetailInv, LessonInv, PaidInv,
                    Lists, Answers, Lectures
<1>8. QED
  BY <1>5, <1>7 DEF IInv, VisitShape

-----------------------------------------------------------------------------
(* The page of a course. *)
LEMMA OpenDetailKeeps ==
    ASSUME IInv, OpenDetail PROVE IInv'
<1>1. PICK c \in Live :
        Begin([at |-> "outline", course |-> c, saw |-> label[c],
               total |-> TotalDuration(c), outline |-> {}, related |-> {}])
  BY DEF OpenDetail
<1> DEFINE t == TotalDuration(c)
<1>2. /\ CatalogueType' /\ HistoryInv' /\ during'.live = Live
      /\ visit' = [at |-> "outline", course |-> c, saw |-> label[c],
                   total |-> t, outline |-> {}, related |-> {}]
  BY <1>1, BeginKeeps
<1> HIDE DEF t
<1>3. c \in Courses /\ label[c] \in Labels
  BY LiveType DEF IInv, CatalogueType
<1>4. visit' \in Details(t)
  BY <1>2, <1>3 DEF Details
<1>5. VisitInv'
  BY <1>2 DEF VisitInv, ShownInv, CursorInv, FoundInv, DetailInv, LessonInv, PaidInv,
              Lists, Answers, Lectures
<1>6. QED
  BY <1>2, <1>4, <1>5 DEF IInv, VisitShape

LEMMA ReadOutlineKeeps ==
    ASSUME IInv, ReadOutline PROVE IInv'
<1>1. visit.at = "outline" /\ visit # Idle
  BY KindOfVisit DEF ReadOutline, IInv
<1>2. PICK t : visit \in Details(t)
  BY <1>1, KindOfVisit DEF IInv
<1> DEFINE outline == {l \in Lessons : CourseOf[l] = visit.course /\ Exists(l)}
<1>3. /\ CatalogueType' /\ HistoryInv' /\ during' = during
      /\ visit' = [visit EXCEPT !.at = "related", !.outline = outline]
  BY <1>1, AnswerKeeps DEF ReadOutline
<1>4. outline \subseteq Lessons
  OBVIOUS
<1> HIDE DEF outline
<1>5. /\ visit' \in Details(t) /\ visit'.at = "related"
      /\ visit'.course = visit.course /\ visit'.related = visit.related
  BY <1>2, <1>3, <1>4 DEF Details
<1>6. DetailInv'
  BY <1>1, <1>3, <1>5 DEF IInv, VisitInv, DetailInv
<1>7. VisitInv'
  BY <1>5, <1>6 DEF VisitInv, ShownInv, CursorInv, FoundInv, LessonInv, PaidInv,
                    Lists, Answers, Lectures
<1>8. QED
  BY <1>3, <1>5, <1>7 DEF IInv, VisitShape

LEMMA ReadRelatedKeeps ==
    ASSUME IInv, ReadRelated PROVE IInv'
<1>1. visit.at = "related" /\ visit # Idle
  BY KindOfVisit DEF ReadRelated, IInv
<1>2. PICK t : visit \in Details(t)
  BY <1>1, KindOfVisit DEF IInv
<1>3. /\ CatalogueType' /\ HistoryInv' /\ during' = during
      /\ visit' = [visit EXCEPT !.at = "detail", !.related = Related(visit)]
  BY <1>1, AnswerKeeps DEF ReadRelated
<1>4. Related(visit) \subseteq Live /\ Related(visit) \subseteq Courses
  BY LiveType DEF IInv, Related, Candidates
<1>5. /\ visit' \in Details(t) /\ visit'.at = "detail"
      /\ visit'.course = visit.course /\ visit'.related = Related(visit)
  BY <1>2, <1>3, <1>4 DEF Details
<1>6. DetailInv'
  BY <1>1, <1>3, <1>4, <1>5 DEF IInv, VisitInv, DetailInv, HistoryInv
<1>7. VisitInv'
  BY <1>5, <1>6 DEF VisitInv, ShownInv, CursorInv, FoundInv, LessonInv, PaidInv,
                    Lists, Answers, Lectures
<1>8. QED
  BY <1>3, <1>5, <1>7 DEF IInv, VisitShape

-----------------------------------------------------------------------------
(* Lessons. *)
LEMMA FindLessonKeeps ==
    ASSUME IInv, FindLesson PROVE IInv'
<1>1. PICK reader \in Readers, route \in Routes, l \in Lessons :
        /\ VisibleTo(reader, l)
        /\ Begin([at |-> "gate", reader |-> reader, route |-> route, lesson |-> l])
  BY DEF FindLesson
<1>2. /\ CatalogueType' /\ HistoryInv' /\ during'.live = Live
      /\ visit' = [at |-> "gate", reader |-> reader, route |-> route, lesson |-> l]
  BY <1>1, BeginKeeps
<1>3. visit' \in Lectures
  BY <1>2 DEF Lectures
<1>4. reader \in {"anonymous", "learner"} => CourseOf[l] \in Live
  BY <1>1 DEF VisibleTo
<1>5. VisitInv'
  BY <1>2, <1>4 DEF VisitInv, ShownInv, CursorInv, FoundInv, DetailInv, LessonInv, PaidInv,
                    Lists, Answers, Lectures
<1>6. QED
  BY <1>2, <1>3, <1>5 DEF IInv, VisitShape

LEMMA RefuseKeeps ==
    ASSUME IInv, Refuse PROVE IInv'
BY EndKeeps DEF Refuse

(* The gates of a lesson: the next step is taken by those who may read it. *)
LEMMA GoOnKeeps ==
    ASSUME IInv, visit.at \in {"gate", "mint"}, NEW step \in {"mint", "body"},
           MayRead(visit.reader, visit.lesson) \/ visit.at = "mint",
           Answer([visit EXCEPT !.at = step])
    PROVE  IInv'
<1>1. visit \in Lectures /\ visit # Idle
  BY KindOfVisit DEF IInv
<1>2. /\ CatalogueType' /\ HistoryInv' /\ during' = during
      /\ visit' = [visit EXCEPT !.at = step]
  BY <1>1, AnswerKeeps
<1>3. /\ visit' \in Lectures /\ visit'.at = step
      /\ visit'.reader = visit.reader /\ visit'.lesson = visit.lesson
      /\ visit.reader \in Readers
  BY <1>1, <1>2 DEF Lectures
<1>4. LessonInv'
  BY <1>1, <1>2, <1>3 DEF IInv, VisitInv, LessonInv
<1>5. PaidInv'
  <2>1. CASE MayRead(visit.reader, visit.lesson)
    BY <1>1, <1>2, <1>3, <2>1 DEF PaidInv, MayRead, IInv, HistoryInv
  <2>2. CASE visit.at = "mint"
    BY <1>1, <1>2, <1>3, <2>2 DEF PaidInv, IInv, VisitInv
  <2>3. QED
    BY <2>1, <2>2
<1>6. ShownInv' /\ CursorInv' /\ FoundInv' /\ DetailInv'
  BY <1>3 DEF ShownInv, CursorInv, FoundInv, DetailInv, Lists, Answers
<1>7. QED
  BY <1>2, <1>3, <1>4, <1>5, <1>6 DEF IInv, VisitShape, VisitInv

LEMMA PassKeeps ==
    ASSUME IInv, visit.at = "gate", NEW step \in {"mint", "body"}, Pass(step)
    PROVE  IInv'
<1>1. CASE ObjectPermission(visit)
  BY <1>1, GoOnKeeps DEF Pass, ObjectPermission
<1>2. CASE ~ObjectPermission(visit)
  BY <1>2, RefuseKeeps DEF Pass
<1>3. QED
  BY <1>1, <1>2

LEMMA LessonsKeep ==
    ASSUME IInv, ServeLesson \/ DecideToPlay \/ MintToken \/ ServePanel
    PROVE  IInv'
<1>1. CASE ServeLesson
  BY <1>1, PassKeeps DEF ServeLesson
<1>2. CASE DecideToPlay
  BY <1>2, PassKeeps DEF DecideToPlay
<1>3. CASE MintToken
  BY <1>3, GoOnKeeps, RefuseKeeps DEF MintToken
<1>4. CASE ServePanel
  BY <1>4, PassKeeps, RefuseKeeps DEF ServePanel
<1>5. QED
  BY <1>1, <1>2, <1>3, <1>4

LEMMA LeaveKeeps ==
    ASSUME IInv, Leave PROVE IInv'
BY EndKeeps DEF Leave

-----------------------------------------------------------------------------
(* What changes meanwhile.  A history that goes on describing the visit,   *)
(* and keeps the courses that stand as they were, keeps the invariant.     *)
LEMMA MeanwhileKeeps ==
    ASSUME IInv, NEW h \in Histories, Meanwhile(h), CatalogueType',
           visit # Idle => /\ Live' \subseteq h.live
                           /\ h.standing \subseteq Live'
                           /\ entitled' => h.entitled,
           during.live \subseteq h.live,
           h.standing \subseteq during.standing,
           during.entitled => h.entitled,
           \A c \in h.standing : label'[c] = label[c]
    PROVE  IInv'
<1>1. UNCHANGED visit /\ during' = IF visit = Idle THEN Blank ELSE h
  BY DEF Meanwhile
<1>2. VisitShape'
  BY <1>1 DEF IInv, VisitShape
<1>3. CASE visit = Idle
  <2>1. HistoryInv'
    BY <1>1, <1>3 DEF HistoryInv
  <2>2. VisitInv'
    BY <1>1, <1>3 DEF VisitInv, ShownInv, CursorInv, FoundInv, DetailInv, LessonInv, PaidInv,
                      Idle, Lists, Answers, Lectures
  <2>3. QED
    BY <1>2, <2>1, <2>2 DEF IInv
<1>4. CASE visit # Idle
  <2>1. during' = h
    BY <1>1, <1>4
  <2>2. HistoryInv'
    BY <1>1, <1>4, <2>1 DEF HistoryInv
  <2>3. ShownInv' /\ FoundInv' /\ DetailInv' /\ LessonInv' /\ PaidInv'
    BY <1>1, <2>1 DEF IInv, VisitInv, ShownInv, FoundInv, DetailInv, LessonInv, PaidInv
  <2>4. CursorInv'
    <3>1. SUFFICES ASSUME visit \in Lists,
                          NEW c \in h.standing, c \in Matching(visit.language)'
                   PROVE  c \in visit.shown \/ (visit.at = "page" /\ c \in Rest(visit)')
      BY <1>1, <2>1 DEF CursorInv, Matching
    <3>2. c \in Live /\ label'[c] = label[c] /\ c \in during.standing
      BY <1>4, <3>1 DEF IInv, HistoryInv
    <3>3. c \in Matching(visit.language)
      BY <1>1, <3>1, <3>2 DEF Matching
    <3>4. c \in visit.shown \/ (visit.at = "page" /\ c \in Rest(visit))
      BY <3>1, <3>2, <3>3 DEF IInv, VisitInv, CursorInv
    <3>5. c \in Rest(visit) => c \in Rest(visit)'
      BY <1>1, <3>1 DEF Rest, Matching
    <3>6. QED
      BY <3>4, <3>5
  <2>5. QED
    BY <1>2, <2>2, <2>3, <2>4 DEF IInv, VisitInv
<1>5. QED
  BY <1>3, <1>4

LEMMA PublishKeeps ==
    ASSUME IInv, NEW c \in Courses, Publish(c) PROVE IInv'
<1> DEFINE h == [during EXCEPT !.live = @ \cup {c}]
<1>1. CatalogueType /\ during \in Histories
  BY DEF IInv, CatalogueType
<1>2. live' = <<c>> \o live /\ Meanwhile(h) /\ UNCHANGED <<label, lesson, entitled>>
  BY DEF Publish
<1>3. live' \in Seq(Courses) /\ Live' = Live \cup {c}
  BY <1>1, <1>2, PublishedLive DEF Live
<1>4. /\ h \in Histories /\ h.live = during.live \cup {c}
      /\ h.standing = during.standing /\ h.entitled = during.entitled
  BY <1>1 DEF Histories
<1>5. CatalogueType'
  <2>1. during' \in Histories
    BY <1>1, <1>2, <1>4, FreshHistories DEF Meanwhile
  <2>2. QED
    BY <1>1, <1>2, <1>3, <2>1 DEF CatalogueType
<1> HIDE DEF h
<1>6. QED
  BY <1>2, <1>3, <1>4, <1>5, MeanwhileKeeps DEF IInv, HistoryInv

LEMMA WithdrawKeeps ==
    ASSUME IInv, NEW c \in Courses, Withdraw(c) PROVE IInv'
<1> DEFINE h == [during EXCEPT !.standing = @ \ {c}]
<1>1. CatalogueType /\ during \in Histories
  BY DEF IInv, CatalogueType
<1>2. PICK i \in DOMAIN live :
        /\ live[i] = c
        /\ live' = SubSeq(live, 1, i - 1) \o SubSeq(live, i + 1, Len(live))
  BY DEF Withdraw
<1>3. Meanwhile(h) /\ UNCHANGED <<label, lesson, entitled>>
  BY DEF Withdraw
<1>4. live' \in Seq(Courses) /\ Live' \subseteq Live /\ Live \ {c} \subseteq Live'
  BY <1>1, <1>2, WithdrawnLive DEF Live
<1>5. /\ h \in Histories /\ h.live = during.live
      /\ h.standing = during.standing \ {c} /\ h.entitled = during.entitled
  BY <1>1 DEF Histories
<1>6. CatalogueType'
  <2>1. during' \in Histories
    BY <1>1, <1>3, <1>5, FreshHistories DEF Meanwhile
  <2>2. QED
    BY <1>1, <1>3, <1>4, <2>1 DEF CatalogueType
<1> HIDE DEF h
<1>7. QED
  BY <1>3, <1>4, <1>5, <1>6, MeanwhileKeeps DEF IInv, HistoryInv

LEMMA EditCourseKeeps ==
    ASSUME IInv, NEW c \in Courses, EditCourse(c) PROVE IInv'
<1> DEFINE h == [during EXCEPT !.standing = @ \ {c}]
<1>1. CatalogueType /\ during \in Histories
  BY DEF IInv, CatalogueType
<1>2. PICK new \in Labels : label' = [label EXCEPT ![c] = new]
  BY DEF EditCourse
<1>3. Meanwhile(h) /\ UNCHANGED <<live, lesson, entitled>>
  BY DEF EditCourse
<1>4. Live' = Live
  BY <1>3 DEF Live
<1>5. /\ h \in Histories /\ h.live = during.live
      /\ h.standing = during.standing \ {c} /\ h.entitled = during.entitled
  BY <1>1 DEF Histories
<1>6. /\ label' \in [Courses -> Labels]
      /\ \A d \in Courses \ {c} : label'[d] = label[d]
  BY <1>1, <1>2 DEF CatalogueType
<1>7. CatalogueType'
  <2>1. during' \in Histories
    BY <1>1, <1>3, <1>5, FreshHistories DEF Meanwhile
  <2>2. QED
    BY <1>1, <1>3, <1>6, <2>1 DEF CatalogueType
<1>8. \A d \in h.standing : label'[d] = label[d]
  BY <1>5, <1>6 DEF Histories
<1> HIDE DEF h
<1>9. QED
  BY <1>3, <1>4, <1>5, <1>7, <1>8, MeanwhileKeeps DEF IInv, HistoryInv

LEMMA ChangeLessonKeeps ==
    ASSUME IInv, NEW l \in Lessons, ChangeLesson(l) PROVE IInv'
<1> DEFINE h == [during EXCEPT !.edited = TRUE]
<1>1. CatalogueType /\ during \in Histories
  BY DEF IInv, CatalogueType
<1>2. PICK new \in Assets : lesson' = [lesson EXCEPT ![l] = new]
  BY DEF ChangeLesson
<1>3. Meanwhile(h) /\ UNCHANGED <<live, label, entitled>>
  BY DEF ChangeLesson
<1>4. Live' = Live
  BY <1>3 DEF Live
<1>5. /\ h \in Histories /\ h.live = during.live
      /\ h.standing = during.standing /\ h.entitled = during.entitled
  BY <1>1 DEF Histories
<1>6. CatalogueType'
  <2>1. during' \in Histories
    BY <1>1, <1>3, <1>5, FreshHistories DEF Meanwhile
  <2>2. QED
    BY <1>1, <1>2, <1>3, <2>1 DEF CatalogueType
<1> HIDE DEF h
<1>7. QED
  BY <1>3, <1>4, <1>5, <1>6, MeanwhileKeeps DEF IInv, HistoryInv

LEMMA ChangeAccessKeeps ==
    ASSUME IInv, ChangeAccess PROVE IInv'
<1> DEFINE h == [during EXCEPT !.entitled = TRUE]
<1>1. CatalogueType /\ during \in Histories
  BY DEF IInv, CatalogueType
<1>2. entitled' = ~entitled /\ Meanwhile(h) /\ UNCHANGED <<live, label, lesson>>
  BY DEF ChangeAccess
<1>3. Live' = Live
  BY <1>2 DEF Live
<1>4. /\ h \in Histories /\ h.live = during.live
      /\ h.standing = during.standing /\ h.entitled = TRUE
  BY <1>1 DEF Histories
<1>5. CatalogueType'
  <2>1. during' \in Histories
    BY <1>1, <1>2, <1>4, FreshHistories DEF Meanwhile
  <2>2. QED
    BY <1>1, <1>2, <2>1 DEF CatalogueType
<1> HIDE DEF h
<1>6. QED
  BY <1>2, <1>3, <1>4, <1>5, MeanwhileKeeps DEF IInv, HistoryInv

-----------------------------------------------------------------------------
LEMMA InitHolds == Init => IInv
<1> SUFFICES ASSUME Init PROVE IInv
  OBVIOUS
<1>1. live \in Seq(Courses) /\ Live = {}
  BY DEF Init, Live, Range
<1>2. CatalogueType
  BY <1>1 DEF Init, CatalogueType, Assets, Histories, Blank
<1>3. VisitShape /\ HistoryInv
  BY DEF Init, VisitShape, HistoryInv
<1>4. VisitInv
  BY DEF Init, VisitInv, ShownInv, CursorInv, FoundInv, DetailInv, LessonInv, PaidInv,
         Idle, Lists, Answers, Lectures
<1>5. QED
  BY <1>2, <1>3, <1>4 DEF IInv

LEMMA StutterKeeps ==
    ASSUME IInv, UNCHANGED vars PROVE IInv'
BY DEF vars, catalogue, IInv, CatalogueType, VisitShape, HistoryInv, Live, VisitInv,
       ShownInv, CursorInv, Rest, Matching, FoundInv, DetailInv, LessonInv, PaidInv

LEMMA NextHolds == IInv /\ [Next]_vars => IInv'
<1> SUFFICES ASSUME IInv, [Next]_vars PROVE IInv'
  OBVIOUS
<1>1. CASE ReadLanguages \/ OpenList \/ ReadPage
  BY <1>1, ReadLanguagesKeeps, OpenListKeeps, ReadPageKeeps
<1>2. CASE SearchFullText \/ SearchSimilar
  BY <1>2, SearchFullTextKeeps, SearchSimilarKeeps
<1>3. CASE OpenDetail \/ ReadOutline \/ ReadRelated
  BY <1>3, OpenDetailKeeps, ReadOutlineKeeps, ReadRelatedKeeps
<1>4. CASE FindLesson \/ ServeLesson \/ DecideToPlay \/ MintToken \/ ServePanel
  BY <1>4, FindLessonKeeps, LessonsKeep
<1>5. CASE Leave
  BY <1>5, LeaveKeeps
<1>6. CASE \E c \in Courses : Publish(c) \/ Withdraw(c) \/ EditCourse(c)
  BY <1>6, PublishKeeps, WithdrawKeeps, EditCourseKeeps
<1>7. CASE (\E l \in Lessons : ChangeLesson(l)) \/ ChangeAccess
  BY <1>7, ChangeLessonKeeps, ChangeAccessKeeps
<1>8. CASE UNCHANGED vars
  BY <1>8, StutterKeeps
<1>9. QED
  BY <1>1, <1>2, <1>3, <1>4, <1>5, <1>6, <1>7, <1>8 DEF Next

(* The history of a visit and the cursor of a list keep what they are      *)
(* meant to say, in every reachable state (ReadPage: CursorPagination).    *)
THEOREM InvariantHolds == Spec => []IInv
<1>1. Init => IInv
  BY InitHolds
<1>2. IInv /\ [Next]_vars => IInv'
  BY NextHolds
<1>3. QED
  BY <1>1, <1>2, PTL DEF Spec

(* Nothing is shown, by a list, a search, a page or a lesson, that was not *)
(* published at some moment of the visit (published_courses,               *)
(* lessons_visible_to).                                                    *)
THEOREM ShownIsPublished == Spec => []OnlyPublishedIsShown
<1>1. IInv => OnlyPublishedIsShown
  <2> SUFFICES ASSUME IInv PROVE Shown \subseteq during.live
    BY DEF OnlyPublishedIsShown
  <2>1. CASE visit.at \in {"page", "listed"}
    BY <2>1, KindOfVisit DEF IInv, VisitInv, ShownInv, Shown
  <2>2. CASE visit.at = "found"
    BY <2>2, KindOfVisit DEF IInv, VisitInv, FoundInv, Shown
  <2>3. CASE visit.at = "detail"
    BY <2>3 DEF IInv, VisitInv, DetailInv, Shown
  <2>4. CASE visit.at = "body"
    BY <2>4, KindOfVisit DEF IInv, VisitInv, LessonInv, Shown
  <2>5. CASE visit.at \notin {"page", "listed", "found", "detail", "body"}
    BY <2>5 DEF Shown
  <2>6. QED
    BY <2>1, <2>2, <2>3, <2>4, <2>5
<1>2. QED
  BY <1>1, InvariantHolds, PTL

(* A cursor neither repeats nor skips: a list read to its end has shown    *)
(* every matching course that stood all along, and none twice, for any     *)
(* number of courses and any page sizes (CursorPagination).                *)
THEOREM ListsAreWhole == Spec => []NothingIsMissedOrRepeated
<1>1. IInv => NothingIsMissedOrRepeated
  <2> SUFFICES ASSUME IInv, visit.at \in {"page", "listed"}
               PROVE  /\ ~visit.twice
                      /\ visit.at = "listed" =>
                           during.standing \cap Matching(visit.language) \subseteq visit.shown
    BY DEF NothingIsMissedOrRepeated
  <2>1. visit \in Lists
    BY KindOfVisit DEF IInv
  <2>2. QED
    BY <2>1 DEF IInv, VisitInv, ShownInv, CursorInv
<1>2. QED
  BY <1>1, InvariantHolds, PTL

(* Whichever route serves it, the body, the token or the words of a paid   *)
(* lesson reach its owner, an administrator, or a learner whose account    *)
(* had access at some moment of the visit (IsEntitledToLesson).            *)
THEOREM BodiesArePaidFor == Spec => []PaidBodiesArePaidFor
<1>1. IInv => PaidBodiesArePaidFor
  BY KindOfVisit DEF IInv, VisitInv, PaidInv, PaidBodiesArePaidFor
<1>2. QED
  BY <1>1, InvariantHolds, PTL

-----------------------------------------------------------------------------
(***************************************************************************)
(* Sums over lessons.  MapThenSumSet adds in an order nobody chose, so     *)
(* what it adds up to is compared with a set that has as many elements:    *)
(* the seconds of each lesson, one by one.                                 *)
(***************************************************************************)
Moments(s, w) == {p \in s \X Nat : p[2] < w[p[1]]}
Pick(s) == CHOOSE l \in s : TRUE

(* A family of sets of lessons has a member that contains no other.        *)
LEMMA SmallestSet ==
    ASSUME NEW F \in SUBSET SUBSET Lessons, F # {}
    PROVE  \E s \in F : \A u \in F : u \subseteq s => u = s
<1>1. F \subseteq FiniteSubsetsOf(Lessons)
  BY CatalogueAssumption, FS_Subset DEF FiniteSubsetsOf
<1>2. \E s \in F : \A u \in F : <<u, s>> \notin StrictSubsetOrdering(Lessons)
  BY <1>1, FS_StrictSubsetOrderingWellFounded, WFMin
<1>3. QED
  BY <1>2 DEF StrictSubsetOrdering

LEMMA MomentsOfOneMore ==
    ASSUME NEW s \in SUBSET Lessons, NEW w \in [Lessons -> Nat], NEW l \in s,
           IsFiniteSet(Moments(s \ {l}, w))
    PROVE  /\ IsFiniteSet(Moments(s, w))
           /\ Cardinality(Moments(s, w)) = w[l] + Cardinality(Moments(s \ {l}, w))
<1> DEFINE own == {l} \X (0..(w[l] - 1))
           others == Moments(s \ {l}, w)
<1>0. w[l] \in Nat /\ \A k \in s : w[k] \in Nat
  OBVIOUS
<1>1. IsFiniteSet(own) /\ Cardinality(own) = w[l]
  <2>1. IsFiniteSet({l}) /\ Cardinality({l}) = 1
    BY FS_Singleton
  <2>2. IsFiniteSet(0..(w[l] - 1)) /\ Cardinality(0..(w[l] - 1)) = w[l]
    BY <1>0, FS_Interval
  <2> DEFINE one == {l}
             each == 0..(w[l] - 1)
  <2> HIDE DEF one, each
  <2>3. /\ IsFiniteSet(one \X each)
        /\ Cardinality(one \X each) = Cardinality(one) * Cardinality(each)
    BY <2>1, <2>2, FS_Product DEF one, each
  <2>4. Cardinality(one) = 1 /\ Cardinality(each) = w[l]
    BY <2>1, <2>2 DEF one, each
  <2>5. QED
    BY <1>0, <2>3, <2>4 DEF one, each
<1>2. Moments(s, w) = own \cup others
  BY <1>0 DEF Moments
<1>3. own \cap others = {}
  BY DEF Moments
<1> HIDE DEF own, others
<1>4. IsFiniteSet(others) /\ Cardinality(others) \in Nat
  BY FS_CardinalityType DEF others
<1>5. /\ IsFiniteSet(own \cup others)
      /\ Cardinality(own \cup others) = Cardinality(own) + Cardinality(others)
  <2>1. Cardinality(own \cap others) = 0
    BY <1>3, FS_EmptySet
  <2>2. /\ IsFiniteSet(own \cup others)
        /\ Cardinality(own \cup others)
             = Cardinality(own) + Cardinality(others) - Cardinality(own \cap others)
    BY <1>1, <1>4, FS_Union
  <2>3. QED
    BY <1>0, <1>1, <1>4, <2>1, <2>2
<1>6. QED
  BY <1>1, <1>2, <1>5 DEF others

LEMMA MomentsAreFinite ==
    ASSUME NEW s \in SUBSET Lessons, NEW w \in [Lessons -> Nat]
    PROVE  IsFiniteSet(Moments(s, w)) /\ Cardinality(Moments(s, w)) \in Nat
<1> DEFINE F == {u \in SUBSET Lessons : ~IsFiniteSet(Moments(u, w))}
<1>1. F = {}
  <2>1. SUFFICES ASSUME F # {} PROVE FALSE
    OBVIOUS
  <2>2. PICK u \in F : \A t \in F : t \subseteq u => t = u
    <3>1. F \in SUBSET SUBSET Lessons
      OBVIOUS
    <3> HIDE DEF F
    <3>2. QED
      BY <2>1, <3>1, SmallestSet
  <2>3. CASE u = {}
    <3>1. Moments(u, w) = {}
      BY <2>3 DEF Moments
    <3>2. QED
      BY <3>1, FS_EmptySet
  <2>4. CASE u # {}
    <3>1. PICK l \in u : TRUE
      BY <2>4
    <3>2. u \ {l} \notin F
      BY <2>2, <3>1
    <3>3. QED
      BY <2>2, <3>1, <3>2, MomentsOfOneMore
  <2>5. QED
    BY <2>3, <2>4
<1>2. QED
  BY <1>1, FS_CardinalityType

(* The function a sum is the last value of: the number of moments solves   *)
(* its equation, and nothing else does.                                    *)
LEMMA SumIsMoments ==
    ASSUME NEW S \in SUBSET Lessons, NEW w \in [Lessons -> Nat]
    PROVE  LET adds(g) == g = [s \in SUBSET S |->
                                 IF s = {} THEN 0 ELSE w[Pick(s)] + g[s \ {Pick(s)}]]
           IN  /\ \E g : adds(g)
               /\ \A g : adds(g) => g[S] = Cardinality(Moments(S, w))
<1> DEFINE adds(g) == g = [s \in SUBSET S |->
                             IF s = {} THEN 0 ELSE w[Pick(s)] + g[s \ {Pick(s)}]]
           number(s) == Cardinality(Moments(s, w))
           f == [s \in SUBSET S |-> number(s)]
<1>1. number({}) = 0
  <2>1. Moments({}, w) = {}
    BY DEF Moments
  <2>2. QED
    BY <2>1, FS_EmptySet
<1>2. ASSUME NEW s \in SUBSET S, s # {}
      PROVE  /\ Pick(s) \in s
             /\ number(s) = w[Pick(s)] + number(s \ {Pick(s)})
  <2>1. Pick(s) \in s
    BY <1>2 DEF Pick
  <2>2. QED
    BY <2>1, MomentsAreFinite, MomentsOfOneMore
<1> HIDE DEF number
<1>3. adds(f)
  <2>1. \A s \in SUBSET S :
          number(s) = IF s = {} THEN 0 ELSE w[Pick(s)] + f[s \ {Pick(s)}]
    BY <1>1, <1>2
  <2>2. QED
    BY <2>1
<1>4. ASSUME NEW g, adds(g)
      PROVE  g[S] = number(S)
  <2> DEFINE F == {s \in SUBSET S : g[s] # number(s)}
  <2>0. \A s \in SUBSET S : g[s] = IF s = {} THEN 0 ELSE w[Pick(s)] + g[s \ {Pick(s)}]
    BY <1>4
  <2>1. F = {}
    <3>1. SUFFICES ASSUME F # {} PROVE FALSE
      OBVIOUS
    <3>2. PICK s \in F : \A t \in F : t \subseteq s => t = s
      <4>1. F \in SUBSET SUBSET Lessons
        OBVIOUS
      <4> HIDE DEF F
      <4>2. QED
        BY <3>1, <4>1, SmallestSet
    <3>3. s # {}
      BY <1>1, <2>0, <3>2
    <3>4. g[s \ {Pick(s)}] = number(s \ {Pick(s)})
      BY <1>2, <3>2, <3>3
    <3>5. QED
      BY <1>2, <2>0, <3>2, <3>3, <3>4
  <2>2. QED
    BY <2>1
<1>5. QED
  BY <1>3, <1>4 DEF number

LEMMA SumOfSeconds ==
    ASSUME NEW S \in SUBSET Lessons
    PROVE  MapThenSumSet(LAMBDA l : Seconds[l], S) = Cardinality(Moments(S, Seconds))
<1> DEFINE adds(g) == g = [s \in SUBSET S |->
                             IF s = {} THEN 0 ELSE Seconds[Pick(s)] + g[s \ {Pick(s)}]]
           sum == CHOOSE g : adds(g)
<1>1. Seconds \in [Lessons -> Nat]
  BY CatalogueAssumption
<1>2. /\ \E g : adds(g)
      /\ \A g : adds(g) => g[S] = Cardinality(Moments(S, Seconds))
  BY <1>1, SumIsMoments
<1>3. adds(sum)
  BY <1>2, Zenon
<1>4. MapThenSumSet(LAMBDA l : Seconds[l], S) = sum[S]
  BY DEF MapThenSumSet, MapThenFoldSet, Pick
<1> HIDE DEF sum, adds
<1>5. sum[S] = Cardinality(Moments(S, Seconds))
  BY <1>2, <1>3
<1>6. QED
  BY <1>4, <1>5, Zenon

(* What the outline adds up to: the seconds of the lessons with an asset.  *)
LEMMA SumOfOutline ==
    ASSUME NEW S \in SUBSET Lessons
    PROVE  MapThenSumSet(LAMBDA l : IF HasAsset(l) THEN Seconds[l] ELSE 0, S)
             = Cardinality(Moments({l \in S : HasAsset(l)}, Seconds))
<1> DEFINE w == [l \in Lessons |-> IF HasAsset(l) THEN Seconds[l] ELSE 0]
           adds(g) == g = [s \in SUBSET S |->
                             IF s = {} THEN 0 ELSE w[Pick(s)] + g[s \ {Pick(s)}]]
           shows(g) == g = [s \in SUBSET S |->
                             IF s = {} THEN 0
                             ELSE (IF HasAsset(Pick(s)) THEN Seconds[Pick(s)] ELSE 0)
                                    + g[s \ {Pick(s)}]]
           sum == CHOOSE g : shows(g)
<1>1. w \in [Lessons -> Nat]
  BY CatalogueAssumption
<1>2. \A g : adds(g) <=> shows(g)
  <2>1. ASSUME NEW s \in SUBSET S, s # {}
        PROVE  w[Pick(s)] = IF HasAsset(Pick(s)) THEN Seconds[Pick(s)] ELSE 0
    <3>1. Pick(s) \in Lessons
      BY <2>1 DEF Pick
    <3>2. QED
      BY <3>1
  <2> HIDE DEF w
  <2>2. QED
    BY <2>1
<1>3. Moments(S, w) = Moments({l \in S : HasAsset(l)}, Seconds)
  BY CatalogueAssumption DEF Moments
<1> HIDE DEF w
<1>4. /\ \E g : adds(g)
      /\ \A g : adds(g) => g[S] = Cardinality(Moments(S, w))
  BY <1>1, SumIsMoments
<1>5. MapThenSumSet(LAMBDA l : IF HasAsset(l) THEN Seconds[l] ELSE 0, S) = sum[S]
  BY DEF MapThenSumSet, MapThenFoldSet, Pick
<1> HIDE DEF adds, shows
<1>6. shows(sum)
  BY <1>2, <1>4, Zenon
<1> HIDE DEF sum
<1>7. sum[S] = Cardinality(Moments(S, w))
  BY <1>2, <1>4, <1>6
<1>8. QED
  BY <1>3, <1>5, <1>7, Zenon

-----------------------------------------------------------------------------
(***************************************************************************)
(* The order of the related strip, and who is within its limit.            *)
(***************************************************************************)
(* A course is published at one place of the order. *)
LiveOnce == \A i, j \in DOMAIN live : live[i] = live[j] => i = j

(* What a page compares of two courses is a number. *)
LEMMA SharedType ==
    ASSUME CatalogueType, NEW ours \in Labels, NEW c \in Courses
    PROVE  Shared(ours, label[c]) \in Nat
<1> DEFINE both == ours.areas \cap label[c].areas
<1>1. IsFiniteSet(ours.areas)
  BY CatalogueAssumption
<1>2. IsFiniteSet(both)
  BY <1>1, FS_Intersection
<1>3. QED
  BY <1>2, FS_CardinalityType DEF Shared

LEMMA NewerIsAnOrder ==
    ASSUME CatalogueType, LiveOnce
    PROVE  /\ \A c : ~Newer(c, c)
           /\ \A c, d, e : Newer(c, d) /\ Newer(d, e) => Newer(c, e)
           /\ \A c, d \in Live : c # d => Newer(c, d) \/ Newer(d, c)
<1>0. DOMAIN live \subseteq Nat
  BY DEF CatalogueType
<1>1. ASSUME NEW c, Newer(c, c) PROVE FALSE
  BY <1>0, <1>1 DEF Newer, LiveOnce
<1>2. ASSUME NEW c, NEW d, NEW e, Newer(c, d), Newer(d, e) PROVE Newer(c, e)
  <2>1. PICK i, j \in DOMAIN live : i < j /\ live[i] = c /\ live[j] = d
    BY <1>2 DEF Newer
  <2>2. PICK k, m \in DOMAIN live : k < m /\ live[k] = d /\ live[m] = e
    BY <1>2 DEF Newer
  <2>3. j = k
    BY <2>1, <2>2 DEF LiveOnce
  <2>4. i < m
    BY <1>0, <2>1, <2>2, <2>3
  <2>5. QED
    BY <2>1, <2>2, <2>4 DEF Newer
<1>3. ASSUME NEW c \in Live, NEW d \in Live, c # d PROVE Newer(c, d) \/ Newer(d, c)
  <2>1. PICK i \in DOMAIN live : live[i] = c
    BY DEF Live, Range
  <2>2. PICK j \in DOMAIN live : live[j] = d
    BY DEF Live, Range
  <2>3. i < j \/ j < i
    BY <1>0, <1>3, <2>1, <2>2
  <2>4. QED
    BY <2>1, <2>2, <2>3 DEF Newer
<1>4. QED
  BY <1>1, <1>2, <1>3

(* So is the order of the related strip: what is nearer, then of the same  *)
(* level, then newer.                                                      *)
LEMMA BeforeIsAnOrder ==
    ASSUME CatalogueType, LiveOnce, NEW ours \in Labels
    PROVE  /\ \A c \in Live : ~Before(c, c, ours)
           /\ \A c, d, e \in Live :
                Before(c, d, ours) /\ Before(d, e, ours) => Before(c, e, ours)
           /\ \A c, d \in Live : c # d => Before(c, d, ours) \/ Before(d, c, ours)
<1> DEFINE shared(c) == Shared(ours, label[c])
           level(c) == label[c].level = ours.level
<1>1. \A c \in Live : shared(c) \in Nat
  BY LiveType, SharedType
<1>2. \A c, d : Before(c, d, ours) <=>
        \/ shared(c) - shared(d) > 0
        \/ shared(c) - shared(d) = 0 /\ level(c) /\ ~level(d)
        \/ shared(c) - shared(d) = 0 /\ level(c) = level(d) /\ Newer(c, d)
  BY DEF Before
<1> HIDE DEF shared, level
<1>3. \A c, d \in Live : Before(c, d, ours) <=>
        \/ shared(c) > shared(d)
        \/ shared(c) = shared(d) /\ level(c) /\ ~level(d)
        \/ shared(c) = shared(d) /\ (level(c) <=> level(d)) /\ Newer(c, d)
  <2>1. ASSUME NEW c, NEW d PROVE level(c) \in BOOLEAN /\ level(d) \in BOOLEAN
    BY DEF level
  <2>2. QED
    BY <1>1, <1>2, <2>1
<1>4. QED
  BY <1>1, <1>3, NewerIsAnOrder

(* The strip of a page: at most as many as its limit, and none left out    *)
(* that shares more than one shown.                                        *)
Ahead(v, c) == {d \in Candidates(v) : Before(d, c, v.saw)}

LEMMA AheadIsFinite ==
    ASSUME CatalogueType, NEW v, NEW c
    PROVE  /\ IsFiniteSet(Ahead(v, c)) /\ Cardinality(Ahead(v, c)) \in Nat
           /\ Ahead(v, c) \subseteq Candidates(v) /\ Candidates(v) \subseteq Live
<1>1. Ahead(v, c) \subseteq Candidates(v) /\ Candidates(v) \subseteq Live /\ Live \subseteq Courses
  BY LiveType DEF Ahead, Candidates
<1>2. IsFiniteSet(Ahead(v, c))
  BY <1>1, CatalogueAssumption, FS_Subset
<1>3. QED
  BY <1>1, <1>2, FS_CardinalityType

LEMMA AheadOfOne ==
    ASSUME CatalogueType, LiveOnce, NEW v, v.saw \in Labels,
           NEW c \in Candidates(v), NEW d \in Candidates(v), Before(c, d, v.saw)
    PROVE  Cardinality(Ahead(v, c)) < Cardinality(Ahead(v, d))
<1>0. Candidates(v) \subseteq Live
  BY DEF Candidates
<1>1. Ahead(v, c) \subseteq Ahead(v, d) /\ c \in Ahead(v, d) /\ c \notin Ahead(v, c)
  BY <1>0, BeforeIsAnOrder DEF Ahead
<1>2. /\ Cardinality(Ahead(v, c)) <= Cardinality(Ahead(v, d))
      /\ Cardinality(Ahead(v, c)) # Cardinality(Ahead(v, d))
  BY <1>1, AheadIsFinite, FS_Subset
<1>3. QED
  BY <1>2, AheadIsFinite

LEMMA StripIsShort ==
    ASSUME CatalogueType, LiveOnce, NEW v, v.saw \in Labels
    PROVE  Cardinality(Related(v)) <= RelatedLimit
<1> DEFINE place == [c \in Related(v) |-> Cardinality(Ahead(v, c))]
           places == 0..(RelatedLimit - 1)
<1>0. RelatedLimit \in Nat \ {0} /\ IsFiniteSet(places) /\ Cardinality(places) = RelatedLimit
  <2>1. RelatedLimit \in Nat \ {0}
    BY CatalogueAssumption
  <2>2. QED
    BY <2>1, FS_Interval
<1>1. /\ Related(v) \subseteq Candidates(v) /\ Candidates(v) \subseteq Live
      /\ \A c \in Related(v) : Cardinality(Ahead(v, c)) < RelatedLimit
  BY DEF Related, Candidates, Ahead
<1>2. place \in [Related(v) -> places]
  BY <1>0, <1>1, AheadIsFinite
<1>3. ASSUME NEW c \in Related(v), NEW d \in Related(v), c # d
      PROVE  place[c] # place[d]
  <2>1. Before(c, d, v.saw) \/ Before(d, c, v.saw)
    BY <1>1, <1>3, BeforeIsAnOrder
  <2>2. Cardinality(Ahead(v, c)) # Cardinality(Ahead(v, d))
    BY <1>1, <2>1, AheadOfOne, AheadIsFinite
  <2>3. QED
    BY <2>2
<1> HIDE DEF place, places
<1>4. place \in Injection(Related(v), places)
  BY <1>2, <1>3 DEF Injection, IsInjective
<1>5. Cardinality(Related(v)) <= Cardinality(places)
  BY <1>0, <1>4, FS_Injection
<1>6. QED
  BY <1>0, <1>5

LEMMA StripIsClosest ==
    ASSUME CatalogueType, NEW v, v.saw \in Labels,
           NEW c \in Related(v), NEW d \in Candidates(v) \ Related(v)
    PROVE  Shared(v.saw, label[c]) >= Shared(v.saw, label[d])
<1> DEFINE shared(x) == Shared(v.saw, label[x])
<1>0. /\ Candidates(v) \subseteq Live /\ c \in Candidates(v)
      /\ \A x \in Candidates(v) : shared(x) \in Nat
  BY LiveType, SharedType DEF Candidates, Related
<1>1. ASSUME shared(d) > shared(c) PROVE FALSE
  <2>1. ASSUME NEW e \in Ahead(v, d) PROVE e \in Ahead(v, c)
    <3>1. e \in Candidates(v) /\ Before(e, d, v.saw)
      BY DEF Ahead
    <3>2. shared(e) - shared(d) > 0 \/ shared(e) - shared(d) = 0
      BY <3>1 DEF Before
    <3> HIDE DEF shared
    <3>3. shared(e) - shared(c) > 0
      BY <1>0, <1>1, <3>1, <3>2
    <3>4. Before(e, c, v.saw)
      BY <3>3 DEF Before, shared
    <3>5. QED
      BY <3>1, <3>4 DEF Ahead
  <2>2. Cardinality(Ahead(v, d)) <= Cardinality(Ahead(v, c))
    BY <2>1, AheadIsFinite, FS_Subset
  <2>3. Cardinality(Ahead(v, c)) < RelatedLimit /\ ~(Cardinality(Ahead(v, d)) < RelatedLimit)
    BY DEF Related, Ahead
  <2>4. QED
    BY <2>2, <2>3, AheadIsFinite, CatalogueAssumption
<1> HIDE DEF shared
<1>2. shared(c) >= shared(d)
  BY <1>0, <1>1
<1>3. QED
  BY <1>2 DEF shared

-----------------------------------------------------------------------------
(***************************************************************************)
(* The second invariant: what has been read of an answer, and what is      *)
(* still true of it.                                                       *)
(***************************************************************************)
Pages == {"outline", "related", "detail"}
Outline(c) == {l \in Lessons : CourseOf[l] = c /\ Exists(l)}

(* What full text missed when the visit turned to similar titles, it still *)
(* misses of the courses that stand; and an uncut answer is whole.         *)
SearchInv ==
    /\ visit.at = "similar" => during.standing \cap Exact(visit.query) = {}
    /\ visit.at = "found" => Cardinality(visit.results) <= SearchLimit
    /\ UncutSearchIsComplete

(* While no lesson changes, the length and the outline are those of the    *)
(* lessons there are; the strip is read last.                              *)
PageInv ==
    visit.at \in Pages =>
        /\ visit.total \in Nat \cup {Unknown}
        /\ ~during.edited => visit.total = TotalDuration(visit.course)
        /\ ~during.edited /\ visit.at # "outline" => visit.outline = Outline(visit.course)
        /\ visit.at = "detail" => visit.related = Related(visit)

ExactInv == LiveOnce /\ SearchInv /\ PageInv

-----------------------------------------------------------------------------
(* Steps of a visit that end in neither a search nor the page of a course. *)
Elsewhere ==
    \/ ReadLanguages \/ OpenList \/ ReadPage
    \/ FindLesson \/ ServeLesson \/ DecideToPlay \/ MintToken \/ ServePanel
    \/ Leave

LEMMA ElsewhereLeads ==
    ASSUME IInv, Elsewhere
    PROVE  visit'.at \notin Pages \cup {"similar", "found"} /\ live' = live
<1>1. CASE ReadLanguages \/ OpenList
  BY <1>1 DEF ReadLanguages, OpenList, Begin, Answer, catalogue, Pages
<1>2. CASE ReadPage
  <2>1. visit \in Lists
    BY <1>2, KindOfVisit DEF ReadPage, IInv
  <2>2. live' = live /\ visit'.at \in {"page", "listed"}
    BY <1>2, <2>1 DEF ReadPage, Answer, catalogue, Lists
  <2>3. QED
    BY <2>2 DEF Pages
<1>3. CASE FindLesson \/ Leave
  BY <1>3 DEF FindLesson, Leave, Begin, catalogue, Idle, Pages
<1>4. CASE ServeLesson \/ DecideToPlay \/ MintToken \/ ServePanel
  <2>1. visit \in Lectures
    BY <1>4, KindOfVisit DEF ServeLesson, DecideToPlay, MintToken, ServePanel, IInv
  <2>2. live' = live /\ visit'.at \in {"mint", "body", "idle"}
    BY <1>4, <2>1 DEF ServeLesson, DecideToPlay, MintToken, ServePanel, Pass, Refuse,
                      Answer, catalogue, Lectures, Idle
  <2>3. QED
    BY <2>2 DEF Pages
<1>5. QED
  BY <1>1, <1>2, <1>3, <1>4 DEF Elsewhere

(* Changes of the catalogue: none once the answer is complete, and what    *)
(* the history says still stands is as it was.                             *)
Changes ==
    \/ \E c \in Courses : Publish(c) \/ Withdraw(c) \/ EditCourse(c)
    \/ \E l \in Lessons : ChangeLesson(l)
    \/ ChangeAccess

LEMMA ChangesSpare ==
    ASSUME IInv, Changes
    PROVE  /\ ~Answered /\ visit' = visit
           /\ visit # Idle => /\ during'.standing \subseteq during.standing
                              /\ \A c \in during'.standing : label'[c] = label[c]
                              /\ ~during'.edited => ~during.edited /\ lesson' = lesson
<1>0. during \in Histories /\ label \in [Courses -> Labels]
  BY DEF IInv, CatalogueType
<1>1. ASSUME NEW c \in Courses, Publish(c)
      PROVE  /\ Meanwhile([during EXCEPT !.live = @ \cup {c}])
             /\ UNCHANGED <<label, lesson>>
  BY <1>1 DEF Publish
<1>2. ASSUME NEW c \in Courses, Withdraw(c) \/ EditCourse(c)
      PROVE  /\ Meanwhile([during EXCEPT !.standing = @ \ {c}])
             /\ lesson' = lesson /\ \A d \in Courses \ {c} : label'[d] = label[d]
  BY <1>0, <1>2 DEF Withdraw, EditCourse
<1>3. ASSUME NEW l \in Lessons, ChangeLesson(l)
      PROVE  Meanwhile([during EXCEPT !.edited = TRUE]) /\ UNCHANGED label
  BY <1>3 DEF ChangeLesson
<1>4. ASSUME ChangeAccess
      PROVE  Meanwhile([during EXCEPT !.entitled = TRUE]) /\ UNCHANGED <<label, lesson>>
  BY <1>4 DEF ChangeAccess
<1>5. CASE \E c \in Courses : Publish(c)
  BY <1>0, <1>1, <1>5 DEF Meanwhile, Histories
<1>6. CASE \E c \in Courses : Withdraw(c) \/ EditCourse(c)
  BY <1>0, <1>2, <1>6 DEF Meanwhile, Histories
<1>7. CASE \E l \in Lessons : ChangeLesson(l)
  BY <1>0, <1>3, <1>7 DEF Meanwhile, Histories
<1>8. CASE ChangeAccess
  BY <1>0, <1>4, <1>8 DEF Meanwhile, Histories
<1>9. QED
  BY <1>5, <1>6, <1>7, <1>8 DEF Changes

LEMMA NextIsOneOf ==
    Next => \/ Elsewhere \/ Changes
            \/ SearchFullText \/ SearchSimilar
            \/ OpenDetail \/ ReadOutline \/ ReadRelated
BY DEF Next, Elsewhere, Changes

-----------------------------------------------------------------------------
(* A course is published once: a second publication is refused.            *)
LEMMA LiveOnceHolds ==
    ASSUME IInv, LiveOnce, [Next]_vars PROVE LiveOnce'
<1>0. CatalogueType
  BY DEF IInv
<1>1. CASE live' = live
  BY <1>1 DEF LiveOnce
<1>2. ASSUME NEW c \in Courses, Publish(c) PROVE LiveOnce'
  <2>0. live \in Seq(Courses) /\ c \notin Live
    BY <1>0, <1>2 DEF CatalogueType, Publish
  <2> DEFINE new == <<c>> \o live
  <2>1. /\ DOMAIN new = 1..(Len(live) + 1) /\ DOMAIN live = 1..Len(live) /\ Len(live) \in Nat
        /\ new[1] = c
        /\ \A i \in 1..(Len(live) + 1) : i # 1 => i - 1 \in 1..Len(live) /\ new[i] = live[i - 1]
    BY <1>0, PublishedPlaces
  <2>2. live' = new
    BY <1>2 DEF Publish
  <2> HIDE DEF new
  <2>3. ASSUME NEW i \in DOMAIN new, NEW j \in DOMAIN new, new[i] = new[j] PROVE i = j
    <3>1. CASE i = 1 \/ j = 1
      BY <2>0, <2>1, <2>3, <3>1 DEF Live, Range
    <3>2. CASE i # 1 /\ j # 1
      <4>1. i - 1 = j - 1
        BY <2>1, <2>3, <3>2 DEF LiveOnce
      <4>2. QED
        BY <2>1, <4>1
    <3>3. QED
      BY <3>1, <3>2
  <2>4. QED
    BY <2>2, <2>3 DEF LiveOnce
<1>3. ASSUME NEW c \in Courses, Withdraw(c) PROVE LiveOnce'
  <2>1. PICK k \in DOMAIN live :
          live' = SubSeq(live, 1, k - 1) \o SubSeq(live, k + 1, Len(live))
    BY <1>3 DEF Withdraw
  <2>2. /\ DOMAIN live' = 1..(Len(live) - 1) /\ DOMAIN live = 1..Len(live) /\ Len(live) \in Nat
        /\ \A j \in 1..(Len(live) - 1) : live'[j] = IF j < k THEN live[j] ELSE live[j + 1]
    BY <1>0, <2>1, WithdrawnPlaces
  <2>3. ASSUME NEW i \in DOMAIN live', NEW j \in DOMAIN live', live'[i] = live'[j]
        PROVE  i = j
    <3> DEFINE was(n) == IF n < k THEN n ELSE n + 1
    <3>1. /\ was(i) \in DOMAIN live /\ was(j) \in DOMAIN live
          /\ live'[i] = live[was(i)] /\ live'[j] = live[was(j)]
      BY <2>2
    <3>2. was(i) = was(j)
      BY <2>3, <3>1 DEF LiveOnce
    <3>3. QED
      BY <2>2, <3>2
  <2>4. QED
    BY <2>3 DEF LiveOnce
<1>4. CASE UNCHANGED vars
  BY <1>1, <1>4 DEF vars, catalogue
<1>5. CASE Elsewhere
  BY <1>1, <1>5, ElsewhereLeads
<1>6. CASE SearchFullText \/ SearchSimilar \/ OpenDetail \/ ReadOutline \/ ReadRelated
  BY <1>1, <1>6 DEF SearchFullText, SearchSimilar, OpenDetail, ReadOutline, ReadRelated,
                    Begin, Answer, catalogue
<1>7. CASE Changes
  <2>1. CASE \E c \in Courses : EditCourse(c)
    BY <1>1, <2>1 DEF EditCourse
  <2>2. CASE (\E l \in Lessons : ChangeLesson(l)) \/ ChangeAccess
    BY <1>1, <2>2 DEF ChangeLesson, ChangeAccess
  <2>3. QED
    BY <1>2, <1>3, <1>7, <2>1, <2>2 DEF Changes
<1>8. QED
  BY <1>4, <1>5, <1>6, <1>7, NextIsOneOf

(* The page of a course, one read after the other. *)
LEMMA PageGoesOn ==
    ASSUME IInv, OpenDetail \/ ReadOutline \/ ReadRelated
    PROVE  /\ visit'.at \in Pages
           /\ UNCHANGED <<live, label, lesson, entitled>>
           /\ OpenDetail => /\ visit'.at = "outline"
                            /\ visit'.total = TotalDuration(visit'.course)
           /\ ReadOutline \/ ReadRelated =>
                /\ visit.at \in Pages /\ during' = during
                /\ visit'.total = visit.total /\ visit'.course = visit.course
                /\ visit'.saw = visit.saw
           /\ ReadOutline => /\ visit'.at = "related"
                             /\ visit'.outline = Outline(visit.course)
           /\ ReadRelated => /\ visit.at = "related" /\ visit'.at = "detail"
                             /\ visit'.outline = visit.outline
                             /\ visit'.related = Related(visit)
<1>1. CASE OpenDetail
  <2>1. PICK c \in Live :
          Begin([at |-> "outline", course |-> c, saw |-> label[c],
                 total |-> TotalDuration(c), outline |-> {}, related |-> {}])
    BY <1>1 DEF OpenDetail
  <2> DEFINE t == TotalDuration(c)
  <2>2. /\ UNCHANGED <<live, label, lesson, entitled>>
        /\ visit' = [at |-> "outline", course |-> c, saw |-> label[c],
                     total |-> t, outline |-> {}, related |-> {}]
    BY <2>1 DEF Begin, catalogue
  <2> HIDE DEF t
  <2>3. visit'.at = "outline" /\ visit'.course = c /\ visit'.total = t
    BY <2>2
  <2>4. ~ReadOutline /\ ~ReadRelated
    BY <1>1 DEF OpenDetail, ReadOutline, ReadRelated, Idle
  <2>5. QED
    BY <2>2, <2>3, <2>4 DEF Pages, t
<1>2. CASE ReadOutline \/ ReadRelated
  <2>1. visit.at \in Pages /\ visit.at # "idle" /\ (ReadRelated => visit.at = "related")
    BY <1>2 DEF ReadOutline, ReadRelated, Pages
  <2>2. PICK t : visit \in Details(t)
    BY <2>1, KindOfVisit DEF IInv, Pages
  <2>3. ~OpenDetail
    BY <2>1 DEF OpenDetail, Idle
  <2>4. UNCHANGED <<live, label, lesson, entitled, during>>
    BY <1>2 DEF ReadOutline, ReadRelated, Answer, catalogue
  <2>5. CASE ReadOutline
    <3> DEFINE outline == Outline(visit.course)
    <3>1. visit' = [visit EXCEPT !.at = "related", !.outline = outline]
      BY <2>5 DEF ReadOutline, Answer, Outline
    <3> HIDE DEF outline
    <3>2. /\ visit'.at = "related" /\ visit'.outline = outline
          /\ visit'.total = visit.total /\ visit'.course = visit.course
          /\ visit'.saw = visit.saw
      BY <2>2, <3>1 DEF Details
    <3>3. ~ReadRelated
      BY <2>5 DEF ReadOutline, ReadRelated
    <3>4. QED
      BY <2>1, <2>3, <2>4, <3>2, <3>3 DEF Pages, outline
  <2>6. CASE ReadRelated
    <3> DEFINE related == Related(visit)
    <3>1. visit' = [visit EXCEPT !.at = "detail", !.related = related]
      BY <2>6 DEF ReadRelated, Answer
    <3> HIDE DEF related
    <3>2. /\ visit'.at = "detail" /\ visit'.related = related
          /\ visit'.total = visit.total /\ visit'.course = visit.course
          /\ visit'.saw = visit.saw /\ visit'.outline = visit.outline
      BY <2>2, <3>1 DEF Details
    <3>3. ~ReadOutline
      BY <2>6 DEF ReadOutline, ReadRelated
    <3>4. QED
      BY <2>1, <2>3, <2>4, <3>2, <3>3 DEF Pages, related
  <2>7. QED
    BY <1>2, <2>5, <2>6
<1>3. QED
  BY <1>1, <1>2

(* A search that says it is not cut lists everything that matches.         *)
LEMMA FoundIsWhole ==
    ASSUME NEW query, NEW matches, NEW v \in Found(query, matches)
    PROVE  /\ v.at = "found" /\ v.query = query
           /\ Cardinality(v.results) <= SearchLimit
           /\ ~v.truncated => v.results = matches
<1>1. PICK results \in Best(matches) :
        v = [at |-> "found", query |-> query, results |-> results,
             truncated |-> Truncated(results)]
  BY DEF Found
<1>2. Cardinality(results) <= SearchLimit /\ (~Truncated(results) => results = matches)
  BY CatalogueAssumption DEF Best, Truncated
<1>3. QED
  BY <1>1, <1>2

LEMMA SearchHolds ==
    ASSUME IInv, SearchInv, [Next]_vars PROVE SearchInv'
<1>1. CASE visit'.at \notin {"similar", "found"}
  BY <1>1 DEF SearchInv, UncutSearchIsComplete
<1>2. CASE SearchFullText
  <2>1. PICK query \in Queries :
          IF Exact(query) = {} THEN Begin([at |-> "similar", query |-> query])
                               ELSE \E v \in Found(query, Exact(query)) : Begin(v)
    BY <1>2 DEF SearchFullText
  <2>2. ASSUME NEW v, Begin(v)
        PROVE  visit' = v /\ \A q : Exact(q)' = Exact(q)
    BY <2>2 DEF Begin, catalogue, Exact, Live
  <2>3. CASE Exact(query) = {}
    <3>1. visit' = [at |-> "similar", query |-> query] /\ Exact(query)' = {}
      BY <2>1, <2>2, <2>3
    <3>2. QED
      BY <3>1 DEF SearchInv, UncutSearchIsComplete, Exact
  <2>4. CASE Exact(query) # {}
    <3>1. PICK v \in Found(query, Exact(query)) : Begin(v)
      BY <2>1, <2>4
    <3>2. /\ visit' = v /\ v.at = "found" /\ v.query = query /\ Exact(query)' = Exact(query)
          /\ Cardinality(v.results) <= SearchLimit
          /\ ~v.truncated => v.results = Exact(query)
      BY <2>2, <3>1, FoundIsWhole
    <3>3. QED
      BY <3>2 DEF SearchInv, UncutSearchIsComplete, Exact
  <2>5. QED
    BY <2>3, <2>4
<1>3. CASE SearchSimilar
  <2>1. PICK v \in Found(visit.query, Similar(visit.query)) : Answer(v)
    BY <1>3 DEF SearchSimilar
  <2>2. /\ visit' = v /\ v.at = "found" /\ v.query = visit.query
        /\ Cardinality(v.results) <= SearchLimit
    BY <2>1, FoundIsWhole DEF Answer
  <2>3. UNCHANGED <<live, label, during>> /\ Exact(v.query)' = Exact(v.query)
    BY <2>1 DEF Answer, catalogue, Exact, Live
  <2>4. during'.standing \cap Exact(v.query)' = {}
    BY <1>3, <2>2, <2>3 DEF SearchInv, SearchSimilar
  <2>5. QED
    BY <2>2, <2>4 DEF SearchInv, UncutSearchIsComplete, Exact
<1>4. CASE Changes
  <2>1. /\ visit' = visit /\ visit.at # "found"
        /\ visit # Idle => /\ during'.standing \subseteq during.standing
                           /\ \A c \in during'.standing : label'[c] = label[c]
    BY <1>4, ChangesSpare DEF Answered
  <2>2. ASSUME visit.at = "similar", NEW c \in during'.standing, c \in Exact(visit.query)'
        PROVE  FALSE
    <3>1. visit # Idle
      BY <2>2 DEF Idle
    <3>2. c \in during.standing /\ c \in Live /\ label'[c] = label[c]
      BY <2>1, <2>2, <3>1 DEF IInv, HistoryInv
    <3>3. c \in Exact(visit.query)
      BY <2>1, <2>2, <3>2 DEF Exact
    <3>4. QED
      BY <2>2, <3>2, <3>3 DEF SearchInv
  <2>3. QED
    BY <2>1, <2>2 DEF SearchInv, UncutSearchIsComplete
<1>5. CASE OpenDetail \/ ReadOutline \/ ReadRelated
  <2>1. visit'.at \in Pages
    BY <1>5, PageGoesOn
  <2>2. QED
    BY <1>1, <2>1 DEF Pages
<1>6. CASE Elsewhere
  BY <1>1, <1>6, ElsewhereLeads
<1>7. CASE UNCHANGED vars
  BY <1>7 DEF vars, catalogue, SearchInv, UncutSearchIsComplete, Exact, Live
<1>8. QED
  BY <1>2, <1>3, <1>4, <1>5, <1>6, <1>7, NextIsOneOf

-----------------------------------------------------------------------------
(* A length is a number of seconds, or none. *)
LEMMA TotalType ==
    ASSUME NEW c PROVE TotalDuration(c) \in Nat \cup {Unknown}
<1> DEFINE counted == {l \in Lessons : CourseOf[l] = c /\ CountsTowardDuration(l)}
           sum == MapThenSumSet(LAMBDA l : Seconds[l], counted)
<1>1. sum \in Nat
  <2>1. counted \in SUBSET Lessons /\ Seconds \in [Lessons -> Nat]
    BY CatalogueAssumption
  <2> HIDE DEF counted
  <2>2. sum = Cardinality(Moments(counted, Seconds))
    BY <2>1, SumOfSeconds
  <2> HIDE DEF sum
  <2>3. QED
    BY <2>1, <2>2, MomentsAreFinite
<1>2. TotalDuration(c) = IF counted # {} /\ \A l \in counted : lesson[l] = "measured"
                         THEN sum ELSE Unknown
  BY DEF TotalDuration
<1> HIDE DEF sum, counted
<1>3. QED
  BY <1>1, <1>2

(* The length and the outline are read from the lessons alone. *)
LEMMA SameLessons ==
    ASSUME lesson' = lesson
    PROVE  \A c : TotalDuration(c)' = TotalDuration(c) /\ Outline(c)' = Outline(c)
<1> SUFFICES ASSUME NEW c
             PROVE  TotalDuration(c)' = TotalDuration(c) /\ Outline(c)' = Outline(c)
  OBVIOUS
<1> DEFINE counted == {l \in Lessons : CourseOf[l] = c /\ CountsTowardDuration(l)}
           sum(s) == MapThenSumSet(LAMBDA l : Seconds[l], s)
<1>1. counted' = counted
  BY DEF CountsTowardDuration, Exists, HasAsset
<1>2. TotalDuration(c) = IF counted # {} /\ \A l \in counted : lesson[l] = "measured"
                         THEN sum(counted) ELSE Unknown
  BY DEF TotalDuration
<1>3. TotalDuration(c)' = (IF counted # {} /\ \A l \in counted : lesson[l] = "measured"
                           THEN sum(counted) ELSE Unknown)'
  BY DEF TotalDuration
<1> HIDE DEF sum, counted
<1>4. TotalDuration(c)' = TotalDuration(c)
  BY <1>1, <1>2, <1>3
<1>5. QED
  BY <1>4 DEF Outline, Exists

LEMMA PageHolds ==
    ASSUME IInv, PageInv, [Next]_vars PROVE PageInv'
<1>1. CASE visit'.at \notin Pages
  BY <1>1 DEF PageInv
<1>2. CASE OpenDetail
  <2>1. /\ visit'.at = "outline" /\ lesson' = lesson
        /\ visit'.total = TotalDuration(visit'.course)
    BY <1>2, PageGoesOn
  <2>2. TotalDuration(visit.course)' = TotalDuration(visit'.course)
    BY <2>1, SameLessons
  <2>3. QED
    BY <2>1, <2>2, TotalType DEF PageInv
<1>3. CASE ReadOutline \/ ReadRelated
  <2>1. /\ UNCHANGED <<live, label, lesson, during>> /\ visit.at \in Pages
        /\ visit'.total = visit.total /\ visit'.course = visit.course /\ visit'.saw = visit.saw
    BY <1>3, PageGoesOn
  <2>2. /\ visit'.at = "related" /\ visit'.outline = Outline(visit.course)
        \/ /\ visit.at = "related" /\ visit'.at = "detail" /\ visit'.outline = visit.outline
           /\ visit'.related = Related(visit)
    BY <1>3, PageGoesOn
  <2>3. TotalDuration(visit.course)' = TotalDuration(visit.course)
    BY <2>1, SameLessons
  <2>4. Outline(visit.course)' = Outline(visit.course)
    BY <2>1 DEF Outline, Exists
  <2>5. Related(visit)' = Related(visit)
    BY <2>1 DEF Related, Candidates, Before, Shared, Newer, Live
  <2>6. QED
    BY <2>1, <2>2, <2>3, <2>4, <2>5 DEF PageInv
<1>4. CASE Changes
  <2>1. /\ visit' = visit /\ visit.at # "detail"
        /\ visit # Idle /\ ~during'.edited => ~during.edited /\ lesson' = lesson
    BY <1>4, ChangesSpare DEF Answered
  <2>2. CASE visit.at \in Pages
    <3>1. visit # Idle
      BY <2>2 DEF Idle, Pages
    <3>2. visit.total \in Nat \cup {Unknown}
      BY <2>2 DEF PageInv
    <3>3. ASSUME ~during'.edited
          PROVE  /\ visit.total = TotalDuration(visit.course)'
                 /\ visit.at # "outline" => visit.outline = Outline(visit.course)'
      <4>1. ~during.edited /\ lesson' = lesson /\ visit' = visit
        BY <2>1, <3>1, <3>3
      <4>2. TotalDuration(visit.course)' = TotalDuration(visit.course)
        BY <4>1, SameLessons
      <4>3. Outline(visit.course)' = Outline(visit.course)
        BY <4>1 DEF Outline, Exists
      <4>4. QED
        BY <2>2, <4>1, <4>2, <4>3 DEF PageInv
    <3>4. QED
      BY <2>1, <3>2, <3>3 DEF PageInv
  <2>3. QED
    BY <1>1, <2>1, <2>2
<1>5. CASE SearchFullText \/ SearchSimilar
  <2>1. visit'.at \in {"similar", "found"}
    BY <1>5, FoundIsWhole DEF SearchFullText, SearchSimilar, Begin, Answer
  <2>2. QED
    BY <1>1, <2>1 DEF Pages
<1>6. CASE Elsewhere
  BY <1>1, <1>6, ElsewhereLeads
<1>7. CASE UNCHANGED vars
  <2>1. UNCHANGED <<live, label, lesson, visit, during>>
    BY <1>7 DEF vars, catalogue
  <2>2. TotalDuration(visit.course)' = TotalDuration(visit.course)
    BY <2>1, SameLessons
  <2>3. Outline(visit.course)' = Outline(visit.course)
    BY <2>1 DEF Outline, Exists
  <2>4. Related(visit)' = Related(visit)
    BY <2>1 DEF Related, Candidates, Before, Shared, Newer, Live
  <2>5. QED
    BY <2>1, <2>2, <2>3, <2>4 DEF PageInv
<1>8. QED
  BY <1>2, <1>3, <1>4, <1>5, <1>6, <1>7, NextIsOneOf

LEMMA ExactInit ==
    ASSUME Init PROVE ExactInv
<1>1. LiveOnce
  BY DEF Init, LiveOnce
<1>2. SearchInv /\ PageInv
  BY DEF Init, Idle, SearchInv, UncutSearchIsComplete, PageInv, Pages
<1>3. QED
  BY <1>1, <1>2 DEF ExactInv

(* A visit knows only what it may (Visits). *)
LEMMA VisitTyped ==
    ASSUME IInv, ExactInv PROVE TypeOK
<1>1. CASE visit \in Answers
  BY <1>1, KindOfVisit DEF Answers, Visits, UpTo, IInv, ExactInv, SearchInv, CatalogueType, TypeOK
<1>2. CASE \E total : visit \in Details(total)
  <2>1. PICK t : visit \in Details(t)
    BY <1>2
  <2>2. visit.at \in Pages /\ visit.total = t
    BY <2>1 DEF Details, Pages
  <2>3. t \in Nat \cup {Unknown}
    BY <2>2 DEF ExactInv, PageInv
  <2>4. visit \in Visits
    BY <2>1, <2>3 DEF Details, Visits
  <2>5. QED
    BY <2>4 DEF IInv, CatalogueType, TypeOK
<1>3. CASE ~(visit \in Answers \/ \E total : visit \in Details(total))
  BY <1>3 DEF IInv, VisitShape, CatalogueType, TypeOK, Lists, Lectures, Visits
<1>4. QED
  BY <1>1, <1>2, <1>3

(* A lesson that counts has its asset, and one that does not adds nothing:  *)
(* both sums are over the same moments.                                    *)
LEMMA LengthIsExact ==
    ASSUME IInv, ExactInv PROVE LengthIsOfTheOutline
<1> SUFFICES ASSUME visit.at \in {"related", "detail"}, ~during.edited, visit.total # Unknown
             PROVE  /\ \A l \in visit.outline : l \in WithMedia => lesson[l] = "measured"
                    /\ visit.total = MapThenSumSet(LAMBDA l : IF HasAsset(l) THEN Seconds[l] ELSE 0,
                                                   visit.outline)
  BY DEF LengthIsOfTheOutline
<1> DEFINE counted == {l \in Lessons : CourseOf[l] = visit.course /\ CountsTowardDuration(l)}
           outline == Outline(visit.course)
           sum == MapThenSumSet(LAMBDA l : Seconds[l], counted)
<1>1. visit.total = TotalDuration(visit.course) /\ visit.outline = outline
  BY DEF ExactInv, PageInv, Pages
<1>2. TotalDuration(visit.course) = IF counted # {} /\ \A l \in counted : lesson[l] = "measured"
                                    THEN sum ELSE Unknown
  BY DEF TotalDuration
<1>3. (\A l \in counted : lesson[l] = "measured") /\ visit.total = sum
  <2> HIDE DEF counted, sum
  <2>1. QED
    BY <1>1, <1>2
<1>4. \A l \in outline : l \in WithMedia => lesson[l] = "measured"
  BY <1>3 DEF CountsTowardDuration, Outline
<1>5. counted = {l \in outline : HasAsset(l)}
  BY <1>3 DEF CountsTowardDuration, Outline, HasAsset, Exists
<1>6. sum = Cardinality(Moments(counted, Seconds))
  <2>1. counted \in SUBSET Lessons
    OBVIOUS
  <2> HIDE DEF counted
  <2>2. QED
    BY <2>1, SumOfSeconds
<1>7. MapThenSumSet(LAMBDA l : IF HasAsset(l) THEN Seconds[l] ELSE 0, outline)
        = Cardinality(Moments({l \in outline : HasAsset(l)}, Seconds))
  <2>1. outline \in SUBSET Lessons
    BY DEF Outline
  <2> HIDE DEF outline
  <2>2. QED
    BY <2>1, SumOfOutline
<1> HIDE DEF counted, outline, sum
<1>8. visit.total = MapThenSumSet(LAMBDA l : IF HasAsset(l) THEN Seconds[l] ELSE 0, outline)
  BY <1>3, <1>5, <1>6, <1>7, Zenon
<1>9. QED
  BY <1>1, <1>4, <1>8, Zenon

LEMMA StripIsExact ==
    ASSUME IInv, ExactInv PROVE RelatedAreTheClosest
<1> SUFFICES ASSUME visit.at = "detail"
             PROVE  /\ Cardinality(visit.related) <= RelatedLimit
                    /\ \A c \in during.standing \cap visit.related,
                          d \in during.standing \ (visit.related \cup {visit.course}) :
                            label[d].language = visit.saw.language =>
                              Cardinality(label[c].areas \cap visit.saw.areas)
                                >= Cardinality(label[d].areas \cap visit.saw.areas)
  BY DEF RelatedAreTheClosest
<1>1. visit.saw \in Labels
  <2>1. PICK t : visit \in Details(t)
    BY KindOfVisit DEF IInv
  <2>2. QED
    BY <2>1 DEF Details
<1>2. visit.related = Related(visit) /\ CatalogueType /\ LiveOnce
  BY DEF IInv, ExactInv, PageInv, Pages
<1>3. Cardinality(visit.related) <= RelatedLimit
  BY <1>1, <1>2, StripIsShort
<1>4. ASSUME NEW c \in during.standing \cap visit.related,
             NEW d \in during.standing \ (visit.related \cup {visit.course}),
             label[d].language = visit.saw.language
      PROVE  Cardinality(label[c].areas \cap visit.saw.areas)
               >= Cardinality(label[d].areas \cap visit.saw.areas)
  <2>1. d \in Candidates(visit) \ Related(visit) /\ c \in Related(visit)
    <3>1. visit # Idle
      BY DEF Idle
    <3>2. d \in Live
      BY <1>4, <3>1 DEF IInv, HistoryInv
    <3>3. QED
      BY <1>2, <1>4, <3>2 DEF Candidates
  <2>2. Shared(visit.saw, label[c]) >= Shared(visit.saw, label[d])
    BY <1>1, <1>2, <2>1, StripIsClosest
  <2>3. \A x : label[x].areas \cap visit.saw.areas = visit.saw.areas \cap label[x].areas
    OBVIOUS
  <2>4. QED
    BY <2>2, <2>3 DEF Shared
<1>5. QED
  BY <1>3, <1>4

(* What an answer has read so far goes on describing what it has not, in   *)
(* every reachable state (search_published_courses, PublicCourseViewSet.retrieve).     *)
THEOREM ExactHolds == Spec => []ExactInv
<1>1. Init => ExactInv
  BY ExactInit
<1>2. IInv /\ ExactInv /\ [Next]_vars => ExactInv'
  BY LiveOnceHolds, SearchHolds, PageHolds DEF ExactInv
<1>3. QED
  BY <1>1, <1>2, InvariantHolds, PTL DEF Spec

(* For any courses, lessons, labels and limits: a search that does not say *)
(* it was cut lists all that matched throughout, a page advertises the     *)
(* length of the outline it shows, and the related strip is within its     *)
(* limit and omits nothing nearer (search, _with_total_duration,           *)
(* related_courses).                                                       *)
THEOREM ExactAnswers == Spec => []AnswersAreExact
<1>1. IInv /\ ExactInv => AnswersAreExact
  BY VisitTyped, LengthIsExact, StripIsExact DEF AnswersAreExact, ExactInv, SearchInv
<1>2. QED
  BY <1>1, InvariantHolds, ExactHolds, PTL

=============================================================================
