------------------------------ MODULE Catalogue ------------------------------
(***************************************************************************)
(* What a reader is answered while the catalogue changes: apps/catalog     *)
(* selectors.py, public_views.py and learning_views.py.                    *)
(*                                                                         *)
(* A visit is a few statements without a transaction around them, each of  *)
(* which sees what is committed when it runs; the catalogue moves between  *)
(* them, and between the pages of a list.  Readers write nothing, so one   *)
(* visit at a time stands for all of them.                                 *)
(*                                                                         *)
(* Abstracted: a course is its label (what filters, search and ranking     *)
(* compare); of the matches of a search any may rank first; created_at has *)
(* no ties.  The sections and then the lessons of a page are one read.     *)
(* How a course comes to be live is CoursePublication's, how a learner     *)
(* comes to be entitled is Entitlements'.                                  *)
(***************************************************************************)
EXTENDS Integers, Sequences, FiniteSets, FiniteSetsExt

CONSTANTS
    Courses,
    CreatedAt,   \* when each course was created
    Labels,      \* what may be said of a course
    Queries,     \* what may be searched for
    Lessons,
    CourseOf,    \* the course of each lesson
    WithMedia,   \* the lessons of a type that has a duration
    Previews,    \* the free lessons
    Seconds,     \* what the provider measures of each lesson
    PageSizes,   \* what page_size may ask for
    SearchLimit, RelatedLimit

ASSUME CatalogueAssumption ==
    /\ IsFiniteSet(Courses) /\ IsFiniteSet(Lessons)
    /\ CreatedAt \in [Courses -> Nat]
    /\ \A c, d \in Courses : CreatedAt[c] = CreatedAt[d] => c = d
    /\ \A said \in Labels : IsFiniteSet(said.areas)
    /\ CourseOf \in [Lessons -> Courses]
    /\ WithMedia \subseteq Lessons /\ Previews \subseteq Lessons
    /\ Seconds \in [Lessons -> Nat \ {0}]
    /\ PageSizes \subseteq Nat \ {0}
    /\ SearchLimit \in Nat \ {0} /\ RelatedLimit \in Nat \ {0}

VARIABLES
    live,      \* the published courses, by -published_at
    label,     \* what each course says
    lesson,    \* each lesson, and how far its MediaAsset is
    entitled,  \* whether the learner's account has access
    visit,     \* the reader's request
    during     \* history: what held at some moment, or all along, of the visit

catalogue == <<live, label, lesson, entitled>>
vars == <<catalogue, visit, during>>

Live == Range(live)
Languages == {l.language : l \in Labels}
Anything == "anything"
Unknown == -1

(* An instructor is a learner in the courses of others. *)
Readers == {"anonymous", "learner", "owner", "administrator"}
Routes == {"id", "slug", "playback", "panel"}

UpTo(n) == {s \in SUBSET Courses : Cardinality(s) <= n}

Idle == [at |-> "idle"]
Visits ==
    {Idle}
    \cup [at: {"languages"}, offered: SUBSET Languages]
    \cup [at: {"page", "listed"}, language: Languages \cup {Anything},
          after: Nat \cup {Unknown}, shown: SUBSET Courses, twice: BOOLEAN]
    \cup [at: {"similar"}, query: Queries]
    \cup [at: {"found"}, query: Queries, results: UpTo(SearchLimit), truncated: BOOLEAN]
    \cup [at: {"outline", "related", "detail"}, course: Courses, saw: Labels,
          total: Nat \cup {Unknown}, outline: SUBSET Lessons, related: SUBSET Courses]
    \cup [at: {"gate", "mint", "body"}, reader: Readers, route: Routes, lesson: Lessons]

Assets == {"absent", "bare", "pending", "measured"}
Histories == [live: SUBSET Courses, standing: SUBSET Courses,
              edited: BOOLEAN, entitled: BOOLEAN]

TypeOK ==
    /\ live \in Seq(Courses)
    /\ label \in [Courses -> Labels]
    /\ lesson \in [Lessons -> Assets]
    /\ entitled \in BOOLEAN
    /\ visit \in Visits
    /\ during \in Histories

(* The histories of a visit that begins now, and outside of one. *)
FromNow == [live |-> Live, standing |-> Live, edited |-> FALSE, entitled |-> entitled]
Blank == [live |-> {}, standing |-> {}, edited |-> FALSE, entitled |-> FALSE]

Init ==
    /\ live = <<>>
    /\ label \in [Courses -> Labels]
    /\ lesson = [l \in Lessons |-> "absent"]
    /\ entitled = FALSE
    /\ visit = Idle
    /\ during = Blank

-----------------------------------------------------------------------------
(* The list: published_courses narrowed, and CursorPagination over it.     *)

Matching(language) ==
    {c \in Live : language \in {Anything, label[c].language}}

(* What the cursor leaves: the courses created before the last one shown.  *)
RestByOffset(v) ==
    {c \in Matching(v.language) :
       Cardinality({d \in Matching(v.language) : CreatedAt[d] > CreatedAt[c]})
         >= Cardinality(v.shown)}
Rest(v) ==
    {c \in Matching(v.language) : v.after # Unknown => CreatedAt[c] < v.after}

(* The n newest, by -created_at. *)
Page(rest, n) ==
    {c \in rest : Cardinality({d \in rest : CreatedAt[d] > CreatedAt[c]}) < n}

Oldest(page) == {c \in page : \A d \in page : CreatedAt[c] <= CreatedAt[d]}

Begin(v) == visit' = v /\ during' = FromNow /\ UNCHANGED catalogue
Answer(v) == visit' = v /\ UNCHANGED <<catalogue, during>>

LanguagesWithPublishedCourses == {label[c].language : c \in Live}

ReadLanguages ==
    /\ visit = Idle
    /\ Begin([at |-> "languages", offered |-> LanguagesWithPublishedCourses])

(* One page of a list, its filter taken from the languages on offer. *)
OpenList ==
    /\ visit.at = "languages"
    /\ \E language \in visit.offered \cup {Anything} :
         Answer([at |-> "page", language |-> language, after |-> Unknown,
                 shown |-> {}, twice |-> FALSE])

ReadPage ==
    /\ visit.at = "page"
    /\ \/ Rest(visit) = {} /\ Answer([visit EXCEPT !.at = "listed"])
       \/ \E n \in PageSizes :
            LET page == Page(Rest(visit), n)
            IN  \E last \in Oldest(page) :
                  Answer([visit EXCEPT
                     !.at = IF page = Rest(visit) THEN "listed" ELSE "page",
                     !.after = CreatedAt[last],
                     !.shown = @ \cup page,
                     !.twice = @ \/ visit.shown \cap page # {}])

-----------------------------------------------------------------------------
(* Search: full text first, similar titles only if that finds nothing.     *)

Exact(query) == {c \in Live : query \in label[c].words}
Similar(query) == {c \in Live : query \in label[c].near}

Truncated(results) == Cardinality(results) = SearchLimit

Best(matches) ==
    {results \in SUBSET matches :
       \/ results = matches /\ Cardinality(matches) <= SearchLimit
       \/ Cardinality(results) = SearchLimit}

Found(query, matches) ==
    {[at |-> "found", query |-> query, results |-> results,
      truncated |-> Truncated(results)] : results \in Best(matches)}

SearchFullText ==
    /\ visit = Idle
    /\ \E query \in Queries :
         IF Exact(query) = {} THEN Begin([at |-> "similar", query |-> query])
                              ELSE \E v \in Found(query, Exact(query)) : Begin(v)

SearchSimilar ==
    /\ visit.at = "similar"
    /\ \E v \in Found(visit.query, Similar(visit.query)) : Answer(v)

-----------------------------------------------------------------------------
(* The page of a course: its length, its outline, and what is related.     *)

Exists(l) == lesson[l] # "absent"
HasAsset(l) == lesson[l] \in {"pending", "measured"}

CountsByType(l) == Exists(l) /\ l \in WithMedia
CountsTowardDuration(l) == Exists(l) /\ (l \in WithMedia \/ HasAsset(l))

(* _TOTAL_DURATION: null unless every lesson that counts is measured.      *)
TotalDuration(c) ==
    LET counted == {l \in Lessons : CourseOf[l] = c /\ CountsTowardDuration(l)}
    IN  IF counted # {} /\ \A l \in counted : lesson[l] = "measured"
        THEN MapThenSumSet(LAMBDA l : Seconds[l], counted)
        ELSE Unknown

Shared(ours, theirs) == Cardinality(ours.areas \cap theirs.areas)

Newer(c, d) == \E i, j \in DOMAIN live : i < j /\ live[i] = c /\ live[j] = d

(* c comes before d on the page of a course that says ours. *)
Before(c, d, ours) ==
    LET more == Shared(ours, label[c]) - Shared(ours, label[d])
        level(x) == label[x].level = ours.level
    IN  \/ more > 0
        \/ more = 0 /\ level(c) /\ ~level(d)
        \/ more = 0 /\ level(c) = level(d) /\ Newer(c, d)

Candidates(v) == {c \in Live \ {v.course} : label[c].language = v.saw.language}

Related(v) ==
    {c \in Candidates(v) :
       Cardinality({d \in Candidates(v) : Before(d, c, v.saw)}) < RelatedLimit}

OpenDetail ==
    /\ visit = Idle
    /\ \E c \in Live :
         Begin([at |-> "outline", course |-> c, saw |-> label[c],
                total |-> TotalDuration(c), outline |-> {}, related |-> {}])

ReadOutline ==
    /\ visit.at = "outline"
    /\ Answer([visit EXCEPT !.at = "related",
                 !.outline = {l \in Lessons : CourseOf[l] = visit.course /\ Exists(l)}])

ReadRelated ==
    /\ visit.at = "related"
    /\ Answer([visit EXCEPT !.at = "detail", !.related = Related(visit)])

-----------------------------------------------------------------------------
(* A lesson in full, by its id or by the slugs of its address, a token to  *)
(* play it, or its transcript: visibility is asked of the catalogue, then  *)
(* access of the resolver.                                                 *)

VisibleToSubscribers(reader, l) ==
    CourseOf[l] \in Live \/ reader \in {"owner", "administrator"} \/ entitled
VisibleTo(reader, l) ==
    CourseOf[l] \in Live \/ reader \in {"owner", "administrator"}

(* resolve_access. *)
MayRead(reader, l) ==
    \/ l \in Previews
    \/ reader \in {"owner", "administrator"}
    \/ reader = "learner" /\ entitled

UncheckedBySlug(v) == v.route = "slug" \/ MayRead(v.reader, v.lesson)
ObjectPermission(v) == MayRead(v.reader, v.lesson)

FindLesson ==
    /\ visit = Idle
    /\ \E reader \in Readers, route \in Routes, l \in Lessons :
         /\ Exists(l) /\ VisibleTo(reader, l)
         /\ Begin([at |-> "gate", reader |-> reader, route |-> route, lesson |-> l])

Refuse == visit' = Idle /\ during' = Blank /\ UNCHANGED catalogue
Pass(step) == IF ObjectPermission(visit) THEN Answer([visit EXCEPT !.at = step])
                                         ELSE Refuse

ServeLesson ==
    /\ visit.at = "gate" /\ visit.route \in {"id", "slug"}
    /\ Pass("body")

(* issue_playback_token decides, and only then looks for the media.        *)
DecideToPlay ==
    /\ visit.at = "gate" /\ visit.route = "playback"
    /\ Pass("mint")

MintToken ==
    /\ visit.at = "mint"
    /\ IF lesson[visit.lesson] = "measured" THEN Answer([visit EXCEPT !.at = "body"])
                                           ELSE Refuse

(* Without an approved transcript there is no panel. *)
ServePanel ==
    /\ visit.at = "gate" /\ visit.route = "panel"
    /\ Pass("body") \/ Refuse

Answered == visit.at \in {"listed", "found", "detail", "body"}

(* The answer is sent, or the visitor leaves between two pages. *)
Leave ==
    /\ Answered \/ visit.at \in {"languages", "page"}
    /\ visit' = Idle
    /\ during' = Blank
    /\ UNCHANGED catalogue

-----------------------------------------------------------------------------
(* What changes meanwhile.  An answer is looked at when it is complete.    *)

Meanwhile(history) ==
    /\ ~Answered
    /\ during' = IF visit = Idle THEN Blank ELSE history
    /\ UNCHANGED visit

Publish(c) ==
    /\ c \notin Live
    /\ live' = <<c>> \o live
    /\ Meanwhile([during EXCEPT !.live = @ \cup {c}])
    /\ UNCHANGED <<label, lesson, entitled>>

Withdraw(c) ==
    /\ \E i \in DOMAIN live :
         /\ live[i] = c
         /\ live' = SubSeq(live, 1, i - 1) \o SubSeq(live, i + 1, Len(live))
    /\ Meanwhile([during EXCEPT !.standing = @ \ {c}])
    /\ UNCHANGED <<label, lesson, entitled>>

EditCourse(c) ==
    /\ \E new \in Labels \ {label[c]} : label' = [label EXCEPT ![c] = new]
    /\ Meanwhile([during EXCEPT !.standing = @ \ {c}])
    /\ UNCHANGED <<live, lesson, entitled>>

(* A lesson appears, gets an asset, is measured, or is deleted. *)
ChangeLesson(l) ==
    /\ \E new \in Assets :
         /\ <<lesson[l], new>> \in {<<"absent", "bare">>, <<"bare", "pending">>,
                                    <<"pending", "measured">>}
              \cup (Assets \ {"absent"}) \X {"absent"}
         /\ lesson' = [lesson EXCEPT ![l] = new]
    /\ Meanwhile([during EXCEPT !.edited = TRUE])
    /\ UNCHANGED <<live, label, entitled>>

ChangeAccess ==
    /\ entitled' = ~entitled
    /\ Meanwhile([during EXCEPT !.entitled = TRUE])
    /\ UNCHANGED <<live, label, lesson>>

Next ==
    \/ ReadLanguages \/ OpenList \/ ReadPage
    \/ SearchFullText \/ SearchSimilar
    \/ OpenDetail \/ ReadOutline \/ ReadRelated
    \/ FindLesson \/ ServeLesson \/ DecideToPlay \/ MintToken \/ ServePanel
    \/ Leave
    \/ \E c \in Courses : Publish(c) \/ Withdraw(c) \/ EditCourse(c)
    \/ \E l \in Lessons : ChangeLesson(l)
    \/ ChangeAccess

Spec == Init /\ [][Next]_vars

-----------------------------------------------------------------------------
(* What the catalogue shows, on any of its surfaces, was live at some      *)
(* moment of the visit; only its owner and administrators are shown a      *)
(* lesson of a course that was not (published_courses: "this queryset      *)
(* being the only way a request reaches a course", lessons_visible_to).    *)
Shown ==
    CASE visit.at \in {"page", "listed"} -> visit.shown
      [] visit.at = "found" -> visit.results
      [] visit.at = "detail" -> visit.related \cup {visit.course}
      [] visit.at = "body" /\ visit.reader \in {"anonymous", "learner"} ->
           {CourseOf[visit.lesson]}
      [] OTHER -> {}

OnlyPublishedIsShown == Shown \subseteq during.live

(* A visitor who pages to the end of a list, whatever page sizes it asks   *)
(* for and whatever is published, withdrawn or edited meanwhile, is shown  *)
(* no course twice and every matching one that stood all along             *)
(* (pagination.py: a cursor encodes "where it was, not how far in").       *)
NothingIsMissedOrRepeated ==
    /\ visit.at \in {"page", "listed"} => ~visit.twice
    /\ visit.at = "listed" =>
         during.standing \cap Matching(visit.language) \subseteq visit.shown

(* An answer that does not say it was cut lists every course that matched  *)
(* throughout, although the two queries of a search run one after the      *)
(* other (search_published_courses, CourseSearchResultsSerializer).        *)
UncutSearchIsComplete ==
    visit.at = "found" /\ ~visit.truncated =>
        during.standing \cap Exact(visit.query) \subseteq visit.results

(* The length a page advertises is that of the outline it shows, with no   *)
(* lesson left out for being text or unmeasured, when no lesson changed    *)
(* between the two reads (_with_total_duration, ADR-041).                  *)
LengthIsOfTheOutline ==
    visit.at \in {"related", "detail"} /\ ~during.edited /\ visit.total # Unknown =>
        /\ \A l \in visit.outline : l \in WithMedia => lesson[l] = "measured"
        /\ visit.total = MapThenSumSet(LAMBDA l : IF HasAsset(l) THEN Seconds[l] ELSE 0,
                                       visit.outline)

(* The related strip is no longer than its limit, and no course that stood *)
(* all along and is left out of it shares more with the page's course than *)
(* one that is shown (related_courses: "more shared skill areas ranks      *)
(* higher").                                                               *)
RelatedAreTheClosest ==
    visit.at = "detail" =>
        /\ Cardinality(visit.related) <= RelatedLimit
        /\ \A c \in during.standing \cap visit.related,
              d \in during.standing \ (visit.related \cup {visit.course}) :
                label[d].language = visit.saw.language =>
                  Cardinality(label[c].areas \cap visit.saw.areas)
                    >= Cardinality(label[d].areas \cap visit.saw.areas)

(* What one answer says of the catalogue besides the courses it lists:     *)
(* that it is whole, how long a course is and which ones are closest       *)
(* (search, total_duration_seconds, related).                              *)
AnswersAreExact ==
    TypeOK /\ UncutSearchIsComplete /\ LengthIsOfTheOutline /\ RelatedAreTheClosest

(* A paid lesson's body, token or words reach nobody but its owner, an     *)
(* administrator, or a learner whose account had access at some moment of  *)
(* the visit, by whichever route (IsEntitledToLesson, resolve_access).     *)
PaidBodiesArePaidFor ==
    visit.at = "body" /\ visit.lesson \notin Previews =>
        \/ visit.reader \in {"owner", "administrator"}
        \/ visit.reader = "learner" /\ during.entitled

-----------------------------------------------------------------------------
(* Statements of the repository that the code does not keep. *)

(* "truncated" is to tell "a full list from a cut one": a full list of     *)
(* exactly the limit says it was cut.                                      *)
CutMeansMore ==
    visit.at = "found" /\ visit.truncated => Live \ visit.results # {}

(* "The list is cursor-paginated by publication date": the pages are by    *)
(* the date of creation.                                                   *)
NewestPublishedFirst ==
    visit.at \in {"page", "listed"} =>
        \A c \in visit.shown, d \in during.standing \ visit.shown : ~Newer(d, c)

(* "Languages the visitor can actually browse", to no dead end.            *)
NoDeadEnd ==
    visit.at = "listed" => visit.language = Anything \/ visit.shown # {}

(* Withheld "unless every lesson that counts has been measured": the       *)
(* outline is read after the total.                                        *)
NoPartialTotal ==
    visit.at = "detail" /\ visit.total # Unknown =>
        \A l \in visit.outline \cap WithMedia : lesson[l] = "measured"
=============================================================================
