----------------------------- MODULE MCCatalogue -----------------------------
(* Instances of Catalogue for TLC. *)
EXTENDS Catalogue, TLC

CONSTANTS c1, c2, c3, l1, l2

Label(language, areas, words) ==
    [language |-> language, level |-> "A1", areas |-> areas,
     words |-> words, near |-> {"q"}]

(* Two Spanish courses that share one skill area or two, and a French one. *)
MCLabels == {Label("es", {"speaking", "writing"}, {"q"}),
             Label("es", {"speaking"}, {}),
             Label("fr", {"speaking"}, {})}

MCCreatedAt == (c1 :> 1) @@ (c2 :> 2) @@ (c3 :> 3)
MCCourseOf == (l1 :> c1) @@ (l2 :> c1)
MCSeconds == (l1 :> 1) @@ (l2 :> 2)

SameLabels == \A c, d \in Courses : label[c] = label[d]
NoLessons == \A l \in Lessons : lesson[l] = "absent"

(* What a visit does not read stays as it was: lists and searches read no  *)
(* lesson and no account, the gate no label, and of a page the length is   *)
(* read from lessons alone, the related strip from labels alone.           *)
OnlyWhatIsRead ==
    /\ visit.at \in {"languages", "page", "listed", "similar", "found"} =>
         ~entitled /\ NoLessons
    /\ visit.at \in {"outline", "related", "detail"} =>
         ~entitled /\ (NoLessons \/ SameLabels)
    /\ visit.at \in {"gate", "mint", "body"} => SameLabels
    /\ visit.at = "idle" => NoLessons \/ SameLabels
=============================================================================
