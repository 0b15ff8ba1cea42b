----------------------------- MODULE MCCurriculum -----------------------------
EXTENDS Curriculum, TLC

(* Requests, sections and lessons are told apart by nothing. *)
Symmetry == Permutations(Calls) \cup Permutations(Sections) \cup Permutations(Lessons)
=============================================================================
