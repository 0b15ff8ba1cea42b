------------------------- MODULE MCCoursePublication -------------------------
(* Instances of CoursePublication for TLC. *)
EXTENDS CoursePublication, TLC

Symmetry == Permutations(Requests)
=============================================================================
