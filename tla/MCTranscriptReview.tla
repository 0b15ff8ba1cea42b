------------------------- MODULE MCTranscriptReview -------------------------
(* Instances of TranscriptReview for TLC. *)
EXTENDS TranscriptReviewProps, TLC

(* Interchangeable model values; safety runs only. *)
Symmetry == Permutations(Jobs) \cup Permutations(Tasks)
              \cup Permutations(Reviewers) \cup Permutations(Learners)
=============================================================================
