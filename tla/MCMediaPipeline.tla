--------------------------- MODULE MCMediaPipeline ---------------------------
(* Instances of MediaPipeline for TLC. *)
EXTENDS MediaPipelineProps, TLC

(* Interchangeable model values; safety runs only. *)
Symmetry == Permutations(Keys) \cup Permutations(Copies)
              \cup Permutations(Requests) \cup Permutations(Jobs)
=============================================================================
