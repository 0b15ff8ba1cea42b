---------------------------- MODULE MCCredentials ----------------------------
EXTENDS Credentials, TLC

(* Requests are told apart by nothing, nor are tokens of a kind. *)
Symmetry == Permutations(Calls) \cup Permutations(ResetTokens)
=============================================================================
