---------------------------- MODULE MCInvitations ----------------------------
EXTENDS Invitations, TLC

(* Calls are told apart by nothing. *)
CallSymmetry == Permutations(Calls)
=============================================================================
