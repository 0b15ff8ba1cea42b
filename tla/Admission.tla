------------------------------ MODULE Admission ------------------------------
(***************************************************************************)
(* What the beta promises of one email address: it is admitted at most     *)
(* once, an admission is spent in the same step that creates its account,  *)
(* and an admission that was withdrawn or spent admits nobody until it is  *)
(* issued again, which a spent one never is.                               *)
(***************************************************************************)
VARIABLES
    place,    \* of the address: not invited, open, withdrawn or spent
    account   \* how the account of the address came to be, if it did

vars == <<place, account>>

Init == place = "none" /\ account = "none"

Issue ==
    /\ place # "spent"
    /\ place' = "open"
    /\ UNCHANGED account

Withdraw ==
    /\ place = "open"
    /\ place' = "withdrawn"
    /\ UNCHANGED account

Admit ==
    /\ place = "open" /\ account = "none"
    /\ place' = "spent" /\ account' = "registered"

(* A management command, or registration with the gate off. *)
CreateUngated ==
    /\ account = "none"
    /\ account' = "created"
    /\ UNCHANGED place

Next == Issue \/ Withdraw \/ Admit \/ CreateUngated

Spec == Init /\ [][Next]_vars
=============================================================================
