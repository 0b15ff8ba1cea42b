----------------------------- MODULE Invitations -----------------------------
(***************************************************************************)
(* Admission to the private beta (apps/accounts/services.py) for one       *)
(* address: its BetaInvitation, the account registered with it, and the    *)
(* calls that issue, revoke and spend the invitation, each a transaction   *)
(* at READ COMMITTED.                                                      *)
(*                                                                         *)
(* A transaction is cut where it waits: at a row that select_for_update    *)
(* or the conditional UPDATE finds locked, and at a unique index in which  *)
(* another has an uncommitted row.  What it writes is committed, with its  *)
(* AuditLog row, by its last step.                                         *)
(*                                                                         *)
(* Abstracted: the row's dates are days and 0 is NULL; the audit trail is  *)
(* its newest action.  Whether the actor is an administrator is left out,  *)
(* and so are the mail and the verification token after a registration.    *)
(***************************************************************************)
EXTENDS Naturals

CONSTANTS
    Calls,      \* web requests running at once
    Lifetime,   \* INVITATION_LIFETIME
    LastDay     \* bound on time

ASSUME InvitationsAssumption == Lifetime \in Nat \ {0} /\ LastDay \in Nat \ {0}

VARIABLES
    now,
    invitation,   \* the committed row
    account,      \* the address's account: none, registered, or created ungated
    newest,       \* the newest audit action about the invitation
    call          \* each call's place in its transaction, and the time it read

vars == <<now, invitation, account, newest, call>>

BetaInvitation ==
    [there: BOOLEAN, expires: 0..(LastDay + Lifetime), revoked: BOOLEAN, consumed: 0..LastDay]
Actions == {"ISSUED", "REVOKED", "CONSUMED"}
Steps == {"idle", "issuing", "inserting", "inserted", "reopening", "revoking",
          "joined", "spending"}

TypeOK ==
    /\ now \in 1..LastDay
    /\ invitation \in BetaInvitation
    /\ account \in {"none", "registered", "created"}
    /\ newest \in Actions \cup {"NONE"}
    /\ call \in [Calls -> [at: Steps, clock: 0..LastDay]]

Idle == [at |-> "idle", clock |-> 0]

Init ==
    /\ now = 1
    /\ invitation = [there |-> FALSE, expires |-> 0, revoked |-> FALSE, consumed |-> 0]
    /\ account = "none" /\ newest = "NONE"
    /\ call = [c \in Calls |-> Idle]

Goto(c, step) == call' = [call EXCEPT ![c].at = step]
Finish(c) == call' = [call EXCEPT ![c] = Idle]

(* The row lock, held from the statement that takes it to the commit. *)
HoldsRow(c) == call[c].at \in {"reopening", "revoking", "spending"}
Unlocked == TRUE
RowFree == \A c \in Calls : ~HoldsRow(c)

(* An uncommitted row in a unique index makes a second insert wait. *)
InvitationInsertable == \A c \in Calls : call[c].at # "inserted"
UserInsertable == \A c \in Calls : call[c].at \notin {"joined", "spending"}

-----------------------------------------------------------------------------
(* issue_invitation *)

(* now and expires_at are computed before the row is locked. *)
BeginIssue(c) ==
    /\ call[c].at = "idle"
    /\ call' = [call EXCEPT ![c] = [at |-> "issuing", clock |-> now]]
    /\ UNCHANGED <<now, invitation, account, newest>>

(* The locked read; a consumed invitation is not issued again. *)
FindToIssue(c) ==
    /\ call[c].at = "issuing"
    /\ RowFree
    /\ \/ ~invitation.there /\ Goto(c, "inserting")
       \/ invitation.there /\ invitation.consumed = 0 /\ Goto(c, "reopening")
       \/ invitation.consumed # 0 /\ Finish(c)
    /\ UNCHANGED <<now, invitation, account, newest>>

(* Whoever finds a row at the unique index reports a conflict. *)
Insert(c) ==
    /\ call[c].at = "inserting"
    /\ InvitationInsertable
    /\ IF invitation.there THEN Finish(c) ELSE Goto(c, "inserted")
    /\ UNCHANGED <<now, invitation, account, newest>>

ExpiresAt(c) == call[c].clock + Lifetime

SaveIssued(c) ==
    /\ call[c].at \in {"inserted", "reopening"}
    /\ invitation' = [invitation EXCEPT !.there = TRUE, !.expires = ExpiresAt(c),
                                        !.revoked = FALSE]
    /\ newest' = "ISSUED"
    /\ Finish(c)
    /\ UNCHANGED <<now, account>>

-----------------------------------------------------------------------------
(* revoke_invitation; its refusals, and revoking again, write nothing. *)
FindToRevoke(c) ==
    /\ call[c].at = "idle"
    /\ RowFree
    /\ invitation.there /\ invitation.consumed = 0 /\ ~invitation.revoked
    /\ Goto(c, "revoking")
    /\ UNCHANGED <<now, invitation, account, newest>>

SaveRevoked(c) ==
    /\ call[c].at = "revoking"
    /\ invitation' = [invitation EXCEPT !.revoked = TRUE]
    /\ newest' = "REVOKED"
    /\ Finish(c)
    /\ UNCHANGED <<now, account>>

-----------------------------------------------------------------------------
(* register_account: the account first, then consume_invitation. *)

Register(c) ==
    /\ call[c].at = "idle"
    /\ account = "none" /\ UserInsertable
    /\ call' = [call EXCEPT ![c] = [at |-> "joined", clock |-> now]]
    /\ UNCHANGED <<now, invitation, account, newest>>

ExpiresOnOrAfter(day) == invitation.expires >= day
NotExpired(day) == invitation.expires > day

UsableAgain(day) == invitation.there /\ invitation.consumed = 0 /\ NotExpired(day)
Usable(day) ==
    /\ invitation.there /\ invitation.consumed = 0 /\ ~invitation.revoked
    /\ NotExpired(day)

(* The conditional UPDATE waits for the row and tests it again. *)
Spend(c) ==
    /\ call[c].at = "joined"
    /\ RowFree
    /\ Usable(call[c].clock)
    /\ Goto(c, "spending")
    /\ UNCHANGED <<now, invitation, account, newest>>

(* No row matched: the exception rolls the account back.  A row that does  *)
(* not match as committed is passed over without waiting for its lock.     *)
Refuse(c) ==
    /\ call[c].at = "joined"
    /\ ~Usable(call[c].clock)
    /\ Finish(c)
    /\ UNCHANGED <<now, invitation, account, newest>>

CommitRegistration(c) ==
    /\ call[c].at = "spending"
    /\ invitation' = [invitation EXCEPT !.consumed = call[c].clock]
    /\ account' = "registered"
    /\ newest' = "CONSUMED"
    /\ Finish(c)
    /\ UNCHANGED now

-----------------------------------------------------------------------------
(* create_account alone: a management command, or registration while       *)
(* BETA_INVITATION_REQUIRED is off.                                        *)
CreateAccount ==
    /\ account = "none" /\ UserInsertable
    /\ account' = "created"
    /\ UNCHANGED <<now, invitation, newest, call>>

(* A lost connection or a failed audit row rolls a transaction back. *)
Abort(c) ==
    /\ call[c].at # "idle"
    /\ Finish(c)
    /\ UNCHANGED <<now, invitation, account, newest>>

Tomorrow ==
    /\ now < LastDay
    /\ now' = now + 1
    /\ UNCHANGED <<invitation, account, newest, call>>

Next ==
    \/ CreateAccount \/ Tomorrow
    \/ \E c \in Calls :
          \/ BeginIssue(c) \/ FindToIssue(c) \/ Insert(c) \/ SaveIssued(c)
          \/ FindToRevoke(c) \/ SaveRevoked(c)
          \/ Register(c) \/ Spend(c) \/ Refuse(c) \/ CommitRegistration(c)
          \/ Abort(c)

Spec == Init /\ [][Next]_vars

-----------------------------------------------------------------------------
(* An invitation is spent before it expires, however long the UPDATE       *)
(* waited and whoever moved the date meanwhile (consume_invitation's       *)
(* expires_at__gt=now).                                                    *)
SpentInTime == invitation.consumed # 0 => invitation.consumed < invitation.expires

(* The newest audit row tells what the invitation is: nothing is recorded  *)
(* as withdrawn that was used, or as issued that is spent, and no row is   *)
(* both consumed and revoked (revoke_invitation, issue_invitation).        *)
TrailExplainsAdmission ==
    /\ newest = "NONE" <=> ~invitation.there
    /\ newest = "CONSUMED" <=> invitation.consumed # 0
    /\ newest = "REVOKED" <=> invitation.revoked

(* BetaInvitationAdmin.state, expiry aside. *)
Place ==
    CASE invitation.consumed # 0 -> "spent"
      [] invitation.consumed = 0 /\ ~invitation.there -> "none"
      [] invitation.consumed = 0 /\ invitation.there /\ invitation.revoked -> "withdrawn"
      [] OTHER -> "open"

Promise == INSTANCE Admission WITH place <- Place

(* An address is admitted exactly once, by the registration that spends    *)
(* its open invitation; one that fails leaves it unspent.                  *)
AdmissionIsKept == Promise!Spec
=============================================================================
