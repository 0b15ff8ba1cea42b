----------------------------- MODULE Credentials -----------------------------
(***************************************************************************)
(* The password of one account, the links mailed for it and the sessions   *)
(* it opened: apps/accounts services.py and views.py, with deliver_email   *)
(* of apps/notifications, for any number of requests at once.              *)
(*                                                                         *)
(* verify_email and reset_password are READ COMMITTED transactions; they   *)
(* are cut where they wait for a row, and what they write is visible when  *)
(* they commit.  Everything else commits statement by statement, and is    *)
(* cut between statements.  A row lock follows from where its holder is.   *)
(*                                                                         *)
(* Abstracted: a password is the number of times the column was written,   *)
(* for set_password salts anew; a session is the number its auth hash was  *)
(* made of.  A link is the token it carries.  Hours are small numbers.     *)
(* Throttles, lockouts, roles, invitations and deactivation are left out.  *)
(***************************************************************************)
EXTENDS Naturals, FiniteSets

CONSTANTS
    Calls,          \* web requests running at once
    Browsers,       \* cookies the learner holds
    VerifyTokens, ResetTokens,     \* tokens there may come to be
    VerifyLifetime, ResetLifetime, \* their lifetimes, in hours
    LastHour,       \* bound on time
    MaxPasswords,   \* bound on how often the password is set
    None

ASSUME CredentialsAssumption ==
    /\ VerifyTokens \cap ResetTokens = {}
    /\ None \notin VerifyTokens \cup ResetTokens
    /\ VerifyLifetime \in Nat \ {0} /\ ResetLifetime \in Nat \ {0}
    /\ LastHour \in Nat /\ MaxPasswords \in Nat

VARIABLES
    now,
    account,    \* the committed User row
    token,      \* the committed token rows
    mail,       \* the deliver_email message that carries each token
    inbox,      \* links that have arrived
    session,    \* the session row behind each cookie
    call,       \* where each request is, and what it has read
    late,       \* history: tokens issued while a reset makes the others moot
    overtaken,  \* history: a change was saved over a password it had not read
    unsent      \* history: a process was lost before it queued a verification message

vars == <<now, account, token, mail, inbox, session, call, late, overtaken, unsent>>

Tokens == VerifyTokens \cup ResetTokens
Passwords == 0..MaxPasswords

(* password 0: there is no account. *)
User == [password: Passwords, verified: BOOLEAN]
Nobody == [password |-> 0, verified |-> FALSE]

Rows == [there: BOOLEAN, expires: Nat, consumed: BOOLEAN]
Unissued == [there |-> FALSE, expires |-> 0, consumed |-> FALSE]

Messages == {"none", "queued", "sent", "dropped"}

(* hash: the password behind the auth hash, 0 without a session; ended is  *)
(* history: a reset was committed since the cookie was signed in.          *)
Sessions == [hash: Passwords, ended: BOOLEAN]
Anonymous == [hash |-> 0, ended |-> FALSE]

(* loaded: the User instance; moot: the tokens the last UPDATE has found.  *)
Steps == {"idle", "verifying", "resetting", "issuing", "mailing", "setting",
          "mooting", "confirming", "signing", "changing", "rotating"}
Call == [at: Steps, token: Tokens \cup {None}, loaded: User,
         moot: SUBSET Tokens, browser: Browsers \cup {None}, ended: BOOLEAN]
Idle == [at |-> "idle", token |-> None, loaded |-> Nobody, moot |-> {},
         browser |-> None, ended |-> FALSE]

TypeOK ==
    /\ now \in 0..LastHour
    /\ account \in User
    /\ token \in [Tokens -> Rows]
    /\ \A t \in ResetTokens : token[t].expires <= LastHour + ResetLifetime
    /\ mail \in [Tokens -> Messages]
    /\ inbox \in SUBSET Tokens
    /\ session \in [Browsers -> Sessions]
    /\ call \in [Calls -> Call]
    /\ late \in SUBSET ResetTokens /\ overtaken \in BOOLEAN /\ unsent \in BOOLEAN

Init ==
    /\ now = 0 /\ account = Nobody
    /\ token = [t \in Tokens |-> Unissued]
    /\ mail = [t \in Tokens |-> "none"]
    /\ inbox = {}
    /\ session = [b \in Browsers |-> Anonymous]
    /\ call = [c \in Calls |-> Idle]
    /\ late = {} /\ overtaken = FALSE /\ unsent = FALSE

Finish(c) == call' = [call EXCEPT ![c] = Idle]
Begin(c, step) == call' = [call EXCEPT ![c] = [Idle EXCEPT !.at = step]]

-----------------------------------------------------------------------------
(* Row locks, held from the statement that takes one to the commit. *)
HoldsToken(c, t) ==
    call[c].at \in {"confirming", "setting", "mooting"} /\ call[c].token = t
HoldsUser(c) == call[c].at = "mooting"

Unlocked(c, t) == TRUE
TokenFree(c, t) == ~\E d \in Calls \ {c} : HoldsToken(d, t)
UserFree == ~\E d \in Calls : HoldsUser(d)

(* Who waits for whom, as the database sees it. *)
WaitsFor(c, d) ==
    /\ c # d
    /\ \/ call[c].at \in {"confirming", "setting", "signing", "changing"} /\ HoldsUser(d)
       \/ call[c].at = "mooting" /\ \E t \in call[c].moot : HoldsToken(d, t)
Deadlocked(c, d) == WaitsFor(c, d) /\ WaitsFor(d, c)

-----------------------------------------------------------------------------
(* RegisterView, ResendVerificationView, PasswordResetView: the token is   *)
(* committed, and then its message queued.                                 *)

RegisterQuietly(c) ==
    /\ call[c].at = "idle" /\ account = Nobody /\ MaxPasswords > 0
    /\ account' = [Nobody EXCEPT !.password = 1]
    /\ UNCHANGED <<now, token, mail, inbox, session, call, late, overtaken, unsent>>
Register(c) ==
    /\ call[c].at = "idle" /\ account = Nobody /\ MaxPasswords > 0
    /\ account' = [Nobody EXCEPT !.password = 1]
    /\ Begin(c, "verifying")
    /\ UNCHANGED <<now, token, mail, inbox, session, late, overtaken, unsent>>

AskVerification(c) ==
    /\ call[c].at = "idle" /\ account # Nobody /\ ~account.verified
    /\ Begin(c, "verifying")
    /\ UNCHANGED <<now, account, token, mail, inbox, session, late, overtaken, unsent>>

AskReset(c) ==
    /\ call[c].at = "idle" /\ account # Nobody
    /\ Begin(c, "resetting")
    /\ UNCHANGED <<now, account, token, mail, inbox, session, late, overtaken, unsent>>

(* issue_email_verification and issue_password_reset.  The INSERT's key    *)
(* share lock on the user does not wait for an UPDATE of other columns.    *)
Lifetime(t) == IF t \in VerifyTokens THEN VerifyLifetime ELSE ResetLifetime
Issue(c, t) ==
    /\ ~token[t].there
    /\ token' = [token EXCEPT ![t] =
          [there |-> TRUE, expires |-> now + Lifetime(t), consumed |-> FALSE]]
    /\ late' = IF UserFree THEN late ELSE late \cup ({t} \cap ResetTokens)
    /\ call' = [call EXCEPT ![c] = [Idle EXCEPT !.at = "mailing", !.token = t]]
    /\ UNCHANGED <<now, account, mail, inbox, session, overtaken, unsent>>

IssueEmailVerification(c, t) ==
    call[c].at = "verifying" /\ t \in VerifyTokens /\ Issue(c, t)
IssuePasswordReset(c, t) ==
    call[c].at = "resetting" /\ t \in ResetTokens /\ Issue(c, t)

QueueMail(c) ==
    /\ call[c].at = "mailing"
    /\ mail' = [mail EXCEPT ![call[c].token] = "queued"]
    /\ Finish(c)
    /\ UNCHANGED <<now, account, token, inbox, session, late, overtaken, unsent>>

(* deliver_email, at least once: a copy that arrives again is the same     *)
(* link, and links may be followed any number of times.                    *)
Deliver(t) ==
    /\ mail[t] = "queued"
    /\ inbox' = inbox \cup {t}
    /\ mail' = [mail EXCEPT ![t] = "sent"]
    /\ UNCHANGED <<now, account, token, session, call, late, overtaken, unsent>>

(* EmailNotSent at every try: nobody is told. *)
GiveUp(t) ==
    /\ mail[t] = "queued"
    /\ mail' = [mail EXCEPT ![t] = "dropped"]
    /\ UNCHANGED <<now, account, token, inbox, session, call, late, overtaken, unsent>>

-----------------------------------------------------------------------------
(* verify_email and reset_password. *)

(* The locked read of the token.  Its refusals write nothing; the clock is *)
(* read behind the lock.                                                   *)
NotExpired(t) == token[t].expires > now
Usable(c, t) ==
    TokenFree(c, t) /\ token[t].there /\ ~token[t].consumed /\ NotExpired(t)

(* The user is read behind the token, without a lock. *)
Follow(c, t, step) ==
    /\ call[c].at = "idle"
    /\ t \in inbox /\ Usable(c, t)
    /\ call' = [call EXCEPT ![c] =
          [Idle EXCEPT !.at = step, !.token = t, !.loaded = account]]
    /\ UNCHANGED <<now, account, token, mail, inbox, session, late, overtaken, unsent>>
VerifyEmail(c, t) == t \in VerifyTokens /\ Follow(c, t, "confirming")
ResetPassword(c, t) == t \in ResetTokens /\ Follow(c, t, "setting")

Consumed(rows, ts) == [t \in Tokens |-> [rows[t] EXCEPT !.consumed = @ \/ t \in ts]]

Confirm(c) ==
    /\ call[c].at = "confirming"
    /\ UserFree
    /\ account' = [account EXCEPT !.verified = TRUE]
    /\ token' = Consumed(token, {call[c].token})
    /\ Finish(c)
    /\ UNCHANGED <<now, mail, inbox, session, late, overtaken, unsent>>

(* save(update_fields=["password"]) over the row as committed. *)
WholeRow(c) == [call[c].loaded EXCEPT !.password = account.password + 1]
WithPassword(c) == [account EXCEPT !.password = @ + 1]

(* The other outstanding tokens: what the closing UPDATE finds when it     *)
(* starts.                                                                 *)
OutstandingOfBothKinds(c) ==
    {t \in Tokens \ {call[c].token} : token[t].there /\ ~token[t].consumed}
OutstandingUnlocked(c) ==
    {t \in ResetTokens \ {call[c].token} :
       token[t].there /\ ~token[t].consumed /\ TokenFree(c, t)}
Outstanding(c) ==
    {t \in ResetTokens \ {call[c].token} : token[t].there /\ ~token[t].consumed}

SetPassword(c) ==
    /\ call[c].at = "setting"
    /\ UserFree /\ account.password < MaxPasswords
    /\ call' = [call EXCEPT ![c].at = "mooting", ![c].moot = Outstanding(c)]
    /\ late' = {}
    /\ UNCHANGED <<now, account, token, mail, inbox, session, overtaken, unsent>>

CommitReset(c) ==
    /\ call[c].at = "mooting"
    /\ \A t \in call[c].moot : TokenFree(c, t)
    /\ account' = WithPassword(c)
    /\ token' = Consumed(token, call[c].moot \cup {call[c].token})
    /\ session' = [b \in Browsers |-> [session[b] EXCEPT !.ended = session[b] # Anonymous]]
    /\ call' = [d \in Calls |-> IF d = c THEN Idle
                    ELSE [call[d] EXCEPT !.ended = call[d].browser # None]]
    /\ late' = {}
    /\ UNCHANGED <<now, mail, inbox, overtaken, unsent>>

(* PostgreSQL ends one of two transactions that wait for each other. *)
BreakDeadlock(c) ==
    /\ \E d \in Calls : Deadlocked(c, d)
    /\ Finish(c)
    /\ UNCHANGED <<now, account, token, mail, inbox, session, late, overtaken, unsent>>

-----------------------------------------------------------------------------
(* Sessions: one is good while its auth hash is of the present password.   *)
Valid(b) == session[b].hash # 0 /\ session[b].hash = account.password

(* LoginView: authenticate checks the row it loads; login dates the row    *)
(* and then stores the hash of the instance.                               *)
Authenticate(c, b) ==
    /\ call[c].at = "idle" /\ account # Nobody
    /\ call' = [call EXCEPT ![c] =
          [Idle EXCEPT !.at = "signing", !.loaded = account, !.browser = b]]
    /\ UNCHANGED <<now, account, token, mail, inbox, session, late, overtaken, unsent>>

SignIn(c) ==
    /\ call[c].at = "signing"
    /\ UserFree
    /\ session' = [session EXCEPT ![call[c].browser] =
          [hash |-> call[c].loaded.password, ended |-> call[c].ended]]
    /\ Finish(c)
    /\ UNCHANGED <<now, account, token, mail, inbox, late, overtaken, unsent>>

Logout(b) ==
    /\ session[b] # Anonymous
    /\ session' = [session EXCEPT ![b] = Anonymous]
    /\ UNCHANGED <<now, account, token, mail, inbox, call, late, overtaken, unsent>>

(* PasswordChangeView: request.user is loaded and its password checked,    *)
(* the new one is saved without a lock or a second look, and the session   *)
(* keeps up with what this request has saved.                              *)
CheckPassword(c, b) ==
    /\ call[c].at = "idle" /\ Valid(b)
    /\ call' = [call EXCEPT ![c] =
          [Idle EXCEPT !.at = "changing", !.loaded = account, !.browser = b,
                       !.ended = session[b].ended]]
    /\ UNCHANGED <<now, account, token, mail, inbox, session, late, overtaken, unsent>>

ChangePassword(c) ==
    /\ call[c].at = "changing"
    /\ UserFree /\ account.password < MaxPasswords
    /\ account' = WithPassword(c)
    /\ overtaken' = (overtaken \/ call[c].loaded.password # account.password)
    /\ call' = [call EXCEPT ![c].at = "rotating", ![c].loaded = account']
    /\ UNCHANGED <<now, token, mail, inbox, session, late, unsent>>

HashNow(c) == account.password
HashOf(c) == call[c].loaded.password
UpdateSessionAuthHash(c) ==
    /\ call[c].at = "rotating"
    /\ session' = [session EXCEPT ![call[c].browser] =
          [hash |-> HashOf(c), ended |-> call[c].ended]]
    /\ Finish(c)
    /\ UNCHANGED <<now, account, token, mail, inbox, late, overtaken, unsent>>

-----------------------------------------------------------------------------
(* A verification message is due. *)
Verifying(c) ==
    \/ call[c].at = "verifying"
    \/ call[c].at = "mailing" /\ call[c].token \in VerifyTokens

(* A lost process or connection: an open transaction is rolled back, what  *)
(* is committed stays.                                                     *)
Crash(c) ==
    /\ call[c].at # "idle"
    /\ unsent' = (unsent \/ Verifying(c))
    /\ Finish(c)
    /\ UNCHANGED <<now, account, token, mail, inbox, session, late, overtaken>>

Tick ==
    /\ now < LastHour
    /\ now' = now + 1
    /\ UNCHANGED <<account, token, mail, inbox, session, call, late, overtaken, unsent>>

Next ==
    \/ Tick
    \/ \E c \in Calls :
          \/ Register(c) \/ AskVerification(c) \/ AskReset(c) \/ QueueMail(c)
          \/ Confirm(c) \/ SetPassword(c) \/ CommitReset(c) \/ BreakDeadlock(c)
          \/ SignIn(c) \/ ChangePassword(c) \/ UpdateSessionAuthHash(c) \/ Crash(c)
          \/ \E t \in Tokens :
                \/ IssueEmailVerification(c, t) \/ IssuePasswordReset(c, t)
                \/ VerifyEmail(c, t) \/ ResetPassword(c, t)
          \/ \E b \in Browsers : Authenticate(c, b) \/ CheckPassword(c, b)
    \/ \E t \in Tokens : Deliver(t) \/ GiveUp(t)
    \/ \E b \in Browsers : Logout(b)

Spec == Init /\ [][Next]_vars

-----------------------------------------------------------------------------
(* A link opens once, however many requests, copies of its mail or clicks  *)
(* carry it: what the locked read of verify_email and reset_password found *)
(* unused is unused until that transaction ends.                           *)
CheckedLinkIsUnused ==
    \A c \in Calls, t \in Tokens : HoldsToken(c, t) => ~token[t].consumed

(* A reset leaves no other link of the account usable but one that was     *)
(* issued while its closing UPDATE waited (reset_password).                *)
OldLinksDie ==
    [][\A c \in Calls : CommitReset(c) =>
         \A t \in ResetTokens : token'[t].there /\ ~token'[t].consumed => t \in late]_vars

(* A link is spent by one request, and no other link outlives a reset      *)
(* (verify_email, reset_password).                                         *)
LinksAreSpentOnce == [](TypeOK /\ CheckedLinkIsUnused) /\ OldLinksDie

(* A reset ends every session that was signed in before it, also one whose *)
(* browser is changing its password meanwhile (update_session_auth_hash    *)
(* hashes the instance), unless such a change is saved over the reset.     *)
SessionsEndWithReset ==
    \A b \in Browsers : Valid(b) /\ ~overtaken => ~session[b].ended

(* Requests that wait for each other are two resets with two links: no     *)
(* verification, sign-in or password change is the database's victim.      *)
OnlyResetsDeadlock ==
    \A c, d \in Calls : Deadlocked(c, d) => call[c].at \in {"setting", "mooting"}

(* Whoever registered is sent a link, unless a process was lost between    *)
(* the commit of the account and the message (RegisterView).               *)
RegisteredIsMailed ==
    account # Nobody /\ ~unsent =>
       \/ \E t \in VerifyTokens : mail[t] # "none"
       \/ \E c \in Calls : Verifying(c)

(* A password set from an instance loaded earlier does not undo an address *)
(* confirmed since (update_fields in reset_password and change_password).  *)
ConfirmedStays == [][account.verified => account'.verified]_vars

-----------------------------------------------------------------------------
(* Statements of the repository that the code does not keep: TLC refutes   *)
(* each of them.                                                           *)

(* "Any other reset token outstanding for this account is now moot"        *)
(* (services.py:327): one issued while the UPDATE is waiting is not.       *)
OtherLinksAreMoot ==
    [][\A c \in Calls : CommitReset(c) =>
         \A t \in ResetTokens : token'[t].there => token'[t].consumed]_vars

(* "All sessions are invalidated" (views.py:332): a change that had been   *)
(* checked before the reset is saved over it, and keeps its session.       *)
AllSessionsEnd == \A b \in Browsers : Valid(b) => ~session[b].ended

(* The password a change replaces is the one it has checked                *)
(* (services.py:339-343).                                                  *)
ChangedWhatItChecked == ~overtaken
=============================================================================
