-------------------------- MODULE CredentialsProofs --------------------------
(* Proofs about Credentials: for any number of requests, browsers, links   *)
(* and hours, links are spent once, sessions end with a reset, only resets *)
(* wait for each other, and what was confirmed or owed is not lost.        *)
EXTENDS Credentials, TLAPS

(***************************************************************************)
(* The inductive invariant: what each request knows of the rows it works   *)
(* on, and which two requests cannot hold the same row.                    *)
(***************************************************************************)

Spending == {"confirming", "setting", "mooting"}
OpeningSession == {"signing", "changing", "rotating"}

(* There is an account before anything happens to it. *)
AccountInv ==
    /\ account.password = 0 => ~account.verified
    /\ \A t \in Tokens : token[t].there => account.password > 0
    /\ \A d \in Calls : call[d].at # "idle" => account.password > 0

(* A request that spends a link holds one of the right kind, unused. *)
SpendingOK(d) ==
    /\ call[d].at = "confirming" => call[d].token \in VerifyTokens
    /\ call[d].at \in {"setting", "mooting"} => call[d].token \in ResetTokens
    /\ call[d].at \in Spending => ~token[call[d].token].consumed

(* A reset that waits to make the others moot knows of all but the late    *)
(* ones.                                                                   *)
MootingOK(d) ==
    call[d].at = "mooting" =>
        /\ account.password < MaxPasswords
        /\ call[d].moot \subseteq ResetTokens
        /\ \A t \in ResetTokens : token[t].there /\ ~token[t].consumed =>
              t \in call[d].moot \cup {call[d].token} \cup late

HoldingInv ==
    /\ \A d \in Calls : SpendingOK(d) /\ MootingOK(d)
    /\ \A c, d \in Calls :
          /\ call[c].at \in Spending /\ call[d].at \in Spending
               /\ call[c].token = call[d].token => c = d
          /\ call[c].at = "mooting" /\ call[d].at = "mooting" => c = d

(* A session, or one about to be stored, that is older than a reset is     *)
(* made of an older password.                                              *)
Outdated(ended, password) ==
    /\ password <= account.password
    /\ ended /\ ~overtaken => password < account.password

SessionInv ==
    /\ \A b \in Browsers : Outdated(session[b].ended, session[b].hash)
    /\ \A d \in Calls : call[d].at \in OpeningSession =>
          Outdated(call[d].ended, call[d].loaded.password)

IInv == TypeOK /\ AccountInv /\ HoldingInv /\ SessionInv /\ RegisteredIsMailed

-----------------------------------------------------------------------------
LEMMA CallFields ==
    ASSUME TypeOK, NEW d \in Calls
    PROVE  /\ call[d] \in Call /\ call[d].at \in Steps
           /\ call[d].token \in Tokens \cup {None}
           /\ call[d].loaded \in User /\ call[d].loaded.password \in Nat
           /\ call[d].moot \subseteq Tokens /\ call[d].ended \in BOOLEAN
BY CredentialsAssumption DEF TypeOK, Call, User, Passwords

LEMMA RowFields ==
    ASSUME TypeOK
    PROVE  /\ account \in User /\ account.password \in Passwords
           /\ account.password \in Nat /\ account.verified \in BOOLEAN
           /\ now \in Nat /\ MaxPasswords \in Nat
           /\ \A t \in Tokens : /\ token[t].there \in BOOLEAN
                                /\ token[t].expires \in Nat
                                /\ token[t].consumed \in BOOLEAN
           /\ \A b \in Browsers : session[b].hash \in Nat /\ session[b].ended \in BOOLEAN
BY CredentialsAssumption DEF TypeOK, User, Passwords, Rows, Sessions

LEMMA IdleType == Idle \in Call
BY CredentialsAssumption DEF Idle, Call, Steps, Nobody, User, Passwords

(* Between two requests there is an account, or nothing. *)
LEMMA NobodyIsNobody ==
    ASSUME IInv
    PROVE  account = Nobody <=> account.password = 0
BY RowFields DEF IInv, AccountInv, Nobody, User

LEMMA InitHolds == Init => IInv
<1> SUFFICES ASSUME Init PROVE IInv
  OBVIOUS
<1>1. TypeOK
  <2>1. /\ now \in 0..LastHour /\ account \in User
        /\ late \in SUBSET ResetTokens /\ overtaken \in BOOLEAN /\ unsent \in BOOLEAN
    <3>1. 0 \in 0..LastHour /\ 0 \in Passwords
      BY CredentialsAssumption DEF Passwords
    <3>2. Nobody \in User
      BY <3>1 DEF Nobody, User
    <3>3. QED
      BY <3>1, <3>2 DEF Init
  <2>2. token \in [Tokens -> Rows] /\ mail \in [Tokens -> Messages] /\ inbox \in SUBSET Tokens
    BY DEF Init, Rows, Unissued, Messages
  <2>3. \A t \in ResetTokens : token[t].expires <= LastHour + ResetLifetime
    BY CredentialsAssumption DEF Init, Unissued, Tokens
  <2>4. session \in [Browsers -> Sessions]
    BY CredentialsAssumption DEF Init, Sessions, Anonymous, Passwords
  <2>5. call \in [Calls -> Call]
    BY IdleType DEF Init
  <2>6. QED
    BY <2>1, <2>2, <2>3, <2>4, <2>5 DEF TypeOK
<1>2. /\ account.password = 0 /\ ~account.verified
      /\ \A t \in Tokens : ~token[t].there
      /\ \A d \in Calls : call[d].at = "idle"
      /\ \A b \in Browsers : session[b].hash = 0 /\ ~session[b].ended
  BY DEF Init, Nobody, Unissued, Idle, Anonymous
<1>3. AccountInv /\ HoldingInv /\ SessionInv
  BY <1>2 DEF AccountInv, HoldingInv, SpendingOK, MootingOK, Spending, SessionInv,
              Outdated, OpeningSession
<1>4. RegisteredIsMailed
  BY DEF Init, RegisteredIsMailed
<1>5. QED
  BY <1>1, <1>3, <1>4 DEF IInv

(* A request takes a step that writes nothing: it reads, and goes on or    *)
(* ends.                                                                   *)
LEMMA QuietKeeps ==
    ASSUME IInv, NEW c \in Calls, NEW new \in Call,
           call' = [call EXCEPT ![c] = new],
           UNCHANGED <<account, token, session, late, overtaken>>,
           new.at # "idle" => account.password > 0,
           SpendingOK(c)', MootingOK(c)',
           new.at = "mooting" => call[c].at = "mooting",
           new.at \in Spending =>
              \A d \in Calls \ {c} : call[d].at \in Spending => call[d].token # new.token,
           new.at \in OpeningSession => Outdated(new.ended, new.loaded.password)
    PROVE  AccountInv' /\ HoldingInv' /\ SessionInv'
<1>1. /\ call'[c] = new
      /\ \A d \in Calls \ {c} : call'[d] = call[d]
  BY DEF IInv, TypeOK
<1>2. AccountInv'
  BY <1>1 DEF IInv, AccountInv
<1>3. \A d \in Calls : SpendingOK(d)' /\ MootingOK(d)'
  BY <1>1 DEF IInv, HoldingInv, SpendingOK, MootingOK
<1>4. HoldingInv'
  BY <1>1, <1>3 DEF IInv, HoldingInv
<1>5. SessionInv'
  BY <1>1 DEF IInv, SessionInv, Outdated
<1>6. QED
  BY <1>2, <1>4, <1>5

(* Whoever was owed a link is sent one, or still owed it. *)
LEMMA MailStaysOwed ==
    ASSUME IInv,
           account' # Nobody => account # Nobody, unsent => unsent',
           \A t \in VerifyTokens : mail[t] # "none" => mail'[t] # "none",
           \A d \in Calls : Verifying(d) =>
              \/ unsent'
              \/ Verifying(d)'
              \/ \E t \in VerifyTokens : mail'[t] # "none"
    PROVE  RegisteredIsMailed'
BY DEF IInv, RegisteredIsMailed

(* The same of a step of one request. *)
LEMMA OthersStayOwed ==
    ASSUME IInv, NEW c \in Calls, NEW new,
           call' = [call EXCEPT ![c] = new], UNCHANGED mail,
           account' # Nobody => account # Nobody, unsent => unsent',
           Verifying(c) => unsent' \/ Verifying(c)'
    PROVE  RegisteredIsMailed'
<1>1. \A d \in Calls \ {c} : call'[d] = call[d]
  BY DEF IInv, TypeOK
<1>2. \A d \in Calls : Verifying(d) => unsent' \/ Verifying(d)'
  BY <1>1 DEF Verifying
<1>3. QED
  BY <1>2, MailStaysOwed

(* A request that ends owes nothing and holds nothing. *)
LEMMA EndKeeps ==
    ASSUME IInv, NEW c \in Calls, Finish(c),
           UNCHANGED <<account, token, session, late, overtaken>>
    PROVE  AccountInv' /\ HoldingInv' /\ SessionInv' /\ call' \in [Calls -> Call]
<1>1. /\ Idle \in Call /\ Idle.at = "idle"
      /\ call' = [call EXCEPT ![c] = Idle] /\ call'[c] = Idle
  BY IdleType DEF Idle, Finish, IInv, TypeOK
<1>2. SpendingOK(c)' /\ MootingOK(c)'
  BY <1>1 DEF SpendingOK, MootingOK, Spending
<1>3. call' \in [Calls -> Call]
  BY <1>1 DEF IInv, TypeOK
<1>4. QED
  BY <1>1, <1>2, <1>3, QuietKeeps DEF Spending, OpeningSession

(* A request that begins to issue a link, or is about to mail one. *)
LEMMA BeginKeeps ==
    ASSUME IInv, NEW c \in Calls, NEW new \in Call,
           new.at \in {"verifying", "resetting", "mailing"},
           call' = [call EXCEPT ![c] = new],
           account.password > 0,
           UNCHANGED <<account, token, session, late, overtaken>>
    PROVE  AccountInv' /\ HoldingInv' /\ SessionInv' /\ call' \in [Calls -> Call]
<1>1. call'[c] = new /\ call' \in [Calls -> Call]
  BY DEF IInv, TypeOK
<1>2. SpendingOK(c)' /\ MootingOK(c)'
  BY <1>1 DEF SpendingOK, MootingOK, Spending
<1>3. QED
  BY <1>1, <1>2, QuietKeeps DEF Spending, OpeningSession

-----------------------------------------------------------------------------
(* Every step keeps the invariant. *)

LEMMA AskVerificationKeeps ==
    ASSUME IInv, NEW c \in Calls, AskVerification(c) PROVE IInv'
<1> DEFINE new == [Idle EXCEPT !.at = "verifying"]
<1>1. /\ new \in Call /\ new.at = "verifying"
      /\ call' = [call EXCEPT ![c] = new]
  BY IdleType DEF AskVerification, Begin, Idle, Call, Steps
<1> HIDE DEF new
<1>2. account.password > 0
  BY NobodyIsNobody, RowFields DEF AskVerification, IInv
<1>3. AccountInv' /\ HoldingInv' /\ SessionInv' /\ call' \in [Calls -> Call]
  BY <1>1, <1>2, BeginKeeps DEF AskVerification
<1>4. TypeOK'
  BY <1>3 DEF AskVerification, IInv, TypeOK
<1>5. RegisteredIsMailed'
  BY <1>1, OthersStayOwed DEF AskVerification, Verifying
<1>6. QED
  BY <1>3, <1>4, <1>5 DEF IInv

LEMMA AskResetKeeps ==
    ASSUME IInv, NEW c \in Calls, AskReset(c) PROVE IInv'
<1> DEFINE new == [Idle EXCEPT !.at = "resetting"]
<1>1. /\ new \in Call /\ new.at = "resetting"
      /\ call' = [call EXCEPT ![c] = new]
  BY IdleType DEF AskReset, Begin, Idle, Call, Steps
<1> HIDE DEF new
<1>2. account.password > 0
  BY NobodyIsNobody, RowFields DEF AskReset, IInv
<1>3. AccountInv' /\ HoldingInv' /\ SessionInv' /\ call' \in [Calls -> Call]
  BY <1>1, <1>2, BeginKeeps DEF AskReset
<1>4. TypeOK'
  BY <1>3 DEF AskReset, IInv, TypeOK
<1>5. RegisteredIsMailed'
  BY <1>1, OthersStayOwed DEF AskReset, Verifying
<1>6. QED
  BY <1>3, <1>4, <1>5 DEF IInv

LEMMA QueueMailKeeps ==
    ASSUME IInv, NEW c \in Calls, QueueMail(c) PROVE IInv'
<1>1. AccountInv' /\ HoldingInv' /\ SessionInv' /\ call' \in [Calls -> Call]
  BY EndKeeps DEF QueueMail
<1>2. mail' \in [Tokens -> Messages]
  BY DEF QueueMail, IInv, TypeOK, Messages
<1>3. TypeOK'
  BY <1>1, <1>2 DEF QueueMail, IInv, TypeOK
<1>4. \A t \in VerifyTokens : mail[t] # "none" => mail'[t] # "none"
  BY DEF QueueMail, IInv, TypeOK
<1>5. \A d \in Calls : Verifying(d) =>
         Verifying(d)' \/ \E t \in VerifyTokens : mail'[t] # "none"
  <2>1. \A d \in Calls \ {c} : call'[d] = call[d]
    BY DEF QueueMail, Finish, IInv, TypeOK
  <2>2. Verifying(c) => \E t \in VerifyTokens : mail'[t] # "none"
    BY DEF QueueMail, Verifying, IInv, TypeOK, Tokens
  <2>3. QED
    BY <2>1, <2>2 DEF Verifying
<1>6. RegisteredIsMailed'
  BY <1>4, <1>5, MailStaysOwed DEF QueueMail
<1>7. QED
  BY <1>1, <1>3, <1>6 DEF IInv

LEMMA CrashKeeps ==
    ASSUME IInv, NEW c \in Calls, Crash(c) PROVE IInv'
<1>1. AccountInv' /\ HoldingInv' /\ SessionInv' /\ call' \in [Calls -> Call]
  BY EndKeeps DEF Crash
<1>2. unsent' \in BOOLEAN /\ (unsent => unsent') /\ (Verifying(c) => unsent')
  BY DEF Crash, IInv, TypeOK, Verifying
<1>3. TypeOK'
  BY <1>1, <1>2 DEF Crash, IInv, TypeOK
<1>4. RegisteredIsMailed'
  BY <1>2, OthersStayOwed DEF Crash, Finish
<1>5. QED
  BY <1>1, <1>3, <1>4 DEF IInv

LEMMA BreakDeadlockKeeps ==
    ASSUME IInv, NEW c \in Calls, BreakDeadlock(c) PROVE IInv'
<1>1. AccountInv' /\ HoldingInv' /\ SessionInv' /\ call' \in [Calls -> Call]
  BY EndKeeps DEF BreakDeadlock
<1>2. TypeOK'
  BY <1>1 DEF BreakDeadlock, IInv, TypeOK
<1>3. ~Verifying(c)
  BY DEF BreakDeadlock, Deadlocked, WaitsFor, Verifying
<1>4. RegisteredIsMailed'
  BY <1>3, OthersStayOwed DEF BreakDeadlock, Finish
<1>5. QED
  BY <1>1, <1>2, <1>4 DEF IInv

LEMMA RegisterKeeps ==
    ASSUME IInv, NEW c \in Calls, Register(c) PROVE IInv'
<1> DEFINE new == [Idle EXCEPT !.at = "verifying"]
<1>1. /\ new \in Call /\ new.at = "verifying"
      /\ call' = [call EXCEPT ![c] = new]
  BY IdleType DEF Register, Begin, Idle, Call, Steps
<1> HIDE DEF new
<1>2. /\ account.password = 0
      /\ account' \in User /\ account'.password = 1 /\ ~account'.verified
  <2>1. 0 \in Passwords /\ 1 \in Passwords
    BY CredentialsAssumption DEF Register, Passwords
  <2>2. account.password = 0 /\ account' = [password |-> 1, verified |-> FALSE]
    BY DEF Register, Nobody
  <2>3. QED
    BY <2>1, <2>2 DEF User
<1>3. /\ call'[c] = new /\ call' \in [Calls -> Call]
      /\ \A d \in Calls : call[d].at = "idle"
      /\ \A d \in Calls \ {c} : call'[d] = call[d]
  BY <1>1, <1>2 DEF IInv, TypeOK, AccountInv
<1>4. TypeOK'
  BY <1>2, <1>3 DEF Register, IInv, TypeOK
<1>5. AccountInv'
  BY <1>2 DEF AccountInv
<1>6. \A d \in Calls : call'[d].at \in {"idle", "verifying"}
  BY <1>1, <1>3
<1>7. HoldingInv' /\ SessionInv'
  <2>1. HoldingInv'
    BY <1>6 DEF HoldingInv, SpendingOK, MootingOK, Spending
  <2>2. \A b \in Browsers : Outdated(session[b].ended, session[b].hash)'
    BY <1>2, RowFields DEF Register, IInv, SessionInv, Outdated
  <2>3. QED
    BY <1>6, <2>1, <2>2 DEF SessionInv, OpeningSession
<1>8. RegisteredIsMailed'
  BY <1>1, <1>3 DEF RegisteredIsMailed, Verifying
<1>9. QED
  BY <1>4, <1>5, <1>7, <1>8 DEF IInv

LEMMA IssueKeeps ==
    ASSUME IInv, NEW c \in Calls, NEW t \in Tokens, Issue(c, t),
           \/ call[c].at = "verifying" /\ t \in VerifyTokens
           \/ call[c].at = "resetting" /\ t \in ResetTokens
    PROVE  IInv'
<1> DEFINE new == [Idle EXCEPT !.at = "mailing", !.token = t]
<1>1. /\ new \in Call /\ new.at = "mailing" /\ new.token = t
      /\ call' = [call EXCEPT ![c] = new]
  BY IdleType DEF Issue, Idle, Call, Steps
<1> HIDE DEF new
<1>2. /\ call'[c] = new /\ call' \in [Calls -> Call]
      /\ \A d \in Calls \ {c} : call'[d] = call[d]
      /\ account.password > 0 /\ UNCHANGED <<account, session, overtaken>>
  BY <1>1 DEF Issue, IInv, TypeOK, AccountInv
<1>3. /\ token'[t].there /\ ~token'[t].consumed
      /\ token'[t].expires = now + Lifetime(t)
      /\ \A u \in Tokens \ {t} : token'[u] = token[u]
  BY DEF Issue, IInv, TypeOK
<1>4. /\ Lifetime(t) \in Nat
      /\ t \in ResetTokens => Lifetime(t) = ResetLifetime
  BY CredentialsAssumption DEF Lifetime
<1>5. TypeOK'
  <2>1. token' \in [Tokens -> Rows]
    BY <1>4, RowFields DEF Issue, IInv, TypeOK, Rows
  <2>2. ASSUME NEW u \in ResetTokens
        PROVE  token'[u].expires <= LastHour + ResetLifetime
    BY <1>3, <1>4, CredentialsAssumption DEF IInv, TypeOK, Tokens
  <2>3. late' \in SUBSET ResetTokens
    BY DEF Issue, IInv, TypeOK
  <2>4. QED
    BY <1>2, <2>1, <2>2, <2>3 DEF Issue, IInv, TypeOK
<1>6. AccountInv'
  BY <1>2, <1>3 DEF IInv, AccountInv
<1>7. HoldingInv'
  <2>1. \A d \in Calls : call'[d].at \in Spending => d # c /\ call'[d] = call[d]
    BY <1>1, <1>2 DEF Spending
  <2>2. ASSUME NEW d \in Calls PROVE SpendingOK(d)'
    <3>1. SpendingOK(d)
      BY DEF IInv, HoldingInv
    <3>2. CASE call'[d].at \in Spending
      <4>1. call'[d].token \in Tokens
        BY <2>1, <3>1, <3>2 DEF SpendingOK, Spending, Tokens
      <4>2. QED
        BY <1>3, <2>1, <3>1, <3>2, <4>1 DEF SpendingOK
    <3>3. QED
      BY <3>2 DEF SpendingOK, Spending
  <2>3. ASSUME NEW d \in Calls, call'[d].at = "mooting" PROVE MootingOK(d)'
    <3>1. call'[d] = call[d] /\ call[d].at = "mooting" /\ MootingOK(d)
      BY <2>1, <2>3 DEF Spending, IInv, HoldingInv
    <3>2. late' = late \cup ({t} \cap ResetTokens)
      BY <3>1 DEF Issue, UserFree, HoldsUser
    <3>3. \A u \in ResetTokens \ {t} : token'[u] = token[u]
      BY <1>3 DEF Tokens
    <3>4. QED
      BY <1>2, <3>1, <3>2, <3>3 DEF MootingOK
  <2>4. ASSUME NEW d \in Calls PROVE MootingOK(d)'
    BY <2>3 DEF MootingOK
  <2>5. QED
    BY <2>1, <2>2, <2>4 DEF IInv, HoldingInv, Spending
<1>8. SessionInv'
  BY <1>1, <1>2 DEF IInv, SessionInv, Outdated, OpeningSession
<1>9. RegisteredIsMailed'
  <2>1. Verifying(c) => Verifying(c)'
    BY <1>1, <1>2 DEF Verifying
  <2>2. QED
    BY <1>1, <2>1, OthersStayOwed DEF Issue
<1>10. QED
  BY <1>5, <1>6, <1>7, <1>8, <1>9 DEF IInv

LEMMA FollowKeeps ==
    ASSUME IInv, NEW c \in Calls, NEW t \in Tokens, VerifyEmail(c, t) \/ ResetPassword(c, t)
    PROVE  IInv'
<1>1. PICK step : /\ Follow(c, t, step)
                  /\ \/ step = "confirming" /\ t \in VerifyTokens
                     \/ step = "setting" /\ t \in ResetTokens
  BY DEF VerifyEmail, ResetPassword
<1> DEFINE new == [Idle EXCEPT !.at = step, !.token = t, !.loaded = account]
<1>2. /\ new \in Call /\ new.at = step /\ new.token = t
      /\ call' = [call EXCEPT ![c] = new]
  BY <1>1, IdleType, RowFields DEF Follow, Idle, Call, Steps, IInv
<1> HIDE DEF new
<1>3. call'[c] = new /\ call' \in [Calls -> Call]
  BY <1>2 DEF IInv, TypeOK
<1>4. /\ call[c].at = "idle" /\ ~token[t].consumed /\ account.password > 0
      /\ UNCHANGED <<now, account, token, mail, inbox, session, late, overtaken, unsent>>
  BY <1>1 DEF Follow, Usable, IInv, AccountInv
<1>5. \A d \in Calls \ {c} : call[d].at \in Spending => call[d].token # new.token
  BY <1>1, <1>2 DEF Follow, Usable, TokenFree, HoldsToken, Spending
<1>6. SpendingOK(c)' /\ MootingOK(c)'
  BY <1>1, <1>2, <1>3, <1>4 DEF SpendingOK, MootingOK, Spending
<1>7. AccountInv' /\ HoldingInv' /\ SessionInv'
  BY <1>1, <1>2, <1>4, <1>5, <1>6, QuietKeeps DEF OpeningSession
<1>8. TypeOK'
  BY <1>3, <1>4 DEF IInv, TypeOK
<1>9. RegisteredIsMailed'
  BY <1>2, <1>4, OthersStayOwed DEF Verifying
<1>10. QED
  BY <1>7, <1>8, <1>9 DEF IInv

LEMMA ConfirmKeeps ==
    ASSUME IInv, NEW c \in Calls, Confirm(c) PROVE IInv'
<1>1. /\ call'[c] = Idle /\ Idle.at = "idle" /\ call' \in [Calls -> Call]
      /\ \A d \in Calls \ {c} : call'[d] = call[d]
  BY IdleType DEF Confirm, Finish, Idle, IInv, TypeOK
<1>2. /\ account' \in User /\ account'.password = account.password
      /\ account.password > 0
      /\ UNCHANGED <<now, mail, inbox, session, late, overtaken, unsent>>
  BY RowFields DEF Confirm, IInv, TypeOK, AccountInv, User
<1>3. /\ token' \in [Tokens -> Rows]
      /\ \A t \in Tokens : /\ token'[t].there = token[t].there
                           /\ token'[t].expires = token[t].expires
                           /\ token[t].consumed => token'[t].consumed
                           /\ t # call[c].token => token'[t].consumed = token[t].consumed
  BY RowFields DEF Confirm, Consumed, IInv, TypeOK, Rows
<1>4. TypeOK'
  BY <1>1, <1>2, <1>3 DEF IInv, TypeOK, Tokens
<1>5. AccountInv'
  BY <1>1, <1>2, <1>3 DEF IInv, AccountInv
<1>6. ASSUME NEW d \in Calls PROVE SpendingOK(d)' /\ MootingOK(d)'
  <2>1. CASE d = c
    BY <1>1, <2>1 DEF SpendingOK, MootingOK, Spending
  <2>2. CASE d # c
    <3>1. SpendingOK(d) /\ MootingOK(d) /\ call'[d] = call[d]
      BY <1>1, <2>2 DEF IInv, HoldingInv
    <3>2. call[d].at \in Spending => call[d].token \in Tokens /\ call[d].token # call[c].token
      BY <2>2, <3>1 DEF SpendingOK, Spending, Tokens, IInv, HoldingInv, Confirm
    <3>3. SpendingOK(d)'
      BY <1>3, <3>1, <3>2 DEF SpendingOK, Spending
    <3>4. MootingOK(d)'
      BY <1>2, <1>3, <3>1 DEF MootingOK, Tokens
    <3>5. QED
      BY <3>3, <3>4
  <2>3. QED
    BY <2>1, <2>2
<1>7. HoldingInv'
  BY <1>1, <1>6 DEF IInv, HoldingInv, Spending
<1>8. SessionInv'
  BY <1>1, <1>2 DEF IInv, SessionInv, Outdated, OpeningSession
<1>9. RegisteredIsMailed'
  <2>1. account # Nobody
    BY <1>2 DEF Nobody
  <2>2. ~Verifying(c)
    BY DEF Confirm, Verifying
  <2>3. call' = [call EXCEPT ![c] = Idle]
    BY DEF Confirm, Finish
  <2>4. QED
    BY <1>2, <2>1, <2>2, <2>3, OthersStayOwed
<1>10. QED
  BY <1>4, <1>5, <1>7, <1>8, <1>9 DEF IInv

LEMMA SetPasswordKeeps ==
    ASSUME IInv, NEW c \in Calls, SetPassword(c) PROVE IInv'
<1> DEFINE new == [call[c] EXCEPT !.at = "mooting", !.moot = Outstanding(c)]
<1>1. /\ call[c] \in Call /\ call[c].at = "setting"
      /\ call' = [call EXCEPT ![c] = new]
      /\ UNCHANGED <<now, account, token, mail, inbox, session, overtaken, unsent>>
      /\ late' = {} /\ account.password < MaxPasswords
  BY DEF SetPassword, IInv, TypeOK
<1>2. /\ new \in Call /\ new.at = "mooting" /\ new.token = call[c].token
      /\ new.moot = Outstanding(c)
  BY <1>1 DEF Call, Steps, Outstanding, Tokens
<1> HIDE DEF new
<1>3. /\ call'[c] = new /\ call' \in [Calls -> Call]
      /\ \A d \in Calls \ {c} : call'[d] = call[d] /\ call[d].at # "mooting"
  BY <1>1, <1>2 DEF IInv, TypeOK, SetPassword, UserFree, HoldsUser
<1>4. TypeOK'
  BY <1>1, <1>3 DEF IInv, TypeOK
<1>5. AccountInv'
  BY <1>1, <1>3 DEF IInv, AccountInv
<1>6. SpendingOK(c) /\ SpendingOK(c)'
  BY <1>1, <1>2, <1>3 DEF IInv, HoldingInv, SpendingOK, Spending
<1>7. MootingOK(c)'
  BY <1>1, <1>2, <1>3 DEF MootingOK, Outstanding
<1>8. HoldingInv'
  <2>1. \A d \in Calls \ {c} : SpendingOK(d)' /\ MootingOK(d)'
    BY <1>1, <1>3 DEF IInv, HoldingInv, SpendingOK, MootingOK
  <2>2. \A d \in Calls : /\ call'[d].token = call[d].token
                         /\ call'[d].at \in Spending <=> call[d].at \in Spending
    BY <1>1, <1>2, <1>3 DEF Spending
  <2>3. QED
    BY <1>3, <1>6, <1>7, <2>1, <2>2 DEF IInv, HoldingInv
<1>9. SessionInv'
  BY <1>1, <1>2, <1>3 DEF IInv, SessionInv, Outdated, OpeningSession
<1>10. RegisteredIsMailed'
  <2>1. ~Verifying(c)
    BY <1>1 DEF Verifying
  <2>2. QED
    BY <1>1, <2>1, OthersStayOwed
<1>11. QED
  BY <1>4, <1>5, <1>8, <1>9, <1>10 DEF IInv

LEMMA CommitResetKeeps ==
    ASSUME IInv, NEW c \in Calls, CommitReset(c) PROVE IInv'
<1>1. /\ call'[c] = Idle /\ Idle.at = "idle"
      /\ \A d \in Calls \ {c} : /\ call'[d].at = call[d].at
                                /\ call'[d].token = call[d].token
                                /\ call'[d].loaded = call[d].loaded
                                /\ call'[d].moot = call[d].moot
      /\ UNCHANGED <<now, mail, inbox, overtaken, unsent>> /\ late' = {}
  BY CallFields DEF CommitReset, Idle, IInv, Call
<1>2. /\ call[c].at = "mooting" /\ call[c].token \in ResetTokens
      /\ call[c].moot \subseteq ResetTokens /\ account.password < MaxPasswords
  BY DEF CommitReset, IInv, HoldingInv, SpendingOK, MootingOK
<1>3. /\ account' \in User /\ account'.password = account.password + 1
      /\ account'.verified = account.verified /\ account.password \in Nat
  BY <1>2, RowFields DEF CommitReset, WithPassword, User, Passwords, IInv
<1>4. /\ token' \in [Tokens -> Rows]
      /\ \A t \in Tokens :
            /\ token'[t].there = token[t].there
            /\ token'[t].expires = token[t].expires
            /\ token'[t].consumed =
                  (token[t].consumed \/ t \in call[c].moot \cup {call[c].token})
  BY RowFields DEF CommitReset, Consumed, IInv, TypeOK, Rows
<1>5. TypeOK'
  <2>1. session' \in [Browsers -> Sessions]
    BY DEF CommitReset, IInv, TypeOK, Sessions
  <2>2. call' \in [Calls -> Call]
    BY IdleType DEF CommitReset, IInv, TypeOK, Call
  <2>3. QED
    BY <1>1, <1>3, <1>4, <2>1, <2>2 DEF IInv, TypeOK, Tokens
<1>6. AccountInv'
  BY <1>1, <1>2, <1>3, <1>4 DEF IInv, AccountInv
<1>7. ASSUME NEW d \in Calls \ {c} PROVE SpendingOK(d)' /\ call'[d].at # "mooting"
  <2>1. SpendingOK(d) /\ call[d].at # "mooting"
    BY <1>2 DEF IInv, HoldingInv
  <2>2. call[d].at \in Spending =>
           /\ call[d].token \in Tokens
           /\ call[d].token \notin call[c].moot \cup {call[c].token}
    BY <1>2, <2>1 DEF SpendingOK, Spending, Tokens, IInv, HoldingInv, CommitReset,
                      TokenFree, HoldsToken
  <2>3. QED
    BY <1>1, <1>4, <2>1, <2>2 DEF SpendingOK, Spending
<1>8. HoldingInv'
  <2>1. SpendingOK(c)' /\ call'[c].at \notin Spending
    BY <1>1 DEF SpendingOK, Spending
  <2>2. \A d \in Calls : call'[d].at # "mooting" /\ MootingOK(d)'
    BY <1>7, <2>1 DEF MootingOK, Spending
  <2>3. \A d \in Calls : SpendingOK(d)'
    BY <1>7, <2>1
  <2>4. ASSUME NEW d \in Calls, NEW e \in Calls,
               call'[d].at \in Spending, call'[e].at \in Spending,
               call'[d].token = call'[e].token
        PROVE  d = e
    BY <1>1, <2>1, <2>4 DEF IInv, HoldingInv
  <2>5. QED
    BY <2>2, <2>3, <2>4 DEF HoldingInv
<1>9. SessionInv'
  <2>1. ASSUME NEW b \in Browsers PROVE Outdated(session[b].ended, session[b].hash)'
    <3>1. session'[b].hash = session[b].hash /\ session[b].hash <= account.password
      BY DEF CommitReset, IInv, TypeOK, Sessions, SessionInv, Outdated
    <3>2. QED
      BY <1>3, <3>1, RowFields DEF Outdated, IInv
  <2>2. ASSUME NEW d \in Calls, call'[d].at \in OpeningSession
        PROVE  Outdated(call[d].ended, call[d].loaded.password)'
    <3>1. /\ d # c /\ call[d].at \in OpeningSession
          /\ call'[d].loaded.password = call[d].loaded.password
      BY <1>1, <2>2 DEF OpeningSession
    <3>2. call[d].loaded.password <= account.password /\ call[d].loaded.password \in Nat
      BY <3>1, CallFields DEF IInv, SessionInv, Outdated
    <3>3. QED
      BY <1>3, <3>1, <3>2 DEF Outdated
  <2>3. QED
    BY <2>1, <2>2 DEF SessionInv
<1>10. RegisteredIsMailed'
  <2>1. account # Nobody
    BY <1>2 DEF Nobody, IInv, AccountInv
  <2>2. \A d \in Calls : Verifying(d) => Verifying(d)'
    BY <1>1, <1>2 DEF Verifying
  <2>3. QED
    BY <1>1, <2>1, <2>2, MailStaysOwed
<1>11. QED
  BY <1>5, <1>6, <1>8, <1>9, <1>10 DEF IInv

(* A request that goes on to open a session. *)
LEMMA OpeningKeeps ==
    ASSUME IInv, NEW c \in Calls, NEW new \in Call,
           call[c].at = "idle", new.at \in {"signing", "changing"},
           account.password > 0, Outdated(new.ended, new.loaded.password),
           call' = [call EXCEPT ![c] = new],
           UNCHANGED <<now, account, token, mail, inbox, session, late, overtaken, unsent>>
    PROVE  IInv'
<1>1. call'[c] = new /\ call' \in [Calls -> Call]
  BY DEF IInv, TypeOK
<1>2. SpendingOK(c)' /\ MootingOK(c)'
  BY <1>1 DEF SpendingOK, MootingOK, Spending
<1>3. AccountInv' /\ HoldingInv' /\ SessionInv'
  BY <1>2, QuietKeeps DEF Spending
<1>4. TypeOK'
  BY <1>1 DEF IInv, TypeOK
<1>5. RegisteredIsMailed'
  BY OthersStayOwed DEF Verifying
<1>6. QED
  BY <1>3, <1>4, <1>5 DEF IInv

LEMMA AuthenticateKeeps ==
    ASSUME IInv, NEW c \in Calls, NEW b \in Browsers, Authenticate(c, b) PROVE IInv'
<1> DEFINE new == [Idle EXCEPT !.at = "signing", !.loaded = account, !.browser = b]
<1>1. /\ new \in Call /\ new.at = "signing" /\ new.loaded = account /\ ~new.ended
      /\ call' = [call EXCEPT ![c] = new] /\ call[c].at = "idle"
  BY IdleType, RowFields DEF Authenticate, Idle, Call, Steps, IInv
<1> HIDE DEF new
<1>2. account.password > 0
  BY NobodyIsNobody, RowFields DEF Authenticate, IInv
<1>3. Outdated(new.ended, new.loaded.password)
  BY <1>1, RowFields DEF Outdated, IInv
<1>4. QED
  BY <1>1, <1>2, <1>3, OpeningKeeps DEF Authenticate

LEMMA CheckPasswordKeeps ==
    ASSUME IInv, NEW c \in Calls, NEW b \in Browsers, CheckPassword(c, b) PROVE IInv'
<1> DEFINE new == [Idle EXCEPT !.at = "changing", !.loaded = account, !.browser = b,
                               !.ended = session[b].ended]
<1>1. /\ new \in Call /\ new.at = "changing" /\ new.loaded = account
      /\ new.ended = session[b].ended
      /\ call' = [call EXCEPT ![c] = new] /\ call[c].at = "idle"
  BY IdleType, RowFields DEF CheckPassword, Idle, Call, Steps, IInv
<1> HIDE DEF new
<1>2. account.password > 0
  BY RowFields DEF CheckPassword, Valid, IInv
<1>3. Outdated(new.ended, new.loaded.password)
  BY <1>1, RowFields DEF Outdated, IInv, SessionInv, CheckPassword, Valid
<1>4. QED
  BY <1>1, <1>2, <1>3, OpeningKeeps DEF CheckPassword

(* A request stores its session, and is done. *)
LEMMA StoreKeeps ==
    ASSUME IInv, NEW c \in Calls, call[c].at \in {"signing", "rotating"}, Finish(c),
           session' = [session EXCEPT ![call[c].browser] =
              [hash |-> call[c].loaded.password, ended |-> call[c].ended]],
           UNCHANGED <<now, account, token, mail, inbox, late, overtaken, unsent>>
    PROVE  IInv'
<1> DEFINE stored == [hash |-> call[c].loaded.password, ended |-> call[c].ended]
<1>1. /\ call'[c] = Idle /\ Idle.at = "idle" /\ call' \in [Calls -> Call]
      /\ call' = [call EXCEPT ![c] = Idle]
      /\ \A d \in Calls \ {c} : call'[d] = call[d]
  BY IdleType DEF Finish, Idle, IInv, TypeOK
<1>2. /\ stored \in Sessions /\ Outdated(stored.ended, stored.hash)
      /\ \A b \in Browsers : session'[b] = session[b] \/ session'[b] = stored
      /\ session' \in [Browsers -> Sessions]
  <2>1. stored \in Sessions
    BY CallFields DEF IInv, User, Sessions
  <2>2. Outdated(stored.ended, stored.hash)
    BY DEF IInv, SessionInv, OpeningSession
  <2>3. QED
    BY <2>1, <2>2 DEF IInv, TypeOK
<1> HIDE DEF stored
<1>3. TypeOK'
  BY <1>1, <1>2 DEF IInv, TypeOK
<1>4. AccountInv'
  BY <1>1 DEF IInv, AccountInv
<1>5. HoldingInv'
  <2>1. \A d \in Calls : SpendingOK(d)' /\ MootingOK(d)'
    BY <1>1 DEF IInv, HoldingInv, SpendingOK, MootingOK, Spending
  <2>2. QED
    BY <1>1, <2>1 DEF IInv, HoldingInv, Spending
<1>6. SessionInv'
  BY <1>1, <1>2 DEF IInv, SessionInv, Outdated, OpeningSession
<1>7. RegisteredIsMailed'
  BY <1>1, OthersStayOwed DEF Verifying
<1>8. QED
  BY <1>3, <1>4, <1>5, <1>6, <1>7 DEF IInv

LEMMA ChangePasswordKeeps ==
    ASSUME IInv, NEW c \in Calls, ChangePassword(c) PROVE IInv'
<1> DEFINE new == [call[c] EXCEPT !.at = "rotating", !.loaded = account']
<1>1. /\ call[c] \in Call /\ call[c].at = "changing"
      /\ call' = [call EXCEPT ![c] = new]
      /\ UNCHANGED <<now, token, mail, inbox, session, late, unsent>>
      /\ account.password < MaxPasswords
      /\ overtaken' = (overtaken \/ call[c].loaded.password # account.password)
  BY DEF ChangePassword, IInv, TypeOK
<1>2. /\ account' \in User /\ account'.password = account.password + 1
      /\ account'.verified = account.verified /\ account.password \in Nat
  BY <1>1, RowFields DEF ChangePassword, WithPassword, User, Passwords, IInv
<1>3. /\ new \in Call /\ new.at = "rotating" /\ new.loaded = account'
      /\ new.ended = call[c].ended
  BY <1>1, <1>2 DEF Call, Steps
<1> HIDE DEF new
<1>4. /\ call'[c] = new /\ call' \in [Calls -> Call]
      /\ \A d \in Calls \ {c} : call'[d] = call[d]
      /\ \A d \in Calls : call[d].at # "mooting"
  BY <1>1, <1>3 DEF IInv, TypeOK, ChangePassword, UserFree, HoldsUser
<1>5. TypeOK'
  BY <1>1, <1>2, <1>4 DEF IInv, TypeOK
<1>6. AccountInv'
  BY <1>1, <1>2, <1>4 DEF IInv, AccountInv
<1>7. HoldingInv'
  <2>1. \A d \in Calls : SpendingOK(d)' /\ MootingOK(d)' /\ call'[d].at # "mooting"
    BY <1>1, <1>3, <1>4 DEF IInv, HoldingInv, SpendingOK, MootingOK, Spending
  <2>2. QED
    BY <1>1, <1>3, <1>4, <2>1 DEF IInv, HoldingInv, Spending
<1>8. SessionInv'
  <2>1. \A b \in Browsers : Outdated(session[b].ended, session[b].hash)'
    BY <1>1, <1>2, RowFields DEF IInv, SessionInv, Outdated
  <2>2. ASSUME NEW d \in Calls \ {c}, call[d].at \in OpeningSession
        PROVE  Outdated(call[d].ended, call[d].loaded.password)'
    BY <1>1, <1>2, <1>4, <2>2, CallFields DEF IInv, SessionInv, Outdated
  <2>3. Outdated(call[c].ended, call[c].loaded.password)'
    <3>1. overtaken' \/ ~call[c].ended
      <4>1. call[c].ended /\ ~overtaken => call[c].loaded.password # account.password
        BY <1>1, CallFields, RowFields DEF IInv, SessionInv, Outdated, OpeningSession
      <4>2. QED
        BY <1>1, <4>1
    <3>2. call'[c].ended = call[c].ended /\ call'[c].loaded.password = account'.password
      BY <1>3, <1>4
    <3>3. QED
      BY <1>2, <3>1, <3>2 DEF Outdated
  <2>4. QED
    BY <1>4, <2>1, <2>2, <2>3 DEF SessionInv
<1>9. RegisteredIsMailed'
  <2>1. account # Nobody /\ ~Verifying(c)
    BY <1>1 DEF Nobody, IInv, AccountInv, Verifying
  <2>2. QED
    BY <1>1, <2>1, OthersStayOwed
<1>10. QED
  BY <1>5, <1>6, <1>7, <1>8, <1>9 DEF IInv

(* Time, the mail worker and a logout. *)
LEMMA TickKeeps == ASSUME IInv, Tick PROVE IInv'
<1>1. now' \in 0..LastHour
  BY CredentialsAssumption DEF Tick, IInv, TypeOK
<1>2. UNCHANGED <<account, token, mail, inbox, session, call, late, overtaken, unsent>>
  BY DEF Tick
<1>3. QED
  BY <1>1, <1>2 DEF IInv, TypeOK, AccountInv, HoldingInv, SpendingOK, MootingOK, SessionInv,
                    Outdated, RegisteredIsMailed, Verifying

LEMMA MailKeeps == ASSUME IInv, NEW t \in Tokens, Deliver(t) \/ GiveUp(t) PROVE IInv'
<1>1. /\ mail' \in [Tokens -> Messages] /\ inbox' \in SUBSET Tokens
      /\ \A u \in Tokens : mail[u] # "none" => mail'[u] # "none"
  BY DEF Deliver, GiveUp, IInv, TypeOK, Messages
<1>2. UNCHANGED <<now, account, token, session, call, late, overtaken, unsent>>
  BY DEF Deliver, GiveUp
<1>3. RegisteredIsMailed'
  BY <1>1, <1>2 DEF IInv, RegisteredIsMailed, Verifying, Tokens
<1>4. QED
  BY <1>1, <1>2, <1>3 DEF IInv, TypeOK, AccountInv, HoldingInv, SpendingOK, MootingOK,
                          SessionInv, Outdated

LEMMA LogoutKeeps == ASSUME IInv, NEW b \in Browsers, Logout(b) PROVE IInv'
<1>1. UNCHANGED <<now, account, token, mail, inbox, call, late, overtaken, unsent>>
  BY DEF Logout
<1>2. 0 \in Passwords
  BY CredentialsAssumption DEF Passwords
<1>3. session' \in [Browsers -> Sessions]
  BY <1>2 DEF Logout, IInv, TypeOK, Sessions, Anonymous
<1>4. \A d \in Browsers : session'[d] = session[d] \/ session'[d] = Anonymous
  BY DEF Logout, IInv, TypeOK
<1>5. SessionInv'
  BY <1>1, <1>4, RowFields DEF IInv, SessionInv, Outdated, Anonymous
<1>6. QED
  BY <1>1, <1>3, <1>5 DEF IInv, TypeOK, AccountInv, HoldingInv, SpendingOK, MootingOK,
                          RegisteredIsMailed, Verifying

LEMMA StutterKeeps == ASSUME IInv, UNCHANGED vars PROVE IInv'
BY DEF vars, IInv, TypeOK, AccountInv, HoldingInv, SpendingOK, MootingOK, SessionInv,
       Outdated, RegisteredIsMailed, Verifying

LEMMA StepKeeps == ASSUME IInv, [Next]_vars PROVE IInv'
<1>1. CASE \E c \in Calls :
              \/ Register(c) \/ AskVerification(c) \/ AskReset(c) \/ QueueMail(c)
              \/ Confirm(c) \/ SetPassword(c) \/ CommitReset(c) \/ BreakDeadlock(c)
              \/ ChangePassword(c) \/ Crash(c)
  BY <1>1, RegisterKeeps, AskVerificationKeeps, AskResetKeeps, QueueMailKeeps, ConfirmKeeps,
     SetPasswordKeeps, CommitResetKeeps, BreakDeadlockKeeps, ChangePasswordKeeps, CrashKeeps
<1>2. CASE \E c \in Calls : SignIn(c) \/ UpdateSessionAuthHash(c)
  BY <1>2, StoreKeeps DEF SignIn, UpdateSessionAuthHash, HashOf
<1>3. CASE \E c \in Calls, t \in Tokens : IssueEmailVerification(c, t) \/ IssuePasswordReset(c, t)
  BY <1>3, IssueKeeps DEF IssueEmailVerification, IssuePasswordReset
<1>4. CASE \E c \in Calls, t \in Tokens : VerifyEmail(c, t) \/ ResetPassword(c, t)
  BY <1>4, FollowKeeps
<1>5. CASE \E c \in Calls, b \in Browsers : Authenticate(c, b) \/ CheckPassword(c, b)
  BY <1>5, AuthenticateKeeps, CheckPasswordKeeps
<1>6. CASE Tick \/ (\E t \in Tokens : Deliver(t) \/ GiveUp(t)) \/ (\E b \in Browsers : Logout(b))
  BY <1>6, TickKeeps, MailKeeps, LogoutKeeps
<1>7. CASE UNCHANGED vars
  BY <1>7, StutterKeeps
<1>8. QED
  BY <1>1, <1>2, <1>3, <1>4, <1>5, <1>6, <1>7 DEF Next

-----------------------------------------------------------------------------
(* The invariant is one of every behaviour. *)
THEOREM InvariantHolds == Spec => []IInv
<1>1. IInv /\ [Next]_vars => IInv'
  BY StepKeeps
<1>2. QED
  BY InitHolds, <1>1, PTL DEF Spec

(* The rows and what requests remember of them keep their types, and no    *)
(* password is set beyond the bound.                                       *)
THEOREM TypeCorrect == Spec => []TypeOK
<1>1. IInv => TypeOK
  BY DEF IInv
<1>2. QED
  BY <1>1, InvariantHolds, PTL

(* A link opens once: what verify_email or reset_password has locked and   *)
(* found unused stays unused while it works, and a reset leaves no other   *)
(* link usable but one issued while its closing UPDATE waited.             *)
THEOREM LinksOpenOnce == Spec => LinksAreSpentOnce
<1>1. IInv => TypeOK /\ CheckedLinkIsUnused
  BY DEF IInv, CheckedLinkIsUnused, HoldsToken, HoldingInv, SpendingOK, Spending
<1>2. ASSUME IInv, NEW c \in Calls, CommitReset(c), NEW t \in ResetTokens,
             token'[t].there, ~token'[t].consumed
      PROVE  t \in late
  <2>1. /\ token'[t].there = token[t].there
        /\ token'[t].consumed = (token[t].consumed \/ t \in call[c].moot \cup {call[c].token})
    BY <1>2, RowFields DEF CommitReset, Consumed, IInv, TypeOK, Rows, Tokens
  <2>2. QED
    BY <1>2, <2>1 DEF CommitReset, IInv, HoldingInv, MootingOK
<1>3. IInv /\ [Next]_vars =>
         [\A c \in Calls : CommitReset(c) =>
            \A t \in ResetTokens : token'[t].there /\ ~token'[t].consumed => t \in late]_vars
  BY <1>2
<1>4. QED
  BY <1>1, <1>3, InvariantHolds, PTL DEF Spec, LinksAreSpentOnce, OldLinksDie

(* A reset ends every session that was signed in before it, unless a       *)
(* password change is saved over the reset.                                *)
THEOREM ResetEndsSessions == Spec => []SessionsEndWithReset
<1>1. IInv => SessionsEndWithReset
  BY RowFields DEF IInv, SessionsEndWithReset, SessionInv, Outdated, Valid
<1>2. QED
  BY <1>1, InvariantHolds, PTL

(* Only two resets with two links can wait for each other: a confirmation  *)
(* holds no reset link, and nobody but a reset waits for more than a row.  *)
THEOREM ResetsAlone == Spec => []OnlyResetsDeadlock
<1>1. ASSUME IInv, NEW c \in Calls, NEW d \in Calls, Deadlocked(c, d)
      PROVE  call[c].at \in {"setting", "mooting"}
  <2>1. SUFFICES ASSUME call[c].at # "mooting" PROVE call[c].at = "setting"
    OBVIOUS
  <2>2. /\ call[d].at = "mooting" /\ MootingOK(d)
        /\ \E t \in call[d].moot : HoldsToken(c, t)
    BY <1>1, <2>1 DEF Deadlocked, WaitsFor, HoldsUser, IInv, HoldingInv
  <2>3. call[c].at \in Spending /\ call[c].token \in ResetTokens
    BY <2>2 DEF HoldsToken, MootingOK, Spending
  <2>4. SpendingOK(c)
    BY <1>1 DEF IInv, HoldingInv
  <2>5. call[c].at # "confirming"
    BY <2>3, <2>4, CredentialsAssumption DEF SpendingOK
  <2>6. QED
    BY <2>1, <2>3, <2>5 DEF Spending
<1>2. IInv => OnlyResetsDeadlock
  BY <1>1 DEF OnlyResetsDeadlock
<1>3. QED
  BY <1>2, InvariantHolds, PTL

(* Whoever registered is sent a link, or a request still owes it, unless a *)
(* process was lost in between.                                            *)
THEOREM LinkIsOwed == Spec => []RegisteredIsMailed
<1>1. IInv => RegisteredIsMailed
  BY DEF IInv
<1>2. QED
  BY <1>1, InvariantHolds, PTL

(* No password set from an instance loaded earlier undoes a confirmation   *)
(* of the address: reset_password and change_password write one column.    *)
THEOREM ConfirmedForGood == Spec => ConfirmedStays
<1>1. ASSUME IInv, Next, account.verified PROVE account'.verified
  <2>1. CASE UNCHANGED account
    BY <1>1, <2>1
  <2>2. ASSUME NEW c \in Calls, Register(c) PROVE FALSE
    BY <1>1, <2>2 DEF Register, Nobody
  <2>3. ASSUME NEW c \in Calls, Confirm(c) PROVE account'.verified
    BY <2>3, RowFields, <1>1 DEF Confirm, IInv, User
  <2>4. ASSUME NEW c \in Calls, CommitReset(c) \/ ChangePassword(c) PROVE account'.verified
    BY <2>4, RowFields, <1>1 DEF CommitReset, ChangePassword, WithPassword, IInv, User
  <2>5. QED
    BY <1>1, <2>1, <2>2, <2>3, <2>4
    DEF Next, Tick, AskVerification, AskReset, QueueMail, SetPassword, BreakDeadlock, SignIn,
        UpdateSessionAuthHash, Crash, IssueEmailVerification, IssuePasswordReset, Issue,
        VerifyEmail, ResetPassword, Follow, Authenticate, CheckPassword, Deliver, GiveUp, Logout
<1>2. IInv /\ [Next]_vars => [account.verified => account'.verified]_vars
  BY <1>1
<1>3. QED
  BY <1>2, InvariantHolds, PTL DEF Spec, ConfirmedStays

=============================================================================
