-------------------------- MODULE InvitationsProofs --------------------------
(* Proofs about Invitations: what the locks and unique indexes guarantee   *)
(* the transactions that hold them, and from that the promise of           *)
(* Admission.                                                              *)
EXTENDS Invitations, TLAPS

LEMMA Days ==
    /\ Lifetime \in Nat /\ Lifetime > 0 /\ LastDay \in Nat /\ LastDay > 0
    /\ \A d \in 0..LastDay : d + Lifetime \in 0..(LastDay + Lifetime)
BY InvitationsAssumption

CallRecord == [at: Steps, clock: 0..LastDay]

LEMMA IdleType == Idle \in CallRecord
BY InvitationsAssumption DEF Idle, CallRecord, Steps

(* What a step does to the calls: one goes on, keeping its clock, or ends. *)
LEMMA CallSteps ==
    ASSUME TypeOK, NEW c \in Calls
    PROVE  /\ \A s \in Steps : Goto(c, s) =>
                /\ call' \in [Calls -> CallRecord]
                /\ call'[c].at = s /\ call'[c].clock = call[c].clock
                /\ \A d \in Calls \ {c} : call'[d] = call[d]
           /\ Finish(c) =>
                /\ call' \in [Calls -> CallRecord]
                /\ call'[c] = Idle
                /\ \A d \in Calls \ {c} : call'[d] = call[d]
<1>1. call \in [Calls -> CallRecord] /\ call[c] \in CallRecord
  BY DEF TypeOK, CallRecord
<1>2. ASSUME NEW s \in Steps, Goto(c, s)
      PROVE  /\ call' \in [Calls -> CallRecord]
             /\ call'[c].at = s /\ call'[c].clock = call[c].clock
             /\ \A d \in Calls \ {c} : call'[d] = call[d]
  <2> DEFINE next == [call[c] EXCEPT !.at = s]
  <2>1. next \in CallRecord /\ next.at = s /\ next.clock = call[c].clock
    BY <1>1 DEF CallRecord
  <2>2. call' = [call EXCEPT ![c] = next]
    BY <1>2 DEF Goto
  <2> HIDE DEF next
  <2>3. QED
    BY <1>1, <2>1, <2>2
<1>3. ASSUME Finish(c)
      PROVE  /\ call' \in [Calls -> CallRecord]
             /\ call'[c] = Idle
             /\ \A d \in Calls \ {c} : call'[d] = call[d]
  BY <1>1, <1>3, IdleType DEF Finish
<1>4. QED
  BY <1>2, <1>3

(* A transaction begins: the call has read the time. *)
LEMMA BeginSteps ==
    ASSUME TypeOK, NEW c \in Calls, NEW s \in Steps,
           call' = [call EXCEPT ![c] = [at |-> s, clock |-> now]]
    PROVE  /\ call' \in [Calls -> CallRecord]
           /\ call'[c].at = s /\ call'[c].clock = now
           /\ \A d \in Calls \ {c} : call'[d] = call[d]
<1>1. now \in 0..LastDay
  BY DEF TypeOK
<1> DEFINE next == [at |-> s, clock |-> now]
<1>2. next \in CallRecord /\ next.at = s /\ next.clock = now
  BY <1>1 DEF CallRecord
<1>3. call \in [Calls -> CallRecord] /\ call' = [call EXCEPT ![c] = next]
  BY DEF TypeOK, CallRecord
<1> HIDE DEF next
<1>4. QED
  BY <1>2, <1>3

LEMMA TypeInit == Init => TypeOK
<1>1. SUFFICES ASSUME Init PROVE TypeOK
  OBVIOUS
<1>2. invitation \in BetaInvitation
  BY <1>1, Days DEF Init, BetaInvitation
<1>3. call \in [Calls -> CallRecord]
  BY <1>1, IdleType DEF Init
<1>4. QED
  BY <1>1, <1>2, <1>3, Days DEF Init, TypeOK, CallRecord

LEMMA TypeStep == TypeOK /\ [Next]_vars => TypeOK'
<1>1. SUFFICES ASSUME TypeOK, [Next]_vars PROVE TypeOK'
  OBVIOUS
<1>2. ASSUME NEW c \in Calls, call' \in [Calls -> CallRecord],
             UNCHANGED <<now, invitation, account, newest>>
      PROVE  TypeOK'
  BY <1>1, <1>2 DEF TypeOK, CallRecord
<1>3. ASSUME NEW c \in Calls, BeginIssue(c) \/ Register(c) PROVE TypeOK'
  BY <1>1, <1>2, <1>3, BeginSteps DEF BeginIssue, Register, Steps
<1>4. ASSUME NEW c \in Calls,
             FindToIssue(c) \/ Insert(c) \/ FindToRevoke(c) \/ Spend(c) \/ Refuse(c) \/ Abort(c)
      PROVE  TypeOK'
  <2>1. (\E s \in Steps : Goto(c, s)) \/ Finish(c)
    BY <1>4 DEF FindToIssue, Insert, FindToRevoke, Spend, Refuse, Abort, Steps
  <2>2. UNCHANGED <<now, invitation, account, newest>>
    BY <1>4 DEF FindToIssue, Insert, FindToRevoke, Spend, Refuse, Abort
  <2>3. QED
    BY <1>1, <1>2, <2>1, <2>2, CallSteps
<1>5. ASSUME NEW c \in Calls, SaveIssued(c) PROVE TypeOK'
  <2>1. call[c].clock \in 0..LastDay
    BY <1>1 DEF TypeOK
  <2>2. ExpiresAt(c) \in 0..(LastDay + Lifetime)
    BY <2>1, Days DEF ExpiresAt
  <2>3. invitation' \in BetaInvitation
    BY <1>1, <1>5, <2>2 DEF SaveIssued, BetaInvitation, TypeOK
  <2>4. QED
    BY <1>1, <1>5, <2>3, CallSteps DEF SaveIssued, Actions, TypeOK, CallRecord
<1>6. ASSUME NEW c \in Calls, SaveRevoked(c) PROVE TypeOK'
  <2>1. invitation' \in BetaInvitation
    BY <1>1, <1>6 DEF SaveRevoked, BetaInvitation, TypeOK
  <2>2. QED
    BY <1>1, <1>6, <2>1, CallSteps DEF SaveRevoked, Actions, TypeOK, CallRecord
<1>7. ASSUME NEW c \in Calls, CommitRegistration(c) PROVE TypeOK'
  <2>1. call[c].clock \in 0..LastDay
    BY <1>1 DEF TypeOK
  <2>2. invitation' \in BetaInvitation
    BY <1>1, <1>7, <2>1 DEF CommitRegistration, BetaInvitation, TypeOK
  <2>3. QED
    BY <1>1, <1>7, <2>2, CallSteps DEF CommitRegistration, Actions, TypeOK, CallRecord
<1>8. CASE CreateAccount
  BY <1>1, <1>8 DEF CreateAccount, TypeOK
<1>9. CASE Tomorrow
  BY <1>1, <1>9, Days DEF Tomorrow, TypeOK
<1>10. CASE UNCHANGED vars
  BY <1>1, <1>10 DEF vars, TypeOK
<1>11. QED
  BY <1>1, <1>3, <1>4, <1>5, <1>6, <1>7, <1>8, <1>9, <1>10 DEF Next

(* Types hold for every lifetime and number of calls. *)
THEOREM TypeCorrect == Spec => []TypeOK
BY TypeInit, TypeStep, PTL DEF Spec

-----------------------------------------------------------------------------
(* What a transaction may rely on until it commits: a row lock, a pending  *)
(* row in the invitations' index and one in the users' index have one      *)
(* holder each, and what its statement found is still so.                  *)

Inserted(c) == call[c].at = "inserted"
Joined(c) == call[c].at \in {"joined", "spending"}

Alone ==
    \A c, d \in Calls : c # d =>
        /\ ~(HoldsRow(c) /\ HoldsRow(d))
        /\ ~(Inserted(c) /\ Inserted(d))
        /\ ~(Joined(c) /\ Joined(d))

Reliable(c) ==
    /\ Inserted(c) => ~invitation.there
    /\ HoldsRow(c) => invitation.there /\ invitation.consumed = 0
    /\ call[c].at = "revoking" => ~invitation.revoked
    /\ call[c].at = "spending" => Usable(call[c].clock)
    /\ Joined(c) => account = "none" /\ call[c].clock # 0

NewRow == ~invitation.there => invitation.consumed = 0 /\ ~invitation.revoked

LockInv == Alone /\ NewRow /\ \A c \in Calls : Reliable(c)

LEMMA LockInit == Init => LockInv
<1>1. SUFFICES ASSUME Init PROVE LockInv
  OBVIOUS
<1>2. \A c \in Calls : ~HoldsRow(c) /\ ~Inserted(c) /\ ~Joined(c)
  BY <1>1 DEF Init, Idle, HoldsRow, Inserted, Joined
<1>3. NewRow
  BY <1>1 DEF Init, NewRow
<1>4. QED
  BY <1>2, <1>3 DEF LockInv, Alone, Reliable, HoldsRow, Joined

(* A step that leaves the rows alone, and takes no lock another call has.  *)
LEMMA LockQuiet ==
    ASSUME TypeOK, LockInv, NEW c \in Calls,
           UNCHANGED <<invitation, account>>,
           \A d \in Calls \ {c} : call'[d] = call[d],
           HoldsRow(c)' => \A d \in Calls \ {c} : ~HoldsRow(d),
           Inserted(c)' => \A d \in Calls \ {c} : ~Inserted(d),
           Joined(c)' => \A d \in Calls \ {c} : ~Joined(d),
           Reliable(c)'
    PROVE  LockInv'
<1>1. \A d \in Calls \ {c} :
          /\ HoldsRow(d)' <=> HoldsRow(d)
          /\ Inserted(d)' <=> Inserted(d)
          /\ Joined(d)' <=> Joined(d)
  BY DEF HoldsRow, Inserted, Joined
<1>2. Alone'
  BY <1>1 DEF LockInv, Alone
<1>3. NewRow'
  BY DEF LockInv, NewRow
<1>4. ASSUME NEW d \in Calls \ {c} PROVE Reliable(d)'
  <2>1. Reliable(d)
    BY DEF LockInv
  <2>2. QED
    BY <2>1 DEF Reliable, HoldsRow, Inserted, Joined, Usable, NotExpired
<1>5. QED
  BY <1>2, <1>3, <1>4 DEF LockInv

(* A call that ends holds nothing. *)
LEMMA LockFinish ==
    ASSUME TypeOK, LockInv, NEW c \in Calls, Finish(c), UNCHANGED <<invitation, account>>
    PROVE  LockInv'
<1>1. call'[c] = Idle /\ \A d \in Calls \ {c} : call'[d] = call[d]
  BY CallSteps
<1>2. ~HoldsRow(c)' /\ ~Inserted(c)' /\ ~Joined(c)'
  BY <1>1 DEF HoldsRow, Inserted, Joined, Idle
<1>3. Reliable(c)'
  BY <1>1, <1>2 DEF Reliable, Idle
<1>4. QED
  BY <1>1, <1>2, <1>3, LockQuiet

(* A commit ends the only call that relied on what it changes. *)
LEMMA LockSave ==
    ASSUME TypeOK, LockInv, NEW c \in Calls, Finish(c),
           HoldsRow(c) \/ Inserted(c),
           account' = account \/ Joined(c),
           invitation'.there
    PROVE  LockInv'
<1>1. call'[c] = Idle /\ \A d \in Calls \ {c} : call'[d] = call[d]
  BY CallSteps
<1>2. ~HoldsRow(c)' /\ ~Inserted(c)' /\ ~Joined(c)'
  BY <1>1 DEF HoldsRow, Inserted, Joined, Idle
<1>3. Reliable(c)'
  BY <1>1, <1>2 DEF Reliable, Idle
<1>4. ASSUME NEW d \in Calls \ {c} PROVE ~HoldsRow(d) /\ ~Inserted(d)
  BY <1>4 DEF LockInv, Alone, Reliable
<1>5. ASSUME NEW d \in Calls \ {c} PROVE ~HoldsRow(d)' /\ ~Inserted(d)' /\ (Joined(d)' <=> Joined(d))
  BY <1>1, <1>4 DEF HoldsRow, Inserted, Joined
<1>6. ASSUME NEW d \in Calls \ {c} PROVE Reliable(d)'
  <2>1. Joined(d)' => account' = "none" /\ call'[d].clock # 0
    BY <1>1, <1>5 DEF LockInv, Alone, Reliable
  <2>2. call'[d].at # "revoking" /\ call'[d].at # "spending"
    BY <1>5 DEF HoldsRow
  <2>3. QED
    BY <1>5, <2>1, <2>2 DEF Reliable
<1>7. Alone'
  BY <1>2, <1>5 DEF LockInv, Alone
<1>8. QED
  BY <1>3, <1>6, <1>7 DEF LockInv, NewRow

LEMMA LockStep == TypeOK /\ LockInv /\ [Next]_vars => LockInv'
<1>1. SUFFICES ASSUME TypeOK, LockInv, [Next]_vars PROVE LockInv'
  OBVIOUS
<1>2. ASSUME NEW c \in Calls, BeginIssue(c) PROVE LockInv'
  <2>1. call'[c].at = "issuing" /\ \A d \in Calls \ {c} : call'[d] = call[d]
    BY <1>1, <1>2, BeginSteps DEF BeginIssue, Steps
  <2>2. ~HoldsRow(c)' /\ ~Inserted(c)' /\ ~Joined(c)' /\ Reliable(c)'
    BY <2>1 DEF HoldsRow, Inserted, Joined, Reliable
  <2>3. QED
    BY <1>1, <1>2, <2>1, <2>2, LockQuiet DEF BeginIssue
<1>3. ASSUME NEW c \in Calls, Register(c) PROVE LockInv'
  <2>1. /\ call'[c].at = "joined" /\ call'[c].clock = now
        /\ \A d \in Calls \ {c} : call'[d] = call[d]
    BY <1>1, <1>3, BeginSteps DEF Register, Steps
  <2>2. now # 0
    BY <1>1 DEF TypeOK
  <2>3. ~HoldsRow(c)' /\ ~Inserted(c)' /\ Reliable(c)'
    BY <1>3, <2>1, <2>2 DEF HoldsRow, Inserted, Joined, Reliable, Register
  <2>4. \A d \in Calls \ {c} : ~Joined(d)
    BY <1>3 DEF Register, UserInsertable, Joined
  <2>5. QED
    BY <1>1, <1>3, <2>1, <2>3, <2>4, LockQuiet DEF Register
<1>4. ASSUME NEW c \in Calls, Goto(c, "inserting"), UNCHANGED <<invitation, account>>
      PROVE  LockInv'
  <2>1. call'[c].at = "inserting" /\ \A d \in Calls \ {c} : call'[d] = call[d]
    BY <1>1, <1>4, CallSteps DEF Steps
  <2>2. ~HoldsRow(c)' /\ ~Inserted(c)' /\ ~Joined(c)' /\ Reliable(c)'
    BY <2>1 DEF HoldsRow, Inserted, Joined, Reliable
  <2>3. QED
    BY <1>1, <1>4, <2>1, <2>2, LockQuiet
<1>5. ASSUME NEW c \in Calls, NEW s \in {"reopening", "revoking"}, Goto(c, s), RowFree,
             invitation.there, invitation.consumed = 0,
             s = "revoking" => ~invitation.revoked,
             UNCHANGED <<invitation, account>>
      PROVE  LockInv'
  <2>1. call'[c].at = s /\ \A d \in Calls \ {c} : call'[d] = call[d]
    BY <1>1, <1>5, CallSteps DEF Steps
  <2>2. ~Inserted(c)' /\ ~Joined(c)'
    BY <2>1 DEF Inserted, Joined
  <2>3. Reliable(c)'
    BY <1>5, <2>1, <2>2 DEF Reliable
  <2>4. QED
    BY <1>1, <1>5, <2>1, <2>2, <2>3, LockQuiet DEF RowFree
<1>6. ASSUME NEW c \in Calls, FindToIssue(c) \/ FindToRevoke(c) PROVE LockInv'
  <2>1. CASE FindToRevoke(c)
    BY <1>5, <2>1 DEF FindToRevoke
  <2>2. CASE FindToIssue(c) /\ Finish(c)
    BY <1>1, <2>2, LockFinish DEF FindToIssue
  <2>3. CASE FindToIssue(c) /\ Goto(c, "inserting")
    BY <1>4, <2>3 DEF FindToIssue
  <2>4. CASE FindToIssue(c) /\ invitation.there /\ invitation.consumed = 0
               /\ Goto(c, "reopening")
    BY <1>5, <2>4 DEF FindToIssue
  <2>5. QED
    BY <1>6, <2>1, <2>2, <2>3, <2>4 DEF FindToIssue
<1>7. ASSUME NEW c \in Calls, Insert(c) PROVE LockInv'
  <2>1. CASE invitation.there
    BY <1>1, <1>7, <2>1, LockFinish DEF Insert
  <2>2. CASE ~invitation.there
    <3>1. call'[c].at = "inserted" /\ \A d \in Calls \ {c} : call'[d] = call[d]
      BY <1>1, <1>7, <2>2, CallSteps DEF Insert, Steps
    <3>2. ~HoldsRow(c)' /\ ~Joined(c)'
      BY <3>1 DEF HoldsRow, Joined
    <3>3. Reliable(c)'
      BY <1>7, <2>2, <3>1, <3>2 DEF Reliable, Insert
    <3>4. QED
      BY <1>1, <1>7, <3>1, <3>2, <3>3, LockQuiet DEF Insert, InvitationInsertable, Inserted
  <2>3. QED
    BY <2>1, <2>2
<1>8. ASSUME NEW c \in Calls, Spend(c) PROVE LockInv'
  <2>1. /\ call'[c].at = "spending" /\ call'[c].clock = call[c].clock
        /\ \A d \in Calls \ {c} : call'[d] = call[d]
    BY <1>1, <1>8, CallSteps DEF Spend, Steps
  <2>2. Joined(c) /\ Reliable(c) /\ \A d \in Calls \ {c} : ~Joined(d)
    BY <1>1, <1>8 DEF Spend, Joined, LockInv, Alone
  <2>3. ~Inserted(c)' /\ Reliable(c)'
    BY <1>8, <2>1, <2>2 DEF Spend, Inserted, Joined, Reliable, Usable, NotExpired
  <2>4. QED
    BY <1>1, <1>8, <2>1, <2>2, <2>3, LockQuiet DEF Spend, RowFree
<1>9. ASSUME NEW c \in Calls, Refuse(c) \/ Abort(c) PROVE LockInv'
  BY <1>1, <1>9, LockFinish DEF Refuse, Abort
<1>10. ASSUME NEW c \in Calls, SaveIssued(c) \/ SaveRevoked(c) \/ CommitRegistration(c)
       PROVE  LockInv'
  <2>1. HoldsRow(c) \/ Inserted(c)
    BY <1>10 DEF SaveIssued, SaveRevoked, CommitRegistration, HoldsRow, Inserted
  <2>2. account' = account \/ Joined(c)
    BY <1>10 DEF SaveIssued, SaveRevoked, CommitRegistration, Joined
  <2>3. SaveRevoked(c) \/ CommitRegistration(c) => invitation.there
    BY <1>1 DEF SaveRevoked, CommitRegistration, LockInv, Reliable, HoldsRow
  <2>4. invitation'.there
    BY <1>1, <1>10, <2>3 DEF SaveIssued, SaveRevoked, CommitRegistration, TypeOK, BetaInvitation
  <2>5. Finish(c)
    BY <1>10 DEF SaveIssued, SaveRevoked, CommitRegistration
  <2>6. QED
    BY <1>1, <2>1, <2>2, <2>4, <2>5, LockSave
<1>11. CASE CreateAccount
  <2>1. \A c \in Calls : ~Joined(c)
    BY <1>11 DEF CreateAccount, UserInsertable, Joined
  <2>2. QED
    BY <1>1, <1>11, <2>1 DEF CreateAccount, LockInv, Alone, NewRow, Reliable, HoldsRow,
       Inserted, Joined, Usable, NotExpired
<1>12. CASE Tomorrow \/ UNCHANGED vars
  BY <1>1, <1>12 DEF Tomorrow, vars, LockInv, Alone, NewRow, Reliable, HoldsRow,
     Inserted, Joined, Usable, NotExpired
<1>13. QED
  BY <1>1, <1>2, <1>3, <1>6, <1>7, <1>8, <1>9, <1>10, <1>11, <1>12 DEF Next

-----------------------------------------------------------------------------
(* The properties. *)

(* What each commit does to the row. *)
LEMMA Commits ==
    ASSUME TypeOK, LockInv, NEW c \in Calls
    PROVE  /\ SaveIssued(c) =>
                /\ invitation.consumed = 0 /\ invitation'.consumed = 0
                /\ invitation'.there /\ ~invitation'.revoked
           /\ SaveRevoked(c) =>
                /\ invitation.there /\ invitation.consumed = 0 /\ ~invitation.revoked
                /\ invitation'.there /\ invitation'.consumed = 0 /\ invitation'.revoked
           /\ CommitRegistration(c) =>
                /\ Usable(call[c].clock) /\ account = "none"
                /\ invitation'.there /\ ~invitation'.revoked
                /\ invitation'.consumed = call[c].clock /\ call[c].clock # 0
                /\ invitation'.expires = invitation.expires
<1>1. Reliable(c) /\ NewRow
  BY DEF LockInv
<1>2. ASSUME SaveIssued(c)
      PROVE  /\ invitation.consumed = 0 /\ invitation'.consumed = 0
             /\ invitation'.there /\ ~invitation'.revoked
  <2>1. invitation.consumed = 0
    BY <1>1, <1>2 DEF SaveIssued, Reliable, NewRow, HoldsRow, Inserted
  <2>2. QED
    BY <1>2, <2>1 DEF SaveIssued, TypeOK, BetaInvitation
<1>3. ASSUME SaveRevoked(c)
      PROVE  /\ invitation.there /\ invitation.consumed = 0 /\ ~invitation.revoked
             /\ invitation'.there /\ invitation'.consumed = 0 /\ invitation'.revoked
  <2>1. invitation.there /\ invitation.consumed = 0 /\ ~invitation.revoked
    BY <1>1, <1>3 DEF SaveRevoked, Reliable, HoldsRow
  <2>2. QED
    BY <1>3, <2>1 DEF SaveRevoked, TypeOK, BetaInvitation
<1>4. ASSUME CommitRegistration(c)
      PROVE  /\ Usable(call[c].clock) /\ account = "none"
             /\ invitation'.there /\ ~invitation'.revoked
             /\ invitation'.consumed = call[c].clock /\ call[c].clock # 0
             /\ invitation'.expires = invitation.expires
  <2>1. Usable(call[c].clock) /\ account = "none" /\ call[c].clock # 0
    BY <1>1, <1>4 DEF CommitRegistration, Reliable, Joined
  <2>2. QED
    BY <1>4, <2>1 DEF CommitRegistration, Usable, TypeOK, BetaInvitation
<1>5. QED
  BY <1>2, <1>3, <1>4

(* Every other step leaves the row and the trail alone. *)
LEMMA OnlyCommits ==
    ASSUME [Next]_vars
    PROVE  \/ UNCHANGED <<invitation, newest>> /\ (account' = account \/ CreateAccount)
           \/ \E c \in Calls : SaveIssued(c) \/ SaveRevoked(c) \/ CommitRegistration(c)
BY DEF Next, vars, CreateAccount, Tomorrow, BeginIssue, FindToIssue, Insert, FindToRevoke,
       Register, Spend, Refuse, Abort

(* An invitation is spent before it expires (consume_invitation).          *)
THEOREM SpentBeforeExpiry == Spec => []SpentInTime
<1>1. Init => SpentInTime
  BY DEF Init, SpentInTime
<1>2. TypeOK /\ LockInv /\ SpentInTime /\ [Next]_vars => SpentInTime'
  <2>1. SUFFICES ASSUME TypeOK, LockInv, SpentInTime, [Next]_vars PROVE SpentInTime'
    OBVIOUS
  <2>2. ASSUME NEW c \in Calls, CommitRegistration(c) PROVE SpentInTime'
    <3>1. invitation.expires > call[c].clock
      BY <2>1, <2>2, Commits DEF Usable, NotExpired
    <3>2. call[c].clock \in Nat /\ invitation.expires \in Nat
      BY <2>1, Days DEF TypeOK, BetaInvitation
    <3>3. invitation'.consumed = call[c].clock /\ invitation'.expires = invitation.expires
      BY <2>1, <2>2, Commits
    <3>4. QED
      BY <3>1, <3>2, <3>3 DEF SpentInTime
  <2>3. ASSUME NEW c \in Calls, SaveIssued(c) \/ SaveRevoked(c) PROVE SpentInTime'
    BY <2>1, <2>3, Commits DEF SpentInTime
  <2>4. QED
    BY <2>1, <2>2, <2>3, OnlyCommits DEF SpentInTime
<1>3. QED
  BY <1>1, <1>2, TypeInit, TypeStep, LockInit, LockStep, PTL DEF Spec

(* The newest audit row tells what the invitation is; no row is both       *)
(* consumed and revoked (revoke_invitation, issue_invitation).             *)
THEOREM TrailTellsTheState == Spec => []TrailExplainsAdmission
<1>1. Init => TrailExplainsAdmission
  BY DEF Init, TrailExplainsAdmission
<1>2. TypeOK /\ LockInv /\ TrailExplainsAdmission /\ [Next]_vars => TrailExplainsAdmission'
  <2>1. SUFFICES ASSUME TypeOK, LockInv, TrailExplainsAdmission, [Next]_vars
                 PROVE  TrailExplainsAdmission'
    OBVIOUS
  <2>2. ASSUME NEW c \in Calls, SaveIssued(c) PROVE TrailExplainsAdmission'
    BY <2>1, <2>2, Commits DEF SaveIssued, TrailExplainsAdmission
  <2>3. ASSUME NEW c \in Calls, SaveRevoked(c) PROVE TrailExplainsAdmission'
    BY <2>1, <2>3, Commits DEF SaveRevoked, TrailExplainsAdmission
  <2>4. ASSUME NEW c \in Calls, CommitRegistration(c) PROVE TrailExplainsAdmission'
    BY <2>1, <2>4, Commits DEF CommitRegistration, TrailExplainsAdmission
  <2>5. QED
    BY <2>1, <2>2, <2>3, <2>4, OnlyCommits DEF TrailExplainsAdmission
<1>3. QED
  BY <1>1, <1>2, TypeInit, TypeStep, LockInit, LockStep, PTL DEF Spec

-----------------------------------------------------------------------------
(* Refinement: each commit is one step of Admission, the rest stutter.     *)

LEMMA PlaceValues ==
    /\ Place = "spent" <=> invitation.consumed # 0
    /\ ~invitation.there /\ invitation.consumed = 0 => Place = "none"
    /\ invitation.there /\ invitation.consumed = 0 /\ invitation.revoked
         => Place = "withdrawn"
    /\ invitation.there /\ invitation.consumed = 0 /\ ~invitation.revoked
         => Place = "open"
BY DEF Place

LEMMA PlaceValuesNext ==
    /\ Place' = "spent" <=> invitation'.consumed # 0
    /\ invitation'.there /\ invitation'.consumed = 0 /\ invitation'.revoked
         => Place' = "withdrawn"
    /\ invitation'.there /\ invitation'.consumed = 0 /\ ~invitation'.revoked
         => Place' = "open"
BY DEF Place

(* An address is admitted exactly once, by the registration that spends    *)
(* its open invitation; one that fails leaves it unspent                   *)
(* (register_account, consume_invitation).                                 *)
THEOREM KeepsThePromise == Spec => AdmissionIsKept
<1>1. Init => Promise!Init
  BY PlaceValues DEF Init, Promise!Init
<1>2. TypeOK /\ LockInv /\ [Next]_vars => [Promise!Next]_(Promise!vars)
  <2>1. SUFFICES ASSUME TypeOK, LockInv, [Next]_vars
                 PROVE  Promise!Next \/ UNCHANGED <<Place, account>>
    BY DEF Promise!vars
  <2>2. ASSUME NEW c \in Calls, SaveIssued(c) PROVE Promise!Issue
    BY <2>1, <2>2, Commits, PlaceValues, PlaceValuesNext DEF SaveIssued, Promise!Issue
  <2>3. ASSUME NEW c \in Calls, SaveRevoked(c) PROVE Promise!Withdraw
    BY <2>1, <2>3, Commits, PlaceValues, PlaceValuesNext DEF SaveRevoked, Promise!Withdraw
  <2>4. ASSUME NEW c \in Calls, CommitRegistration(c) PROVE Promise!Admit
    BY <2>1, <2>4, Commits, PlaceValues, PlaceValuesNext
       DEF CommitRegistration, Usable, Promise!Admit
  <2>5. ASSUME UNCHANGED invitation PROVE UNCHANGED Place
    BY <2>5 DEF Place
  <2>6. ASSUME CreateAccount PROVE Promise!CreateUngated
    BY <2>5, <2>6 DEF CreateAccount, Promise!CreateUngated
  <2>7. QED
    BY <2>1, <2>2, <2>3, <2>4, <2>5, <2>6, OnlyCommits DEF Promise!Next
<1>3. QED
  BY <1>1, <1>2, TypeInit, TypeStep, LockInit, LockStep, PTL
     DEF Spec, AdmissionIsKept, Promise!Spec
=============================================================================
