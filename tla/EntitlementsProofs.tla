------------------------- MODULE EntitlementsProofs -------------------------
(* Proofs about Entitlements: for every billing period, trial and grace,   *)
(* paid periods are served, and whoever is served past everything promised *)
(* is in the nightly report.                                               *)
EXTENDS Entitlements, FiniteSetTheorems, TLAPS

LEMMA LengthTypes ==
    /\ Period \in Nat /\ Period > 0 /\ TrialDays \in Nat /\ TrialDays > 0
    /\ Grace \in Nat /\ LastDay \in Nat
    /\ \A d \in OverrideDays : d \in Nat
BY EntitlementsAssumption

Work == [for: Purposes, row: Subscriptions, saw: Row]

(* A call that is under way. *)
LEMMA CallTypes ==
    ASSUME TypeOK, NEW c \in Calls, call[c].for # "none"
    PROVE  /\ call[c] \in Work
           /\ call[c].row \in Subscriptions
           /\ call[c].saw \in Row
<1>1. call[c] \in Work
  BY DEF TypeOK, Idle, Work
<1>2. QED
  BY <1>1 DEF Work

LEMMA RowFields ==
    ASSUME NEW r \in Row
    PROVE  r.end \in Nat /\ r.trialEnd \in Nat /\ r.status \in Statuses \cup {"NONE"}
BY DEF Row

LEMMA LaterType ==
    \A m, n \in Nat : Later(m, n) \in Nat /\ Later(m, n) >= m /\ Later(m, n) >= n
BY DEF Later

(* What each snapshot is, field by field. *)
LEMMA SnapshotType ==
    ASSUME NEW saw \in Row, now \in Nat, NEW p \in Purposes \ {"expire"}
    PROVE  /\ Snapshot(p, saw) \in Row
           /\ Snapshot(p, saw).status = CASE p = "start" -> "ACTIVE"
                                          [] p = "trial" -> "TRIALING"
                                          [] OTHER -> Target[p]
           /\ Snapshot(p, saw).end = CASE p \in {"start", "renew", "cancel"} -> now + Period
                                       [] p = "trial" -> now + TrialDays
                                       [] p = "fail" -> saw.end
                                       [] p = "cancelNow" -> now
           /\ Snapshot(p, saw).trialEnd = CASE p = "start" -> 0
                                            [] p = "trial" -> now + TrialDays
                                            [] OTHER -> saw.trialEnd
<1>1. /\ now + Period \in Nat /\ now + TrialDays \in Nat /\ now + TrialDays # 0
      /\ saw.end \in Nat /\ saw.trialEnd \in Nat
  BY LengthTypes, RowFields
<1>2. CASE p = "start"
  BY <1>1, <1>2 DEF Snapshot, Row, Statuses, LIVE_STATUSES
<1>3. CASE p = "trial"
  BY <1>1, <1>3 DEF Snapshot, TrialEnd, Row, Statuses, LIVE_STATUSES
<1>4. CASE p = "renew"
  BY <1>1, <1>4 DEF Snapshot, Target, Row, Statuses, LIVE_STATUSES
<1>5. CASE p = "fail"
  BY <1>1, <1>5 DEF Snapshot, Target, PeriodKept, Row, Statuses, LIVE_STATUSES
<1>6. CASE p = "cancel"
  BY <1>1, <1>6 DEF Snapshot, Target, Row, Statuses, LIVE_STATUSES
<1>7. CASE p = "cancelNow"
  BY <1>1, <1>7 DEF Snapshot, Target, Row, Statuses, LIVE_STATUSES
<1>8. QED
  BY <1>2, <1>3, <1>4, <1>5, <1>6, <1>7 DEF Purposes, Target

-----------------------------------------------------------------------------
(* Types. *)

LEMMA TypeSave ==
    ASSUME TypeOK, NEW c \in Calls, call[c].for # "none", NEW row \in Row, Save(c, row)
    PROVE  TypeOK'
<1> DEFINE s == call[c].row
<1>1. s \in Subscriptions /\ row.end \in Nat /\ stale' \in BOOLEAN
  BY CallTypes, RowFields DEF Save, TypeOK
<1>2. /\ subscription' = [subscription EXCEPT ![s] = row]
      /\ promised' = Later(promised, row.end)
      /\ call' = [call EXCEPT ![c] = Idle]
      /\ UNCHANGED <<now, override>>
  BY DEF Save, Finish
<1>3. paid' = [paid EXCEPT ![s] =
                 IF call[c].for \in {"start", "renew"} THEN row.end
                 ELSE IF row.status = "EXPIRED" THEN 0 ELSE @]
  BY DEF Save
<1> HIDE DEF s
<1>4. promised' \in Nat
  BY <1>1, <1>2, LaterType DEF TypeOK
<1>5. paid' \in [Subscriptions -> Nat]
  BY <1>1, <1>3 DEF TypeOK
<1>6. QED
  BY <1>1, <1>2, <1>4, <1>5 DEF TypeOK

(* What StartSubscription, Apply and Expire save. *)
LEMMA SavedRows ==
    ASSUME TypeOK, NEW c \in Calls
    PROVE  /\ StartSubscription(c) =>
                /\ call[c].for \in {"start", "trial"}
                /\ Snapshot(call[c].for, NoRow) \in Row
                /\ Save(c, Snapshot(call[c].for, NoRow))
           /\ Apply(c) =>
                /\ call[c].for \in {"renew", "fail", "cancel", "cancelNow"}
                /\ Snapshot(call[c].for, call[c].saw) \in Row
                /\ Save(c, Snapshot(call[c].for, call[c].saw))
           /\ Expire(c) =>
                LET row == [subscription[call[c].row] EXCEPT !.status = "EXPIRED"]
                IN  call[c].for = "expire" /\ row \in Row /\ Save(c, row)
<1>1. now \in Nat
  BY LengthTypes DEF TypeOK
<1>2. NoRow \in Row
  BY DEF NoRow, Row
<1>3. ASSUME StartSubscription(c)
      PROVE  /\ call[c].for \in {"start", "trial"}
             /\ Snapshot(call[c].for, NoRow) \in Row
             /\ Save(c, Snapshot(call[c].for, NoRow))
  BY <1>1, <1>2, <1>3, SnapshotType DEF StartSubscription, Purposes
<1>4. ASSUME Apply(c)
      PROVE  /\ call[c].for \in {"renew", "fail", "cancel", "cancelNow"}
             /\ Snapshot(call[c].for, call[c].saw) \in Row
             /\ Save(c, Snapshot(call[c].for, call[c].saw))
  <2>1. call[c].for \in {"renew", "fail", "cancel", "cancelNow"}
    BY <1>4 DEF Apply, Target
  <2>2. call[c].saw \in Row
    BY <2>1, CallTypes
  <2>3. call[c].for \in Purposes \ {"expire"}
    BY <2>1 DEF Purposes, Target
  <2>4. QED
    BY <1>1, <1>4, <2>1, <2>2, <2>3, SnapshotType DEF Apply
<1>5. ASSUME Expire(c)
      PROVE  LET row == [subscription[call[c].row] EXCEPT !.status = "EXPIRED"]
             IN  call[c].for = "expire" /\ row \in Row /\ Save(c, row)
  <2>1. call[c].for = "expire"
    BY <1>5 DEF Expire
  <2>2. subscription[call[c].row] \in Row
    BY <2>1, CallTypes DEF TypeOK
  <2>3. [subscription[call[c].row] EXCEPT !.status = "EXPIRED"] \in Row
    BY <2>2 DEF Row, Statuses
  <2>4. QED
    BY <1>5, <2>1, <2>3 DEF Expire
<1>6. QED
  BY <1>3, <1>4, <1>5

LEMMA TypeLoad ==
    ASSUME TypeOK, NEW c \in Calls
    PROVE  /\ \A p \in {"start", "trial"} : LoadToStart(c, p) => TypeOK'
           /\ \A p \in DOMAIN Target : LoadLive(c, p) => TypeOK'
<1>1. NoRow \in Row
  BY DEF NoRow, Row
<1>2. ASSUME NEW p \in {"start", "trial"}, LoadToStart(c, p) PROVE TypeOK'
  <2>1. PICK s \in Subscriptions :
          call' = [call EXCEPT ![c] = [for |-> p, row |-> s, saw |-> NoRow]]
    BY <1>2 DEF LoadToStart
  <2>2. [for |-> p, row |-> s, saw |-> NoRow] \in [for: Purposes, row: Subscriptions, saw: Row]
    BY <1>1 DEF Purposes
  <2>3. QED
    BY <1>2, <2>1, <2>2 DEF LoadToStart, TypeOK
<1>3. ASSUME NEW p \in DOMAIN Target, LoadLive(c, p) PROVE TypeOK'
  <2>1. PICK s \in Subscriptions :
          call' = [call EXCEPT ![c] = [for |-> p, row |-> s, saw |-> subscription[s]]]
    BY <1>3 DEF LoadLive
  <2>2. [for |-> p, row |-> s, saw |-> subscription[s]]
          \in [for: Purposes, row: Subscriptions, saw: Row]
    BY DEF Purposes, TypeOK
  <2>3. QED
    BY <1>3, <2>1, <2>2 DEF LoadLive, TypeOK
<1>4. QED
  BY <1>2, <1>3

LEMMA TypeInit == Init => TypeOK
<1>1. NoRow \in Row
  BY DEF NoRow, Row
<1>2. 0 \in 0..LastDay
  BY LengthTypes
<1>3. SUFFICES ASSUME Init PROVE TypeOK
  OBVIOUS
<1>4. /\ now \in 0..LastDay /\ override \in Nat /\ promised \in Nat /\ stale \in BOOLEAN
      /\ paid \in [Subscriptions -> Nat]
  BY <1>2, <1>3 DEF Init
<1>5. subscription \in [Subscriptions -> Row]
  BY <1>1, <1>3 DEF Init
<1>6. call \in [Calls -> {Idle} \cup [for: Purposes, row: Subscriptions, saw: Row]]
  BY <1>3 DEF Init
<1>7. QED
  BY <1>4, <1>5, <1>6 DEF TypeOK

LEMMA TypeStep == TypeOK /\ [Next]_vars => TypeOK'
<1>1. SUFFICES ASSUME TypeOK, [Next]_vars PROVE TypeOK'
  OBVIOUS
<1>2. ASSUME NEW c \in Calls, StartSubscription(c) \/ Apply(c) \/ Expire(c)
      PROVE  TypeOK'
  BY <1>1, <1>2, SavedRows, TypeSave
<1>3. ASSUME NEW c \in Calls, Refused(c) PROVE TypeOK'
  BY <1>1, <1>3 DEF Refused, Finish, TypeOK
<1>4. ASSUME NEW d \in OverrideDays, GrantAccessOverride(d) PROVE TypeOK'
  <2>1. now \in Nat /\ now + d \in Nat
    BY <1>1, LengthTypes DEF TypeOK
  <2>2. QED
    BY <1>1, <1>4, <2>1, LaterType DEF GrantAccessOverride, TypeOK
<1>5. ASSUME Tomorrow PROVE TypeOK'
  <2>1. now' \in 0..LastDay
    BY <1>1, <1>5, LengthTypes DEF Tomorrow, TypeOK
  <2>2. override' \in Nat /\ paid' \in [Subscriptions -> Nat]
    BY <1>1, <1>5 DEF Tomorrow, TypeOK
  <2>3. QED
    BY <1>1, <1>5, <2>1, <2>2 DEF Tomorrow, TypeOK
<1>6. CASE UNCHANGED vars
  BY <1>1, <1>6 DEF vars, TypeOK
<1>7. QED
  BY <1>1, <1>2, <1>3, <1>4, <1>5, <1>6, TypeLoad DEF Next

(* Types hold for every billing period, trial, grace and number of calls. *)
THEOREM TypeCorrect == Spec => []TypeOK
BY TypeInit, TypeStep, PTL DEF Spec

-----------------------------------------------------------------------------
(* Reading: what the resolver and the report make of one row.              *)

(* The report and the resolver cut each date at the same place: a row in   *)
(* one of the three housekeeping categories is refused, a row in the       *)
(* fourth is served (reconciliation_findings, _decide_for).                *)
THEOREM ReportAgrees == Spec => []ReportAgreesWithResolver
<1>1. TypeOK => ReportAgreesWithResolver
  <2>1. SUFFICES ASSUME TypeOK, NEW s \in Subscriptions,
                        NEW f \in Findings(subscription[s])
                 PROVE  DecideFor(subscription[s]).allowed <=> f = "ACTIVE_PAST_PERIOD"
    BY DEF ReportAgreesWithResolver
  <2> DEFINE row == subscription[s]
  <2>2. row.end \in Nat /\ row.trialEnd \in Nat /\ now \in Nat /\ Grace \in Nat
    BY <2>1, RowFields, LengthTypes DEF TypeOK
  <2>3. \/ f = "ACTIVE_PAST_PERIOD" /\ row.status = "ACTIVE"
        \/ f = "TRIALING_PAST_END" /\ row.status = "TRIALING" /\ row.trialEnd < now
        \/ f = "PAST_DUE_BEYOND_GRACE" /\ row.status = "PAST_DUE" /\ row.end < now - Grace
        \/ f = "CANCELED_PAST_PERIOD" /\ row.status = "CANCELED" /\ row.end < now
    BY <2>1 DEF Findings
  <2> HIDE DEF row
  <2>4. DecideFor(row).allowed <=> f = "ACTIVE_PAST_PERIOD"
    <3>1. CASE row.status = "ACTIVE"
      BY <2>3, <3>1 DEF DecideFor, Allow
    <3>2. CASE row.status = "TRIALING"
      BY <2>2, <2>3, <3>2 DEF DecideFor, Deny
    <3>3. CASE row.status = "PAST_DUE"
      BY <2>2, <2>3, <3>3 DEF DecideFor, Deny
    <3>4. CASE row.status = "CANCELED"
      BY <2>2, <2>3, <3>4 DEF DecideFor, Deny, PaidPeriodLasts
    <3>5. QED
      BY <2>3, <3>1, <3>2, <3>3, <3>4
  <2>5. QED
    BY <2>4 DEF row
<1>2. QED
  BY <1>1, TypeCorrect, PTL

-----------------------------------------------------------------------------
(* Nothing outlives what a snapshot promised: no row, and no row a call    *)
(* has loaded and may save again.                                          *)
Within(row) == row.end <= promised /\ row.trialEnd <= promised

PromisesKept ==
    /\ \A s \in Subscriptions : Within(subscription[s])
    /\ \A c \in Calls : call[c].for # "none" => Within(call[c].saw)

LEMMA PromisedSave ==
    ASSUME TypeOK, PromisesKept, NEW c \in Calls, call[c].for # "none",
           NEW row \in Row, row.trialEnd <= promised \/ row.trialEnd <= row.end,
           Save(c, row)
    PROVE  PromisesKept'
<1>1. /\ subscription' = [subscription EXCEPT ![call[c].row] = row]
      /\ promised' = Later(promised, row.end)
      /\ call' = [call EXCEPT ![c] = Idle]
  BY DEF Save, Finish
<1>2. promised \in Nat /\ row.end \in Nat /\ row.trialEnd \in Nat
  BY RowFields DEF TypeOK
<1>3. promised' \in Nat /\ promised' >= promised /\ promised' >= row.end
  BY <1>1, <1>2, LaterType
<1>4. ASSUME NEW r \in Row, Within(r) PROVE r.end <= promised' /\ r.trialEnd <= promised'
  BY <1>2, <1>3, <1>4, RowFields DEF Within
<1>5. row.end <= promised' /\ row.trialEnd <= promised'
  BY <1>2, <1>3
<1>6. \A s \in Subscriptions : Within(subscription[s])'
  <2>1. SUFFICES ASSUME NEW s \in Subscriptions
                 PROVE  subscription'[s].end <= promised' /\ subscription'[s].trialEnd <= promised'
    BY DEF Within
  <2>2. CASE s = call[c].row
    BY <1>1, <1>5, <2>2 DEF TypeOK
  <2>3. CASE s # call[c].row
    <3>1. subscription'[s] = subscription[s] /\ subscription[s] \in Row
      BY <1>1, <2>3 DEF TypeOK
    <3>2. QED
      BY <1>4, <3>1 DEF PromisesKept
  <2>4. QED
    BY <2>2, <2>3
<1>7. \A d \in Calls : (call[d].for # "none" => Within(call[d].saw))'
  <2>1. SUFFICES ASSUME NEW d \in Calls, call'[d].for # "none"
                 PROVE  call'[d].saw.end <= promised' /\ call'[d].saw.trialEnd <= promised'
    BY DEF Within
  <2>2. call'[d] = call[d] /\ call[d].for # "none"
    BY <1>1, <2>1 DEF TypeOK, Idle
  <2>3. call[d].saw \in Row
    BY <2>2, CallTypes
  <2>4. QED
    BY <1>4, <2>2, <2>3 DEF PromisesKept
<1>8. QED
  BY <1>6, <1>7 DEF PromisesKept

LEMMA PromisedInit == Init => PromisesKept
<1>1. SUFFICES ASSUME Init PROVE PromisesKept
  OBVIOUS
<1>2. promised = 0 /\ \A s \in Subscriptions : subscription[s] = NoRow
  BY <1>1 DEF Init
<1>3. \A c \in Calls : call[c].for = "none"
  BY <1>1 DEF Init, Idle
<1>4. QED
  BY <1>2, <1>3 DEF PromisesKept, Within, NoRow

LEMMA PromisedStep == TypeOK /\ PromisesKept /\ [Next]_vars => PromisesKept'
<1>1. SUFFICES ASSUME TypeOK, PromisesKept, [Next]_vars PROVE PromisesKept'
  OBVIOUS
<1>2. ASSUME NEW c \in Calls, StartSubscription(c) PROVE PromisesKept'
  <2> DEFINE row == Snapshot(call[c].for, NoRow)
  <2>1. call[c].for \in {"start", "trial"} /\ row \in Row /\ Save(c, row)
    BY <1>1, <1>2, SavedRows
  <2>2. now \in Nat /\ TrialDays \in Nat /\ Period \in Nat
    BY <1>1, LengthTypes DEF TypeOK
  <2>3. row.trialEnd <= row.end
    BY <2>1, <2>2 DEF Snapshot, TrialEnd
  <2> HIDE DEF row
  <2>4. QED
    BY <1>1, <2>1, <2>3, PromisedSave
<1>3. ASSUME NEW c \in Calls, Apply(c) PROVE PromisesKept'
  <2> DEFINE row == Snapshot(call[c].for, call[c].saw)
  <2>1. /\ call[c].for \in {"renew", "fail", "cancel", "cancelNow"}
        /\ row \in Row /\ Save(c, row)
    BY <1>1, <1>3, SavedRows
  <2>2. call[c].saw \in Row /\ Within(call[c].saw)
    BY <1>1, <2>1, CallTypes DEF PromisesKept
  <2>3. row.trialEnd = call[c].saw.trialEnd
    BY <2>1, <2>2 DEF Snapshot, Row
  <2> HIDE DEF row
  <2>4. row.trialEnd <= promised
    BY <2>2, <2>3 DEF Within
  <2>5. QED
    BY <1>1, <2>1, <2>4, PromisedSave
<1>4. ASSUME NEW c \in Calls, Expire(c) PROVE PromisesKept'
  <2> DEFINE old == subscription[call[c].row]
             row == [old EXCEPT !.status = "EXPIRED"]
  <2>1. call[c].for = "expire" /\ row \in Row /\ Save(c, row)
    BY <1>1, <1>4, SavedRows
  <2>2. old \in Row /\ Within(old)
    BY <1>1, <2>1, CallTypes DEF TypeOK, PromisesKept
  <2>3. row.trialEnd = old.trialEnd
    BY <2>2 DEF Row
  <2> HIDE DEF row
  <2>4. QED
    BY <1>1, <2>1, <2>2, <2>3, PromisedSave DEF Within
<1>5. ASSUME NEW c \in Calls, NEW p \in {"start", "trial"}, LoadToStart(c, p)
      PROVE  PromisesKept'
  <2>1. PICK s \in Subscriptions :
          call' = [call EXCEPT ![c] = [for |-> p, row |-> s, saw |-> NoRow]]
    BY <1>5 DEF LoadToStart
  <2>2. 0 <= promised
    BY <1>1 DEF TypeOK
  <2>3. QED
    BY <1>1, <1>5, <2>1, <2>2 DEF LoadToStart, PromisesKept, Within, NoRow, TypeOK
<1>6. ASSUME NEW c \in Calls, NEW p \in DOMAIN Target, LoadLive(c, p)
      PROVE  PromisesKept'
  <2>1. PICK s \in Subscriptions :
          call' = [call EXCEPT ![c] = [for |-> p, row |-> s, saw |-> subscription[s]]]
    BY <1>6 DEF LoadLive
  <2>2. QED
    BY <1>1, <1>6, <2>1 DEF LoadLive, PromisesKept, Within, TypeOK
<1>7. ASSUME NEW c \in Calls, Refused(c) PROVE PromisesKept'
  BY <1>1, <1>7 DEF Refused, Finish, PromisesKept, Within, TypeOK, Idle
<1>8. ASSUME NEW d \in OverrideDays, GrantAccessOverride(d) PROVE PromisesKept'
  BY <1>1, <1>8 DEF GrantAccessOverride, PromisesKept, Within
<1>9. ASSUME Tomorrow PROVE PromisesKept'
  BY <1>1, <1>9 DEF Tomorrow, PromisesKept, Within
<1>10. CASE UNCHANGED vars
  BY <1>1, <1>10 DEF vars, PromisesKept, Within
<1>11. QED
  BY <1>1, <1>2, <1>3, <1>4, <1>5, <1>6, <1>7, <1>8, <1>9, <1>10 DEF Next

(* Without a grant, access past everything promised, grace included, is    *)
(* that of an ACTIVE row the nightly report names (_decide_for,            *)
(* reconciliation_findings).                                               *)
THEOREM LeaksAreReported == Spec => []LeakIsReported
<1>1. TypeOK /\ PromisesKept => LeakIsReported
  <2>1. SUFFICES ASSUME TypeOK, PromisesKept, Allowed, override <= now,
                        now > promised + Grace
                 PROVE  \E s \in Subscriptions :
                          "ACTIVE_PAST_PERIOD" \in Findings(subscription[s])
    BY DEF LeakIsReported
  <2>2. now \in Nat /\ promised \in Nat /\ Grace \in Nat /\ override \in Nat
    BY <2>1, LengthTypes DEF TypeOK
  <2>3. ~(override > now)
    BY <2>1, <2>2
  <2>4. PICK s \in Subscriptions : DecideFor(subscription[s]).allowed
    <3>1. \E d \in Decisions : d.allowed
      BY <2>1, <2>3 DEF Allowed, AccountAccess, Deny
    <3>2. QED
      BY <3>1 DEF Decisions
  <2> DEFINE row == subscription[s]
  <2>5. row.end \in Nat /\ row.trialEnd \in Nat /\ row.end <= promised /\ row.trialEnd <= promised
    BY <2>1, RowFields DEF TypeOK, PromisesKept, Within
  <2>6. row.status = "ACTIVE"
    BY <2>1, <2>2, <2>4, <2>5 DEF DecideFor, Allow, Deny, PaidPeriodLasts
  <2>7. row.end < now
    BY <2>1, <2>2, <2>5
  <2> HIDE DEF row
  <2>8. "ACTIVE_PAST_PERIOD" \in Findings(row)
    BY <2>6, <2>7 DEF Findings
  <2>9. QED
    BY <2>8 DEF row
<1>2. QED
  BY <1>1, TypeInit, TypeStep, PromisedInit, PromisedStep, PTL DEF Spec

-----------------------------------------------------------------------------
(* What is paid for is on the row: while no stale row was saved, a paid    *)
(* row is in a status that serves, up to at least the day that was paid,   *)
(* which lies within one period from now.  A trial saves a new row.        *)
Covered(s) ==
    /\ subscription[s].status \in {"ACTIVE", "PAST_DUE", "CANCELED"}
    /\ paid[s] <= subscription[s].end

PaidIsCovered ==
    /\ \A c \in Calls : call[c].for = "trial" => call[c].saw = NoRow
    /\ \A s \in Subscriptions : paid[s] <= now + Period
    /\ ~stale => \A s \in Subscriptions : now < paid[s] => Covered(s)

(* A saved row covers what was paid, whether the call pays for it, keeps   *)
(* the period of a row that had not moved, or ends it.                     *)
LEMMA PaidSave ==
    ASSUME TypeOK, PaidIsCovered, NEW c \in Calls, call[c].for # "none",
           NEW row \in Row, Save(c, row),
           call[c].for \in {"start", "renew"} =>
               row.status = "ACTIVE" /\ row.end = now + Period,
           \/ call[c].for \in {"start", "renew"}
           \/ row.status = "EXPIRED"
           \/ call[c].for = "trial" /\ call[c].saw = NoRow
           \/ /\ row.status \in {"PAST_DUE", "CANCELED"}
              /\ row.end = now + Period \/ row.end = call[c].saw.end
    PROVE  PaidIsCovered'
<1> DEFINE s == call[c].row
<1>1. /\ subscription' = [subscription EXCEPT ![s] = row]
      /\ stale' = (stale \/ subscription[s] # call[c].saw)
      /\ now' = now
  BY DEF Save
<1>2. paid' = [paid EXCEPT ![s] = IF call[c].for \in {"start", "renew"} THEN row.end
                                 ELSE IF row.status = "EXPIRED" THEN 0 ELSE @]
  BY DEF Save
<1>3. s \in Subscriptions
  BY CallTypes
<1> HIDE DEF s
<1>4. /\ now \in Nat /\ Period \in Nat /\ row.end \in Nat /\ now + Period \in Nat
      /\ paid[s] \in Nat
  BY <1>3, LengthTypes, RowFields DEF TypeOK
<1>5. /\ subscription'[s] = row
      /\ paid'[s] = IF call[c].for \in {"start", "renew"} THEN row.end
                     ELSE IF row.status = "EXPIRED" THEN 0 ELSE paid[s]
      /\ \A x \in Subscriptions \ {s} :
           subscription'[x] = subscription[x] /\ paid'[x] = paid[x]
  BY <1>1, <1>2, <1>3 DEF TypeOK
<1>6. paid[s] <= now + Period
  BY <1>3 DEF PaidIsCovered
<1>7. paid'[s] <= now + Period
  BY <1>4, <1>5, <1>6
<1>8. ASSUME ~stale', now < paid'[s]
      PROVE  row.status \in {"ACTIVE", "PAST_DUE", "CANCELED"} /\ paid'[s] <= row.end
  <2>1. ~stale /\ subscription[s] = call[c].saw
    BY <1>1, <1>8
  <2>2. CASE call[c].for \in {"start", "renew"}
    BY <1>4, <1>5, <2>2
  <2>3. CASE call[c].for \notin {"start", "renew"} /\ row.status = "EXPIRED"
    BY <1>4, <1>5, <1>8, <2>3
  <2>4. CASE call[c].for \notin {"start", "renew"} /\ row.status # "EXPIRED"
    <3>1. paid'[s] = paid[s]
      BY <1>5, <2>4
    <3>2. Covered(s)
      BY <1>3, <1>8, <2>1, <3>1 DEF PaidIsCovered
    <3>3. call[c].saw # NoRow
      BY <2>1, <3>2 DEF Covered, NoRow
    <3>4. /\ row.status \in {"PAST_DUE", "CANCELED"}
          /\ row.end = now + Period \/ row.end = subscription[s].end
      BY <2>1, <2>4, <3>3
    <3>5. QED
      BY <1>6, <3>1, <3>2, <3>4 DEF Covered
  <2>5. QED
    BY <2>2, <2>3, <2>4
<1>9. \A x \in Subscriptions : paid'[x] <= now' + Period
  BY <1>1, <1>5, <1>7 DEF PaidIsCovered
<1>10. ~stale' => \A x \in Subscriptions : now' < paid'[x] => Covered(x)'
  <2>1. SUFFICES ASSUME ~stale', NEW x \in Subscriptions, now < paid'[x]
                 PROVE  Covered(x)'
    BY <1>1
  <2>2. CASE x = s
    BY <1>5, <1>8, <2>1, <2>2 DEF Covered
  <2>3. CASE x # s
    BY <1>1, <1>5, <2>1, <2>3 DEF Covered, PaidIsCovered
  <2>4. QED
    BY <2>2, <2>3
<1>11. \A d \in Calls : call'[d].for = "trial" => call'[d].saw = NoRow
  BY DEF Save, Finish, Idle, TypeOK, PaidIsCovered
<1>12. QED
  BY <1>9, <1>10, <1>11 DEF PaidIsCovered

LEMMA PaidInit == Init => PaidIsCovered
<1>1. SUFFICES ASSUME Init PROVE PaidIsCovered
  OBVIOUS
<1>2. now = 0 /\ \A s \in Subscriptions : paid[s] = 0
  BY <1>1 DEF Init
<1>3. \A c \in Calls : call[c].for = "none"
  BY <1>1 DEF Init, Idle
<1>4. QED
  BY <1>2, <1>3, LengthTypes DEF PaidIsCovered

LEMMA PaidStep == TypeOK /\ PaidIsCovered /\ [Next]_vars => PaidIsCovered'
<1>1. SUFFICES ASSUME TypeOK, PaidIsCovered, [Next]_vars PROVE PaidIsCovered'
  OBVIOUS
<1>2. now \in Nat /\ NoRow \in Row
  BY <1>1, LengthTypes DEF TypeOK, NoRow, Row
<1>3. ASSUME NEW c \in Calls, StartSubscription(c) PROVE PaidIsCovered'
  <2> DEFINE row == Snapshot(call[c].for, NoRow)
  <2>1. call[c].for \in {"start", "trial"} /\ row \in Row /\ Save(c, row)
    BY <1>1, <1>3, SavedRows
  <2>2. call[c].for = "start" => row.status = "ACTIVE" /\ row.end = now + Period
    BY DEF Snapshot
  <2>3. call[c].for = "trial" => call[c].saw = NoRow
    BY <1>1 DEF PaidIsCovered
  <2> HIDE DEF row
  <2>4. QED
    BY <1>1, <2>1, <2>2, <2>3, PaidSave
<1>4. ASSUME NEW c \in Calls, Apply(c) PROVE PaidIsCovered'
  <2> DEFINE row == Snapshot(call[c].for, call[c].saw)
  <2>1. /\ call[c].for \in {"renew", "fail", "cancel", "cancelNow"}
        /\ row \in Row /\ Save(c, row)
    BY <1>1, <1>4, SavedRows
  <2>2. call[c].saw \in Row
    BY <1>1, <2>1, CallTypes
  <2>3. /\ call[c].for = "renew" => row.status = "ACTIVE" /\ row.end = now + Period
        /\ call[c].for = "fail" => row.status = "PAST_DUE" /\ row.end = call[c].saw.end
        /\ call[c].for = "cancel" => row.status = "CANCELED" /\ row.end = now + Period
        /\ call[c].for = "cancelNow" => row.status = "EXPIRED"
    BY <2>1, <2>2 DEF Snapshot, PeriodKept, Row
  <2> HIDE DEF row
  <2>4. QED
    BY <1>1, <2>1, <2>3, PaidSave
<1>5. ASSUME NEW c \in Calls, Expire(c) PROVE PaidIsCovered'
  <2> DEFINE old == subscription[call[c].row]
             row == [old EXCEPT !.status = "EXPIRED"]
  <2>1. call[c].for = "expire" /\ row \in Row /\ Save(c, row)
    BY <1>1, <1>5, SavedRows
  <2>2. old \in Row
    BY <1>1, <2>1, CallTypes DEF TypeOK
  <2>3. row.status = "EXPIRED"
    BY <2>2 DEF Row
  <2> HIDE DEF row, old
  <2>4. QED
    BY <1>1, <2>1, <2>3, PaidSave
<1>6. ASSUME NEW c \in Calls,
             \/ \E p \in {"start", "trial"} : LoadToStart(c, p)
             \/ \E p \in DOMAIN Target : LoadLive(c, p)
             \/ Refused(c)
      PROVE  PaidIsCovered'
  <2>1. UNCHANGED <<now, subscription, paid, stale>>
    BY <1>6 DEF LoadToStart, LoadLive, Refused
  <2>2. \A d \in Calls : call'[d].for = "trial" => call'[d].saw = NoRow
    <3>1. ASSUME NEW p \in {"start", "trial"}, LoadToStart(c, p)
          PROVE  \A d \in Calls : call'[d].for = "trial" => call'[d].saw = NoRow
      BY <1>1, <3>1 DEF LoadToStart, TypeOK, PaidIsCovered
    <3>2. ASSUME NEW p \in DOMAIN Target, LoadLive(c, p)
          PROVE  \A d \in Calls : call'[d].for = "trial" => call'[d].saw = NoRow
      <4>1. p # "trial"
        BY DEF Target
      <4>2. QED
        BY <1>1, <3>2, <4>1 DEF LoadLive, TypeOK, PaidIsCovered
    <3>3. ASSUME Refused(c)
          PROVE  \A d \in Calls : call'[d].for = "trial" => call'[d].saw = NoRow
      BY <1>1, <3>3 DEF Refused, Finish, Idle, TypeOK, PaidIsCovered
    <3>4. QED
      BY <1>6, <3>1, <3>2, <3>3
  <2>3. QED
    BY <1>1, <2>1, <2>2 DEF PaidIsCovered, Covered
<1>7. ASSUME NEW d \in OverrideDays, GrantAccessOverride(d) PROVE PaidIsCovered'
  BY <1>1, <1>7 DEF GrantAccessOverride, PaidIsCovered, Covered
<1>8. ASSUME Tomorrow PROVE PaidIsCovered'
  <2>1. /\ now' = now + 1 /\ UNCHANGED <<subscription, stale>>
        /\ \A s \in Subscriptions :
             paid'[s] = IF paid[s] > now' THEN paid[s] ELSE 0
    BY <1>8 DEF Tomorrow
  <2>2. \A s \in Subscriptions : paid[s] \in Nat /\ paid[s] <= now + Period
    BY <1>1 DEF TypeOK, PaidIsCovered
  <2>3. \A s \in Subscriptions : paid'[s] <= now' + Period
    BY <1>2, <2>1, <2>2, LengthTypes
  <2>4. ASSUME ~stale', NEW s \in Subscriptions, now' < paid'[s] PROVE Covered(s)'
    <3>1. paid'[s] = paid[s] /\ now < paid[s]
      BY <1>2, <2>1, <2>2, <2>4
    <3>2. QED
      BY <1>1, <2>1, <2>4, <3>1 DEF PaidIsCovered, Covered
  <2>5. call' = call
    BY <1>8 DEF Tomorrow
  <2>6. QED
    BY <1>1, <2>3, <2>4, <2>5 DEF PaidIsCovered
<1>9. CASE UNCHANGED vars
  BY <1>1, <1>9 DEF vars, PaidIsCovered, Covered
<1>10. QED
  BY <1>1, <1>3, <1>4, <1>5, <1>6, <1>7, <1>8, <1>9 DEF Next

(* A period that was paid for is served to its end, through failed charges *)
(* and cancellations, while no call saves a row that moved since its load  *)
(* (FakeBillingProvider.fail_payment, _decide_for).                        *)
THEOREM PaidPeriodsAreServed == Spec => []PaidIsServed
<1>1. TypeOK /\ PaidIsCovered => PaidIsServed
  <2>1. SUFFICES ASSUME TypeOK, PaidIsCovered, ~stale,
                        NEW s \in Subscriptions, now < paid[s]
                 PROVE  Allowed
    BY DEF PaidIsServed
  <2> DEFINE row == subscription[s]
  <2>2. /\ row.status \in {"ACTIVE", "PAST_DUE", "CANCELED"} /\ paid[s] <= row.end
    BY <2>1 DEF PaidIsCovered, Covered
  <2>3. now \in Nat /\ Grace \in Nat /\ row.end \in Nat /\ paid[s] \in Nat
    BY <2>1, LengthTypes, RowFields DEF TypeOK
  <2>4. now < row.end /\ now < row.end + Grace
    BY <2>1, <2>2, <2>3
  <2> HIDE DEF row
  <2>5. DecideFor(row).allowed
    BY <2>2, <2>4 DEF DecideFor, Allow, PaidPeriodLasts
  <2>6. DecideFor(row) \in Decisions
    BY <2>2 DEF Decisions, row
  <2>7. QED
    BY <2>5, <2>6 DEF Allowed, AccountAccess, Allow
<1>2. QED
  BY <1>1, TypeInit, TypeStep, PaidInit, PaidStep, PTL DEF Spec

-----------------------------------------------------------------------------
(* The check a service makes when it loads may be old when it saves; the   *)
(* unique index is asked again.                                            *)
AtMostOneLive == \A s, t \in Subscriptions : Live(s) /\ Live(t) => s = t

LEMMA LiveSave ==
    ASSUME TypeOK, AtMostOneLive, NEW c \in Calls, NEW row \in Row,
           call[c].row \in Subscriptions, Save(c, row)
    PROVE  AtMostOneLive'
<1>1. \A s \in Subscriptions :
          subscription'[s] = IF s = call[c].row THEN row ELSE subscription[s]
  BY DEF Save, TypeOK
<1>2. row.status \in LIVE_STATUSES => \A s \in Subscriptions : Live(s) => s = call[c].row
  BY DEF Save, OneLivePerUser
<1>3. QED
  BY <1>1, <1>2 DEF AtMostOneLive, Live

LEMMA LiveStep == TypeOK /\ AtMostOneLive /\ [Next]_vars => AtMostOneLive'
<1>1. SUFFICES ASSUME TypeOK, AtMostOneLive, [Next]_vars PROVE AtMostOneLive'
  OBVIOUS
<1>2. ASSUME NEW c \in Calls, StartSubscription(c) \/ Apply(c) \/ Expire(c)
      PROVE  AtMostOneLive'
  <2>1. PICK row \in Row : Save(c, row)
    BY <1>1, <1>2, SavedRows
  <2>2. call[c].row \in Subscriptions
    BY <1>1, <1>2, SavedRows, CallTypes
  <2>3. QED
    BY <1>1, <2>1, <2>2, LiveSave
<1>3. CASE UNCHANGED subscription
  BY <1>1, <1>3 DEF AtMostOneLive, Live
<1>4. QED
  BY <1>1, <1>2, <1>3
     DEF Next, vars, LoadToStart, LoadLive, Refused, GrantAccessOverride, Tomorrow

(* one_live_subscription_per_user, and the checks before it, for any       *)
(* number of rows and of calls that loaded theirs long ago.                *)
THEOREM OneIsLive == Spec => []OneLiveSubscription
<1>1. Init => AtMostOneLive
  BY DEF Init, AtMostOneLive, Live, LIVE_STATUSES, NoRow
<1>2. AtMostOneLive => OneLiveSubscription
  <2>1. SUFFICES ASSUME AtMostOneLive PROVE OneLiveSubscription
    OBVIOUS
  <2>2. CASE {s \in Subscriptions : Live(s)} = {}
    BY <2>2, FS_EmptySet DEF OneLiveSubscription
  <2>3. ASSUME NEW s \in Subscriptions, Live(s) PROVE OneLiveSubscription
    <3>1. {t \in Subscriptions : Live(t)} = {s}
      BY <2>1, <2>3 DEF AtMostOneLive
    <3>2. QED
      BY <3>1, FS_Singleton DEF OneLiveSubscription
  <2>4. QED
    BY <2>2, <2>3
<1>3. QED
  BY <1>1, <1>2, LiveStep, TypeCorrect, PTL DEF Spec
=============================================================================
