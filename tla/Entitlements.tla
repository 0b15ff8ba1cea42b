---------------------------- MODULE Entitlements ------------------------------
(***************************************************************************)
(* One user's subscriptions and manual grants, the resolver that decides   *)
(* access from them, and the report of rows that have drifted:             *)
(* apps/entitlements services.py, resolver.py and selectors.py, driven     *)
(* through the fake billing provider.                                      *)
(*                                                                         *)
(* A caller loads the live subscription and a service checks and saves     *)
(* that instance later without a lock: two steps.  Time passes in days.    *)
(*                                                                         *)
(* Abstracted: a subscription is its status and the days that bound it;    *)
(* the flag that cancellation was asked for and the events beside each     *)
(* write are left out.  Of the overrides only the latest end matters.      *)
(***************************************************************************)
EXTENDS Integers, FiniteSets

CONSTANTS
    Subscriptions,  \* rows that may come to exist
    Calls,          \* service calls that may run at once
    Period,         \* what the provider bills for
    TrialDays,
    Grace,          \* ENTITLEMENT_GRACE_PERIOD_DAYS
    OverrideDays,   \* lengths an administrator grants
    LastDay         \* bound on the days that pass

ASSUME EntitlementsAssumption ==
    /\ Period \in Nat \ {0} /\ TrialDays \in Nat \ {0}
    /\ Grace \in Nat /\ LastDay \in Nat
    /\ OverrideDays \subseteq Nat \ {0}

VARIABLES
    now,
    subscription,  \* the Subscription rows, status "NONE" before the insert
    override,      \* the day the AccessOverrides that cover now end, 0 without
    call,          \* what each call is for and the row it loaded
    paid,          \* history: the day a row is paid for up to, 0 once past
    promised,      \* history: the last day any snapshot reaches to
    stale          \* history: a row was saved that had moved since its load

vars == <<now, subscription, override, call, paid, promised, stale>>

LIVE_STATUSES == {"TRIALING", "ACTIVE", "PAST_DUE"}
Statuses == LIVE_STATUSES \cup {"CANCELED", "EXPIRED"}

(* trialEnd is 0 for a null. *)
Row == {r \in [status: Statuses \cup {"NONE"}, end: Nat, trialEnd: Nat] :
          r.status = "TRIALING" => r.trialEnd # 0}
NoRow == [status |-> "NONE", end |-> 0, trialEnd |-> 0]

ALLOWED_TRANSITIONS ==
    (LIVE_STATUSES \X {"ACTIVE", "PAST_DUE", "CANCELED", "EXPIRED"}
       \ {<<"PAST_DUE", "PAST_DUE">>})
    \cup {<<"CANCELED", "EXPIRED">>}

(* Where each service takes the row it is given. *)
Target == [renew |-> "ACTIVE", fail |-> "PAST_DUE", cancel |-> "CANCELED",
           cancelNow |-> "EXPIRED", expire |-> "EXPIRED"]
Purposes == DOMAIN Target \cup {"start", "trial"}

Idle == [for |-> "none"]

TypeOK ==
    /\ now \in 0..LastDay
    /\ subscription \in [Subscriptions -> Row]
    /\ override \in Nat
    /\ call \in [Calls -> {Idle} \cup [for: Purposes, row: Subscriptions, saw: Row]]
    /\ paid \in [Subscriptions -> Nat] /\ promised \in Nat
    /\ stale \in BOOLEAN

Init ==
    /\ now = 0
    /\ subscription = [s \in Subscriptions |-> NoRow]
    /\ override = 0
    /\ call = [c \in Calls |-> Idle]
    /\ paid = [s \in Subscriptions |-> 0] /\ promised = 0
    /\ stale = FALSE

Live(s) == subscription[s].status \in LIVE_STATUSES
Later(m, n) == IF m >= n THEN m ELSE n

-----------------------------------------------------------------------------
(* Reading: the resolver. *)

Allow(reason) == [allowed |-> TRUE, reason |-> reason]
Deny(reason) == [allowed |-> FALSE, reason |-> reason]

PaidPeriodIgnored(row) == TRUE
PaidPeriodLasts(row) == now < row.end

(* _decide_for: one subscription's answer. *)
DecideFor(row) ==
    CASE row.status = "ACTIVE" -> Allow("SUBSCRIPTION_ACTIVE")
      [] row.status = "TRIALING" ->
           IF now >= row.trialEnd THEN Deny("TRIAL_EXPIRED") ELSE Allow("TRIAL")
      [] row.status = "PAST_DUE" ->
           IF now < row.end + Grace THEN Allow("GRACE_PERIOD")
                                    ELSE Deny("GRACE_PERIOD_ENDED")
      [] row.status = "CANCELED" ->
           IF PaidPeriodLasts(row) THEN Allow("CANCELED_BUT_PAID")
                                   ELSE Deny("SUBSCRIPTION_EXPIRED")
      [] OTHER -> Deny("SUBSCRIPTION_EXPIRED")

DENIAL_RANK == [NO_SUBSCRIPTION |-> 0, TRIAL_SCOPE |-> 1, TRIAL_EXPIRED |-> 2,
                SUBSCRIPTION_EXPIRED |-> 3, GRACE_PERIOD_ENDED |-> 4]

Decisions == {DecideFor(subscription[s]) :
                s \in {x \in Subscriptions : subscription[x].status # "NONE"}}

(* resolve_account_access for a signed-in learner; of several grants the   *)
(* first row's reason, whichever row that is.                              *)
AccountAccess ==
    IF override > now THEN {Allow("OVERRIDE")}
    ELSE IF \E d \in Decisions : d.allowed THEN {d \in Decisions : d.allowed}
    ELSE IF Decisions = {} THEN {Deny("NO_SUBSCRIPTION")}
    ELSE {d \in Decisions : \A e \in Decisions :
            DENIAL_RANK[d.reason] >= DENIAL_RANK[e.reason]}

Allowed == \E d \in AccountAccess : d.allowed

(* The categories of reconciliation_findings a row falls into. *)
FindingsWithinGrace(row) ==
    {f \in {"PAST_DUE_BEYOND_GRACE"} : row.status = "PAST_DUE" /\ row.end < now + Grace}
Findings(row) ==
    {f \in {"ACTIVE_PAST_PERIOD", "TRIALING_PAST_END", "PAST_DUE_BEYOND_GRACE",
            "CANCELED_PAST_PERIOD"} :
       CASE f = "ACTIVE_PAST_PERIOD" -> row.status = "ACTIVE" /\ row.end < now
         [] f = "TRIALING_PAST_END" -> row.status = "TRIALING" /\ row.trialEnd < now
         [] f = "PAST_DUE_BEYOND_GRACE" ->
              row.status = "PAST_DUE" /\ row.end < now - Grace
         [] f = "CANCELED_PAST_PERIOD" -> row.status = "CANCELED" /\ row.end < now}

-----------------------------------------------------------------------------
(* Writing: the services. *)

(* start_subscription's check, or live_subscription's read. *)
LoadToStart(c, purpose) ==
    /\ call[c] = Idle
    /\ ~\E s \in Subscriptions : Live(s)
    /\ \E s \in Subscriptions :
         /\ subscription[s].status = "NONE"
         /\ \A d \in Calls : call[d] # Idle => call[d].row # s
         /\ call' = [call EXCEPT ![c] = [for |-> purpose, row |-> s, saw |-> NoRow]]
    /\ UNCHANGED <<now, subscription, override, paid, promised, stale>>

LoadLive(c, purpose) ==
    /\ call[c] = Idle
    /\ \E s \in Subscriptions :
         /\ Live(s)
         /\ call' = [call EXCEPT ![c] =
              [for |-> purpose, row |-> s, saw |-> subscription[s]]]
    /\ UNCHANGED <<now, subscription, override, paid, promised, stale>>

(* one_live_subscription_per_user, which an insert or an update may break. *)
Unconstrained(s, row) == TRUE
OneLivePerUser(s, row) ==
    row.status \in LIVE_STATUSES => ~\E x \in Subscriptions \ {s} : Live(x)

(* What the provider answers, as the row it is saved into. *)
PeriodCutShort(saw) == now
PeriodKept(saw) == saw.end

TrialEnd == now + TrialDays

Snapshot(purpose, saw) ==
    CASE purpose = "start" ->
           [status |-> "ACTIVE", end |-> now + Period, trialEnd |-> 0]
      [] purpose = "trial" ->
           [status |-> "TRIALING", end |-> now + TrialDays, trialEnd |-> TrialEnd]
      [] purpose = "renew" -> [saw EXCEPT !.status = "ACTIVE", !.end = now + Period]
      [] purpose = "fail" -> [saw EXCEPT !.status = "PAST_DUE", !.end = PeriodKept(saw)]
      [] purpose = "cancel" -> [saw EXCEPT !.status = "CANCELED", !.end = now + Period]
      [] purpose = "cancelNow" -> [saw EXCEPT !.status = "EXPIRED", !.end = now]

Finish(c) == call' = [call EXCEPT ![c] = Idle]

(* The row is written; what the histories make of it. *)
Save(c, row) ==
    LET s == call[c].row
    IN  /\ OneLivePerUser(s, row)
        /\ subscription' = [subscription EXCEPT ![s] = row]
        /\ promised' = Later(promised, row.end)
        /\ paid' = [paid EXCEPT ![s] =
             IF call[c].for \in {"start", "renew"} THEN row.end
             ELSE IF row.status = "EXPIRED" THEN 0 ELSE @]
        /\ stale' = (stale \/ subscription[s] # call[c].saw)
        /\ Finish(c)
        /\ UNCHANGED <<now, override>>

StartSubscription(c) ==
    /\ call[c].for \in {"start", "trial"}
    /\ Save(c, Snapshot(call[c].for, NoRow))

(* _apply, on behalf of renew, fail_payment and cancel. *)
Apply(c) ==
    /\ call[c].for \in DOMAIN Target \ {"expire"}
    /\ <<call[c].saw.status, Target[call[c].for]>> \in ALLOWED_TRANSITIONS
    /\ Save(c, Snapshot(call[c].for, call[c].saw))

(* expire saves the status and nothing else. *)
Expire(c) ==
    /\ call[c].for = "expire"
    /\ <<call[c].saw.status, "EXPIRED">> \in ALLOWED_TRANSITIONS
    /\ Save(c, [subscription[call[c].row] EXCEPT !.status = "EXPIRED"])

(* The table or the constraint refuses, and nothing is written. *)
Refused(c) ==
    /\ call[c] # Idle
    /\ \/ /\ call[c].for \in DOMAIN Target
          /\ <<call[c].saw.status, Target[call[c].for]>> \notin ALLOWED_TRANSITIONS
       \/ /\ call[c].for \notin {"cancel", "cancelNow", "expire"}
          /\ ~OneLivePerUser(call[c].row, Snapshot(call[c].for, call[c].saw))
    /\ Finish(c)
    /\ UNCHANGED <<now, subscription, override, paid, promised, stale>>

GrantAccessOverride(days) ==
    /\ override' = Later(override, now + days)
    /\ UNCHANGED <<now, subscription, call, paid, promised, stale>>

Tomorrow ==
    /\ now < LastDay
    /\ now' = now + 1
    /\ override' = IF override > now' THEN override ELSE 0
    /\ paid' = [s \in Subscriptions |-> IF paid[s] > now' THEN paid[s] ELSE 0]
    /\ UNCHANGED <<subscription, call, promised, stale>>

Next ==
    \/ \E c \in Calls :
         \/ \E p \in {"start", "trial"} : LoadToStart(c, p)
         \/ \E p \in DOMAIN Target : LoadLive(c, p)
         \/ StartSubscription(c) \/ Apply(c) \/ Expire(c) \/ Refused(c)
    \/ \E d \in OverrideDays : GrantAccessOverride(d)
    \/ Tomorrow

Spec == Init /\ [][Next]_vars

-----------------------------------------------------------------------------
(* A user never has two live subscriptions, however starts and moves of    *)
(* stale rows interleave (one_live_subscription_per_user).                 *)
OneLiveSubscription == Cardinality({s \in Subscriptions : Live(s)}) <= 1

(* Without a manual grant, whoever is served past the last day any         *)
(* snapshot promised, grace included, is named by the nightly report       *)
(* (_decide_for's ACTIVE branch, reconciliation_findings).                 *)
LeakIsReported ==
    Allowed /\ override <= now /\ now > promised + Grace =>
        \E s \in Subscriptions : "ACTIVE_PAST_PERIOD" \in Findings(subscription[s])

(* A period that was paid for is served to its end, through failed charges *)
(* and cancellations, unless a call saved a row that had moved since       *)
(* (FakeBillingProvider.fail_payment, _decide_for).                        *)
PaidIsServed ==
    ~stale => \A s \in Subscriptions : now < paid[s] => Allowed

(* What the report says of a row is what the resolver decides: the three   *)
(* housekeeping categories are refused, the other one grants.              *)
ReportAgreesWithResolver ==
    \A s \in Subscriptions : \A f \in Findings(subscription[s]) :
        DecideFor(subscription[s]).allowed <=> f = "ACTIVE_PAST_PERIOD"

-----------------------------------------------------------------------------
(* Statements of the repository that the code does not keep. *)

(* "The ordinary path keeps access to the end of the paid period."         *)
CancelKeepsThePeriod ==
    [][\A s \in Subscriptions :
         /\ subscription[s].status # "CANCELED"
         /\ subscription'[s].status = "CANCELED"
         => subscription'[s].end = subscription[s].end]_vars

(* "Absent means impossible, whoever asks."                                *)
ExpiredIsFinal ==
    [][\A s \in Subscriptions : subscription[s].status = "EXPIRED"
         => subscription'[s].status = "EXPIRED"]_vars
=============================================================================
