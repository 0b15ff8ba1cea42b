SPECIFICATION Spec
CONSTANTS
    s1 = s1
    s2 = s2
    c1 = c1
    c2 = c2
    Subscriptions = {s1, s2}
    Calls = {c1, c2}
    Period = 2
    TrialDays = 1
    Grace = 1
    OverrideDays = {1}
    LastDay = 4
SYMMETRY EntitlementsSymmetry
INVARIANTS OneLiveSubscription LeakIsReported PaidIsServed ReportAgreesWithResolver
CHECK_DEADLOCK FALSE
