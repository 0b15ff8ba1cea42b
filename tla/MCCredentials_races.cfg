CONSTANTS
    Calls = {c1, c2}
    Browsers = {b1}
    VerifyTokens = {v1}
    ResetTokens = {r1, r2}
    VerifyLifetime = 2
    ResetLifetime = 1
    LastHour = 1
    MaxPasswords = 3
    None = None
SPECIFICATION Spec
SYMMETRY Symmetry
CHECK_DEADLOCK FALSE
INVARIANTS SessionsEndWithReset OnlyResetsDeadlock 
PROPERTIES LinksAreSpentOnce ConfirmedStays
