SPECIFICATION FairSpec
CONSTANTS
    Keys = {k1, k2}
    Copies = {c1}
    Requests = {r1}
    Jobs = {j1}
    MaxRetries = 1
    MaxCrashes = 1
    MaxLost = 1
    NoKey = NoKey
    NoCopy = NoCopy
INVARIANT
    NoStrandedUpload
PROPERTIES
    SettledEventsAreInert
    EverythingSettles
CHECK_DEADLOCK FALSE
