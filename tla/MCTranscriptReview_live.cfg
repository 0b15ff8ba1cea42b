SPECIFICATION FairSpec
CONSTANTS
    Jobs = {j1, j2}
    Tasks = {t1}
    Reviewers = {r1}
    Learners = {}
    MaxRetries = 1
    MaxCrashes = 1
    MaxRows = 2
    MaxTouches = 1
    NoJob = NoJob
    NoCue = NoCue

    
PROPERTIES
    SettledCallbacksAreInert
    
CHECK_DEADLOCK FALSE
