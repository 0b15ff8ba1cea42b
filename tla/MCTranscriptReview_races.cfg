SPECIFICATION Spec
CONSTANTS
    Jobs = {j1, j2}
    Tasks = {t1, t2}
    Reviewers = {r1, r2}
    Learners = {l1}
    MaxRetries = 0
    MaxCrashes = 0
    MaxRows = 2
    MaxTouches = 3
    NoJob = NoJob
    NoCue = NoCue
SYMMETRY Symmetry
INVARIANTS
    
    ApprovalCoversTheWords
    CachedWordsAreCurrent
CHECK_DEADLOCK FALSE
