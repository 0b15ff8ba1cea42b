SPECIFICATION Spec
CONSTANTS
    Words = {w1, w2}
    Requests = {r1, r2}
SYMMETRY Symmetry
INVARIANTS
    PublishedWasApproved
    
    SearchFindsTheWords
