CONSTANTS
    Calls = {c1, c2, c3, c4}
    Lifetime = 2
    LastDay = 5
SPECIFICATION Spec
SYMMETRY CallSymmetry
INVARIANTS  TrailExplainsAdmission
PROPERTY AdmissionIsKept
