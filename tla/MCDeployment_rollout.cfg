SPECIFICATION RolloutSpec
CONSTANTS
    Deploys = {d1, d2, d3}
    Newest = 2
    NonAtomic = {2}
    Nobody = Nobody
INVARIANTS
    LockIsExclusive
    SuccessIsEarned
PROPERTY
    EveryDeployEnds
CHECK_DEADLOCK FALSE
