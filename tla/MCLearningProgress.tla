-------------------------- MODULE MCLearningProgress --------------------------
EXTENDS LearningProgress, TLC
CONSTANTS a, b, c, t1, t2
TabSymmetry == Permutations({t1, t2})
=============================================================================
