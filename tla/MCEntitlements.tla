---------------------------- MODULE MCEntitlements ----------------------------
EXTENDS Entitlements, TLC
CONSTANTS s1, s2, c1, c2
EntitlementsSymmetry == Permutations({s1, s2}) \cup Permutations({c1, c2})
=============================================================================
