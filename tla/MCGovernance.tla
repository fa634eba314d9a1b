---------------------------- MODULE MCGovernance ----------------------------
EXTENDS Governance, TLC
Symmetry == Permutations(Admins) \cup Permutations(Loggers)
=============================================================================
