---------------------------- MODULE MCScanEngine ----------------------------
EXTENDS ScanEngine, TLC
Symmetry == Permutations(Root)
=============================================================================
