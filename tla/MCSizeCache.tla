---------------------------- MODULE MCSizeCache -----------------------------
EXTENDS SizeCache, TLC
Symmetry == Permutations(Path) \cup Permutations(Thread)
=============================================================================
