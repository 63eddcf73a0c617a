----------------------------- MODULE MCBkMalloc -----------------------------
EXTENDS BkProps, TLC
Symmetry == Permutations(Blocks) \cup Permutations(Threads)
=============================================================================
