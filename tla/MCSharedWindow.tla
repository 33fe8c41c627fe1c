--------------------------- MODULE MCSharedWindow ---------------------------
EXTENDS SharedWindow, TLC
Symmetry == Permutations(Thread)
=============================================================================
