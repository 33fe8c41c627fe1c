------------------------------- MODULE MCScan -------------------------------
EXTENDS Scan, TLC
Symmetry == Permutations(Thread)
=============================================================================
