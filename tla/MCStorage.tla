----------------------------- MODULE MCStorage -----------------------------
EXTENDS Storage, TLC
Symmetry == Permutations(Conn)
=============================================================================
