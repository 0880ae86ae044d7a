------------------------------- MODULE MCVideo -------------------------------
EXTENDS VideoService, TLC
Symmetry == Permutations(Course)
=============================================================================
