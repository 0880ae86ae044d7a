-------------------------------- MODULE MCList --------------------------------
EXTENDS CourseListPage, TLC
Symmetry == Permutations(Request)
=============================================================================
