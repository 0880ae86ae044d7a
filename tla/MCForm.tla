-------------------------------- MODULE MCForm --------------------------------
EXTENDS CourseForm, TLC
Symmetry == Permutations(Attempt) \union Permutations(Form)
=============================================================================
