------------------------------ MODULE MCCatalog ------------------------------
EXTENDS CourseCatalog, TLC
Symmetry ==
  Permutations(Reader) \union Permutations(Creator)
=============================================================================
