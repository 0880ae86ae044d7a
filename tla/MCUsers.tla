------------------------------- MODULE MCUsers -------------------------------
EXTENDS UserService, TLC
Symmetry == Permutations(Call) \union Permutations(Token)
=============================================================================
