------------------------------ MODULE MCOrders ------------------------------
EXTENDS OrderService, TLC
Symmetry == Permutations(Request)
=============================================================================
