------------------------------ MODULE MCAccess ------------------------------
EXTENDS Access, TLC
Symmetry == Permutations(Passwords) \union Permutations(Clients)
=============================================================================
