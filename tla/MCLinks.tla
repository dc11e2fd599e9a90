------------------------------ MODULE MCLinks ------------------------------
EXTENDS LinksProperties, TLC
Symmetry == Permutations(Ids) \union Permutations(Requests)
=============================================================================
