------------------------- MODULE MCLibraryOfManager -------------------------
EXTENDS ManagerProperties, LibraryOfManager, TLC
Symmetry == Permutations(Ids) \union Permutations(Clients)
=============================================================================
