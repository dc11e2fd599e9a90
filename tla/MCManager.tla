----------------------------- MODULE MCManager -----------------------------
EXTENDS ManagerProperties, TLC
Symmetry == Permutations(Ids) \union Permutations(Clients) \union Permutations(TitleWorkers)
=============================================================================
