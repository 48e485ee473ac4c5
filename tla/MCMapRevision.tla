--------------------------- MODULE MCMapRevision ----------------------------
EXTENDS MapRevision, TLC
Symmetry == Permutations(Nodes)
=============================================================================
