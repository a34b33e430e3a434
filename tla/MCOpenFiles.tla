---------------------------- MODULE MCOpenFiles ----------------------------
\* Clusters and names are interchangeable.
EXTENDS OpenFiles, TLC

Symmetry == Permutations(Clusters) \cup Permutations(Paths)
=============================================================================
