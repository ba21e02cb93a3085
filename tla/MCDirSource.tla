---------------------------- MODULE MCDirSource ----------------------------
\* Instance of DirSource for TLC; the names of the calls and pictures do not matter.
EXTENDS DirSource, TLC

Symmetry == Permutations(Reads) \union Permutations(Pictures)
===========================================================================
