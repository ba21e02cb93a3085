----------------------------- MODULE MCRawPool -----------------------------
\* Instance of RawPool for TLC: images and workers are alike.
EXTENDS RawPool, TLC
Interchangeable == Permutations(Buffers) \union Permutations(Workers)
===========================================================================
