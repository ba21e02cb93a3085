--------------------------- MODULE MCFileWatcher ---------------------------
\* Instances of FileWatcher for TLC.  Upload goroutines are alike.
EXTENDS FileWatcher, TLC
Interchangeable == Permutations(Uploads)
===========================================================================
