-------------------------- MODULE MCJpegPipeline --------------------------
\* Instances of JpegPipeline for TLC: images, workers and readers are model
\* values, and TLC may permute them where no temporal property is checked.
EXTENDS JpegPipeline, TLC

Interchangeable ==
    Permutations(Buffers) \union Permutations(Workers) \union Permutations(Readers)
===========================================================================
