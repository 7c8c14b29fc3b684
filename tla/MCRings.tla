------------------------------- MODULE MCRings -------------------------------
\* Rings with the headers of compressed data: both types and sizes that short,
\* long and the longest copies fill, sizes in the second word, an empty one, and
\* types that are neither.
EXTENDS Rings

MCHeaders ==
    {<<16, 5, 0, 0>>, <<17, 20, 0, 0>>, <<17, 18, 1, 0>>,
     <<17, 0, 0, 0, 4, 0, 0, 0>>, <<16, 0, 0, 0, 2, 1, 0, 0>>, <<16, 0, 0, 0, 0, 0, 0, 0>>,
     <<32, 5, 0, 0>>, <<18, 5, 0, 0>>}
==============================================================================
