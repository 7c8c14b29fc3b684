---- MODULE MCSharedMemory ----
EXTENDS SharedMemory, TLC
BlockSymmetry == Permutations(Blocks)
====
