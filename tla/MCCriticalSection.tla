---- MODULE MCCriticalSection ----
EXTENDS CriticalSection, TLC
ThreadSymmetry == Permutations(Threads)
====
