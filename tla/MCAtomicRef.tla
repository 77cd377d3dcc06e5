---------------------------- MODULE MCAtomicRef ----------------------------
EXTENDS AtomicRef, TLC

\* Threads and objects are interchangeable.
Symmetry == Permutations(Threads) \cup Permutations(Objects)
=============================================================================
