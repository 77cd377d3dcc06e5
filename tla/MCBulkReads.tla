---------------------------- MODULE MCBulkReads ----------------------------
(* A small instance of BulkReads: two keys that collide, with equal tags.    *)
EXTENDS BulkReads, TLC

CONSTANTS k1, k2

MCDistance0 == (k1 :> 2) @@ (k2 :> 0)
MCTag == (k1 :> 1) @@ (k2 :> 1)
MCHash == (k1 :> 7) @@ (k2 :> 7)

\* Threads and readers are interchangeable.
Symmetry == Permutations(Threads) \cup Permutations(Readers)
=============================================================================
