------------------------- MODULE MCAtomicDictTable -------------------------
(* Small instances of AtomicDictTable: two keys whose probe sequences share *)
(* slots, with equal tags, so that every probe has to look at both.         *)
EXTENDS AtomicDictTable, TLC

CONSTANTS k1, k2

MCDistance0 == (k1 :> 2) @@ (k2 :> 0)
MCTag == (k1 :> 1) @@ (k2 :> 1)
MCHash == (k1 :> 7) @@ (k2 :> 7)

\* Threads and values are interchangeable.
Symmetry == Permutations(Threads) \cup Permutations(Values)
=============================================================================
