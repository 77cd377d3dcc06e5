------------------------------ MODULE MCResize ------------------------------
(* Small instances of Resize: three threads and tables of two blocks.       *)
EXTENDS Resize, TLC

\* Bound on the states that are explored further: the last call that MaxCalls
\* allows races with the first resize only.  Two resizes in a row are explored
\* for the calls before it.
LastCallSeesOneResize == calls = MaxCalls => \A g \in 2..MaxGeneration : resize_leader[g] = NULL

Symmetry == Permutations(Threads)
=============================================================================
