----------------------------- MODULE MC_SbiXact -----------------------------
(* SbiXact on small instances.  Streams and subscribers are interchangeable; *)
(* the places of the pool are too, so the ring may start in any order.       *)
EXTENDS SbiXact, TLC

Symmetry == Permutations(Streams) \cup Permutations(UEs) \cup Permutations(Slots)
=============================================================================
