---------------------------- MODULE MC_OgsQueue ----------------------------
(* Instances of OgsQueue for TLC.  Threads of one role are interchangeable, *)
(* and so are the elements: no property checked with this symmetry is a     *)
(* liveness property.                                                       *)
EXTENDS OgsQueue, TLC

Symmetry == Permutations(Pushers) \cup Permutations(Poppers) \cup Permutations(Elements)
=============================================================================
