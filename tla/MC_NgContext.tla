------------------------------ MODULE MC_NgContext ------------------------------
(* Two gNBs, one subscriber, two places for amf_ue_t and two for contexts.   *)
EXTENDS NgContext, TLC

Symmetry == Permutations(Gnbs) \cup Permutations(Subs) \cup Permutations(Ues)

=============================================================================
