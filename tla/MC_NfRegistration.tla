-------------------------- MODULE MC_NfRegistration --------------------------
(* Instances of NfRegistration for TLC.                                    *)
EXTENDS NfRegistration, TLC

Symmetry == Permutations(NFs) \cup Permutations(Slots)
=============================================================================
