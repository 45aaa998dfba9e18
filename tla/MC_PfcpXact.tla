---------------------------- MODULE MC_PfcpXact ----------------------------
(* Instances of PfcpXact for TLC: peers, types and ids are the model        *)
(* values, times the numbers, of the configurations.                        *)
EXTENDS PfcpXact, TLC
=============================================================================
