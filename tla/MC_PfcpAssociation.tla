-------------------------- MODULE MC_PfcpAssociation --------------------------
EXTENDS PfcpAssociation, TLC

(* The control plane entity and the user plane entity.                     *)
CONSTANTS CP, UP

=============================================================================
