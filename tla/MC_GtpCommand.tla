---------------------------- MODULE MC_GtpCommand ----------------------------
(***************************************************************************)
(* One command; the constants are in the cfg.                              *)
(***************************************************************************)
EXTENDS GtpCommand

=============================================================================
