----------------------------- MODULE MC_EventLoop -----------------------------
(* A timer of the NRF instance and one of a transaction, and two events from *)
(* sockets in one pass; a queue too small for them and one that holds all.   *)
EXTENDS EventLoop

CONSTANTS t1, t2, holding

MC_InstanceTimers == {t1}
MC_OtherTimers == {t2}
MC_Capacities == {2, 4}

=============================================================================
