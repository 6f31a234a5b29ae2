------------------------------ MODULE MCSched ------------------------------
(***************************************************************************)
(* The scheduler under programs that make these calls in any order, while  *)
(* at most one process waits and one sleeps (Solitary in SchedProofs).     *)
(***************************************************************************)
EXTENDS Sched

Families == AllCalls \ {"kill", "read"}
=============================================================================
