------------------------------ MODULE MCSched -------------------------------
(* The scheduler for TLC.                                                  *)
EXTENDS Sched

ASSUME SchedAssumption
=============================================================================
