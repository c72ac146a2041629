--------------------- MODULE MC_ManagedRoostController ---------------------
(* Model values and bounds for the runs of ManagedRoostController.          *)
EXTENDS ManagedRoostController

TimeoutOnly == {"timeout"}
AllTriggers == {"timeout", "failure_count", "webhook"}
=============================================================================
