---------------------------- MODULE MC_Teardown ----------------------------
(***************************************************************************)
(* Two callers and one roost for the races on a version of the object; one *)
(* execution at a time, so that the limit is met.                          *)
(***************************************************************************)
EXTENDS Teardown

TwoTriggers == {"timeout", "failure_count", "schedule"}
=============================================================================
