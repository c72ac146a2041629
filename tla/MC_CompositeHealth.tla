------------------------- MODULE MC_CompositeHealth -------------------------
(***************************************************************************)
(* Model values for evaluations and checks; times and thresholds come from *)
(* the configuration, in ticks of a few seconds.                           *)
(***************************************************************************)
EXTENDS CompositeHealth
=============================================================================
