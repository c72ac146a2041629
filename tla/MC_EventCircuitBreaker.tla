----------------------- MODULE MC_EventCircuitBreaker -----------------------
(***************************************************************************)
(* Publishers as model values; thresholds come from the    *)
(* configuration, small enough for several episodes to overlap.            *)
(***************************************************************************)
EXTENDS EventCircuitBreaker
=============================================================================
