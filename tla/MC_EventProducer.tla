-------------------------- MODULE MC_EventProducer --------------------------
(***************************************************************************)
(* Two goroutines and a handful of events, through outages and Close.      *)
(***************************************************************************)
EXTENDS EventProducer
=============================================================================
