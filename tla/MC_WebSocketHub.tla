-------------------------- MODULE MC_WebSocketHub --------------------------
(***************************************************************************)
(* One client with a channel of one message and one goroutine besides the  *)
(* hub that broadcasts, under fairness; MC_API has two clients.            *)
(***************************************************************************)
EXTENDS WebSocketHub
=============================================================================
