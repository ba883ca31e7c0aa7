--------------------------- MODULE MCWebSocketHub ---------------------------
(* Instances of WebSocketHub for TLC. *)
EXTENDS WebSocketHub

CONSTANTS w1, w2, e1
=============================================================================
