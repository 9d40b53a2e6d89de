----------------------- MODULE MCWebSocketConnection -------------------------
(* One WebSocket with early input, a delivering transport, an end from the   *)
(* stream and one from the connection, and an application that closes.       *)
EXTENDS WebSocketConnection
CONSTANTS opener, deliverer, e1, e2, app
=============================================================================
