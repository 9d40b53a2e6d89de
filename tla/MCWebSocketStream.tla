-------------------------- MODULE MCWebSocketStream --------------------------
(* One WebSocket on a Node.js stream, and an application that closes.         *)
EXTENDS WebSocketStream
CONSTANTS opener, deliverer, finisher, aborter, app

MCKindsOver == [version \in TCP |-> Kinds]
=============================================================================
