-------------------------- MODULE MCReceiveDelivery --------------------------
(* Two streams of one connection, a request body and a WebSocket, and a      *)
(* WebTransport-like stream on a second connection.                          *)
EXTENDS ReceiveDelivery
CONSTANTS s1, s2, s3, c1, c2

MCConnectionOf == [id \in Ids |-> IF id = s3 THEN c2 ELSE c1]
=============================================================================
