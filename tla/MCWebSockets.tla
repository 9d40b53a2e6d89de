----------------------------- MODULE MCWebSockets -----------------------------
(* One WebSocket over each HTTP version, and an application that closes it.   *)
(* Frames of every kind come over HTTP/2, whose other behaviours are the      *)
(* fewest; HTTP/1.1 adds an upgrade head, HTTP/3 input before its headers.    *)
EXTENDS WebSockets
CONSTANTS opener, deliverer, finisher, aborter, app

MCKindsOver == [version \in TCP \cup {HTTP3} |->
                  CASE version = "HTTP/1.1" -> {"message", "close", "partial"}
                    [] version = "HTTP/2" -> AllKinds
                    [] version = HTTP3 -> {"message", "close", "partial"}]
=============================================================================
