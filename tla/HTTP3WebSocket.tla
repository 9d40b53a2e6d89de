---------------------------- MODULE HTTP3WebSocket ----------------------------
(***************************************************************************)
(* packages/server/HTTP3Server.js: a WebSocket over HTTP/3.                *)
(*                                                                         *)
(* The module puts the WebSocketConnection on a native stream: the opening *)
(* (#handleWebSocketStart), whose headers are awaited while data and ends  *)
(* may already arrive, and the native callbacks, which call the socket at  *)
(* once.  Of the variables of WebSocketStream it uses protocol, stage,     *)
(* registered, arrived and destroyed: the native stream is gone, whether   *)
(* or not JavaScript has been told.                                        *)
(***************************************************************************)
EXTENDS WebSocketStream

HTTP3 == "HTTP/3"

(* What an action of the socket does to the server: onClose takes the socket  *)
(* out of #webSockets.  abort is one more sendData on the stream.             *)
Drop ==
    /\ protocol = HTTP3
    /\ registered' = (registered /\ readyState' # "CLOSED")
    /\ UNCHANGED <<protocol, head, chain, failed, destroyed, readEnded, notified, arrived>>

-----------------------------------------------------------------------------
(* The handshake is invalid (400), or there is no handler (501). *)
RefuseRequest ==
    /\ stage = "request" /\ stage' = "refused"
    /\ UNCHANGED vars /\ Drop

(* The routing handler gets the socket and may close it at once.  It accepts, *)
(* and the 200 is sent; or it refuses (403), throws or names another          *)
(* subprotocol (500), and the socket is forgotten.                            *)
OfferSocket ==
    /\ protocol = HTTP3 /\ stage = "request"
    /\ \/ UNCHANGED vars
       \/ \E t \in Closers : Close(t)
    /\ \/ stage' = "headers" /\ registered' = TRUE
       \/ stage' = "failed" /\ registered' = FALSE
    /\ UNCHANGED <<protocol, head, chain, failed, destroyed, readEnded, notified, arrived>>

(* The headers were taken: accept opens the socket, unless it is closing by   *)
(* now or its stream was reported as ended, and reads what came before.       *)
HeadersAccepted ==
    /\ stage = "headers" /\ Quiet
    /\ stage' = "open"
    /\ \/ Accept
       \/ readyState # "CONNECTING" /\ UNCHANGED vars
    /\ Drop

(* Mutant: the socket of a failed opening stays in #webSockets. *)
HeadersRejectedKeeping ==
    /\ stage = "headers" /\ Quiet
    /\ stage' = "failed"
    /\ UNCHANGED <<vars, registered, protocol, head, chain, failed, destroyed, readEnded,
                   notified, arrived>>

(* sendHeaders resolves to false or rejects: the socket is forgotten. *)
HeadersRejected ==
    /\ stage = "headers" /\ Quiet
    /\ stage' = "failed" /\ registered' = FALSE
    /\ UNCHANGED <<vars, protocol, head, chain, failed, destroyed, readEnded, notified,
                   arrived>>

(* accept is rejected because early input could not be handled: the socket is *)
(* forgotten after its 200, whatever state it is in.                          *)
AcceptRejected ==
    /\ protocol = HTTP3
    /\ Rejects(Opener) /\ Written(Opener)
    /\ stage' = "failed" /\ registered' = FALSE
    /\ UNCHANGED <<protocol, head, chain, failed, destroyed, readEnded, notified, arrived>>

-----------------------------------------------------------------------------
(* handleData, for a socket in #webSockets.  The next chunk comes when the    *)
(* last one has been completed; one that is not for a socket is completed by  *)
(* the receive path.                                                          *)
HandleData(chunk) ==
    /\ protocol = HTTP3 /\ registered /\ ~destroyed /\ Quiet
    /\ arrived + Len(chunk) <= MaxFrames
    /\ ReceiveData(chunk)
    /\ registered' = (readyState' # "CLOSED") /\ arrived' = arrived + Len(chunk)
    /\ UNCHANGED <<protocol, stage, head, chain, failed, destroyed, readEnded, notified>>

(* The stream is reset, its connection is lost, or the server stops. *)
NativeStreamGone ==
    /\ protocol = HTTP3 /\ stage # "request" /\ ~destroyed /\ Quiet
    /\ destroyed' = TRUE
    /\ UNCHANGED <<vars, protocol, stage, head, chain, failed, registered, readEnded,
                   notified, arrived>>

(* handleRequestEnd, of a stream whose connection has not ended. *)
HandleRequestEnd(reason) ==
    /\ registered /\ ~peerEnded /\ Quiet
    /\ reason = "aborted" => destroyed
    /\ ReceiveEnd(Finisher, reason)
    /\ UNCHANGED stage /\ Drop

(* handleConnectionEnd, for a socket of the connection. *)
SocketConnectionEnds ==
    /\ registered /\ destroyed /\ Quiet
    /\ ReceiveEnd(Aborter, "aborted")
    /\ UNCHANGED stage /\ Drop

(* handleStop: #webSockets is empty afterwards. *)
SocketsStop ==
    /\ protocol = HTTP3 /\ registered /\ destroyed /\ Quiet
    /\ ReceiveEnd(Aborter, "aborted")
    /\ registered' = FALSE
    /\ UNCHANGED <<protocol, stage, head, chain, failed, destroyed, readEnded, notified,
                   arrived>>

-----------------------------------------------------------------------------
(* The native layer takes a write or, once the stream is gone or its FIN has  *)
(* been sent, may reject it.                                                  *)
NativeWriteSettles ==
    /\ Quiet /\ WriteSettles
    /\ rejected' # rejected => destroyed \/ ended
    /\ UNCHANGED stage /\ Drop

(* The application still has the socket, also when the server forgot it. *)
OfferedClose(t) ==
    /\ stage \in {"headers", "open", "failed"}
    /\ Close(t)
    /\ UNCHANGED stage /\ Drop

OfferedSend ==
    /\ stage = "open" /\ protocol \in SendsOver
    /\ Send
    /\ UNCHANGED stage /\ Drop

NativeStep(t) ==
    /\ ~(t = Opener /\ Rejects(t))
    /\ Step(t)
    /\ At(t, "ending") /\ aborted' # aborted => destroyed
    /\ UNCHANGED stage /\ Drop

NativeHandlerSettles(t) ==
    HandlerSettles(t) /\ UNCHANGED stage /\ Drop

NativeTimerFires == Quiet /\ CloseTimerFires /\ UNCHANGED stage /\ Drop

(* What Node.js does by itself, and the native layer: it settles what was sent *)
(* on a stream that is gone and reports its end.  No handler has to return.    *)
NativeTurn ==
    \/ \E t \in Tasks : NativeStep(t)
    \/ NativeTimerFires
    \/ destroyed /\ NativeWriteSettles
    \/ destroyed /\ (HeadersRejected \/ HandleRequestEnd("aborted")
                     \/ SocketConnectionEnds \/ SocketsStop)
    \/ AcceptRejected

NativeInput ==
    \/ RefuseRequest \/ OfferSocket \/ HeadersAccepted \/ HeadersRejected
    \/ NativeStreamGone \/ NativeWriteSettles \/ HandleRequestEnd("finished") \/ OfferedSend
    \/ \E chunk \in Chunks : HandleData(chunk)
    \/ \E t \in Closers : OfferedClose(t)
    \/ \E t \in Tasks : NativeHandlerSettles(t)

HTTP3Next == NativeTurn \/ NativeInput
=============================================================================
