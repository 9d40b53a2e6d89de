------------------------------ MODULE WebSockets ------------------------------
(***************************************************************************)
(* A WebSocket of the composed server over any HTTP version: the same      *)
(* WebSocketConnection on the Node.js stream of an HTTP/1.1 or HTTP/2      *)
(* request, or on the native stream of an HTTP/3 request.                  *)
(***************************************************************************)
EXTENDS HTTP3WebSocket

SocketsInit == StreamInit(TCP \cup {HTTP3})

SocketsNext == StreamNext \/ HTTP3Next

Turn ==
    \/ protocol \in TCP /\ StreamTurn
    \/ protocol = HTTP3 /\ NativeTurn

(* Node.js and the native layer go on as long as they have something to do.   *)
SocketsSpec == SocketsInit /\ [][SocketsNext]_allVars /\ WF_allVars(Turn)

-----------------------------------------------------------------------------
SocketsTypeOK ==
    /\ TypeOK
    /\ protocol \in TCP \cup {HTTP3}
    /\ stage \in {"request", "refused", "headers", "failed", "open"}
    /\ head \in Seq(Kinds)
    /\ \A i \in DOMAIN chain :
          chain[i].task \in {Deliverer} \cup Enders /\ chain[i].chunk \in Seq(Kinds)
    /\ failed \in BOOLEAN /\ registered \in BOOLEAN /\ destroyed \in BOOLEAN
    /\ readEnded \in BOOLEAN /\ notified \in BOOLEAN
    /\ arrived \in 0 .. MaxFrames

(* #webSockets holds exactly the sockets that were offered and have neither   *)
(* failed to open nor reported their close, whatever ends them; only one      *)
(* whose head could not be handled, or whose server stopped, is forgotten     *)
(* before, and its stream is gone.                                            *)
RegistryFollows ==
    /\ registered => stage \in {"headers", "open"} /\ readyState # "CLOSED"
    /\ stage \in {"headers", "open"} /\ readyState # "CLOSED" => registered \/ destroyed

(* The opening failed after the socket was offered, or a delivery was         *)
(* rejected: the server has forgotten the socket or hears nothing of it.      *)
Forgotten == failed \/ stage = "failed"

(* No socket stays open to the application after its stream is gone, by        *)
(* whomever, unless it was forgotten; and not even then, when the event had    *)
(* joined the chain before.                                                    *)
CutIsReported ==
    /\ []<>(stage = "open" /\ destroyed => readyState = "CLOSED" \/ Forgotten)
    /\ (\E i \in DOMAIN chain : chain[i].task = Aborter) ~> readyState = "CLOSED"

(* No closing handshake goes on for ever after the peer has read everything,   *)
(* over each transport with the failures it has.                               *)
ClosingEnds ==
    []<>(readyState = "CLOSING" => settled < Len(frames) \/ Forgotten)
=============================================================================
