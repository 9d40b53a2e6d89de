--------------------------- MODULE WebSocketStream ---------------------------
(***************************************************************************)
(* packages/server/HTTPServer.js: a WebSocket over HTTP/1.1 or HTTP/2.     *)
(*                                                                         *)
(* The module puts the WebSocketConnection on a Node.js stream: the        *)
(* opening (#handleH1WebSocket, #handleH2WebSocket, #createWebSocket), and *)
(* attachWebSocketStream, which turns the events of the stream into calls  *)
(* that wait for each other in a chain of promises.  Deliverer, Finisher   *)
(* and Aborter are the tasks of those calls.                               *)
(***************************************************************************)
EXTENDS WebSocketConnection

CONSTANTS
    Finisher,       \* receiveEnd("finished"), of the stream's end event
    Aborter,        \* receiveEnd("aborted"), of its close or aborted event
    KindsOver,      \* bound: kinds of frames the peer sends over an HTTP version
    SendsOver       \* bound: HTTP versions over which the application sends

TCP == {"HTTP/1.1", "HTTP/2"}

ASSUME StreamAssumption ==
    /\ Enders = {Finisher, Aborter} /\ Finisher # Aborter
    /\ TCP \subseteq DOMAIN KindsOver
    /\ \A version \in DOMAIN KindsOver : KindsOver[version] \subseteq Kinds

VARIABLES
    protocol,       \* the HTTP version
    stage,          \* of the opening
    head,           \* frames that came with an upgrade request, until they are read
    chain,          \* operations that wait for those before them
    failed,         \* an operation was rejected: no more are accepted
    registered,     \* the socket is in #webSockets
    destroyed,      \* the Node.js stream is destroyed
    readEnded,      \* the stream has reported its end ...
    notified,       \* ... and its close or aborted event
    arrived         \* frames the client has sent after its request

stream == <<protocol, stage, head, chain, failed, registered, destroyed, readEnded,
            notified, arrived>>
allVars == <<vars, stream>>

Chunks == {chunk \in InputChunks : \A i \in DOMAIN chunk : chunk[i] \in KindsOver[protocol]}

StreamInit(protocols) ==
    /\ Init
    /\ protocol \in protocols /\ stage = "request"
    /\ head = <<>> /\ chain = <<>> /\ failed = FALSE /\ registered = FALSE
    /\ destroyed = FALSE /\ readEnded = FALSE /\ notified = FALSE /\ arrived = 0

(* Continuations of settled promises run before any event of a stream, timer or *)
(* native callback.  The application may act between any two of them.          *)
Ready(t) ==
    /\ ~Idle(t)
    /\ \/ Head(todo[t]) \notin {"write", "queue", "ending", "handler"}
       \/ Head(todo[t]) \in {"write", "queue"} /\ awaited[t] <= settled
Quiet == \A t \in Tasks : ~Ready(t)

Operation(task, chunk) == [task |-> task, chunk |-> chunk]

-----------------------------------------------------------------------------
(* deliver of attachWebSocketStream: the operation joins the queue, ...       *)
Deliver(queue, task, chunk) ==
    chain' = IF failed' THEN queue ELSE Append(queue, Operation(task, chunk))

(* ... which runs one operation after the other.                              *)
Serving == {t \in {Deliverer} \cup Enders : ~Idle(t)}

(* stream.destroy(), if cut.  An HTTP/2 stream reports at once that it was    *)
(* aborted, unless its writable side had ended; the socket hears of it from   *)
(* its opening on.                                                            *)
Destroy(cut, queue) ==
    /\ destroyed' = (destroyed \/ cut)
    /\ IF cut /\ ~destroyed /\ protocol = "HTTP/2" /\ ~ended /\ stage = "open"
       THEN notified' = TRUE /\ Deliver(queue, Aborter, <<>>)
       ELSE chain' = queue /\ UNCHANGED notified

(* The call of task t is about to be rejected. *)
Rejects(t) ==
    At(t, "write") /\ awaited[t] <= settled /\ awaited[t] \in rejected /\ ~Will(t, "shut")

(* What an action of the socket does to the stream: onClose takes the socket  *)
(* out of #webSockets, and abort destroys the stream.                         *)
Follow(queue) ==
    /\ protocol \in TCP
    /\ registered' = (registered /\ readyState' # "CLOSED")
    /\ UNCHANGED failed
    /\ Destroy(aborted' # aborted, queue)
    /\ UNCHANGED <<protocol, stage, head, readEnded, arrived>>

-----------------------------------------------------------------------------
(* The handshake is invalid, or there is no handler: an error answer.         *)
Refuse ==
    /\ protocol \in TCP /\ stage = "request" /\ stage' = "refused"
    /\ UNCHANGED <<vars, protocol, head, chain, failed, registered, destroyed, readEnded,
                   notified, arrived>>

(* The handler, which may close the socket first, refuses it, throws or names *)
(* another subprotocol: an error answer, and the socket is forgotten.         *)
RefuseSocket ==
    /\ protocol \in TCP /\ stage = "request" /\ stage' = "failed"
    /\ UNCHANGED vars \/ \E t \in Closers : Close(t)
    /\ UNCHANGED <<protocol, head, chain, failed, registered, destroyed, readEnded,
                   notified, arrived>>

(* The socket is attached and accepted in one turn, in which the handler may  *)
(* already close it.                                                          *)
Open ==
    /\ protocol \in TCP /\ stage = "request" /\ stage' = "open"
    /\ Accept \/ \E t \in Closers : Close(t)
    /\ registered' = TRUE
    /\ head' \in IF protocol = "HTTP/1.1" THEN {<<>>} \cup {<<k>> : k \in KindsOver[protocol]} ELSE {<<>>}
    /\ UNCHANGED <<protocol, chain, failed, destroyed, readEnded, notified, arrived>>

(* #handleH1WebSocket goes on after accept: the head is read outside the chain, *)
(* before anything in it.                                                      *)
ReadHead ==
    /\ head # <<>> /\ Running = {}
    /\ head' = <<>>
    /\ IF readyState = "CLOSED" THEN UNCHANGED vars
       ELSE /\ buffer' = Joined(buffer, head)
            /\ Start(Opener, Receive)
            /\ UNCHANGED <<readyState, pendingInput, fragmented, received, peerEnded,
                           handshake, closeTimer, output, reported, transport>>
    /\ UNCHANGED <<protocol, stage, chain, failed, registered, destroyed, readEnded,
                   notified, arrived>>

-----------------------------------------------------------------------------
Listening == protocol \in TCP /\ stage = "open" /\ head = <<>> /\ Quiet

(* The events of the stream. *)
Data(chunk) ==
    /\ Listening /\ ~readEnded /\ ~destroyed
    /\ arrived + Len(chunk) <= MaxFrames
    /\ arrived' = arrived + Len(chunk)
    /\ UNCHANGED failed /\ Deliver(chain, Deliverer, chunk)
    /\ UNCHANGED <<vars, protocol, stage, head, registered, destroyed, readEnded, notified>>

EndEvent ==
    /\ Listening /\ ~readEnded /\ ~destroyed
    /\ readEnded' = TRUE
    /\ UNCHANGED failed /\ Deliver(chain, Finisher, <<>>)
    /\ UNCHANGED <<vars, protocol, stage, head, registered, destroyed, notified, arrived>>

(* The client resets the stream, its connection breaks or is destroyed by     *)
(* stop, or both sides have ended.                                            *)
Lost ==
    /\ Listening /\ ~destroyed
    /\ UNCHANGED failed /\ Destroy(TRUE, chain)
    /\ UNCHANGED <<vars, protocol, stage, head, registered, readEnded, arrived>>

(* A destroyed socket reports its close in a later turn. *)
CloseEvent ==
    /\ Listening /\ protocol = "HTTP/1.1" /\ destroyed /\ ~notified
    /\ notified' = TRUE
    /\ UNCHANGED failed /\ Deliver(chain, Aborter, <<>>)
    /\ UNCHANGED <<vars, protocol, stage, head, registered, destroyed, readEnded, arrived>>

(* Mutant: the end of a stream that was cut is not delivered. *)
RunNextButAborts ==
    /\ protocol \in TCP /\ head = <<>> /\ Running = {}
    /\ Serving = {} /\ chain # <<>>
    /\ LET next == Head(chain) IN
       \/ readyState # "CLOSED" /\ next.task = Deliverer /\ ReceiveData(next.chunk)
       \/ readyState # "CLOSED" /\ next.task = Finisher /\ ReceiveEnd(Finisher, "finished")
       \/ (readyState = "CLOSED" \/ next.task = Aborter) /\ UNCHANGED vars
    /\ Follow(Tail(chain))

(* The next operation of the chain; a socket that is CLOSED ignores it.       *)
RunNext ==
    /\ protocol \in TCP /\ head = <<>> /\ Running = {}
    /\ Serving = {} /\ chain # <<>>
    /\ LET next == Head(chain) IN
       \/ readyState # "CLOSED" /\ next.task = Deliverer /\ ReceiveData(next.chunk)
       \/ readyState # "CLOSED" /\ next.task = Finisher /\ ReceiveEnd(Finisher, "finished")
       \/ readyState # "CLOSED" /\ next.task = Aborter /\ ReceiveEnd(Aborter, "aborted")
       \/ readyState = "CLOSED" /\ UNCHANGED vars
    /\ Follow(Tail(chain))

-----------------------------------------------------------------------------
(* writeNodeStream: a write settles when the peer has taken it, or with an    *)
(* error once the stream is destroyed or was ended before, also by an error   *)
(* answer.                                                                    *)
StreamWriteSettles ==
    /\ Quiet /\ WriteSettles
    /\ rejected' = rejected => ~destroyed
    /\ rejected' # rejected => destroyed \/ ended \/ stage = "failed"
    /\ Follow(chain)

(* An operation is rejected, or receiveData of the head: the stream is        *)
(* destroyed.                                                                 *)
Catch(t) ==
    /\ protocol \in TCP
    /\ t \notin Closers /\ Rejects(t) /\ Written(t)
    /\ failed' = (failed \/ t # Opener)
    /\ registered' = (registered /\ t # Opener)
    /\ Destroy(TRUE, chain)
    /\ UNCHANGED <<protocol, stage, head, readEnded, arrived>>

(* endNodeStream never rejects. *)
StreamStep(t) ==
    /\ t \in Closers \/ ~Rejects(t)
    /\ Step(t)
    /\ At(t, "ending") => aborted' = aborted
    /\ Follow(chain)

StreamHandlerSettles(t) == HandlerSettles(t) /\ Follow(chain)
StreamClose(t) == stage \in {"open", "failed"} /\ Close(t) /\ Follow(chain)
StreamSend == stage = "open" /\ protocol \in SendsOver /\ Send /\ Follow(chain)
StreamTimerFires == Quiet /\ CloseTimerFires /\ Follow(chain)

(* What Node.js does by itself: it resumes promises, fires timers, reports the *)
(* close of a destroyed stream and settles its writes; and handlers settle.    *)
StreamTurn ==
    \/ ReadHead \/ RunNext \/ CloseEvent
    \/ StreamTimerFires
    \/ destroyed /\ StreamWriteSettles
    \/ \E t \in Tasks : StreamStep(t) \/ Catch(t) \/ StreamHandlerSettles(t)

(* What clients and the application may do. *)
StreamInput ==
    \/ Refuse \/ RefuseSocket \/ Open \/ EndEvent \/ Lost \/ StreamSend \/ StreamWriteSettles
    \/ \E chunk \in Chunks : Data(chunk)
    \/ \E t \in Closers : StreamClose(t)

StreamNext == StreamTurn \/ StreamInput

StreamSpec == StreamInit(TCP) /\ [][StreamNext]_allVars

(* Node.js goes on as long as it has something to do, and no peer has to read *)
(* or to send anything.  One condition for all turns is enough, because each  *)
(* socket causes finitely many.                                               *)
StreamFairSpec == StreamSpec /\ WF_allVars(StreamTurn)

-----------------------------------------------------------------------------

(* README.md:135: the callbacks are the same over all HTTP versions; so       *)
(* webSocketClose is called for a client that is gone, as over HTTP/3.         *)
EveryCutIsReported == stage = "open" /\ destroyed ~> readyState = "CLOSED"
=============================================================================
