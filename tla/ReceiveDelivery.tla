--------------------------- MODULE ReceiveDelivery ---------------------------
(***************************************************************************)
(* The receive path of packages/server/HTTP3Server.js.                     *)
(*                                                                         *)
(* The native layer hands JavaScript one chunk at a time per stream and    *)
(* waits for completeReceive(id, byteLength, accepted) before it reads     *)
(* more from the peer.  #deliverReceive gives the chunk to the request     *)
(* body, the WebSocket or the WebTransport handler and starts a timer;     *)
(* whichever comes first of the delivery settling and the timer firing     *)
(* completes the chunk, unless the stream, its connection or the server    *)
(* went away in between.                                                   *)
(*                                                                         *)
(* An action is one turn of the JavaScript event loop: a native callback,  *)
(* a timer callback, or the continuation of a settled delivery.            *)
(***************************************************************************)
EXTENDS Naturals, FiniteSets

CONSTANTS
    Ids,            \* native stream identifiers, never reused
    Connections,
    ConnectionOf,   \* the QUIC connection of every stream
    WebSocketIds,   \* the streams that carry a WebSocket
    WebTransportIds,\* the WebTransport streams; the others carry request bodies
    MaxChunks       \* bound: chunks the peer sends on one stream

ASSUME StreamsAssumption ==
    /\ ConnectionOf \in [Ids -> Connections]
    /\ WebSocketIds \subseteq Ids
    /\ WebTransportIds \subseteq Ids \ WebSocketIds
    /\ MaxChunks \in Nat

Chunks == 1 .. MaxChunks
None == 0           \* no chunk, no timer

VARIABLES
    \* The native layer (external).
    rx,             \* receive side: "new", "open", "aborted", "ended"
    owed,           \* the chunk whose completion the stream waits for
    sent,           \* chunks handed to JavaScript so far
    \* HTTP3Server.
    receivers,      \* ids found in #streams, #webSockets, #webTransportStreams
    receiveTimers,  \* #receiveTimers: the chunk whose timer the map holds
    armed,          \* timers of the event loop that have not fired or been cleared
    delivering,     \* <<id, n>> whose delivery promise has not settled
    receiveTimeouts,\* #receiveTimeouts
    \* History.
    answers,        \* completeReceive calls made for each chunk
    timedOut        \* streams on which a delivery timed out

native == <<rx, owed, sent>>
vars == <<rx, owed, sent, receivers, receiveTimers, armed, delivering,
          receiveTimeouts, answers, timedOut>>

Init ==
    /\ rx = [id \in Ids |-> "new"]
    /\ owed = [id \in Ids |-> None]
    /\ sent = [id \in Ids |-> 0]
    /\ receivers = {}
    /\ receiveTimers = [id \in Ids |-> None]
    /\ armed = {}
    /\ delivering = {}
    /\ receiveTimeouts = 0
    /\ answers = [id \in Ids |-> [n \in Chunks |-> 0]]
    /\ timedOut = {}

-----------------------------------------------------------------------------
(* native.completeReceive(id, byteLength, accepted), called for chunk n: the *)
(* native side only sees the id, so it releases whatever chunk it is owed,   *)
(* and a rejection aborts the receive side of the stream.                    *)
CompleteReceive(id, n, accepted) ==
    /\ answers' = [answers EXCEPT ![id][n] = @ + 1]
    /\ owed' = [owed EXCEPT ![id] = None]
    /\ rx' = [rx EXCEPT ![id] = IF @ = "open" /\ ~accepted THEN "aborted" ELSE @]

(* Mutant: no comparison of the stored timer with the delivery's own. *)
FinishReceiveUnchecked(id, n, accepted) ==
    /\ armed' = armed \ {<<id, n>>}
    /\ receiveTimers' = [receiveTimers EXCEPT ![id] = None]
    /\ CompleteReceive(id, n, accepted)

(* #finishReceive: a timer that is no longer the stored one has lost. *)
FinishReceive(id, n, accepted) ==
    IF receiveTimers[id] = n
    THEN /\ armed' = armed \ {<<id, n>>}
         /\ receiveTimers' = [receiveTimers EXCEPT ![id] = None]
         /\ CompleteReceive(id, n, accepted)
    ELSE UNCHANGED <<armed, receiveTimers, answers, owed, rx>>

(* #clearReceiveTimer for every id of a set. *)
ClearReceiveTimers(S) ==
    /\ armed' = armed \ {<<id, receiveTimers[id]>> : id \in S}
    /\ receiveTimers' = [id \in Ids |-> IF id \in S THEN None ELSE receiveTimers[id]]

-----------------------------------------------------------------------------
(* handleRequest, #handleWebSocketStart or handleWebTransportStream enters   *)
(* the stream in the map its data will be looked up in.                      *)
Register(id) ==
    /\ rx[id] = "new"
    /\ rx' = [rx EXCEPT ![id] = "open"]
    /\ receivers' = receivers \cup {id}
    /\ UNCHANGED <<owed, sent, receiveTimers, armed, delivering, receiveTimeouts,
                   answers, timedOut>>

(* The receiver leaves its map while the peer can still send: a WebSocket    *)
(* closed or its opening failed, a WebTransport session was deleted.         *)
Unregister(id) ==
    /\ id \in receivers
    /\ receivers' = receivers \ {id}
    /\ UNCHANGED <<rx, owed, sent, receiveTimers, armed, delivering,
                   receiveTimeouts, answers, timedOut>>

(* The native layer has a chunk: one is out per stream at a time. *)
NextChunk(id) ==
    /\ rx[id] = "open"
    /\ owed[id] = None
    /\ sent[id] < MaxChunks
    /\ sent' = [sent EXCEPT ![id] = @ + 1]

(* Mutant: data nobody receives is dropped without completing it. *)
HandleDataUnknownDropped(id) ==
    /\ NextChunk(id)
    /\ id \notin receivers
    /\ owed' = [owed EXCEPT ![id] = sent[id] + 1]
    /\ UNCHANGED <<rx, receivers, receiveTimers, armed, delivering,
                   receiveTimeouts, answers, timedOut>>

(* handleData and handleWebTransportStreamData when no map knows the id. *)
HandleDataUnknown(id) ==
    /\ NextChunk(id)
    /\ id \notin receivers
    /\ CompleteReceive(id, sent[id] + 1, FALSE)
    /\ UNCHANGED <<receivers, receiveTimers, armed, delivering, receiveTimeouts,
                   timedOut>>

(* handleData and handleWebTransportStreamData: #deliverReceive stores a     *)
(* fresh timer and calls the receiver, which returns a promise ...           *)
DeliverReceive(id) ==
    LET n == sent[id] + 1 IN
    /\ NextChunk(id)
    /\ id \in receivers
    /\ owed' = [owed EXCEPT ![id] = n]
    /\ armed' = armed \cup {<<id, n>>}
    /\ receiveTimers' = [receiveTimers EXCEPT ![id] = n]
    /\ delivering' = delivering \cup {<<id, n>>}
    /\ UNCHANGED <<rx, receivers, receiveTimeouts, answers, timedOut>>

(* ... or throws: only the WebTransport data handler is called directly.     *)
(* The timer just stored is cleared again in the same turn.                  *)
DeliverThrows(id) ==
    LET n == sent[id] + 1 IN
    /\ NextChunk(id)
    /\ id \in receivers \cap WebTransportIds
    /\ armed' = armed \ {<<id, n>>}
    /\ receiveTimers' = [receiveTimers EXCEPT ![id] = None]
    /\ CompleteReceive(id, n, FALSE)
    /\ UNCHANGED <<receivers, delivering, receiveTimeouts, timedOut>>

(* The delivery settles, perhaps long after its timer or its stream. *)
DeliverySettles(id, n, accepted) ==
    /\ <<id, n>> \in delivering
    /\ delivering' = delivering \ {<<id, n>>}
    /\ FinishReceive(id, n, accepted)
    /\ UNCHANGED <<sent, receivers, receiveTimeouts, timedOut>>

(* Mutant: a timed out delivery is completed as accepted. *)
TimerFiresAccepting(id, n) ==
    /\ <<id, n>> \in armed
    /\ armed' = armed \ {<<id, n>>}
    /\ IF receiveTimers[id] = n
       THEN /\ receiveTimers' = [receiveTimers EXCEPT ![id] = None]
            /\ receiveTimeouts' = receiveTimeouts + 1
            /\ timedOut' = timedOut \cup {id}
            /\ CompleteReceive(id, n, TRUE)
       ELSE UNCHANGED <<receiveTimers, receiveTimeouts, timedOut, answers, owed, rx>>
    /\ UNCHANGED <<sent, receivers, delivering>>

(* The setTimeout callback of #deliverReceive. *)
TimerFires(id, n) ==
    /\ <<id, n>> \in armed
    /\ armed' = armed \ {<<id, n>>}
    /\ IF receiveTimers[id] = n
       THEN /\ receiveTimers' = [receiveTimers EXCEPT ![id] = None]
            /\ receiveTimeouts' = receiveTimeouts + 1
            /\ timedOut' = timedOut \cup {id}
            /\ CompleteReceive(id, n, FALSE)
       ELSE UNCHANGED <<receiveTimers, receiveTimeouts, timedOut, answers, owed, rx>>
    /\ UNCHANGED <<sent, receivers, delivering>>

(* handleRequestEnd and handleWebTransportStreamEnd.  A WebSocket with a     *)
(* partial frame in its buffer leaves #webSockets only later (Unregister).   *)
HandleStreamEnd(id) ==
    /\ rx[id] \in {"open", "aborted"}
    /\ rx' = [rx EXCEPT ![id] = "ended"]
    /\ owed' = [owed EXCEPT ![id] = None]
    /\ ClearReceiveTimers({id})
    /\ \/ receivers' = receivers \ {id}
       \/ id \in WebSocketIds /\ UNCHANGED receivers
    /\ UNCHANGED <<sent, delivering, receiveTimeouts, answers, timedOut>>

(* handleConnectionEnd drops the streams of the connection from the maps and *)
(* leaves their timers alone; the native layer has dropped their chunks.     *)
HandleConnectionEnd(c) ==
    LET S == {id \in Ids : ConnectionOf[id] = c} IN
    /\ \E id \in S : rx[id] \in {"open", "aborted"}
    /\ rx' = [id \in Ids |-> IF id \in S THEN "ended" ELSE rx[id]]
    /\ owed' = [id \in Ids |-> IF id \in S THEN None ELSE owed[id]]
    /\ \E kept \in SUBSET (S \cap WebSocketIds) :
          receivers' = receivers \ (S \ kept)
    /\ UNCHANGED <<sent, receiveTimers, armed, delivering, receiveTimeouts,
                   answers, timedOut>>

(* handleStop: the maps and every stored timer are cleared. *)
HandleStop ==
    /\ \E id \in Ids : rx[id] # "ended"
    /\ rx' = [id \in Ids |-> "ended"]
    /\ owed' = [id \in Ids |-> None]
    /\ receivers' = {}
    /\ ClearReceiveTimers(Ids)
    /\ UNCHANGED <<sent, delivering, receiveTimeouts, answers, timedOut>>

Next ==
    \/ \E id \in Ids :
          \/ Register(id) \/ Unregister(id)
          \/ HandleDataUnknown(id) \/ DeliverReceive(id) \/ DeliverThrows(id)
          \/ HandleStreamEnd(id)
          \/ \E n \in Chunks :
                \/ TimerFires(id, n)
                \/ \E accepted \in BOOLEAN : DeliverySettles(id, n, accepted)
    \/ \E c \in Connections : HandleConnectionEnd(c)
    \/ HandleStop

(* The event loop runs a timer that stays armed; nothing obliges the        *)
(* application to settle a delivery or the peer to end a stream.             *)
Fairness == \A id \in Ids, n \in Chunks : WF_vars(TimerFires(id, n))

Spec == Init /\ [][Next]_vars
FairSpec == Spec /\ Fairness

-----------------------------------------------------------------------------
TypeOK ==
    /\ rx \in [Ids -> {"new", "open", "aborted", "ended"}]
    /\ owed \in [Ids -> Chunks \cup {None}]
    /\ sent \in [Ids -> 0 .. MaxChunks]
    /\ receivers \subseteq Ids
    /\ receiveTimers \in [Ids -> Chunks \cup {None}]
    /\ armed \subseteq (Ids \X Chunks)
    /\ delivering \subseteq (Ids \X Chunks)
    /\ receiveTimeouts \in Nat
    /\ answers \in [Ids -> [Chunks -> Nat]]
    /\ timedOut \subseteq Ids

(* No chunk is completed twice, whichever of the timer, the delivery and the *)
(* end of the stream comes first: a second completeReceive would release a   *)
(* chunk the application has not consumed.                                   *)
AnsweredAtMostOnce == \A id \in Ids : \A n \in Chunks : answers[id][n] <= 1

(* While the native layer holds a chunk back for JavaScript, a timer for     *)
(* exactly that chunk is stored and armed: no interleaving of data, ends and *)
(* late deliveries leaves a chunk that nothing will ever complete.           *)
OwedChunkIsTimed ==
    \A id \in Ids : owed[id] # None =>
        /\ receiveTimers[id] = owed[id]
        /\ <<id, owed[id]>> \in armed
        /\ answers[id][owed[id]] = 0

(* The map and the event loop agree: no timer stays armed that the map has   *)
(* forgotten (it would keep the chunk's buffer alive), and none is stored    *)
(* that can no longer fire.                                                  *)
TimersAgree ==
    \A id \in Ids : \A n \in Chunks : <<id, n>> \in armed <=> receiveTimers[id] = n

(* README "application delivery must finish within maxIncompleteBodyMs or    *)
(* the receive side is aborted": a stream with a timeout is never read again, *)
(* and getDiagnostics().receiveTimeouts counts each such stream once.        *)
TimeoutEndsReceive ==
    /\ \A id \in timedOut : rx[id] \in {"aborted", "ended"}
    /\ receiveTimeouts = Cardinality(timedOut)

(* A completion is only ever sent for the chunk the native side is waiting   *)
(* for or has just handed over, except to a stream its connection took down: *)
(* a late delivery never completes, a second time or for a later chunk, what *)
(* the timer, a stream end or a stop has already settled.                    *)
NoStaleCompletion ==
    [][\A id \in Ids : \A n \in Chunks :
          answers'[id][n] # answers[id][n] =>
             \/ owed[id] = n
             \/ sent[id] < n /\ sent'[id] = n
             \/ rx[id] = "ended"]_vars

-----------------------------------------------------------------------------
(* The receive path implements the one-credit contract of the transport. *)
credit == [id \in Ids |->
    IF rx[id] \in {"aborted", "ended"} THEN "closed"
    ELSE IF owed[id] # None THEN "out" ELSE "idle"]

Credit == INSTANCE ReceiveCredit

ImplementsReceiveCredit == Credit!Spec
=============================================================================
