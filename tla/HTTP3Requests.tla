---------------------------- MODULE HTTP3Requests ----------------------------
(***************************************************************************)
(* Ordinary requests of packages/server/HTTP3Server.js: the index of       *)
(* connections and streams, the call of the application's handler, and     *)
(* #sendResponse, which pulls chunks from the body of a Response and hands *)
(* them to the native layer one at a time.                                 *)
(*                                                                         *)
(* An action is one turn of the event loop.  pc[r] is the await at which   *)
(* #handleRequest(r) stands.                                               *)
(***************************************************************************)
EXTENDS Naturals, FiniteSets

CONSTANTS
    Requests,       \* native stream ids, never reused
    Connections,    \* native connection ids, never reused
    ConnectionOf,   \* the connection of every request
    MaxChunks       \* bound: chunks of a response body

ASSUME RequestsAssumption ==
    /\ ConnectionOf \in [Requests -> Connections]
    /\ MaxChunks \in Nat

VARIABLES
    \* The native layer (external).
    link,           \* connections: "new", "open", "ended", "stopped"
    rx,             \* request bodies: "new", "open", "finished", "aborted"
    tx,             \* responses: "idle", "headers", "fin", "closed"
    \* HTTP3Server.
    connections,    \* #connections
    connStreams,    \* the streams map of every Connection object
    streams,        \* #streams
    readers,        \* #responseReaders
    committed,      \* #responseCommitted
    pc,             \* the await of #handleRequest
    \* The application's side.
    source,         \* response.body: "none", "open", "exhausted", "stopped"
    produced,       \* chunks read from it
    accepted,       \* chunks the native layer accepted
    raw             \* requests whose handler sends frames itself

native == <<link, rx, tx>>
index == <<connections, connStreams, streams>>
body == <<source, produced, accepted>>
vars == <<link, rx, tx, connections, connStreams, streams, readers, committed, pc,
          source, produced, accepted, raw>>

\* Awaits inside #sendResponse while it holds a reader.
Sending == {"reading", "sending", "finishing"}
InResponse == {"headers", "cancelling"} \cup Sending

Init ==
    /\ link = [c \in Connections |-> "new"]
    /\ rx = [r \in Requests |-> "new"]
    /\ tx = [r \in Requests |-> "idle"]
    /\ connections = {} /\ streams = {} /\ readers = {} /\ committed = {}
    /\ connStreams = [c \in Connections |-> {}]
    /\ pc = [r \in Requests |-> "new"]
    /\ source = [r \in Requests |-> "none"]
    /\ produced = [r \in Requests |-> 0] /\ accepted = [r \in Requests |-> 0]
    /\ raw = {}

Of(c) == {r \in Requests : ConnectionOf[r] = c}
Goto(r, label) == pc' = [pc EXCEPT ![r] = label]

\* The native layer closes the send side of these requests.
CloseSending(S) ==
    tx' = [r \in Requests |-> IF r \in S /\ tx[r] # "fin" THEN "closed" ELSE tx[r]]

-----------------------------------------------------------------------------
(* handleConnection; ids are never reused, so its duplicate check never fails. *)
HandleConnection(c) ==
    /\ link[c] = "new"
    /\ link' = [link EXCEPT ![c] = "open"]
    /\ connections' = connections \cup {c}
    /\ UNCHANGED <<rx, tx, connStreams, streams, readers, committed, pc, body, raw>>

(* handleRequest up to the call of the handler.  A request with a missing     *)
(* pseudo-header or an unsupported CONNECT is answered at once and not kept.  *)
HandleRequest(r) ==
    LET c == ConnectionOf[r] IN
    /\ link[c] = "open" /\ rx[r] = "new"
    /\ c \in connections
    /\ rx' = [rx EXCEPT ![r] = "open"]
    /\ \/ /\ connStreams' = [connStreams EXCEPT ![c] = @ \cup {r}]
          /\ streams' = streams \cup {r}
          /\ Goto(r, "handler")
       \/ Goto(r, "error") /\ UNCHANGED <<connStreams, streams>>
    /\ UNCHANGED <<link, tx, connections, readers, committed, body, raw>>

(* #cancelResponse, #cancelResponsesForConnection and #cancelAllResponses:    *)
(* the readers of these requests leave the map and are cancelled.             *)
CancelResponses(S) ==
    /\ readers' = readers \ S
    /\ source' = [r \in Requests |->
                    IF r \in S \cap readers /\ source[r] = "open" THEN "stopped"
                                                                  ELSE source[r]]
    /\ UNCHANGED <<produced, accepted>>

(* handleRequestEnd, for ordinary requests: the one terminal event of a       *)
(* request.  The native layer has closed the send side of an aborted one.     *)
HandleRequestEnd(r, reason) ==
    LET c == ConnectionOf[r] IN
    /\ link[c] \in {"open", "ended"} /\ rx[r] = "open"
    /\ rx' = [rx EXCEPT ![r] = reason]
    /\ IF r \in streams
       THEN /\ streams' = streams \ {r}
            /\ connStreams' = [connStreams EXCEPT ![c] = @ \ {r}]
       ELSE UNCHANGED <<streams, connStreams>>
    /\ IF reason = "aborted"
       THEN CloseSending({r}) /\ CancelResponses({r})
       ELSE UNCHANGED <<tx, readers, body>>
    /\ UNCHANGED <<link, connections, committed, pc, raw>>

(* Mutant: the streams of the connection stay in #streams. *)
HandleConnectionEndKeepingStreams(c) ==
    /\ link[c] = "open"
    /\ link' = [link EXCEPT ![c] = "ended"]
    /\ CloseSending(Of(c))
    /\ CancelResponses(Of(c))
    /\ connections' = connections \ {c}
    /\ UNCHANGED <<rx, connStreams, streams, committed, pc, raw>>

(* Mutant: the responses of every connection are cancelled. *)
HandleConnectionEndForAll(c) ==
    /\ link[c] = "open"
    /\ link' = [link EXCEPT ![c] = "ended"]
    /\ streams' = IF c \in connections THEN streams \ connStreams[c] ELSE streams
    /\ CloseSending(Of(c))
    /\ CancelResponses(readers)
    /\ connections' = connections \ {c}
    /\ UNCHANGED <<rx, connStreams, committed, pc, raw>>

(* handleConnectionEnd.  The streams map of the Connection object stays.      *)
HandleConnectionEnd(c) ==
    /\ link[c] = "open"
    /\ link' = [link EXCEPT ![c] = "ended"]
    /\ streams' = IF c \in connections THEN streams \ connStreams[c] ELSE streams
    /\ CloseSending(Of(c))
    /\ CancelResponses(Of(c))
    /\ connections' = connections \ {c}
    /\ UNCHANGED <<rx, connStreams, committed, pc, raw>>

(* handleStop: the native server has ended every connection. *)
HandleStop ==
    /\ \E c \in Connections : link[c] # "stopped"
    /\ link' = [c \in Connections |-> "stopped"]
    /\ connStreams' = [c \in Connections |->
                         IF c \in connections THEN {} ELSE connStreams[c]]
    /\ connections' = {} /\ streams' = {}
    /\ CloseSending(Requests)
    /\ CancelResponses(readers)
    /\ UNCHANGED <<rx, committed, pc, raw>>

(* The peer stops reading a response; nothing is reported to JavaScript.      *)
PeerStops(r) ==
    /\ rx[r] # "new" /\ tx[r] \in {"idle", "headers"}
    /\ CloseSending({r})
    /\ UNCHANGED <<link, rx, index, readers, committed, pc, body, raw>>

-----------------------------------------------------------------------------
(* Stream.sendHeaders and Stream.sendData, called by the handler itself.      *)
HandlerSends(r) ==
    /\ pc[r] = "handler"
    /\ \/ tx[r] = "idle" /\ tx' = [tx EXCEPT ![r] = "headers"]
       \/ tx[r] = "headers" /\ tx' = [tx EXCEPT ![r] = "fin"]
    /\ raw' = raw \cup {r}
    /\ UNCHANGED <<link, rx, index, readers, committed, pc, body>>

(* Mutant: the reader is not registered. *)
HandlerReturnsBodyUnregistered(r) ==
    /\ pc[r] = "handler"
    /\ source' = [source EXCEPT ![r] = "open"]
    /\ Goto(r, "headers")
    /\ UNCHANGED <<native, index, readers, committed, produced, accepted, raw>>

(* The handler settles: with a Response that has a body, with one that has    *)
(* none, with something else, or by failing.                                  *)
HandlerReturnsBody(r) ==
    /\ pc[r] = "handler"
    /\ source' = [source EXCEPT ![r] = "open"]
    /\ readers' = readers \cup {r}
    /\ Goto(r, "headers")
    /\ UNCHANGED <<native, index, committed, produced, accepted, raw>>

HandlerReturns(r) ==
    /\ pc[r] = "handler"
    /\ \E label \in {"short", "done", "error"} : Goto(r, label)
    /\ UNCHANGED <<native, index, readers, committed, body, raw>>

(* A Response without a body: headers and FIN in one native call.             *)
ShortSettles(r) ==
    /\ pc[r] = "short"
    /\ \/ /\ tx[r] = "idle"
          /\ tx' = [tx EXCEPT ![r] = "fin"]
          /\ Goto(r, "done")
       \/ Goto(r, "error") /\ UNCHANGED tx
    /\ UNCHANGED <<link, rx, index, readers, committed, body, raw>>

(* The catch of #sendResponse, up to its await of reader.cancel.              *)
Fail(r) ==
    /\ source' = [source EXCEPT ![r] = IF @ = "open" THEN "stopped" ELSE @]
    /\ Goto(r, "cancelling")

(* Mutant: the response is not marked as committed. *)
HeadersSettleUncommitted(r) ==
    /\ pc[r] = "headers"
    /\ \/ /\ tx[r] = "idle"
          /\ tx' = [tx EXCEPT ![r] = "headers"]
          /\ Goto(r, "reading")
          /\ UNCHANGED <<source, committed>>
       \/ Fail(r) /\ UNCHANGED <<tx, committed>>
    /\ UNCHANGED <<link, rx, index, readers, produced, accepted, raw>>

(* The native layer accepts the headers, refuses them or throws. *)
HeadersSettle(r) ==
    /\ pc[r] = "headers"
    /\ \/ /\ tx[r] = "idle"
          /\ tx' = [tx EXCEPT ![r] = "headers"]
          /\ committed' = committed \cup {r}
          /\ Goto(r, "reading")
          /\ UNCHANGED source
       \/ Fail(r) /\ UNCHANGED <<tx, committed>>
    /\ UNCHANGED <<link, rx, index, readers, produced, accepted, raw>>

(* reader.read() settles: with a chunk, with the end, which a cancelled       *)
(* reader reports too, or with an error or a chunk of another type.           *)
ReadSettles(r) ==
    /\ pc[r] = "reading"
    /\ \/ /\ source[r] = "open" /\ produced[r] < MaxChunks
          /\ produced' = [produced EXCEPT ![r] = @ + 1]
          /\ Goto(r, "sending")
          /\ UNCHANGED source
       \/ /\ source[r] = "open"
          /\ source' = [source EXCEPT ![r] = "exhausted"]
          /\ Goto(r, "finishing")
          /\ UNCHANGED produced
       \/ source[r] = "stopped" /\ Goto(r, "finishing") /\ UNCHANGED <<source, produced>>
       \/ source[r] = "open" /\ Fail(r) /\ UNCHANGED produced
    /\ UNCHANGED <<native, index, readers, committed, accepted, raw>>

(* Mutant: an accepted chunk is sent again. *)
SendSettlesTwice(r) ==
    /\ pc[r] = "sending"
    /\ \/ /\ tx[r] = "headers"
          /\ accepted' = [accepted EXCEPT ![r] = @ + 1]
          /\ UNCHANGED <<source, pc>>
       \/ Fail(r) /\ UNCHANGED accepted
    /\ UNCHANGED <<native, index, readers, committed, produced, raw>>

(* sendData of a chunk settles; a full queue or a closed stream refuses it.   *)
SendSettles(r) ==
    /\ pc[r] = "sending"
    /\ \/ /\ tx[r] = "headers"
          /\ accepted' = [accepted EXCEPT ![r] = @ + 1]
          /\ Goto(r, "reading")
          /\ UNCHANGED source
       \/ Fail(r) /\ UNCHANGED accepted
    /\ UNCHANGED <<native, index, readers, committed, produced, raw>>

(* sendData of the FIN settles; when it is accepted the response is over.     *)
FinSettles(r) ==
    /\ pc[r] = "finishing"
    /\ \/ /\ tx[r] = "headers"
          /\ tx' = [tx EXCEPT ![r] = "fin"]
          /\ readers' = readers \ {r}
          /\ committed' = committed \ {r}
          /\ Goto(r, "done")
          /\ UNCHANGED source
       \/ Fail(r) /\ UNCHANGED <<tx, readers, committed>>
    /\ UNCHANGED <<link, rx, index, produced, accepted, raw>>

(* reader.cancel() settles: the finally of #sendResponse, then the catch of   *)
(* #handleRequest, which answers 500 unless the headers are out.              *)
CancelSettles(r) ==
    /\ pc[r] = "cancelling"
    /\ readers' = readers \ {r}
    /\ committed' = committed \ {r}
    /\ Goto(r, IF r \in committed THEN "done" ELSE "error")
    /\ UNCHANGED <<native, index, body, raw>>

(* sendHeadersBestEffort of an error status, with FIN. *)
ErrorSettles(r) ==
    /\ pc[r] = "error"
    /\ \/ tx[r] = "idle" /\ tx' = [tx EXCEPT ![r] = "fin"]
       \/ UNCHANGED tx
    /\ Goto(r, "done")
    /\ UNCHANGED <<link, rx, index, readers, committed, body, raw>>

-----------------------------------------------------------------------------
SendResponse(r) ==
    \/ HeadersSettle(r) \/ ReadSettles(r) \/ SendSettles(r) \/ FinSettles(r)
    \/ CancelSettles(r)

Next ==
    \/ \E c \in Connections : HandleConnection(c) \/ HandleConnectionEnd(c)
    \/ HandleStop
    \/ \E r \in Requests :
         \/ HandleRequest(r)
         \/ \E reason \in {"finished", "aborted"} : HandleRequestEnd(r, reason)
         \/ PeerStops(r)
         \/ HandlerSends(r) \/ HandlerReturnsBody(r) \/ HandlerReturns(r)
         \/ ShortSettles(r) \/ SendResponse(r) \/ ErrorSettles(r)

Spec == Init /\ [][Next]_vars

(* Sends on an ended stream settle, a cancelled reader reports its end, and   *)
(* cancelling a source settles.  Nothing is assumed of handlers, of open      *)
(* sources, or of a peer that does not read.                                  *)
Settles(r) ==
    \/ /\ tx[r] \in {"fin", "closed"}
       /\ \/ HeadersSettle(r) \/ SendSettles(r) \/ FinSettles(r)
          \/ ShortSettles(r) \/ ErrorSettles(r)
    \/ source[r] # "open" /\ ReadSettles(r)
    \/ CancelSettles(r)

FairSpec == Spec /\ \A r \in Requests : WF_vars(Settles(r))

-----------------------------------------------------------------------------
TypeOK ==
    /\ link \in [Connections -> {"new", "open", "ended", "stopped"}]
    /\ rx \in [Requests -> {"new", "open", "finished", "aborted"}]
    /\ tx \in [Requests -> {"idle", "headers", "fin", "closed"}]
    /\ connections \subseteq Connections
    /\ connStreams \in [Connections -> SUBSET Requests]
    /\ streams \subseteq Requests
    /\ readers \subseteq Requests /\ committed \subseteq Requests
    /\ raw \subseteq Requests
    /\ pc \in [Requests -> {"new", "handler", "short", "error", "done"} \cup InResponse]
    /\ source \in [Requests -> {"none", "open", "exhausted", "stopped"}]
    /\ produced \in [Requests -> 0 .. MaxChunks]
    /\ accepted \in [Requests -> 0 .. MaxChunks]

(* The server-wide index holds exactly the streams of the live connections,   *)
(* although both are updated by four callbacks.                               *)
IndexesAgree == streams = UNION {connStreams[c] : c \in connections}

(* A source that is still open can be cancelled: its reader is in the map.    *)
(* Otherwise nobody could stop it when its client goes away.                  *)
OpenSourceIsCancellable == \A r \in Requests : source[r] = "open" => r \in readers

(* Nothing is left behind: the maps hold only responses that are being sent.  *)
MapsAreCurrent ==
    /\ \A r \in readers : pc[r] \in InResponse
    /\ \A r \in committed : pc[r] \in Sending \cup {"cancelling"}

(* A response that reaches its FIN is whole: no chunk was refused, and the    *)
(* end that a cancelled reader reports is not passed on as the end of the body. *)
FinIsComplete ==
    [][\A r \in Requests \ raw : tx[r] = "headers" /\ tx'[r] = "fin" =>
          source[r] = "exhausted" /\ accepted[r] = produced[r]]_vars

(* No error response follows response headers that are out. *)
ErrorComesFirst ==
    \A r \in Requests : pc[r] = "error" /\ r \notin raw => tx[r] # "headers"

(* The client of this request is gone, and JavaScript has been told. *)
Told(r) == rx[r] = "aborted" \/ link[ConnectionOf[r]] \in {"ended", "stopped"}

(* When the client or the connection is gone, sending a response ends, even   *)
(* if its source never produces anything again.                               *)
GoneResponseEnds ==
    \A r \in Requests : (pc[r] \in InResponse /\ Told(r)) ~> pc[r] = "done"

(* The promise of a streamed response is implemented. *)
Wire == [r \in Requests |->
    CASE tx[r] = "idle" -> "none" [] tx[r] = "headers" -> "streaming"
      [] tx[r] = "fin" -> "complete" [] tx[r] = "closed" -> "gone"]

Response == INSTANCE StreamedResponse WITH wire <- Wire

ImplementsStreamedResponse == Response!Safety
=============================================================================
