---------------------------- MODULE HTTP3Sessions ----------------------------
(***************************************************************************)
(* WebTransport sessions and their streams in packages/server/             *)
(* HTTP3Server.js: the index of both, the decision of the application,     *)
(* which is awaited while the session may end, and the answer to the       *)
(* extended CONNECT request.                                               *)
(*                                                                         *)
(* An action is one turn of the event loop.  pc[s] is the await at which   *)
(* #handleSession(s) stands.  Received data is the subject of              *)
(* ReceiveDelivery, the body of a refusal that of HTTP3Requests.           *)
(***************************************************************************)
EXTENDS Naturals, FiniteSets

CONSTANTS
    Connections,    \* native connection ids, never reused
    Sessions,       \* ids of extended CONNECT requests, never reused
    Streams,        \* ids of client-created streams, never reused
    ConnectionOf,   \* the connection of every session
    SessionOf       \* the session of every stream

ASSUME SessionsAssumption ==
    /\ ConnectionOf \in [Sessions -> Connections]
    /\ SessionOf \in [Streams -> Sessions]

VARIABLES
    \* The native layer (external).
    link,           \* connections: "new", "open", "ended", "stopped"
    rx,             \* CONNECT requests: "new", "open", "finished", "aborted"
    tx,             \* their answers: "idle", "accepted" (2xx), "refusing" (another
                    \* status and a body), "fin", "closed"
    wt,             \* streams: "new", "open", "ended"
    \* HTTP3Server.
    connections,    \* #connections
    connSessions,   \* the sessions map of every Connection object
    sessions,       \* #sessions
    sessStreams,    \* the streams map of every WebTransportSession object
    wtStreams,      \* #webTransportStreams
    committed,      \* #responseCommitted
    pc,             \* the await of #handleSession; "accepted" or "closed" at its end
    \* History.
    orphans,        \* sessions that ended before they were decided
    shown, reported \* streams given to webTransportStream, webTransportStreamEnd

native == <<link, rx, tx, wt>>
index == <<connections, connSessions, sessions, sessStreams, wtStreams>>
told == <<shown, reported>>
vars == <<link, rx, tx, wt, connections, connSessions, sessions, sessStreams, wtStreams,
          committed, pc, orphans, shown, reported>>

\* The session handler or the answer it asked for is awaited.
Undecided == {"handler", "forbidding", "responding", "streaming", "cancelling",
              "accepting", "failing"}

Init ==
    /\ link = [c \in Connections |-> "new"]
    /\ rx = [s \in Sessions |-> "new"]
    /\ tx = [s \in Sessions |-> "idle"]
    /\ wt = [w \in Streams |-> "new"]
    /\ connections = {} /\ sessions = {} /\ wtStreams = {} /\ committed = {}
    /\ connSessions = [c \in Connections |-> {}]
    /\ sessStreams = [s \in Sessions |-> {}]
    /\ pc = [s \in Sessions |-> "new"]
    /\ orphans = {} /\ shown = {} /\ reported = {}

Of(c) == {s \in Sessions : ConnectionOf[s] = c}
StreamsOf(S) == UNION {sessStreams[s] : s \in S}
Goto(s, label) == pc' = [pc EXCEPT ![s] = label]
Answer(s, answer) == tx' = [tx EXCEPT ![s] = answer]

\* The native layer closes the send side of these requests.
CloseSending(S) ==
    tx' = [s \in Sessions |-> IF s \in S /\ tx[s] # "fin" THEN "closed" ELSE tx[s]]

\* These sessions end, decided or not.
Ending(S) == orphans' = orphans \cup {s \in S : pc[s] \in Undecided}

-----------------------------------------------------------------------------
(* Mutant: the streams of every session are dropped. *)
DeleteSessionWithAllStreams(s) ==
    /\ wtStreams' = {}
    /\ sessions' = sessions \ {s}
    /\ committed' = committed \ {s}
    /\ connSessions' = [connSessions EXCEPT ![ConnectionOf[s]] = @ \ {s}]
    /\ UNCHANGED <<connections, sessStreams>>

(* #deleteSession.  The map of the session object itself is left as it is.    *)
DeleteSession(s) ==
    /\ wtStreams' = wtStreams \ sessStreams[s]
    /\ sessions' = sessions \ {s}
    /\ committed' = committed \ {s}
    /\ connSessions' = [connSessions EXCEPT ![ConnectionOf[s]] = @ \ {s}]
    /\ UNCHANGED <<connections, sessStreams>>

(* handleConnection. *)
HandleConnection(c) ==
    /\ link[c] = "new"
    /\ link' = [link EXCEPT ![c] = "open"]
    /\ connections' = connections \cup {c}
    /\ UNCHANGED <<rx, tx, wt, connSessions, sessions, sessStreams, wtStreams, committed,
                   pc, orphans, told>>

(* Mutant: a second session is let in. *)
HandleSessionUnlimited(s) ==
    LET c == ConnectionOf[s] IN
    /\ link[c] = "open" /\ rx[s] = "new"
    /\ c \in connections
    /\ rx' = [rx EXCEPT ![s] = "open"]
    /\ connSessions' = [connSessions EXCEPT ![c] = @ \cup {s}]
    /\ sessions' = sessions \cup {s}
    /\ Goto(s, "handler")
    /\ UNCHANGED <<link, tx, wt, connections, sessStreams, wtStreams, committed, orphans, told>>

(* handleSession up to the call of the application's handler.  Without a      *)
(* handler, and for a second session of its connection, the request is        *)
(* refused and not kept.                                                     *)
HandleSession(s) ==
    LET c == ConnectionOf[s] IN
    /\ link[c] = "open" /\ rx[s] = "new"
    /\ c \in connections
    /\ rx' = [rx EXCEPT ![s] = "open"]
    /\ \/ /\ connSessions[c] = {}
          /\ connSessions' = [connSessions EXCEPT ![c] = @ \cup {s}]
          /\ sessions' = sessions \cup {s}
          /\ Goto(s, "handler")
       \/ Goto(s, "turned away") /\ UNCHANGED <<connSessions, sessions>>
    /\ UNCHANGED <<link, tx, wt, connections, sessStreams, wtStreams, committed, orphans, told>>

(* The answer 403 or 429 with FIN, which nobody awaits. *)
TurnAway(s) ==
    /\ pc[s] = "turned away"
    /\ \/ tx[s] = "idle" /\ Answer(s, "fin")
       \/ UNCHANGED tx
    /\ Goto(s, "closed")
    /\ UNCHANGED <<link, rx, wt, index, committed, orphans, told>>

-----------------------------------------------------------------------------
(* The session handler settles: it answers false, with a Response of another  *)
(* status than 2xx, with anything else, or it fails.                          *)
SessionDecides(s) ==
    /\ pc[s] = "handler"
    /\ \E label \in {"forbidding", "responding", "accepting", "failing"} : Goto(s, label)
    /\ UNCHANGED <<native, index, committed, orphans, told>>

(* #rejectSession up to its await: an error answer, unless headers are out.   *)
RejectSession(s) ==
    IF s \in committed THEN DeleteSession(s) /\ Goto(s, "closed")
                       ELSE Goto(s, "failing") /\ UNCHANGED <<index, committed>>

(* Mutant: a refusal that throws is not caught. *)
ForbidSettlesUncaught(s) ==
    /\ pc[s] = "forbidding"
    /\ \/ /\ \/ tx[s] = "idle" /\ Answer(s, "fin")
             \/ UNCHANGED tx
          /\ DeleteSession(s)
       \/ UNCHANGED <<tx, index, committed>>
    /\ Goto(s, "closed")
    /\ UNCHANGED <<link, rx, wt, orphans, told>>

(* The answer 403 is taken, refused, or it throws. *)
ForbidSettles(s) ==
    /\ pc[s] = "forbidding"
    /\ \/ /\ \/ tx[s] = "idle" /\ Answer(s, "fin")
             \/ UNCHANGED tx
          /\ DeleteSession(s)
          /\ Goto(s, "closed")
       \/ RejectSession(s) /\ UNCHANGED tx
    /\ UNCHANGED <<link, rx, wt, orphans, told>>

(* Mutant: headers that are out are not marked. *)
RefusalHeadersSettleUnmarked(s) ==
    /\ pc[s] = "responding"
    /\ \/ /\ tx[s] = "idle" /\ Answer(s, "refusing")
          /\ Goto(s, "streaming")
       \/ Goto(s, "cancelling") /\ UNCHANGED tx
    /\ UNCHANGED <<link, rx, wt, index, committed, orphans, told>>

(* The headers of a refusal settle in #sendResponse: with FIN, or before a    *)
(* body, or they are not taken.                                              *)
RefusalHeadersSettle(s) ==
    /\ pc[s] = "responding"
    /\ \/ /\ tx[s] = "idle" /\ Answer(s, "fin")
          /\ DeleteSession(s)
          /\ Goto(s, "closed")
       \/ /\ tx[s] = "idle" /\ Answer(s, "refusing")
          /\ committed' = committed \cup {s}
          /\ Goto(s, "streaming")
          /\ UNCHANGED index
       \/ Goto(s, "cancelling") /\ UNCHANGED <<tx, index, committed>>
       \/ RejectSession(s) /\ UNCHANGED tx
    /\ UNCHANGED <<link, rx, wt, orphans, told>>

(* The body of a refusal ends with a FIN, or it fails. *)
RefusalBodySettles(s) ==
    /\ pc[s] = "streaming"
    /\ \/ /\ tx[s] = "refusing" /\ Answer(s, "fin")
          /\ DeleteSession(s)
          /\ Goto(s, "closed")
       \/ Goto(s, "cancelling") /\ UNCHANGED <<tx, index, committed>>
    /\ UNCHANGED <<link, rx, wt, orphans, told>>

(* reader.cancel of a refusal that failed settles. *)
CancelSettles(s) ==
    /\ pc[s] = "cancelling"
    /\ RejectSession(s)
    /\ UNCHANGED <<native, orphans, told>>

(* The headers that accept the session settle. *)
AcceptSettles(s) ==
    /\ pc[s] = "accepting"
    /\ \/ /\ tx[s] = "idle" /\ Answer(s, "accepted")
          /\ committed' = committed \cup {s}
          /\ Goto(s, "accepted")
          /\ UNCHANGED index
       \/ RejectSession(s) /\ UNCHANGED tx
    /\ UNCHANGED <<link, rx, wt, orphans, told>>

(* The error answer of #rejectSession settles. *)
FailingSettles(s) ==
    /\ pc[s] = "failing"
    /\ \/ tx[s] = "idle" /\ Answer(s, "fin")
       \/ UNCHANGED tx
    /\ DeleteSession(s)
    /\ Goto(s, "closed")
    /\ UNCHANGED <<link, rx, wt, orphans, told>>

-----------------------------------------------------------------------------
(* handleWebTransportStream, with the microtask that calls the application.   *)
HandleWebTransportStream(w) ==
    LET s == SessionOf[w] IN
    /\ link[ConnectionOf[s]] = "open" /\ rx[s] # "new" /\ wt[w] = "new"
    /\ wt' = [wt EXCEPT ![w] = "open"]
    /\ IF s \in sessions
       THEN /\ sessStreams' = [sessStreams EXCEPT ![s] = @ \cup {w}]
            /\ wtStreams' = wtStreams \cup {w}
            /\ shown' = shown \cup {w}
       ELSE UNCHANGED <<sessStreams, wtStreams, shown>>
    /\ UNCHANGED <<link, rx, tx, connections, connSessions, sessions, committed, pc, orphans,
                   reported>>

(* Mutant: an end is reported without looking the stream up. *)
HandleWebTransportStreamEndUnchecked(w) ==
    LET s == SessionOf[w] IN
    /\ link[ConnectionOf[s]] \in {"open", "ended"} /\ wt[w] = "open"
    /\ wt' = [wt EXCEPT ![w] = "ended"]
    /\ wtStreams' = wtStreams \ {w}
    /\ sessStreams' = [sessStreams EXCEPT ![s] = @ \ {w}]
    /\ reported' = reported \cup {w}
    /\ UNCHANGED <<link, rx, tx, connections, connSessions, sessions, committed, pc, orphans,
                   shown>>

(* handleWebTransportStreamEnd: the one terminal event of a stream. *)
HandleWebTransportStreamEnd(w) ==
    LET s == SessionOf[w] IN
    /\ link[ConnectionOf[s]] \in {"open", "ended"} /\ wt[w] = "open"
    /\ wt' = [wt EXCEPT ![w] = "ended"]
    /\ IF w \in wtStreams
       THEN /\ wtStreams' = wtStreams \ {w}
            /\ sessStreams' = [sessStreams EXCEPT ![s] = @ \ {w}]
            /\ reported' = reported \cup {w}
       ELSE UNCHANGED <<wtStreams, sessStreams, reported>>
    /\ UNCHANGED <<link, rx, tx, connections, connSessions, sessions, committed, pc, orphans,
                   shown>>

(* handleRequestEnd, for the request of a session: its one terminal event.    *)
HandleSessionEnd(s, reason) ==
    /\ link[ConnectionOf[s]] \in {"open", "ended"} /\ rx[s] = "open"
    /\ rx' = [rx EXCEPT ![s] = reason]
    /\ IF reason = "aborted" THEN CloseSending({s}) ELSE UNCHANGED tx
    /\ IF s \in sessions THEN DeleteSession(s) ELSE UNCHANGED <<index, committed>>
    /\ Ending({s})
    /\ UNCHANGED <<link, wt, pc, told>>

(* Mutant: the streams of the sessions stay. *)
HandleConnectionEndKeepingStreams(c) ==
    /\ link[c] = "open"
    /\ link' = [link EXCEPT ![c] = "ended"]
    /\ CloseSending(Of(c))
    /\ sessions' = IF c \in connections THEN sessions \ connSessions[c] ELSE sessions
    /\ connections' = connections \ {c}
    /\ Ending(Of(c))
    /\ UNCHANGED <<rx, wt, connSessions, sessStreams, wtStreams, committed, pc, told>>

(* handleConnectionEnd.  #responseCommitted keeps the ids of its sessions.    *)
HandleConnectionEnd(c) ==
    /\ link[c] = "open"
    /\ link' = [link EXCEPT ![c] = "ended"]
    /\ CloseSending(Of(c))
    /\ IF c \in connections
       THEN /\ wtStreams' = wtStreams \ StreamsOf(connSessions[c])
            /\ sessions' = sessions \ connSessions[c]
       ELSE UNCHANGED <<wtStreams, sessions>>
    /\ connections' = connections \ {c}
    /\ Ending(Of(c))
    /\ UNCHANGED <<rx, wt, connSessions, sessStreams, committed, pc, told>>

(* handleStop: the native server has ended every connection. *)
HandleStop ==
    /\ \E c \in Connections : link[c] # "stopped"
    /\ link' = [c \in Connections |-> "stopped"]
    /\ CloseSending(Sessions)
    /\ connSessions' = [c \in Connections |->
                          IF c \in connections THEN {} ELSE connSessions[c]]
    /\ connections' = {} /\ sessions' = {} /\ wtStreams' = {}
    /\ Ending(Sessions)
    /\ UNCHANGED <<rx, wt, sessStreams, committed, pc, told>>

-----------------------------------------------------------------------------
Decision(s) ==
    \/ SessionDecides(s) \/ ForbidSettles(s) \/ RefusalHeadersSettle(s)
    \/ RefusalBodySettles(s) \/ CancelSettles(s) \/ AcceptSettles(s) \/ FailingSettles(s)

Next ==
    \/ \E c \in Connections : HandleConnection(c) \/ HandleConnectionEnd(c)
    \/ HandleStop
    \/ \E s \in Sessions :
         \/ HandleSession(s) \/ TurnAway(s) \/ Decision(s)
         \/ \E reason \in {"finished", "aborted"} : HandleSessionEnd(s, reason)
    \/ \E w \in Streams : HandleWebTransportStream(w) \/ HandleWebTransportStreamEnd(w)

Spec == Init /\ [][Next]_vars

(* Sends of headers settle.  Nothing is assumed of handlers and bodies.       *)
FairSpec == Spec /\ \A s \in Sessions : WF_vars(ForbidSettles(s)) /\ WF_vars(FailingSettles(s))

-----------------------------------------------------------------------------
TypeOK ==
    /\ link \in [Connections -> {"new", "open", "ended", "stopped"}]
    /\ rx \in [Sessions -> {"new", "open", "finished", "aborted"}]
    /\ tx \in [Sessions -> {"idle", "accepted", "refusing", "fin", "closed"}]
    /\ wt \in [Streams -> {"new", "open", "ended"}]
    /\ connections \subseteq Connections
    /\ connSessions \in [Connections -> SUBSET Sessions]
    /\ sessions \subseteq Sessions
    /\ sessStreams \in [Sessions -> SUBSET Streams]
    /\ wtStreams \subseteq Streams
    /\ committed \subseteq Sessions /\ orphans \subseteq Sessions
    /\ pc \in [Sessions -> {"new", "turned away", "accepted", "closed"} \cup Undecided]
    /\ reported \subseteq shown /\ shown \subseteq Streams

(* The indexes of the server hold exactly the sessions of live connections    *)
(* and the streams of live sessions: nothing is leaked or routed to a session *)
(* that is gone, whatever the order of the six callbacks.                     *)
SessionIndexesAgree ==
    /\ sessions = UNION {connSessions[c] : c \in connections}
    /\ wtStreams = StreamsOf(sessions)

(* #responseCommitted says what was sent.  No error answer follows the headers *)
(* of a session, unless it ended before it was decided and #deleteSession     *)
(* dropped the mark under #sendResponse; and a mark belongs to a session that *)
(* is there, but for those and the ones that ended with their connection.     *)
MarksAreTrue ==
    /\ \A s \in Sessions : pc[s] = "failing" /\ tx[s] \in {"accepted", "refusing"} => s \in orphans
    /\ \A s \in committed : s \in sessions \cup orphans \/ link[ConnectionOf[s]] # "open"

(* "one WebTransport session per QUIC connection" (line 185): two sessions of *)
(* a connection are accepted only when the client has ended one of them.      *)
OneSessionAccepted ==
    \A s, t \in Sessions :
        s # t /\ ConnectionOf[s] = ConnectionOf[t] /\ tx[s] = "accepted" /\ tx[t] = "accepted"
        => rx[s] = "finished" \/ rx[t] = "finished"

(* The end of a stream the application knows is reported, unless its session  *)
(* is already gone.                                                          *)
StreamEndIsReported ==
    \A w \in shown : wt[w] = "ended" => w \in reported \/ SessionOf[w] \notin sessions

(* A session that is refused frees its connection, whatever the native layer  *)
(* makes of the answer.                                                      *)
RefusalFreesConnection ==
    \A s \in Sessions :
        pc[s] \in {"forbidding", "failing"} ~> s \notin connSessions[ConnectionOf[s]]
=============================================================================
