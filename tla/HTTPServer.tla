------------------------------ MODULE HTTPServer ------------------------------
(***************************************************************************)
(* start, stop and #closeTCP of packages/server/HTTPServer.js, which runs  *)
(* a TCP listener for HTTP/1.1 and HTTP/2 and an HTTP3Server on one port.  *)
(*                                                                         *)
(* startAt and stopAt are the awaits at which the two calls stand.  The    *)
(* application may call stop() at any of them.                             *)
(***************************************************************************)
CONSTANTS
    Clients,        \* TCP connections, never reused
    LookupOutcomes  \* a listener that is closed while it looks up its host name
                    \* gives up ("closed") or goes on ("opening")

ASSUME ServerAssumption == LookupOutcomes \subseteq {"closed", "opening"}

VARIABLES
    \* HTTPServer.
    state,          \* #state
    tcp,            \* #tcp is set
    endpoint,       \* #address and #port are set
    startAt,        \* "new", "reading", "listening", "http3", "cleanup", and
                    \* "resolved" or "rejected"
    stopAt,         \* "new", "draining" (its #closeTCP waits), "waiting" (for
                    \* HTTP3Server only), "done"
    graceTimer,     \* the timer of #closeTCP is armed
    sockets,        \* #sockets
    sessions,       \* #sessions
    \* External: the Node.js server, its connections, and HTTP3Server.
    listener,       \* "none", "opening", "open", "closing", "closed"
    clients,        \* connections: "new", "tls", "http1", "http2", "closed"
    destroyed,      \* connections that were destroyed
    http3,          \* "new", "starting", "running", "draining", "stopped"
    \* History.
    raced           \* stop() was called while start() was pending

vars == <<state, tcp, endpoint, startAt, stopAt, graceTimer, sockets, sessions,
          listener, clients, destroyed, http3, raced>>
peers == <<sockets, sessions, clients>>

Init ==
    /\ state = "new" /\ tcp = FALSE /\ endpoint = FALSE
    /\ startAt = "new" /\ stopAt = "new" /\ graceTimer = FALSE
    /\ sockets = {} /\ sessions = {}
    /\ listener = "none" /\ http3 = "new" /\ raced = FALSE
    /\ clients = [c \in Clients |-> "new"]
    /\ destroyed = {}

StartPending == startAt \in {"reading", "listening", "http3", "cleanup"}
Live == {c \in Clients : clients[c] \in {"tls", "http1", "http2"}}

-----------------------------------------------------------------------------
(* tcp.close(): the listener stops accepting.  One that is still looking up   *)
(* its host name reports its close at once.                                  *)
CloseListener ==
    listener' \in CASE listener = "open"    -> {"closing"}
                    [] listener = "opening" -> LookupOutcomes
                    [] OTHER                -> {listener}

(* Mutant: the sockets that carry no HTTP/2 session are left alone. *)
DestroySessions == destroyed' = destroyed \cup sessions

(* Every session and socket is destroyed. *)
DestroyAll == destroyed' = destroyed \cup sessions \cup sockets

(* HTTP3Server.start, called once here: the limits are checked, the promise  *)
(* is stored and the native layer told to listen.  After a stop, or when the *)
(* configuration is refused, the promise is rejected at once instead.        *)
StartHTTP3 == http3 = "new" /\ http3' = "starting"

(* The native start event, which settles the promise of HTTP3Server.start; it *)
(* may be queued already when stop() is called.                              *)
HTTP3Reports ==
    /\ http3 \in {"starting", "draining"}
    /\ http3' = IF http3 = "starting" THEN "running" ELSE http3

(* HTTP3Server.stop: the native layer drains, if it was ever started. *)
StopHTTP3 == http3' = IF http3 = "new" THEN "stopped" ELSE "draining"

(* #closeTCP(0) up to its await. *)
CloseTCPNow ==
    /\ tcp' = FALSE
    /\ IF tcp THEN CloseListener /\ DestroyAll ELSE UNCHANGED <<listener, destroyed>>

(* #closeTCP with a grace period up to its first await. *)
CloseTCPGracefully ==
    /\ tcp' = FALSE
    /\ graceTimer' = (tcp /\ listener = "open")
    /\ IF tcp THEN CloseListener ELSE UNCHANGED listener
    /\ UNCHANGED destroyed

Start ==
    /\ state = "new"
    /\ state' = "starting"
    /\ startAt' = "reading"
    /\ UNCHANGED <<tcp, endpoint, stopAt, graceTimer, peers, listener, destroyed, http3, raced>>

(* Mutant: the listener of a failed start stays. *)
AbandonOpen ==
    /\ state' = "stopped"
    /\ startAt' = "rejected"
    /\ UNCHANGED <<tcp, listener, destroyed>>

(* The catch of start. *)
Abandon ==
    /\ state' = "stopped"
    /\ startAt' = IF tcp THEN "cleanup" ELSE "rejected"
    /\ CloseTCPNow

(* The certificate files are read and the TCP server is created, or not. *)
FilesRead ==
    /\ startAt = "reading"
    /\ \/ /\ tcp' = TRUE
          /\ listener' = "opening"
          /\ startAt' = "listening"
          /\ UNCHANGED <<state, destroyed>>
       \/ Abandon
    /\ UNCHANGED <<endpoint, stopAt, graceTimer, peers, http3, raced>>

(* The listener binds its port, or fails, for instance because it is in use.  *)
ListenerOpens ==
    /\ listener = "opening"
    /\ listener' = "open"
    /\ UNCHANGED <<state, tcp, endpoint, startAt, stopAt, graceTimer, peers, destroyed,
                   http3, raced>>

ListenFails ==
    /\ startAt = "listening" /\ listener = "opening"
    /\ state' = "stopped" /\ startAt' = "cleanup"
    /\ tcp' = FALSE
    /\ listener' = "closed"
    /\ UNCHANGED <<endpoint, stopAt, graceTimer, peers, destroyed, http3, raced>>

(* The listening event, and the call of HTTP3Server.start, which fails after  *)
(* a stop and for a configuration that it or the native layer refuses.        *)
Listening ==
    /\ startAt = "listening" /\ listener = "open"
    /\ \/ /\ StartHTTP3
          /\ startAt' = "http3"
          /\ UNCHANGED <<state, tcp, listener, destroyed>>
       \/ Abandon /\ UNCHANGED http3
    /\ UNCHANGED <<endpoint, stopAt, graceTimer, peers, raced>>

(* stop closes the listener between its listening event and the step of start *)
(* that awaits it: address() is null by then, and start gives up.  Whether    *)
(* the event was still sent is not known here, so nothing forces the step.    *)
ListeningTooLate ==
    /\ startAt = "listening" /\ raced /\ listener = "closing"
    /\ Abandon
    /\ UNCHANGED <<endpoint, stopAt, graceTimer, peers, http3, raced>>

(* Mutant: the start event does not settle the promise of start. *)
HTTP3StartsSilently ==
    /\ startAt = "http3" /\ HTTP3Reports
    /\ UNCHANGED <<state, startAt, tcp, endpoint, stopAt, graceTimer, peers, listener,
                   destroyed, raced>>

(* The native start event and the rest of start. *)
HTTP3Starts ==
    /\ startAt = "http3" /\ HTTP3Reports
    /\ endpoint' = TRUE
    /\ state' = "started"
    /\ startAt' = "resolved"
    /\ UNCHANGED <<tcp, stopAt, graceTimer, peers, listener, destroyed, raced>>

(* #closeTCP(0) of a failed start settles. *)
CleanupSettles ==
    /\ startAt = "cleanup" /\ listener # "closing"
    /\ startAt' = "rejected"
    /\ UNCHANGED <<state, tcp, endpoint, stopAt, graceTimer, peers, listener, destroyed,
                   http3, raced>>

-----------------------------------------------------------------------------
(* stop, with or without a grace period; later calls return the same promise. *)
Stop ==
    /\ stopAt = "new"
    /\ state' = "stopped"
    /\ endpoint' = FALSE
    /\ StopHTTP3
    /\ stopAt' = IF tcp /\ listener = "open" THEN "draining" ELSE "waiting"
    /\ \/ CloseTCPGracefully
       \/ CloseTCPNow /\ UNCHANGED graceTimer
    /\ raced' = StartPending
    /\ UNCHANGED <<startAt, peers>>

(* The grace period expires. *)
GraceExpires ==
    /\ graceTimer
    /\ graceTimer' = FALSE
    /\ DestroyAll
    /\ UNCHANGED <<state, tcp, endpoint, startAt, stopAt, peers, listener, http3, raced>>

(* The close event of the listener, which ends the waits of #closeTCP. *)
ListenerCloses ==
    /\ listener = "closing" /\ Live = {}
    /\ listener' = "closed"
    /\ graceTimer' = FALSE
    /\ stopAt' = IF stopAt = "draining" THEN "waiting" ELSE stopAt
    /\ UNCHANGED <<state, tcp, endpoint, startAt, peers, destroyed, http3, raced>>

(* Mutant: stop does not wait for the TCP side. *)
StopSettlesEarly ==
    /\ stopAt \in {"draining", "waiting"} /\ http3 = "stopped"
    /\ stopAt' = "done"
    /\ UNCHANGED <<state, tcp, endpoint, startAt, graceTimer, peers, listener, destroyed,
                   http3, raced>>

(* Both sides have stopped. *)
StopSettles ==
    /\ stopAt = "waiting" /\ http3 = "stopped"
    /\ stopAt' = "done"
    /\ UNCHANGED <<state, tcp, endpoint, startAt, graceTimer, peers, listener, destroyed,
                   http3, raced>>

-----------------------------------------------------------------------------
(* HTTP3Server.stop settles within its own grace period. *)
HTTP3Stops ==
    /\ http3 = "draining"
    /\ http3' = "stopped"
    /\ UNCHANGED <<state, tcp, endpoint, startAt, stopAt, graceTimer, peers, listener,
                   destroyed, raced>>

(* The connection event: the set #sockets holds every TCP connection ...       *)
Connects(c) ==
    /\ listener = "open" /\ clients[c] = "new"
    /\ clients' = [clients EXCEPT ![c] = "tls"]
    /\ sockets' = sockets \cup {c}
    /\ UNCHANGED sessions

(* ... and #sessions the HTTP/2 sessions among them ...                       *)
Negotiates(c) ==
    /\ clients[c] = "tls" /\ c \notin destroyed
    /\ \/ /\ clients' = [clients EXCEPT ![c] = "http2"]
          /\ sessions' = sessions \cup {c}
       \/ /\ clients' = [clients EXCEPT ![c] = "http1"]
          /\ UNCHANGED sessions
    /\ UNCHANGED sockets

(* ... until they close. *)
Leaves(c) ==
    /\ c \in Live
    /\ clients' = [clients EXCEPT ![c] = "closed"]
    /\ sockets' = sockets \ {c}
    /\ sessions' = sessions \ {c}

ClientStep ==
    /\ \E c \in Clients : Connects(c) \/ Negotiates(c) \/ Leaves(c)
    /\ UNCHANGED <<state, tcp, endpoint, startAt, stopAt, graceTimer, listener, destroyed,
                   http3, raced>>

DestroyedLeaves ==
    /\ \E c \in destroyed : Leaves(c)
    /\ UNCHANGED <<state, tcp, endpoint, startAt, stopAt, graceTimer, listener, destroyed,
                   http3, raced>>

StartStep ==
    FilesRead \/ ListenerOpens \/ Listening \/ ListenFails \/ HTTP3Starts \/ CleanupSettles
StopStep == GraceExpires \/ ListenerCloses \/ StopSettles \/ HTTP3Stops

Next == Start \/ StartStep \/ ListeningTooLate \/ Stop \/ StopStep \/ ClientStep

Spec == Init /\ [][Next]_vars

(* Node.js reads files, reports its events and fires its timers, destroyed    *)
(* connections go away, and HTTP3Server keeps its promises.  No client has to *)
(* leave by itself.                                                          *)
FairSpec ==
    /\ Spec
    /\ WF_vars(StartStep)
    /\ WF_vars(GraceExpires) /\ WF_vars(ListenerCloses)
    /\ WF_vars(StopSettles) /\ WF_vars(HTTP3Stops)
    /\ WF_vars(DestroyedLeaves)

-----------------------------------------------------------------------------
TypeOK ==
    /\ state \in {"new", "starting", "started", "stopped"}
    /\ tcp \in BOOLEAN /\ endpoint \in BOOLEAN /\ graceTimer \in BOOLEAN /\ raced \in BOOLEAN
    /\ startAt \in {"new", "reading", "listening", "http3", "cleanup", "resolved", "rejected"}
    /\ stopAt \in {"new", "draining", "waiting", "done"}
    /\ sessions \subseteq sockets /\ sockets \subseteq Clients /\ destroyed \subseteq Clients
    /\ listener \in {"none", "opening", "open", "closing", "closed"}
    /\ clients \in [Clients -> {"new", "tls", "http1", "http2", "closed"}]
    /\ http3 \in {"new", "starting", "running", "draining", "stopped"}

(* A server that says it is started serves both transports on one endpoint.   *)
StartedIsServing ==
    state = "started" /\ stopAt = "new" =>
        /\ startAt = "resolved" /\ endpoint /\ tcp
        /\ listener = "open" /\ http3 = "running"

NothingLeft == listener \in {"none", "closed"} /\ Live = {} /\ ~tcp /\ ~endpoint /\ ~graceTimer

(* A start that fails by itself leaves no listener and no connection behind.  *)
FailedStartLeavesNothing == startAt = "rejected" /\ ~raced => NothingLeft

(* stop() resolves when both listeners and every connection are gone, unless  *)
(* it overlapped start().                                                    *)
StopIsComplete == stopAt = "done" /\ ~raced => NothingLeft /\ http3 = "stopped"

(* No connection is cut while the grace period runs. *)
GraceIsGiven == graceTimer => destroyed = {}

\* The close event of the listener is coming: the grace timer will cut whoever
\* stays, somebody who was cut is about to leave, or nobody is left.
CloseIsComing ==
    \/ graceTimer
    \/ Live \cap destroyed # {}
    \/ listener = "closing" /\ Live = {}

(* What stop() and a start() it did not overlap wait for is always coming: no  *)
(* await depends on a client that may stay connected for ever.                *)
AwaitsEnd ==
    /\ stopAt = "draining" => CloseIsComing
    /\ stopAt = "waiting" => http3 \in {"draining", "stopped"}
    /\ ~raced =>
         /\ startAt = "listening" => listener \in {"opening", "open"}
         /\ startAt = "http3" => http3 = "starting"
         /\ startAt = "cleanup" /\ listener = "closing" => CloseIsComing

(* stop() resolves, even if no client ever closes its connection.             *)
StopResolves == stopAt # "new" ~> stopAt = "done"

(* start() settles, unless stop() overlaps it. *)
StartSettles == StartPending ~> startAt \in {"resolved", "rejected"} \/ raced

(* HTTPServer.js:163, "Stops both listeners": nothing listens after stop().   *)
StopIsFinal == stopAt = "done" => listener # "open"
===============================================================================
