--------------------------- MODULE HTTPServerProofs ---------------------------
(***************************************************************************)
(* For any number of TCP connections: a server that says it is started     *)
(* serves both transports, a start that fails and a stop that does not     *)
(* overlap it leave nothing behind, no connection is cut while the grace   *)
(* period runs, and neither call waits for a client that may stay.         *)
(*                                                                         *)
(* None of the properties is inductive.  IInv adds what each await of      *)
(* start and stop knows of the listener, of HTTP/3 and of the sockets.     *)
(***************************************************************************)
EXTENDS HTTPServer, TLAPS

\* #sockets holds the connections that are open, which there are only while
\* the listener is open or closing.
SocketsAreLive ==
    /\ sockets = Live
    /\ listener \in {"none", "opening", "closed"} => sockets = {}

\* The grace timer runs only while stop waits for connections, none of them cut.
TimerIsStops ==
    graceTimer => listener = "closing" /\ stopAt = "draining" /\ ~tcp /\ destroyed = {}

\* What start knows at each of its awaits while stop has not been called.
StartKnows ==
    /\ startAt = "new" => state = "new" /\ listener = "none" /\ http3 = "new"
    /\ startAt = "reading" => state = "starting" /\ listener = "none" /\ http3 = "new"
    /\ startAt = "listening" =>
         state = "starting" /\ listener \in {"opening", "open"} /\ http3 = "new"
    /\ startAt = "http3" => state = "starting" /\ listener = "open" /\ http3 = "starting"
    /\ startAt = "resolved" => state = "started" /\ listener = "open" /\ http3 = "running"
    /\ startAt = "cleanup" => state = "stopped" /\ listener \in {"closing", "closed"}
    /\ startAt = "rejected" => state = "stopped" /\ listener \in {"none", "closed"}

StartAlone ==
    stopAt = "new" =>
        /\ ~raced /\ StartKnows
        /\ endpoint <=> startAt = "resolved"
        /\ tcp <=> startAt \in {"listening", "http3", "resolved"}
        /\ tcp => destroyed = {}

\* What stop knows at each of its awaits when start was not pending.
StopAlone ==
    stopAt # "new" /\ ~raced =>
        /\ startAt \in {"new", "resolved", "rejected"}
        /\ state = "stopped" /\ ~tcp /\ ~endpoint
        /\ stopAt = "draining" => listener = "closing" /\ startAt = "resolved"
        /\ stopAt # "draining" => listener \in {"none", "closed"}

\* Before start has read its files there is no listener, stopped or not.
NotYetListening ==
    startAt \in {"new", "reading"} => ~tcp /\ listener = "none" /\ destroyed = {}

\* HTTP/3 stays stopped.
HTTP3IsStopped ==
    /\ stopAt # "new" => http3 \in {"draining", "stopped"} /\ state # "new"
    /\ stopAt = "done" => http3 = "stopped"

IInv ==
    /\ TypeOK
    /\ SocketsAreLive
    /\ TimerIsStops
    /\ StartAlone
    /\ StopAlone
    /\ NotYetListening
    /\ HTTP3IsStopped

-----------------------------------------------------------------------------
LEMMA InitIInv == Init => IInv
<1> SUFFICES ASSUME Init PROVE IInv
  OBVIOUS
<1> USE DEF Init
<1>1. TypeOK
  BY DEF TypeOK
<1>2. SocketsAreLive
  BY DEF SocketsAreLive, Live
<1>3. TimerIsStops /\ StopAlone /\ NotYetListening /\ HTTP3IsStopped
  BY DEF TimerIsStops, StopAlone, NotYetListening, HTTP3IsStopped
<1>4. raced = FALSE /\ tcp = FALSE /\ endpoint = FALSE /\ startAt = "new" /\ stopAt = "new"
  OBVIOUS
<1>5. StartAlone
  BY <1>4 DEF StartAlone, StartKnows
<1> QED
  BY <1>1, <1>2, <1>3, <1>5 DEF IInv

LEMMA StartIInv ==
    ASSUME IInv, Start
    PROVE  IInv'
<1> USE DEF IInv, TypeOK, peers, Start
<1>1. TypeOK'
  BY ServerAssumption
<1>2. SocketsAreLive'
  BY DEF SocketsAreLive, Live, NotYetListening
<1>3. TimerIsStops'
  BY DEF TimerIsStops
<1>4. StartAlone'
  BY DEF StartAlone, StartKnows, NotYetListening
<1>5. StopAlone'
  BY DEF StopAlone, StartAlone, StartKnows
<1>6. NotYetListening'
  BY DEF NotYetListening, HTTP3IsStopped, StartAlone, StartKnows
<1>7. HTTP3IsStopped'
  BY DEF HTTP3IsStopped
<1> QED
  BY <1>1, <1>2, <1>3, <1>4, <1>5, <1>6, <1>7

LEMMA FilesReadIInv ==
    ASSUME IInv, FilesRead
    PROVE  IInv'
<1> USE DEF IInv, TypeOK, peers, FilesRead, Abandon, CloseTCPNow, CloseListener, DestroyAll
<1>1. TypeOK'
  <2>1. state' \in {"new", "starting", "started", "stopped"} /\ tcp' \in BOOLEAN
    OBVIOUS
  <2>2. startAt' \in {"listening", "cleanup", "rejected"}
    OBVIOUS
  <2>3. listener' \in {"none", "opening", "open", "closing", "closed"}
    BY ServerAssumption
  <2>4. destroyed' \subseteq Clients
    OBVIOUS
  <2>5. UNCHANGED <<endpoint, stopAt, graceTimer, raced, sessions, sockets, clients, http3>>
    OBVIOUS
  <2> QED
    BY <2>1, <2>2, <2>3, <2>4, <2>5
<1>2. SocketsAreLive'
  BY DEF SocketsAreLive, Live, NotYetListening
<1>3. TimerIsStops'
  BY DEF TimerIsStops, StartAlone, StartKnows, NotYetListening
<1>4. StartAlone'
  BY DEF StartAlone, StartKnows, NotYetListening
<1>5. StopAlone'
  BY DEF StopAlone, StartAlone, StartKnows
<1>6. NotYetListening'
  BY DEF NotYetListening
<1>7. HTTP3IsStopped'
  BY DEF HTTP3IsStopped
<1> QED
  BY <1>1, <1>2, <1>3, <1>4, <1>5, <1>6, <1>7

LEMMA ListenerOpensIInv ==
    ASSUME IInv, ListenerOpens
    PROVE  IInv'
<1> USE DEF IInv, TypeOK, peers, ListenerOpens
<1>1. TypeOK'
  BY ServerAssumption
<1>2. SocketsAreLive'
  BY DEF SocketsAreLive, Live, NotYetListening
<1>3. TimerIsStops'
  BY DEF TimerIsStops
<1>4. StartAlone'
  BY DEF StartAlone, StartKnows, NotYetListening
<1>5. StopAlone'
  BY DEF StopAlone, StartAlone, StartKnows
<1>6. NotYetListening'
  BY DEF NotYetListening
<1>7. HTTP3IsStopped'
  BY DEF HTTP3IsStopped
<1> QED
  BY <1>1, <1>2, <1>3, <1>4, <1>5, <1>6, <1>7

LEMMA ListeningIInv ==
    ASSUME IInv, Listening
    PROVE  IInv'
<1> USE DEF IInv, TypeOK, peers, Listening, StartHTTP3, Abandon, CloseTCPNow, CloseListener, DestroyAll
<1>1. TypeOK'
  BY ServerAssumption
<1>2. SocketsAreLive'
  BY DEF SocketsAreLive, Live, NotYetListening
<1>3. TimerIsStops'
  BY DEF TimerIsStops
<1>4. StartAlone'
  BY DEF StartAlone, StartKnows, NotYetListening
<1>5. StopAlone'
  BY DEF StopAlone, StartAlone, StartKnows
<1>6. NotYetListening'
  BY DEF NotYetListening
<1>7. HTTP3IsStopped'
  BY DEF HTTP3IsStopped
<1> QED
  BY <1>1, <1>2, <1>3, <1>4, <1>5, <1>6, <1>7

LEMMA ListeningTooLateIInv ==
    ASSUME IInv, ListeningTooLate
    PROVE  IInv'
<1> USE DEF IInv, TypeOK, peers, ListeningTooLate, Abandon, CloseTCPNow, CloseListener, DestroyAll
<1>1. TypeOK'
  BY ServerAssumption
<1>2. SocketsAreLive'
  BY DEF SocketsAreLive, Live, NotYetListening
<1>3. TimerIsStops'
  BY DEF TimerIsStops
<1>4. StartAlone'
  BY DEF StartAlone
<1>5. StopAlone'
  BY DEF StopAlone, StartAlone
<1>6. NotYetListening'
  BY DEF NotYetListening
<1>7. HTTP3IsStopped'
  BY DEF HTTP3IsStopped
<1> QED
  BY <1>1, <1>2, <1>3, <1>4, <1>5, <1>6, <1>7

LEMMA ListenFailsIInv ==
    ASSUME IInv, ListenFails
    PROVE  IInv'
<1> USE DEF IInv, TypeOK, peers, ListenFails
<1>1. TypeOK'
  BY ServerAssumption
<1>2. SocketsAreLive'
  BY DEF SocketsAreLive, Live, NotYetListening
<1>3. TimerIsStops'
  BY DEF TimerIsStops
<1>4. StartAlone'
  BY DEF StartAlone, StartKnows, NotYetListening
<1>5. StopAlone'
  BY DEF StopAlone, StartAlone, StartKnows
<1>6. NotYetListening'
  BY DEF NotYetListening
<1>7. HTTP3IsStopped'
  BY DEF HTTP3IsStopped
<1> QED
  BY <1>1, <1>2, <1>3, <1>4, <1>5, <1>6, <1>7

LEMMA HTTP3StartsIInv ==
    ASSUME IInv, HTTP3Starts
    PROVE  IInv'
<1> USE DEF IInv, TypeOK, peers, HTTP3Starts, HTTP3Reports
<1>1. TypeOK'
  BY ServerAssumption
<1>2. SocketsAreLive'
  BY DEF SocketsAreLive, Live, NotYetListening
<1>3. TimerIsStops'
  BY DEF TimerIsStops
<1>4. StartAlone'
  BY DEF StartAlone, StartKnows, NotYetListening
<1>5. StopAlone'
  BY DEF StopAlone, StartAlone, StartKnows
<1>6. NotYetListening'
  BY DEF NotYetListening
<1>7. HTTP3IsStopped'
  BY DEF HTTP3IsStopped
<1> QED
  BY <1>1, <1>2, <1>3, <1>4, <1>5, <1>6, <1>7

LEMMA CleanupSettlesIInv ==
    ASSUME IInv, CleanupSettles
    PROVE  IInv'
<1> USE DEF IInv, TypeOK, peers, CleanupSettles
<1>1. TypeOK'
  BY ServerAssumption
<1>2. SocketsAreLive'
  BY DEF SocketsAreLive, Live, NotYetListening
<1>3. TimerIsStops'
  BY DEF TimerIsStops
<1>4. StartAlone'
  BY DEF StartAlone, StartKnows, NotYetListening
<1>5. StopAlone'
  BY DEF StopAlone, StartAlone, StartKnows
<1>6. NotYetListening'
  BY DEF NotYetListening
<1>7. HTTP3IsStopped'
  BY DEF HTTP3IsStopped
<1> QED
  BY <1>1, <1>2, <1>3, <1>4, <1>5, <1>6, <1>7

LEMMA StopIInv ==
    ASSUME IInv, Stop
    PROVE  IInv'
<1> USE DEF IInv, TypeOK, peers, Stop, StopHTTP3, StartPending, CloseTCPGracefully, CloseTCPNow, CloseListener,
       DestroyAll
<1>1. TypeOK'
  <2>0. raced' \in BOOLEAN
    <3>1. raced' = StartPending
      OBVIOUS
    <3>2. StartPending \in BOOLEAN
      BY ONLY SMT DEF StartPending
    <3> QED
      BY ONLY <3>1, <3>2, Zenon
  <2>1. graceTimer' \in BOOLEAN
    <3>1. CASE CloseTCPGracefully
      <4>1. graceTimer' = (tcp /\ listener = "open")
        BY <3>1
      <4> QED
        BY ONLY <4>1, Zenon
    <3>2. CASE CloseTCPNow /\ UNCHANGED graceTimer
      <4>1. graceTimer' = graceTimer /\ graceTimer \in BOOLEAN
        BY <3>2
      <4> QED
        BY ONLY <4>1, Zenon
    <3> QED
      BY <3>1, <3>2 DEF Stop, StopHTTP3
  <2>2. listener' \in {"none", "opening", "open", "closing", "closed"}
    BY ServerAssumption
  <2>3. destroyed' \subseteq Clients
    OBVIOUS
  <2>4. /\ state' \in {"new", "starting", "started", "stopped"}
        /\ http3' \in {"new", "starting", "running", "draining", "stopped"}
        /\ stopAt' \in {"new", "draining", "waiting", "done"}
        /\ tcp' \in BOOLEAN /\ endpoint' \in BOOLEAN
    OBVIOUS
  <2> QED
    BY <2>0, <2>1, <2>2, <2>3, <2>4
<1>2. SocketsAreLive'
  BY DEF SocketsAreLive, Live, NotYetListening
<1>3. TimerIsStops'
  BY DEF TimerIsStops, StartAlone, StartKnows, NotYetListening
<1>4. StartAlone'
  BY DEF StartAlone, StartKnows, NotYetListening
<1>5. StopAlone'
  BY DEF StopAlone, StartAlone, StartKnows
<1>6. NotYetListening'
  BY DEF NotYetListening
<1>7. HTTP3IsStopped'
  BY DEF HTTP3IsStopped
<1> QED
  BY <1>1, <1>2, <1>3, <1>4, <1>5, <1>6, <1>7

LEMMA GraceExpiresIInv ==
    ASSUME IInv, GraceExpires
    PROVE  IInv'
<1> USE DEF IInv, TypeOK, peers, GraceExpires, DestroyAll
<1>1. TypeOK'
  <2>1. destroyed' \subseteq Clients
    OBVIOUS
  <2>2. graceTimer' = FALSE
    OBVIOUS
  <2>3. /\ tcp' \in BOOLEAN /\ endpoint' \in BOOLEAN /\ raced' \in BOOLEAN
        /\ graceTimer' \in BOOLEAN
    BY <2>2
  <2>4. sessions' \subseteq sockets' /\ sockets' \subseteq Clients
    OBVIOUS
  <2>5. clients' \in [Clients -> {"new", "tls", "http1", "http2", "closed"}]
    OBVIOUS
  <2>6. /\ state' \in {"new", "starting", "started", "stopped"}
        /\ stopAt' \in {"new", "draining", "waiting", "done"}
        /\ listener' \in {"none", "opening", "open", "closing", "closed"}
        /\ http3' \in {"new", "starting", "running", "draining", "stopped"}
    OBVIOUS
  <2>7. startAt' \in {"new", "reading", "listening", "http3", "cleanup", "resolved", "rejected"}
    OBVIOUS
  <2> QED
    BY ONLY <2>1, <2>3, <2>4, <2>5, <2>6, <2>7 DEF TypeOK
<1>2. SocketsAreLive'
  BY DEF SocketsAreLive, Live, NotYetListening
<1>3. TimerIsStops'
  BY DEF TimerIsStops
<1>4. StartAlone'
  BY DEF StartAlone, StartKnows, TimerIsStops
<1>5. StopAlone'
  BY DEF StopAlone, StartAlone, StartKnows
<1>6. NotYetListening'
  BY DEF NotYetListening, TimerIsStops
<1>7. HTTP3IsStopped'
  BY DEF HTTP3IsStopped
<1> QED
  BY <1>1, <1>2, <1>3, <1>4, <1>5, <1>6, <1>7

LEMMA ListenerClosesIInv ==
    ASSUME IInv, ListenerCloses
    PROVE  IInv'
<1> USE DEF IInv, TypeOK, peers, ListenerCloses, Live
<1>1. TypeOK'
  BY ServerAssumption
<1>2. SocketsAreLive'
  BY DEF SocketsAreLive, Live, NotYetListening
<1>3. TimerIsStops'
  BY DEF TimerIsStops
<1>4. StartAlone'
  BY DEF StartAlone, StartKnows, NotYetListening
<1>5. StopAlone'
  BY DEF StopAlone, StartAlone, StartKnows
<1>6. NotYetListening'
  BY DEF NotYetListening
<1>7. HTTP3IsStopped'
  BY DEF HTTP3IsStopped
<1> QED
  BY <1>1, <1>2, <1>3, <1>4, <1>5, <1>6, <1>7

LEMMA StopSettlesIInv ==
    ASSUME IInv, StopSettles
    PROVE  IInv'
<1> USE DEF IInv, TypeOK, peers, StopSettles
<1>1. TypeOK'
  BY ServerAssumption
<1>2. SocketsAreLive'
  BY DEF SocketsAreLive, Live, NotYetListening
<1>3. TimerIsStops'
  BY DEF TimerIsStops
<1>4. StartAlone'
  BY DEF StartAlone, StartKnows, NotYetListening
<1>5. StopAlone'
  BY DEF StopAlone, StartAlone, StartKnows
<1>6. NotYetListening'
  BY DEF NotYetListening
<1>7. HTTP3IsStopped'
  BY DEF HTTP3IsStopped
<1> QED
  BY <1>1, <1>2, <1>3, <1>4, <1>5, <1>6, <1>7

LEMMA HTTP3StopsIInv ==
    ASSUME IInv, HTTP3Stops
    PROVE  IInv'
<1> USE DEF IInv, TypeOK, peers, HTTP3Stops
<1>1. TypeOK'
  BY ServerAssumption
<1>2. SocketsAreLive'
  BY DEF SocketsAreLive, Live, NotYetListening
<1>3. TimerIsStops'
  BY DEF TimerIsStops
<1>4. StartAlone'
  BY DEF StartAlone, StartKnows, NotYetListening
<1>5. StopAlone'
  BY DEF StopAlone, StartAlone, StartKnows
<1>6. NotYetListening'
  BY DEF NotYetListening
<1>7. HTTP3IsStopped'
  BY DEF HTTP3IsStopped
<1> QED
  BY <1>1, <1>2, <1>3, <1>4, <1>5, <1>6, <1>7

(* Connections come, negotiate and go.  That the last of them leaves is all   *)
(* the listener learns.                                                      *)
LEMMA ClientsIInv ==
    ASSUME IInv, ClientStep
    PROVE  IInv'
<1> USE DEF IInv, TypeOK, ClientStep
<1>1. PICK c \in Clients : Connects(c) \/ Negotiates(c) \/ Leaves(c)
  OBVIOUS
<1>2. TypeOK'
  <2>1. clients' \in [Clients -> {"new", "tls", "http1", "http2", "closed"}]
    BY <1>1 DEF Connects, Negotiates, Leaves
  <2>2. sessions' \subseteq sockets' /\ sockets' \subseteq Clients
    BY <1>1 DEF Connects, Negotiates, Leaves, SocketsAreLive, Live
  <2> QED
    BY <2>1, <2>2
<1>3. sockets' = Live'
  BY <1>1 DEF Connects, Negotiates, Leaves, Live, SocketsAreLive
<1>4. listener \in {"none", "opening", "closed"} => sockets' = {}
  BY <1>1 DEF Connects, Negotiates, Leaves, Live, SocketsAreLive
<1>5. SocketsAreLive'
  BY <1>3, <1>4 DEF SocketsAreLive
<1>6. TimerIsStops' /\ NotYetListening' /\ HTTP3IsStopped'
  BY DEF TimerIsStops, NotYetListening, HTTP3IsStopped
<1>7. StartAlone' /\ StopAlone'
  BY DEF StartAlone, StartKnows, StopAlone
<1> QED
  BY <1>2, <1>5, <1>6, <1>7

LEMMA NextIInv == IInv /\ [Next]_vars => IInv'
<1> SUFFICES ASSUME IInv, [Next]_vars PROVE IInv'
  OBVIOUS
<1>1. CASE Start
  BY <1>1, StartIInv
<1>2. CASE StartStep
  BY <1>2, FilesReadIInv, ListenerOpensIInv, ListeningIInv, ListenFailsIInv, HTTP3StartsIInv,
     CleanupSettlesIInv DEF StartStep
<1>7. CASE ListeningTooLate
  BY <1>7, ListeningTooLateIInv
<1>3. CASE Stop
  BY <1>3, StopIInv
<1>4. CASE StopStep
  BY <1>4, GraceExpiresIInv, ListenerClosesIInv, StopSettlesIInv, HTTP3StopsIInv DEF StopStep
<1>5. CASE ClientStep
  BY <1>5, ClientsIInv
<1>6. CASE UNCHANGED vars
  BY <1>6 DEF IInv, vars, TypeOK, SocketsAreLive, Live, TimerIsStops, StartAlone, StartKnows,
              StopAlone, NotYetListening, HTTP3IsStopped
<1> QED
  BY <1>1, <1>2, <1>3, <1>4, <1>5, <1>6, <1>7 DEF Next

(* The invariant holds in every state the server reaches. *)
THEOREM Inductive == Spec => []IInv
BY InitIInv, NextIInv, PTL DEF Spec

(* The server's state, HTTPServer.js:382-396, keeps its types. *)
THEOREM TypeCorrect == Spec => []TypeOK
<1>1. IInv => TypeOK
  BY DEF IInv
<1> QED
  BY <1>1, Inductive, PTL

(* A server that says it is started, start at HTTPServer.js:147-156, has both *)
(* listeners and its endpoint.                                               *)
THEOREM StartedServes == Spec => []StartedIsServing
<1>1. IInv => StartedIsServing
  BY DEF IInv, TypeOK, StartAlone, StartKnows, StartedIsServing
<1> QED
  BY <1>1, Inductive, PTL

(* The catch of start, HTTPServer.js:157-160, leaves nothing behind. *)
THEOREM FailedStartsLeaveNothing == Spec => []FailedStartLeavesNothing
<1>1. IInv => FailedStartLeavesNothing
  <2> SUFFICES ASSUME IInv, startAt = "rejected", ~raced PROVE NothingLeft
    BY DEF FailedStartLeavesNothing
  <2>1. listener \in {"none", "closed"} /\ ~tcp /\ ~endpoint
    BY DEF IInv, TypeOK, StartAlone, StartKnows, StopAlone
  <2> QED
    BY <2>1 DEF IInv, SocketsAreLive, TimerIsStops, NothingLeft
<1> QED
  BY <1>1, Inductive, PTL

(* stop, HTTPServer.js:163-178, resolves only when nothing is left of the     *)
(* server, unless it was called while start was pending.                     *)
THEOREM StopsAreComplete == Spec => []StopIsComplete
<1>1. IInv => StopIsComplete
  <2> SUFFICES ASSUME IInv, stopAt = "done", ~raced PROVE NothingLeft /\ http3 = "stopped"
    BY DEF StopIsComplete
  <2>1. listener \in {"none", "closed"} /\ ~tcp /\ ~endpoint
    BY DEF IInv, StopAlone
  <2> QED
    BY <2>1 DEF IInv, SocketsAreLive, TimerIsStops, HTTP3IsStopped, NothingLeft
<1> QED
  BY <1>1, Inductive, PTL

(* #closeTCP, HTTPServer.js:369-377, cuts no connection before its deadline.  *)
THEOREM GraceAlwaysGiven == Spec => []GraceIsGiven
<1>1. IInv => GraceIsGiven
  BY DEF IInv, TimerIsStops, GraceIsGiven
<1> QED
  BY <1>1, Inductive, PTL
-----------------------------------------------------------------------------
\* A listener that closes waits for nobody who may stay: the grace timer runs,
\* or every connection that is open was cut.
ClosingIsBounded ==
    /\ stopAt = "draining" => listener = "closing"
    /\ listener = "closing" => graceTimer \/ Live \subseteq destroyed

\* What closes the listener of a server cuts its connections or arms the timer.
LEMMA CloseTCPNowBounded ==
    ASSUME IInv, ClosingIsBounded, CloseTCPNow, UNCHANGED <<graceTimer, clients>>
    PROVE  listener' = "closing" => graceTimer' \/ Live' \subseteq destroyed'
<1>1. sockets = Live /\ Live' = Live
  BY DEF IInv, SocketsAreLive, Live
<1>2. CASE tcp
  BY <1>1, <1>2 DEF CloseTCPNow, DestroyAll
<1>3. CASE ~tcp
  BY <1>1, <1>3 DEF CloseTCPNow, ClosingIsBounded
<1> QED
  BY <1>2, <1>3

LEMMA StartStepBounded ==
    ASSUME IInv, ClosingIsBounded, Start \/ StartStep
    PROVE  ClosingIsBounded'
<1>1. UNCHANGED <<stopAt, graceTimer, clients>> /\ Live' = Live
  BY DEF Start, StartStep, FilesRead, ListenerOpens, Listening, ListenFails, HTTP3Starts,
         CleanupSettles, peers, Live
<1>2. CASE FilesRead \/ Listening
  <2>1. startAt \in {"reading", "listening"} /\ listener \in {"none", "open"}
    BY <1>2 DEF FilesRead, Listening, IInv, NotYetListening
  <2>2. stopAt # "draining"
    BY <2>1 DEF ClosingIsBounded
  <2>3. CASE CloseTCPNow
    BY <1>1, <2>2, <2>3, CloseTCPNowBounded DEF ClosingIsBounded
  <2>4. CASE ~CloseTCPNow
    BY <1>1, <1>2, <2>1, <2>2, <2>4 DEF FilesRead, Listening, Abandon, ClosingIsBounded
  <2> QED
    BY <2>3, <2>4
<1>3. CASE ListenerOpens \/ ListenFails
  BY <1>1, <1>3 DEF ListenerOpens, ListenFails, ClosingIsBounded
<1>4. CASE Start \/ HTTP3Starts \/ CleanupSettles
  BY <1>1, <1>4 DEF Start, HTTP3Starts, CleanupSettles, ClosingIsBounded
<1> QED
  BY <1>2, <1>3, <1>4 DEF StartStep

LEMMA TooLateBounded ==
    ASSUME IInv, ClosingIsBounded, ListeningTooLate
    PROVE  ClosingIsBounded'
<1>1. UNCHANGED <<stopAt, graceTimer, clients>> /\ CloseTCPNow /\ listener = "closing"
  BY DEF ListeningTooLate, Abandon, peers
<1>2. listener' = "closing"
  BY <1>1 DEF CloseTCPNow, CloseListener
<1> QED
  BY <1>1, <1>2, CloseTCPNowBounded DEF ClosingIsBounded

LEMMA StopBounded ==
    ASSUME IInv, ClosingIsBounded, Stop
    PROVE  ClosingIsBounded'
<1>1. stopAt = "new" /\ UNCHANGED clients /\ Live' = Live /\ ~graceTimer
  BY DEF Stop, peers, Live, IInv, TimerIsStops
<1>2. stopAt' = IF tcp /\ listener = "open" THEN "draining" ELSE "waiting"
  BY DEF Stop
<1>3. stopAt' = "draining" => listener' = "closing"
  BY <1>2 DEF Stop, CloseTCPGracefully, CloseTCPNow, CloseListener
<1>4. CASE CloseTCPGracefully
  <2>1. CASE tcp /\ listener = "open"
    BY <1>3, <1>4, <2>1 DEF CloseTCPGracefully, ClosingIsBounded
  <2>2. CASE tcp /\ listener # "open"
    <3>1. listener # "closing"
      BY <1>1, <2>2 DEF IInv, StartAlone, StartKnows
    <3>2. listener' # "closing"
      BY <1>4, <2>2, <3>1, ServerAssumption DEF CloseTCPGracefully, CloseListener
    <3> QED
      BY <1>3, <3>2 DEF ClosingIsBounded
  <2>3. CASE ~tcp
    BY <1>1, <1>3, <1>4, <2>3 DEF CloseTCPGracefully, ClosingIsBounded
  <2> QED
    BY <2>1, <2>2, <2>3
<1>5. CASE CloseTCPNow /\ UNCHANGED graceTimer
  BY <1>1, <1>3, <1>5, CloseTCPNowBounded DEF ClosingIsBounded
<1> QED
  BY <1>4, <1>5 DEF Stop

LEMMA OthersBounded ==
    ASSUME IInv, ClosingIsBounded, StopStep \/ ClientStep \/ UNCHANGED vars
    PROVE  ClosingIsBounded'
<1>1. CASE GraceExpires
  <2>1. sockets = Live /\ Live' = Live /\ UNCHANGED <<stopAt, listener>>
    BY <1>1 DEF GraceExpires, peers, IInv, SocketsAreLive, Live
  <2> QED
    BY <1>1, <2>1 DEF GraceExpires, DestroyAll, ClosingIsBounded
<1>2. CASE ListenerCloses
  BY <1>2 DEF ListenerCloses, ClosingIsBounded
<1>3. CASE StopSettles \/ HTTP3Stops \/ UNCHANGED vars
  BY <1>3 DEF StopSettles, HTTP3Stops, vars, peers, Live, ClosingIsBounded
<1>4. CASE ClientStep
  <2>1. PICK c \in Clients : Connects(c) \/ Negotiates(c) \/ Leaves(c)
    BY <1>4 DEF ClientStep
  <2>2. UNCHANGED <<stopAt, graceTimer, listener, destroyed>>
    BY <1>4 DEF ClientStep
  <2>3. listener = "closing" => Live' \subseteq Live
    BY <2>1 DEF Connects, Negotiates, Leaves, Live, IInv, TypeOK
  <2> QED
    BY <2>2, <2>3 DEF ClosingIsBounded
<1> QED
  BY <1>1, <1>2, <1>3, <1>4 DEF StopStep

(* stop and the catch of start, HTTPServer.js:157-178, never wait for a       *)
(* client: what each await needs is under way.  That it happens is left to   *)
(* fairness.                                                                 *)
THEOREM AwaitsAlwaysEnd == Spec => []AwaitsEnd
<1>1. Init => ClosingIsBounded
  BY DEF Init, ClosingIsBounded
<1>2. IInv /\ ClosingIsBounded /\ [Next]_vars => ClosingIsBounded'
  BY StartStepBounded, TooLateBounded, StopBounded, OthersBounded DEF Next
<1>3. IInv /\ ClosingIsBounded => AwaitsEnd
  <2> SUFFICES ASSUME IInv, ClosingIsBounded PROVE AwaitsEnd
    OBVIOUS
  <2>1. listener = "closing" => CloseIsComing
    <3> SUFFICES ASSUME listener = "closing" PROVE CloseIsComing
      OBVIOUS
    <3>1. graceTimer \/ Live \subseteq destroyed
      BY DEF ClosingIsBounded
    <3>2. Live = {} \/ Live \cap destroyed # {} \/ ~(Live \subseteq destroyed)
      OBVIOUS
    <3> QED
      BY <3>1, <3>2 DEF CloseIsComing
  <2>2. stopAt = "draining" => CloseIsComing
    BY <2>1 DEF ClosingIsBounded
  <2>3. stopAt = "waiting" => http3 \in {"draining", "stopped"}
    BY DEF IInv, HTTP3IsStopped
  <2>4. ~raced /\ startAt = "listening" => listener \in {"opening", "open"}
    BY DEF IInv, StartAlone, StartKnows, StopAlone
  <2>5. ~raced /\ startAt = "http3" => http3 = "starting"
    BY DEF IInv, StartAlone, StartKnows, StopAlone
  <2> QED
    BY <2>1, <2>2, <2>3, <2>4, <2>5 DEF AwaitsEnd
<1> QED
  BY <1>1, <1>2, <1>3, Inductive, PTL DEF Spec
================================================================================
