-------------------------- MODULE HTTP3SessionsProofs --------------------------
(***************************************************************************)
(* For any number of connections, sessions and streams: the indexes of     *)
(* HTTP3Server.js agree, the marks of #responseCommitted are true, two     *)
(* sessions of a connection are accepted only one after the other, and the *)
(* end of every stream that the application knows is reported.             *)
(*                                                                         *)
(* None of the properties is inductive.  What they rest on is that a       *)
(* session which may still be accepted and which its client has not ended  *)
(* holds the one place of its connection, and that a session which ended   *)
(* under an await of its decision is an orphan.                            *)
(***************************************************************************)
EXTENDS HTTP3Sessions, TLAPS

\* The live connections, and what a connection holds: sessions of its own, at
\* most one at a time.
PlacesBelong ==
    /\ \A c \in Connections : c \in connections <=> link[c] = "open"
    /\ \A c \in Connections : \A s \in connSessions[c] : ConnectionOf[s] = c
    /\ \A c \in Connections : \A s, t \in connSessions[c] : s = t

\* A stream belongs to the session that opened it, and the server finds it as
\* long as it finds the session and the stream has not ended.
StreamsBelong ==
    /\ \A s \in Sessions : \A w \in sessStreams[s] : SessionOf[w] = s /\ w \in shown
    /\ \A w \in Streams :
         w \in wtStreams <=> SessionOf[w] \in sessions /\ w \in sessStreams[SessionOf[w]]
    /\ \A w \in shown :
         /\ wt[w] # "new"
         /\ wt[w] = "open" /\ SessionOf[w] \in sessions => w \in sessStreams[SessionOf[w]]
         /\ wt[w] = "ended" /\ SessionOf[w] \in sessions => w \in reported
    /\ \A w \in Streams : rx[SessionOf[w]] = "new" => wt[w] = "new"

\* The place of session s: known to the server while its connection lives, and
\* held while s is or may be accepted and its client has not ended it.
PlaceIsHeld(s) ==
    LET c == ConnectionOf[s] IN
    /\ s \in sessions <=> c \in connections /\ s \in connSessions[c]
    /\ rx[s] = "new" => s \notin connSessions[c] /\ s \notin committed
    /\ rx[s] = "open" /\ pc[s] \in Undecided \cup {"accepted"} /\ tx[s] \in {"idle", "accepted"}
         => s \in connSessions[c]

\* The awaits before any answer was taken.
Unanswered == {"new", "turned away", "handler", "forbidding", "responding", "accepting"}

\* What the answer tells of the await and of the other end.
AnswerFollows(s) ==
    /\ rx[s] = "new" <=> pc[s] = "new"
    /\ link[ConnectionOf[s]] = "new" => rx[s] = "new"
    /\ pc[s] \in Unanswered => tx[s] \in {"idle", "closed"}
    /\ tx[s] = "accepted" => pc[s] = "accepted"
    /\ rx[s] = "aborted" \/ link[ConnectionOf[s]] \in {"ended", "stopped"}
         => tx[s] \in {"fin", "closed"}

\* A session that ended under an await of its decision is an orphan, and a
\* mark is missing or left behind only for orphans and with dead connections.
MarkIsTrue(s) ==
    /\ rx[s] \in {"finished", "aborted"} /\ pc[s] \in Undecided => s \in orphans
    /\ tx[s] = "refusing" =>
         \/ pc[s] \in {"streaming", "cancelling"} /\ s \in committed
         \/ s \in orphans
         \/ pc[s] = "closed"
    /\ s \in committed => s \in sessions \cup orphans \/ link[ConnectionOf[s]] # "open"

Consistent(s) == PlaceIsHeld(s) /\ AnswerFollows(s) /\ MarkIsTrue(s)

IInv ==
    /\ TypeOK
    /\ PlacesBelong
    /\ StreamsBelong
    /\ \A s \in Sessions : Consistent(s)

-----------------------------------------------------------------------------
(* The initial state satisfies the inductive invariant. *)
LEMMA InitIInv == Init => IInv
<1> SUFFICES ASSUME Init PROVE IInv
  OBVIOUS
<1> USE SessionsAssumption DEF Init
<1>1. TypeOK
  BY DEF TypeOK
<1>2. PlacesBelong /\ StreamsBelong
  BY DEF PlacesBelong, StreamsBelong
<1>3. \A s \in Sessions : Consistent(s)
  BY DEF Consistent, PlaceIsHeld, AnswerFollows, MarkIsTrue, Undecided, Unanswered
<1> QED
  BY <1>1, <1>2, <1>3 DEF IInv

(* A step that leaves session s alone. *)
Same(s) ==
    /\ link'[ConnectionOf[s]] = link[ConnectionOf[s]]
    /\ (ConnectionOf[s] \in connections' <=> ConnectionOf[s] \in connections)
    /\ rx'[s] = rx[s] /\ tx'[s] = tx[s] /\ pc'[s] = pc[s]
    /\ (s \in connSessions'[ConnectionOf[s]] <=> s \in connSessions[ConnectionOf[s]])
    /\ (s \in sessions' <=> s \in sessions) /\ (s \in committed' <=> s \in committed)
    /\ (s \in orphans' <=> s \in orphans)

LEMMA SameConsistent ==
    ASSUME NEW s \in Sessions, Consistent(s), Same(s)
    PROVE  Consistent(s)'
BY DEF Consistent, PlaceIsHeld, AnswerFollows, MarkIsTrue, Same

(* A step of one decision that leaves the index alone. *)
LEMMA OneSession ==
    ASSUME IInv, NEW s \in Sessions, TypeOK', UNCHANGED <<link, rx, wt, index, told>>,
           \A u \in Sessions \ {s} : Same(u),
           Consistent(s)'
    PROVE  IInv'
<1>1. \A u \in Sessions : Consistent(u)'
  BY SameConsistent DEF IInv
<1>2. PlacesBelong' /\ StreamsBelong'
  BY DEF IInv, PlacesBelong, StreamsBelong, index, told
<1> QED
  BY <1>1, <1>2 DEF IInv

(* #deleteSession leaves the indexes of all other sessions as they are. *)
LEMMA DeleteSessionEffect ==
    ASSUME IInv, NEW s \in Sessions, DeleteSession(s), UNCHANGED <<link, wt, told>>,
           \A u \in Sessions : rx'[u] = rx[u] \/ rx'[u] # "new"
    PROVE  /\ wtStreams' \subseteq Streams /\ sessions' \subseteq Sessions
           /\ committed' \subseteq Sessions
           /\ connSessions' \in [Connections -> SUBSET Sessions]
           /\ UNCHANGED <<connections, sessStreams>>
           /\ PlacesBelong' /\ StreamsBelong'
           /\ s \notin sessions' /\ s \notin committed' /\ s \notin connSessions'[ConnectionOf[s]]
           /\ \A u \in Sessions \ {s} :
                /\ (u \in connSessions'[ConnectionOf[u]] <=> u \in connSessions[ConnectionOf[u]])
                /\ (u \in sessions' <=> u \in sessions) /\ (u \in committed' <=> u \in committed)
<1> USE SessionsAssumption
<1>1. /\ wtStreams' \subseteq Streams /\ sessions' \subseteq Sessions
      /\ committed' \subseteq Sessions
      /\ UNCHANGED <<connections, sessStreams>>
  BY DEF IInv, TypeOK, DeleteSession
<1>2. /\ connSessions' \in [Connections -> SUBSET Sessions]
      /\ \A c \in Connections :
           connSessions'[c] = IF c = ConnectionOf[s] THEN connSessions[c] \ {s} ELSE connSessions[c]
  BY DEF IInv, TypeOK, DeleteSession
<1>3. PlacesBelong'
  BY <1>1, <1>2 DEF IInv, PlacesBelong
<1>4. \A w \in Streams : w \in wtStreams' <=> w \in wtStreams /\ w \notin sessStreams[s]
  BY DEF DeleteSession
<1>5. StreamsBelong'
  <2>1. StreamsBelong /\ sessions' = sessions \ {s} /\ shown \subseteq Streams
    BY DEF IInv, TypeOK, DeleteSession
  <2>2. UNCHANGED <<wt, shown, sessStreams>>
    BY <1>1 DEF told
  <2>3. reported' = reported
    BY DEF told
  <2> QED
    BY <1>4, <2>3, <2>1, <2>2 DEF StreamsBelong
<1>6. ConnectionOf[s] \in Connections /\ \A u \in Sessions : ConnectionOf[u] \in Connections
  OBVIOUS
<1> QED
  BY <1>1, <1>2, <1>3, <1>5, <1>6 DEF DeleteSession

(* A decision that ends with #deleteSession. *)
LEMMA Deleted ==
    ASSUME IInv, NEW s \in Sessions, DeleteSession(s), Goto(s, "closed"),
           pc[s] \in Undecided, UNCHANGED <<link, rx, wt, orphans, told>>,
           tx' \in [Sessions -> {"idle", "accepted", "refusing", "fin", "closed"}],
           \A u \in Sessions \ {s} : tx'[u] = tx[u],
           tx'[s] = tx[s] \/ tx'[s] = "fin"
    PROVE  IInv'
<1> USE SessionsAssumption
<1>1. /\ wtStreams' \subseteq Streams /\ sessions' \subseteq Sessions
      /\ committed' \subseteq Sessions
      /\ connSessions' \in [Connections -> SUBSET Sessions]
      /\ UNCHANGED <<connections, sessStreams>>
      /\ PlacesBelong' /\ StreamsBelong'
      /\ s \notin sessions' /\ s \notin committed' /\ s \notin connSessions'[ConnectionOf[s]]
      /\ \A u \in Sessions \ {s} :
           /\ (u \in connSessions'[ConnectionOf[u]] <=> u \in connSessions[ConnectionOf[u]])
           /\ (u \in sessions' <=> u \in sessions) /\ (u \in committed' <=> u \in committed)
  BY DeleteSessionEffect
<1>2. /\ pc' \in [Sessions -> {"new", "turned away", "accepted", "closed"} \cup Undecided]
      /\ pc'[s] = "closed" /\ \A u \in Sessions \ {s} : pc'[u] = pc[u]
  BY DEF IInv, TypeOK, Goto
<1>3. TypeOK'
  BY <1>1, <1>2 DEF IInv, TypeOK, told
<1>4. \A u \in Sessions \ {s} : Same(u)
  BY <1>1, <1>2 DEF Same
<1>5. Consistent(s)'
  <2>1. Consistent(s)
    BY DEF IInv
  <2> QED
    BY <1>1, <1>2, <2>1 DEF Consistent, PlaceIsHeld, AnswerFollows, MarkIsTrue, Undecided, Unanswered
<1> QED
  BY <1>1, <1>3, <1>4, <1>5, SameConsistent DEF IInv

-----------------------------------------------------------------------------
LEMMA TurnAwayIInv ==
    ASSUME IInv, NEW s \in Sessions, TurnAway(s)
    PROVE  IInv'
<1>1. TypeOK'
  BY DEF IInv, TypeOK, TurnAway, index, told, Goto, Answer, Undecided
<1>2. \A u \in Sessions \ {s} : Same(u)
  BY DEF IInv, TypeOK, TurnAway, index, told, Goto, Answer, Same
<1>3. Consistent(s)'
  BY DEF IInv, TypeOK, TurnAway, index, told, Goto, Answer, Consistent, PlaceIsHeld, AnswerFollows, MarkIsTrue, Undecided, Unanswered
<1> QED
  BY <1>1, <1>2, <1>3, OneSession DEF TurnAway, index, told, native

LEMMA SessionDecidesIInv ==
    ASSUME IInv, NEW s \in Sessions, SessionDecides(s)
    PROVE  IInv'
<1>1. PICK label \in {"forbidding", "responding", "accepting", "failing"} : Goto(s, label)
  BY DEF SessionDecides
<1>2. TypeOK'
  BY <1>1 DEF IInv, TypeOK, SessionDecides, native, index, told, Goto, Undecided
<1>3. \A u \in Sessions \ {s} : Same(u)
  BY <1>1 DEF IInv, TypeOK, SessionDecides, native, index, Goto, Same
<1>4. Consistent(s)'
  <2>1. /\ pc[s] = "handler" /\ pc'[s] = label
        /\ UNCHANGED <<native, index, committed, orphans>>
    BY <1>1 DEF IInv, TypeOK, SessionDecides, Goto
  <2>2. PlaceIsHeld(s) /\ AnswerFollows(s) /\ MarkIsTrue(s)
    BY DEF IInv, Consistent
  <2>3. PlaceIsHeld(s)'
    BY <2>1, <2>2 DEF PlaceIsHeld, Undecided, native, index
  <2>4. AnswerFollows(s)'
    BY <2>1, <2>2 DEF AnswerFollows, Unanswered, native
  <2>5. MarkIsTrue(s)'
    BY <2>1, <2>2 DEF MarkIsTrue, AnswerFollows, Undecided, Unanswered, native, index
  <2> QED
    BY <2>3, <2>4, <2>5 DEF Consistent
<1> QED
  BY <1>2, <1>3, <1>4, OneSession DEF SessionDecides, native

(* An answer or none, and the session is deleted: what the awaits end with. *)
LEMMA AnsweredAndDeleted ==
    ASSUME IInv, NEW s \in Sessions, pc[s] \in Undecided,
           \/ tx[s] \in {"idle", "refusing"} /\ Answer(s, "fin")
           \/ UNCHANGED tx,
           DeleteSession(s), Goto(s, "closed"), UNCHANGED <<link, rx, wt, orphans, told>>
    PROVE  IInv'
<1>1. /\ tx' \in [Sessions -> {"idle", "accepted", "refusing", "fin", "closed"}]
      /\ \A u \in Sessions \ {s} : tx'[u] = tx[u]
      /\ tx'[s] = tx[s] \/ tx'[s] = "fin"
  BY DEF IInv, TypeOK, Answer
<1> QED
  BY <1>1, Deleted

(* A step of a decision to another await, perhaps with an answer and a mark.  *)
LEMMA Advanced ==
    ASSUME IInv, NEW s \in Sessions, NEW label \in Undecided \cup {"accepted"},
           NEW answer \in {"idle", "accepted", "refusing", "fin", "closed"},
           Answer(s, answer), Goto(s, label), committed' \in {committed, committed \cup {s}},
           UNCHANGED <<link, rx, wt, index, orphans, told>>,
           Consistent(s)'
    PROVE  IInv'
<1>1. TypeOK'
  BY DEF IInv, TypeOK, Answer, Goto, index, told
<1>2. \A u \in Sessions \ {s} : Same(u)
  BY DEF IInv, TypeOK, Answer, Goto, index, Same
<1> QED
  BY <1>1, <1>2, OneSession

(* Headers that are taken and marked: the request is open at both ends, and   *)
(* its session is still known or an orphan.                                   *)
LEMMA AnswerTaken ==
    ASSUME IInv, NEW s \in Sessions, tx[s] = "idle",
           \/ pc[s] = "responding" /\ pc'[s] = "streaming" /\ tx'[s] = "refusing"
           \/ pc[s] = "accepting" /\ pc'[s] = "accepted" /\ tx'[s] = "accepted",
           committed' = committed \cup {s}, UNCHANGED <<link, rx, index, orphans>>
    PROVE  Consistent(s)'
<1> DEFINE c == ConnectionOf[s]
<1>1. /\ pc[s] \in {"responding", "accepting"} /\ pc'[s] \in {"streaming", "accepted"}
      /\ c \in Connections /\ link' = link /\ rx' = rx /\ orphans' = orphans
      /\ connections' = connections /\ connSessions' = connSessions /\ sessions' = sessions
  BY SessionsAssumption DEF index
<1>2. PlaceIsHeld(s) /\ AnswerFollows(s) /\ MarkIsTrue(s)
  BY DEF IInv, Consistent
<1>3. /\ rx[s] \in {"open", "finished"}
      /\ link[c] = "open" /\ (c \in connections <=> link[c] = "open")
  <2>1. rx[s] \in {"new", "open", "finished", "aborted"}
    BY DEF IInv, TypeOK
  <2>2. link[c] \in {"new", "open", "ended", "stopped"}
    BY <1>1 DEF IInv, TypeOK
  <2>3. rx[s] # "new" /\ rx[s] # "aborted" /\ link[c] \notin {"new", "ended", "stopped"}
    BY <1>1, <1>2 DEF AnswerFollows
  <2>4. c \in connections <=> link[c] = "open"
    BY <1>1 DEF IInv, PlacesBelong
  <2> QED
    BY <2>1, <2>2, <2>3, <2>4
<1>4. PlaceIsHeld(s)'
  BY <1>1, <1>2, <1>3 DEF PlaceIsHeld, Undecided
<1>5. AnswerFollows(s)'
  BY <1>1, <1>3 DEF AnswerFollows, Unanswered
<1>6. s \in sessions \cup orphans
  <2>1. CASE rx[s] = "open"
    BY <1>1, <1>2, <1>3, <2>1 DEF PlaceIsHeld, Undecided
  <2>2. CASE rx[s] = "finished"
    BY <1>1, <1>2, <2>2 DEF MarkIsTrue, Undecided
  <2> QED
    BY <1>3, <2>1, <2>2
<1>7. MarkIsTrue(s)'
  <2>1. rx'[s] \in {"finished", "aborted"} /\ pc'[s] \in Undecided => s \in orphans'
    BY <1>1, <1>2 DEF MarkIsTrue, Undecided
  <2> QED
    BY <1>1, <1>6, <2>1 DEF MarkIsTrue
<1> QED
  BY <1>4, <1>5, <1>7 DEF Consistent

(* #rejectSession: the session is deleted, or an error answer is awaited.     *)
LEMMA RejectSessionIInv ==
    ASSUME IInv, NEW s \in Sessions, RejectSession(s),
           pc[s] \in Undecided, UNCHANGED <<link, rx, tx, wt, orphans, told>>
    PROVE  IInv'
<1>1. CASE s \in committed
  BY <1>1, AnsweredAndDeleted DEF RejectSession
<1>2. CASE s \notin committed
  <2>1. Goto(s, "failing") /\ UNCHANGED <<index, committed>>
    BY <1>2 DEF RejectSession
  <2>2. Answer(s, tx[s]) /\ tx[s] \in {"idle", "accepted", "refusing", "fin", "closed"}
    BY DEF IInv, TypeOK, Answer
  <2>3. Consistent(s)'
    BY <1>2, <2>1 DEF IInv, TypeOK, Goto, index, Consistent, PlaceIsHeld, AnswerFollows, MarkIsTrue, Undecided, Unanswered
  <2> QED
    BY <2>1, <2>2, <2>3, Advanced DEF Undecided
<1> QED
  BY <1>1, <1>2

LEMMA ForbidSettlesIInv ==
    ASSUME IInv, NEW s \in Sessions, ForbidSettles(s)
    PROVE  IInv'
<1>1. pc[s] \in Undecided /\ UNCHANGED <<link, rx, wt, orphans, told>>
  BY DEF ForbidSettles, Undecided
<1>2. CASE RejectSession(s) /\ UNCHANGED tx
  BY <1>1, <1>2, RejectSessionIInv
<1>3. CASE ~(RejectSession(s) /\ UNCHANGED tx)
  BY <1>1, <1>3, AnsweredAndDeleted DEF ForbidSettles
<1> QED
  BY <1>2, <1>3

LEMMA RefusalHeadersSettleIInv ==
    ASSUME IInv, NEW s \in Sessions, RefusalHeadersSettle(s)
    PROVE  IInv'
<1>1. pc[s] \in Undecided /\ UNCHANGED <<link, rx, wt, orphans, told>>
  BY DEF RefusalHeadersSettle, Undecided
<1>2. CASE tx[s] = "idle" /\ Answer(s, "fin") /\ DeleteSession(s) /\ Goto(s, "closed")
  BY <1>1, <1>2, AnsweredAndDeleted
<1>3. CASE /\ tx[s] = "idle" /\ Answer(s, "refusing")
           /\ committed' = committed \cup {s}
           /\ Goto(s, "streaming")
           /\ UNCHANGED index
  <2>1. Consistent(s)'
    <3>1. /\ pc[s] = "responding" /\ pc'[s] = "streaming"
          /\ tx[s] = "idle" /\ tx'[s] = "refusing" /\ committed' = committed \cup {s}
          /\ UNCHANGED <<link, rx, index, orphans>>
      BY <1>1, <1>3 DEF IInv, TypeOK, RefusalHeadersSettle, Goto, Answer
    <3> QED
      BY <3>1, AnswerTaken
  <2> QED
    BY <1>1, <1>3, <2>1, Advanced DEF Undecided
<1>4. CASE Goto(s, "cancelling") /\ UNCHANGED <<tx, index, committed>>
  <2>1. Answer(s, tx[s]) /\ tx[s] \in {"idle", "accepted", "refusing", "fin", "closed"}
    BY <1>4 DEF IInv, TypeOK, Answer
  <2>2. Consistent(s)'
    BY <1>1, <1>4 DEF IInv, TypeOK, RefusalHeadersSettle, Goto, index, Consistent, PlaceIsHeld, AnswerFollows, MarkIsTrue, Undecided, Unanswered
  <2> QED
    BY <1>1, <1>4, <2>1, <2>2, Advanced DEF Undecided
<1>5. CASE RejectSession(s) /\ UNCHANGED tx
  BY <1>1, <1>5, RejectSessionIInv
<1> QED
  BY <1>2, <1>3, <1>4, <1>5 DEF RefusalHeadersSettle

LEMMA RefusalBodySettlesIInv ==
    ASSUME IInv, NEW s \in Sessions, RefusalBodySettles(s)
    PROVE  IInv'
<1>1. pc[s] = "streaming" /\ UNCHANGED <<link, rx, wt, orphans, told>>
  BY DEF RefusalBodySettles
<1>2. CASE tx[s] = "refusing" /\ Answer(s, "fin") /\ DeleteSession(s) /\ Goto(s, "closed")
  BY <1>1, <1>2, AnsweredAndDeleted DEF Undecided
<1>3. CASE Goto(s, "cancelling") /\ UNCHANGED <<tx, index, committed>>
  <2>1. Answer(s, tx[s]) /\ tx[s] \in {"idle", "accepted", "refusing", "fin", "closed"}
    BY <1>3 DEF IInv, TypeOK, Answer
  <2>2. Consistent(s)'
    BY <1>1, <1>3 DEF IInv, TypeOK, Goto, index, Consistent, PlaceIsHeld, AnswerFollows, MarkIsTrue, Undecided, Unanswered
  <2> QED
    BY <1>1, <1>3, <2>1, <2>2, Advanced DEF Undecided
<1> QED
  BY <1>2, <1>3 DEF RefusalBodySettles

LEMMA CancelSettlesIInv ==
    ASSUME IInv, NEW s \in Sessions, CancelSettles(s)
    PROVE  IInv'
BY RejectSessionIInv DEF CancelSettles, Undecided, native

LEMMA AcceptSettlesIInv ==
    ASSUME IInv, NEW s \in Sessions, AcceptSettles(s)
    PROVE  IInv'
<1>1. pc[s] = "accepting" /\ UNCHANGED <<link, rx, wt, orphans, told>>
  BY DEF AcceptSettles
<1>2. CASE /\ tx[s] = "idle" /\ Answer(s, "accepted")
           /\ committed' = committed \cup {s}
           /\ Goto(s, "accepted")
           /\ UNCHANGED index
  <2>1. Consistent(s)'
    <3>1. /\ pc'[s] = "accepted" /\ tx[s] = "idle" /\ tx'[s] = "accepted"
          /\ committed' = committed \cup {s} /\ UNCHANGED <<link, rx, index, orphans>>
      BY <1>1, <1>2 DEF IInv, TypeOK, Goto, Answer
    <3> QED
      BY <1>1, <3>1, AnswerTaken
  <2> QED
    BY <1>1, <1>2, <2>1, Advanced
<1>3. CASE RejectSession(s) /\ UNCHANGED tx
  BY <1>1, <1>3, RejectSessionIInv DEF Undecided
<1> QED
  BY <1>2, <1>3 DEF AcceptSettles

LEMMA FailingSettlesIInv ==
    ASSUME IInv, NEW s \in Sessions, FailingSettles(s)
    PROVE  IInv'
BY AnsweredAndDeleted DEF FailingSettles, Undecided

-----------------------------------------------------------------------------
(* Steps that leave the streams and the sessions they belong to alone.        *)
LEMMA SameStreams ==
    ASSUME TypeOK, StreamsBelong,
           UNCHANGED <<wt, sessions, sessStreams, wtStreams, shown, reported>>,
           \A u \in Sessions : rx'[u] = rx[u] \/ rx'[u] # "new"
    PROVE  StreamsBelong'
BY SessionsAssumption DEF TypeOK, StreamsBelong

(* A connection that begins has no sessions yet. *)
LEMMA HandleConnectionIInv ==
    ASSUME IInv, NEW c \in Connections, HandleConnection(c)
    PROVE  IInv'
<1> USE SessionsAssumption
<1>1. TypeOK'
  BY DEF IInv, TypeOK, HandleConnection, told
<1>2. \A d \in Connections : link'[d] = IF d = c THEN "open" ELSE link[d]
  BY DEF IInv, TypeOK, HandleConnection
<1>3. UNCHANGED <<rx, tx, wt, connSessions, sessions, sessStreams, wtStreams, committed,
                  pc, orphans, shown, reported>>
  BY DEF HandleConnection, told
<1>4. connections' = connections \cup {c} /\ link[c] = "new"
  BY DEF HandleConnection
<1>5. PlacesBelong' /\ StreamsBelong'
  BY <1>2, <1>3, <1>4 DEF IInv, PlacesBelong, StreamsBelong
<1>6. ASSUME NEW s \in Sessions PROVE Consistent(s)'
  <2>1. CASE ConnectionOf[s] = c
    <3>1. Consistent(s) /\ rx[s] = "new"
      BY <1>4, <2>1 DEF IInv, Consistent, AnswerFollows
    <3> QED
      BY <1>2, <1>3, <1>4, <2>1, <3>1 DEF Consistent, PlaceIsHeld, AnswerFollows, MarkIsTrue, Undecided, Unanswered
  <2>2. CASE ConnectionOf[s] # c
    <3>1. Consistent(s) /\ Same(s)
      BY <1>2, <1>3, <1>4, <2>2 DEF IInv, Same
    <3> QED
      BY <3>1, SameConsistent
  <2> QED
    BY <2>1, <2>2
<1> QED
  BY <1>1, <1>5, <1>6 DEF IInv

(* A session is kept in the place of its connection that was free, or nowhere. *)
LEMMA HandleSessionIInv ==
    ASSUME IInv, NEW s \in Sessions, HandleSession(s)
    PROVE  IInv'
<1> DEFINE c == ConnectionOf[s]
<1>1. c \in Connections /\ \A u \in Sessions : ConnectionOf[u] \in Connections
  BY SessionsAssumption
<1>2. /\ link[c] = "open" /\ rx[s] = "new" /\ c \in connections
      /\ UNCHANGED <<link, tx, wt, connections, sessStreams, wtStreams, committed, orphans,
                     shown, reported>>
  BY DEF HandleSession, told
<1>3. /\ rx' \in [Sessions -> {"new", "open", "finished", "aborted"}]
      /\ \A u \in Sessions : rx'[u] = IF u = s THEN "open" ELSE rx[u]
  BY DEF IInv, TypeOK, HandleSession
<1>4. Consistent(s) /\ s \notin connSessions[c] /\ s \notin sessions /\ s \notin committed
  BY <1>2 DEF IInv, Consistent, PlaceIsHeld
<1>5. \A w \in Streams : SessionOf[w] = s => w \notin sessStreams[s]
  BY <1>2 DEF IInv, TypeOK, StreamsBelong
<1>6. CASE /\ connSessions[c] = {}
           /\ connSessions' = [connSessions EXCEPT ![c] = @ \cup {s}]
           /\ sessions' = sessions \cup {s}
           /\ Goto(s, "handler")
  <2>1. /\ connSessions' \in [Connections -> SUBSET Sessions]
        /\ \A d \in Connections : connSessions'[d] = IF d = c THEN {s} ELSE connSessions[d]
    BY <1>1, <1>6 DEF IInv, TypeOK
  <2>2. /\ pc' \in [Sessions -> {"new", "turned away", "accepted", "closed"} \cup Undecided]
        /\ \A u \in Sessions : pc'[u] = IF u = s THEN "handler" ELSE pc[u]
    BY <1>6 DEF IInv, TypeOK, Goto, Undecided
  <2>3. TypeOK'
    BY <1>2, <1>3, <1>6, <2>1, <2>2 DEF IInv, TypeOK
  <2>4. PlacesBelong'
    BY <1>1, <1>2, <2>1 DEF IInv, PlacesBelong
  <2>5. StreamsBelong'
    <3>1. StreamsBelong /\ shown \subseteq Streams /\ SessionOf \in [Streams -> Sessions]
      BY SessionsAssumption DEF IInv, TypeOK
    <3>2. \A w \in Streams : SessionOf[w] = s => wt[w] = "new" /\ w \notin shown /\ w \notin wtStreams
      BY <1>2, <1>4, <3>1 DEF StreamsBelong
    <3> QED
      BY <1>2, <1>3, <1>5, <1>6, <3>1, <3>2 DEF StreamsBelong
  <2>6. Consistent(s)'
    <3>1. PlaceIsHeld(s)'
      BY <1>1, <1>2, <1>3, <1>6, <2>1 DEF PlaceIsHeld
    <3>2. AnswerFollows(s)'
      BY <1>2, <1>3, <1>4, <2>2 DEF Consistent, AnswerFollows, Unanswered
    <3>3. MarkIsTrue(s)'
      BY <1>2, <1>3, <1>4, <1>6, <2>2 DEF Consistent, AnswerFollows, MarkIsTrue, Unanswered
    <3> QED
      BY <3>1, <3>2, <3>3 DEF Consistent
  <2>7. \A u \in Sessions \ {s} : Same(u)
    <3>1. \A u \in Sessions \ {s} :
            u \in connSessions'[ConnectionOf[u]] <=> u \in connSessions[ConnectionOf[u]]
      BY <1>1, <1>6, <2>1
    <3> QED
      BY <1>2, <1>3, <1>6, <2>2, <3>1 DEF Same
  <2> QED
    BY <2>3, <2>4, <2>5, <2>6, <2>7, SameConsistent DEF IInv
<1>7. CASE Goto(s, "turned away") /\ UNCHANGED <<connSessions, sessions>>
  <2>1. /\ pc' \in [Sessions -> {"new", "turned away", "accepted", "closed"} \cup Undecided]
        /\ \A u \in Sessions : pc'[u] = IF u = s THEN "turned away" ELSE pc[u]
    BY <1>7 DEF IInv, TypeOK, Goto
  <2>2. TypeOK'
    BY <1>2, <1>3, <1>7, <2>1 DEF IInv, TypeOK
  <2>3. PlacesBelong'
    BY <1>2, <1>7 DEF IInv, PlacesBelong
  <2>4. StreamsBelong'
    BY <1>2, <1>3, <1>7, SameStreams DEF IInv
  <2>5. Consistent(s)'
    BY <1>1, <1>2, <1>3, <1>4, <1>7, <2>1 DEF Consistent, PlaceIsHeld, AnswerFollows, MarkIsTrue, Undecided, Unanswered
  <2>6. \A u \in Sessions \ {s} : Same(u)
    BY <1>2, <1>3, <1>7, <2>1 DEF Same
  <2> QED
    BY <2>2, <2>3, <2>4, <2>5, <2>6, SameConsistent DEF IInv
<1> QED
  BY <1>6, <1>7 DEF HandleSession

(* A stream enters the index of its session if the server finds that.         *)
LEMMA HandleWebTransportStreamIInv ==
    ASSUME IInv, NEW w \in Streams, HandleWebTransportStream(w)
    PROVE  IInv'
<1> DEFINE s == SessionOf[w]
<1>1. s \in Sessions /\ rx[s] # "new" /\ wt[w] = "new"
  BY SessionsAssumption DEF HandleWebTransportStream
<1>2. UNCHANGED <<link, rx, tx, connections, connSessions, sessions, committed, pc, orphans,
                  reported>>
  BY DEF HandleWebTransportStream
<1>3. /\ wt' \in [Streams -> {"new", "open", "ended"}]
      /\ \A v \in Streams : wt'[v] = IF v = w THEN "open" ELSE wt[v]
  BY DEF IInv, TypeOK, HandleWebTransportStream
<1>4. w \notin shown
  BY <1>1 DEF IInv, StreamsBelong
<1>5. CASE s \in sessions
  <2>1. /\ sessStreams' \in [Sessions -> SUBSET Streams]
        /\ \A u \in Sessions :
             sessStreams'[u] = IF u = s THEN sessStreams[s] \cup {w} ELSE sessStreams[u]
        /\ wtStreams' = wtStreams \cup {w} /\ shown' = shown \cup {w}
    <3>1. /\ sessStreams' = [sessStreams EXCEPT ![s] = @ \cup {w}]
          /\ wtStreams' = wtStreams \cup {w} /\ shown' = shown \cup {w}
      BY <1>5 DEF HandleWebTransportStream
    <3> QED
      BY <1>1, <3>1 DEF IInv, TypeOK
  <2>2. TypeOK'
    BY <1>2, <1>3, <2>1 DEF IInv, TypeOK
  <2>3. StreamsBelong'
    <3>1. StreamsBelong /\ shown \subseteq Streams /\ \A v \in Streams : SessionOf[v] \in Sessions
      BY SessionsAssumption DEF IInv, TypeOK
    <3> QED
      BY <1>1, <1>2, <1>3, <1>4, <1>5, <2>1, <3>1 DEF StreamsBelong
  <2> QED
    BY <1>2, <2>2, <2>3, SameConsistent DEF IInv, PlacesBelong, Same
<1>6. CASE s \notin sessions
  <2>1. UNCHANGED <<sessStreams, wtStreams, shown>>
    BY <1>6 DEF HandleWebTransportStream
  <2>2. TypeOK'
    BY <1>2, <1>3, <2>1 DEF IInv, TypeOK
  <2>3. StreamsBelong'
    BY <1>1, <1>2, <1>3, <1>4, <2>1, SessionsAssumption DEF IInv, TypeOK, StreamsBelong
  <2> QED
    BY <1>2, <2>2, <2>3, SameConsistent DEF IInv, PlacesBelong, Same
<1> QED
  BY <1>5, <1>6

(* The end of a stream that the server still finds is reported.               *)
LEMMA HandleWebTransportStreamEndIInv ==
    ASSUME IInv, NEW w \in Streams, HandleWebTransportStreamEnd(w)
    PROVE  IInv'
<1> DEFINE s == SessionOf[w]
<1>1. s \in Sessions /\ wt[w] = "open"
  BY SessionsAssumption DEF HandleWebTransportStreamEnd
<1>2. UNCHANGED <<link, rx, tx, connections, connSessions, sessions, committed, pc, orphans,
                  shown>>
  BY DEF HandleWebTransportStreamEnd
<1>3. /\ wt' \in [Streams -> {"new", "open", "ended"}]
      /\ \A v \in Streams : wt'[v] = IF v = w THEN "ended" ELSE wt[v]
  BY DEF IInv, TypeOK, HandleWebTransportStreamEnd
<1>4. rx[s] # "new"
  BY <1>1 DEF IInv, StreamsBelong
<1>5. CASE w \in wtStreams
  <2>1. /\ sessStreams' \in [Sessions -> SUBSET Streams]
        /\ \A u \in Sessions :
             sessStreams'[u] = IF u = s THEN sessStreams[s] \ {w} ELSE sessStreams[u]
        /\ wtStreams' = wtStreams \ {w} /\ reported' = reported \cup {w}
    <3>1. /\ sessStreams' = [sessStreams EXCEPT ![s] = @ \ {w}]
          /\ wtStreams' = wtStreams \ {w} /\ reported' = reported \cup {w}
      BY <1>5 DEF HandleWebTransportStreamEnd
    <3>2. sessStreams \in [Sessions -> SUBSET Streams]
      BY DEF IInv, TypeOK
    <3> HIDE DEF s
    <3>3. sessStreams' \in [Sessions -> SUBSET Streams]
      BY <1>1, <3>1, <3>2
    <3>4. \A u \in Sessions :
            sessStreams'[u] = IF u = s THEN sessStreams[s] \ {w} ELSE sessStreams[u]
      BY <3>1, <3>2
    <3> QED
      BY <3>1, <3>3, <3>4
  <2>2. w \in shown
    BY <1>1, <1>5 DEF IInv, StreamsBelong
  <2>3. TypeOK'
    BY <1>2, <1>3, <2>1, <2>2 DEF IInv, TypeOK
  <2>4. StreamsBelong'
    <3>1. StreamsBelong /\ shown \subseteq Streams /\ \A v \in Streams : SessionOf[v] \in Sessions
      BY SessionsAssumption DEF IInv, TypeOK
    <3> QED
      BY <1>1, <1>2, <1>3, <1>4, <2>1, <3>1 DEF StreamsBelong
  <2> QED
    BY <1>2, <2>3, <2>4, SameConsistent DEF IInv, PlacesBelong, Same
<1>6. CASE w \notin wtStreams
  <2>1. UNCHANGED <<sessStreams, wtStreams, reported>>
    BY <1>6 DEF HandleWebTransportStreamEnd
  <2>2. w \in shown => s \notin sessions
    BY <1>1, <1>6 DEF IInv, StreamsBelong
  <2>3. TypeOK'
    BY <1>2, <1>3, <2>1 DEF IInv, TypeOK
  <2>4. StreamsBelong'
    <3>1. StreamsBelong /\ shown \subseteq Streams /\ \A v \in Streams : SessionOf[v] \in Sessions
      BY SessionsAssumption DEF IInv, TypeOK
    <3> QED
      BY <1>1, <1>2, <1>3, <1>4, <2>1, <2>2, <3>1 DEF StreamsBelong
  <2> QED
    BY <1>2, <2>3, <2>4, SameConsistent DEF IInv, PlacesBelong, Same
<1> QED
  BY <1>5, <1>6

-----------------------------------------------------------------------------
(* What the native layer makes of the answers it closes.                      *)
LEMMA CloseSendingEffect ==
    ASSUME TypeOK, NEW S \in SUBSET Sessions, CloseSending(S)
    PROVE  /\ tx' \in [Sessions -> {"idle", "accepted", "refusing", "fin", "closed"}]
           /\ \A s \in Sessions :
                IF s \in S THEN tx'[s] \in {tx[s], "closed"} \cap {"fin", "closed"}
                           ELSE tx'[s] = tx[s]
BY DEF TypeOK, CloseSending

(* The end of a session frees its place, and makes an orphan of it while its  *)
(* decision is awaited.                                                       *)
LEMMA HandleSessionEndIInv ==
    ASSUME IInv, NEW s \in Sessions, NEW reason \in {"finished", "aborted"},
           HandleSessionEnd(s, reason)
    PROVE  IInv'
<1>1. /\ rx[s] = "open" /\ link[ConnectionOf[s]] \in {"open", "ended"}
      /\ UNCHANGED <<link, wt, pc, shown, reported>>
  BY DEF HandleSessionEnd, told
<1>2. /\ rx' \in [Sessions -> {"new", "open", "finished", "aborted"}]
      /\ \A u \in Sessions : rx'[u] = IF u = s THEN reason ELSE rx[u]
  BY DEF IInv, TypeOK, HandleSessionEnd
<1>3. /\ tx' \in [Sessions -> {"idle", "accepted", "refusing", "fin", "closed"}]
      /\ \A u \in Sessions \ {s} : tx'[u] = tx[u]
      /\ tx'[s] = tx[s] \/ tx'[s] = "closed"
      /\ reason = "aborted" => tx'[s] \in {"fin", "closed"}
  <2>1. CASE reason = "aborted"
    BY <2>1 DEF IInv, TypeOK, HandleSessionEnd, CloseSending
  <2>2. CASE reason # "aborted"
    BY <2>2 DEF IInv, TypeOK, HandleSessionEnd
  <2> QED
    BY <2>1, <2>2
<1>4. /\ orphans' \subseteq Sessions
      /\ \A u \in Sessions : u \in orphans' <=> u \in orphans \/ (u = s /\ pc[s] \in Undecided)
  BY DEF IInv, TypeOK, HandleSessionEnd, Ending
<1>5. /\ wtStreams' \subseteq Streams /\ sessions' \subseteq Sessions /\ committed' \subseteq Sessions
      /\ connSessions' \in [Connections -> SUBSET Sessions]
      /\ UNCHANGED <<connections, sessStreams>>
      /\ PlacesBelong' /\ StreamsBelong'
      /\ s \notin sessions'
      /\ s \in committed' => s \in committed /\ s \notin sessions
      /\ s \in connSessions'[ConnectionOf[s]] => s \in connSessions[ConnectionOf[s]] /\ s \notin sessions
      /\ \A u \in Sessions \ {s} :
           /\ (u \in connSessions'[ConnectionOf[u]] <=> u \in connSessions[ConnectionOf[u]])
           /\ (u \in sessions' <=> u \in sessions) /\ (u \in committed' <=> u \in committed)
  <2>1. \A u \in Sessions : rx'[u] = rx[u] \/ rx'[u] # "new"
    BY <1>2
  <2>2. CASE s \in sessions
    <3>1. DeleteSession(s)
      BY <2>2 DEF HandleSessionEnd
    <3> QED
      BY <1>1, <2>1, <3>1, DeleteSessionEffect DEF told
  <2>3. CASE s \notin sessions
    <3>1. UNCHANGED <<connections, connSessions, sessions, sessStreams, wtStreams, committed>>
      BY <2>3 DEF HandleSessionEnd, index
    <3>2. StreamsBelong'
      BY <1>1, <2>1, <3>1, SameStreams DEF IInv
    <3> QED
      BY <1>1, <2>3, <3>1, <3>2 DEF IInv, TypeOK, PlacesBelong
  <2> QED
    BY <2>2, <2>3
<1>6. TypeOK'
  BY <1>1, <1>2, <1>3, <1>4, <1>5 DEF IInv, TypeOK
<1>7. \A u \in Sessions \ {s} : Same(u)
  BY <1>1, <1>2, <1>3, <1>4, <1>5 DEF Same
<1>8. Consistent(s)'
  <2>1. Consistent(s)
    BY DEF IInv
  <2>2. PlaceIsHeld(s)'
    BY <1>1, <1>2, <1>5, <2>1 DEF Consistent, PlaceIsHeld
  <2>3. AnswerFollows(s)'
    BY <1>1, <1>2, <1>3, <2>1 DEF Consistent, AnswerFollows, Unanswered
  <2>4. MarkIsTrue(s)'
    BY <1>1, <1>2, <1>3, <1>4, <1>5, <2>1 DEF Consistent, MarkIsTrue, Undecided
  <2> QED
    BY <2>2, <2>3, <2>4 DEF Consistent
<1> QED
  BY <1>5, <1>6, <1>7, <1>8, SameConsistent DEF IInv

(* The end of a connection closes its answers; its sessions are found no more, *)
(* although its own map keeps them.                                           *)
LEMMA HandleConnectionEndIInv ==
    ASSUME IInv, NEW c \in Connections, HandleConnectionEnd(c)
    PROVE  IInv'
<1>1. /\ link[c] = "open" /\ CloseSending(Of(c)) /\ connections' = connections \ {c}
      /\ UNCHANGED <<rx, wt, connSessions, sessStreams, committed, pc, shown, reported>>
  BY DEF HandleConnectionEnd, told
<1>2. /\ link' \in [Connections -> {"new", "open", "ended", "stopped"}]
      /\ \A d \in Connections : link'[d] = IF d = c THEN "ended" ELSE link[d]
  BY DEF IInv, TypeOK, HandleConnectionEnd
<1>3. /\ tx' \in [Sessions -> {"idle", "accepted", "refusing", "fin", "closed"}]
      /\ \A s \in Sessions :
           IF ConnectionOf[s] = c THEN tx'[s] \in {tx[s], "closed"} \cap {"fin", "closed"}
                                  ELSE tx'[s] = tx[s]
  BY <1>1, CloseSendingEffect DEF IInv, Of
<1>4. /\ orphans' \subseteq Sessions
      /\ \A s \in Sessions : s \in orphans' <=>
           s \in orphans \/ (ConnectionOf[s] = c /\ pc[s] \in Undecided)
  BY DEF IInv, TypeOK, HandleConnectionEnd, Ending, Of
<1>5. /\ wtStreams' = wtStreams \ StreamsOf(connSessions[c])
      /\ sessions' = sessions \ connSessions[c]
  BY DEF IInv, PlacesBelong, HandleConnectionEnd
<1>6. TypeOK'
  BY <1>1, <1>2, <1>3, <1>4, <1>5 DEF IInv, TypeOK
<1>7. PlacesBelong'
  BY <1>1, <1>2 DEF IInv, PlacesBelong
<1>8. StreamsBelong'
  <2>1. \A w \in Streams : w \in StreamsOf(connSessions[c]) <=>
          SessionOf[w] \in connSessions[c] /\ w \in sessStreams[SessionOf[w]]
    <3>1. \A w : w \in StreamsOf(connSessions[c]) <=>
                   \E s \in connSessions[c] : w \in sessStreams[s]
      BY DEF StreamsOf
    <3>2. \A s \in connSessions[c] : \A w \in sessStreams[s] : SessionOf[w] = s
      BY DEF IInv, TypeOK, StreamsBelong
    <3> QED
      BY <3>1, <3>2
  <2>2. StreamsBelong /\ shown \subseteq Streams
    BY DEF IInv, TypeOK
  <2> QED
    BY <1>1, <1>5, <2>1, <2>2 DEF StreamsBelong
<1>9. ASSUME NEW s \in Sessions PROVE Consistent(s)'
  <2>1. Consistent(s) /\ ConnectionOf[s] \in Connections
    BY SessionsAssumption DEF IInv
  <2>2. CASE ConnectionOf[s] = c
    <3>1. PlaceIsHeld(s)'
      BY <1>1, <1>3, <1>5, <2>1, <2>2 DEF Consistent, PlaceIsHeld
    <3>2. AnswerFollows(s)'
      BY <1>1, <1>2, <1>3, <2>1, <2>2 DEF Consistent, AnswerFollows, Unanswered
    <3>3. MarkIsTrue(s)'
      BY <1>1, <1>2, <1>3, <1>4, <2>1, <2>2 DEF Consistent, MarkIsTrue
    <3> QED
      BY <3>1, <3>2, <3>3 DEF Consistent
  <2>3. CASE ConnectionOf[s] # c
    <3>1. s \notin connSessions[c]
      BY <2>3 DEF IInv, PlacesBelong
    <3>2. Same(s)
      BY <1>1, <1>2, <1>3, <1>4, <1>5, <2>1, <2>3, <3>1 DEF Same
    <3> QED
      BY <2>1, <3>2, SameConsistent
  <2> QED
    BY <2>2, <2>3
<1> QED
  BY <1>6, <1>7, <1>8, <1>9 DEF IInv

(* After a stop nothing is found any more. *)
LEMMA HandleStopIInv ==
    ASSUME IInv, HandleStop
    PROVE  IInv'
<1>1. /\ link' = [c \in Connections |-> "stopped"] /\ CloseSending(Sessions)
      /\ connections' = {} /\ sessions' = {} /\ wtStreams' = {}
      /\ UNCHANGED <<rx, wt, sessStreams, committed, pc, shown, reported>>
  BY DEF HandleStop, told
<1>2. /\ connSessions' \in [Connections -> SUBSET Sessions]
      /\ \A c \in Connections : connSessions'[c] \subseteq connSessions[c]
  BY DEF IInv, TypeOK, HandleStop
<1>3. /\ tx' \in [Sessions -> {"idle", "accepted", "refusing", "fin", "closed"}]
      /\ \A s \in Sessions : tx'[s] \in {tx[s], "closed"} \cap {"fin", "closed"}
  BY <1>1, CloseSendingEffect DEF IInv
<1>4. /\ orphans' \subseteq Sessions
      /\ \A s \in Sessions : s \in orphans' <=> s \in orphans \/ pc[s] \in Undecided
  BY DEF IInv, TypeOK, HandleStop, Ending
<1>5. TypeOK'
  BY <1>1, <1>2, <1>3, <1>4 DEF IInv, TypeOK
<1>6. PlacesBelong'
  BY <1>1, <1>2 DEF IInv, PlacesBelong
<1>7. StreamsBelong'
  BY <1>1 DEF IInv, StreamsBelong
<1>8. ASSUME NEW s \in Sessions PROVE Consistent(s)'
  <2>1. Consistent(s) /\ ConnectionOf[s] \in Connections
    BY SessionsAssumption DEF IInv
  <2>2. PlaceIsHeld(s)'
    BY <1>1, <1>2, <1>3, <2>1 DEF Consistent, PlaceIsHeld
  <2>3. AnswerFollows(s)'
    BY <1>1, <1>3, <2>1 DEF Consistent, AnswerFollows, Unanswered
  <2>4. MarkIsTrue(s)'
    BY <1>1, <1>3, <1>4, <2>1 DEF Consistent, MarkIsTrue
  <2> QED
    BY <2>2, <2>3, <2>4 DEF Consistent
<1> QED
  BY <1>5, <1>6, <1>7, <1>8 DEF IInv

-----------------------------------------------------------------------------
LEMMA StutterIInv ==
    ASSUME IInv, UNCHANGED vars
    PROVE  IInv'
<1>1. TypeOK' /\ PlacesBelong'
  BY DEF IInv, TypeOK, PlacesBelong, vars, told
<1>2. StreamsBelong'
  BY SameStreams DEF IInv, vars
<1>3. \A s \in Sessions : Same(s)
  BY DEF Same, vars
<1> QED
  BY <1>1, <1>2, <1>3, SameConsistent DEF IInv

(* Every step keeps the inductive invariant. *)
LEMMA NextIInv == IInv /\ [Next]_vars => IInv'
<1> SUFFICES ASSUME IInv, [Next]_vars PROVE IInv'
  OBVIOUS
<1>1. ASSUME NEW c \in Connections, HandleConnection(c) PROVE IInv'
  BY <1>1, HandleConnectionIInv
<1>2. ASSUME NEW c \in Connections, HandleConnectionEnd(c) PROVE IInv'
  BY <1>2, HandleConnectionEndIInv
<1>3. CASE HandleStop
  BY <1>3, HandleStopIInv
<1>4. ASSUME NEW s \in Sessions, HandleSession(s) PROVE IInv'
  BY <1>4, HandleSessionIInv
<1>5. ASSUME NEW s \in Sessions, TurnAway(s) PROVE IInv'
  BY <1>5, TurnAwayIInv
<1>6. ASSUME NEW s \in Sessions, Decision(s) PROVE IInv'
  BY <1>6, SessionDecidesIInv, ForbidSettlesIInv, RefusalHeadersSettleIInv,
     RefusalBodySettlesIInv, CancelSettlesIInv, AcceptSettlesIInv, FailingSettlesIInv
     DEF Decision
<1>7. ASSUME NEW s \in Sessions, NEW reason \in {"finished", "aborted"},
             HandleSessionEnd(s, reason)
      PROVE  IInv'
  BY <1>7, HandleSessionEndIInv
<1>8. ASSUME NEW w \in Streams, HandleWebTransportStream(w) PROVE IInv'
  BY <1>8, HandleWebTransportStreamIInv
<1>9. ASSUME NEW w \in Streams, HandleWebTransportStreamEnd(w) PROVE IInv'
  BY <1>9, HandleWebTransportStreamEndIInv
<1>10. CASE UNCHANGED vars
  BY <1>10, StutterIInv
<1> QED
  BY <1>1, <1>2, <1>3, <1>4, <1>5, <1>6, <1>7, <1>8, <1>9, <1>10 DEF Next

(* The inductive invariant: the places, the streams and the answers of every  *)
(* connection, in whatever order the callbacks and the settlements come.      *)
THEOREM Inductive == Spec => []IInv
BY InitIInv, NextIInv, PTL DEF Spec

(* Every variable of the server and of the native layer keeps its type.       *)
THEOREM TypeCorrect == Spec => []TypeOK
<1>1. IInv => TypeOK
  BY DEF IInv
<1> QED
  BY <1>1, Inductive, PTL

(* The indexes hold exactly the sessions of live connections and the streams   *)
(* of live sessions, whatever the order of the six callbacks.                 *)
THEOREM IndexesAgree == Spec => []SessionIndexesAgree
<1>1. IInv => SessionIndexesAgree
  <2> SUFFICES ASSUME IInv PROVE SessionIndexesAgree
    OBVIOUS
  <2>1. sessions \subseteq Sessions /\ connections \subseteq Connections /\ wtStreams \subseteq Streams
        /\ connSessions \in [Connections -> SUBSET Sessions]
        /\ sessStreams \in [Sessions -> SUBSET Streams]
    BY DEF IInv, TypeOK
  <2>2. ASSUME NEW s PROVE s \in sessions <=> \E c \in connections : s \in connSessions[c]
    <3>1. s \in Sessions => (s \in sessions <=> ConnectionOf[s] \in connections
                                                /\ s \in connSessions[ConnectionOf[s]])
      BY DEF IInv, Consistent, PlaceIsHeld
    <3>2. \A c \in connections : s \in connSessions[c] => s \in Sessions /\ ConnectionOf[s] = c
      BY <2>1 DEF IInv, PlacesBelong
    <3> QED
      BY <2>1, <3>1, <3>2
  <2>3. ASSUME NEW w PROVE w \in wtStreams <=> \E s \in sessions : w \in sessStreams[s]
    <3>1. w \in Streams => (w \in wtStreams <=> SessionOf[w] \in sessions
                                                /\ w \in sessStreams[SessionOf[w]])
      BY DEF IInv, StreamsBelong
    <3>2. \A s \in sessions : w \in sessStreams[s] => w \in Streams /\ SessionOf[w] = s
      BY <2>1 DEF IInv, StreamsBelong
    <3> QED
      BY <2>1, <3>1, <3>2
  <2>4. sessions = UNION {connSessions[c] : c \in connections}
    BY <2>2
  <2>5. wtStreams = UNION {sessStreams[s] : s \in sessions}
    BY <2>3
  <2> QED
    BY <2>4, <2>5 DEF SessionIndexesAgree, StreamsOf
<1> QED
  BY <1>1, Inductive, PTL

(* No error answer follows the headers of a session that is not an orphan, and *)
(* a mark outlives its session only for orphans and with dead connections.    *)
THEOREM CommittedIsTrue == Spec => []MarksAreTrue
<1>1. IInv => MarksAreTrue
  <2> SUFFICES ASSUME IInv PROVE MarksAreTrue
    OBVIOUS
  <2>1. ASSUME NEW s \in Sessions, pc[s] = "failing", tx[s] \in {"accepted", "refusing"}
        PROVE  s \in orphans
    BY <2>1 DEF IInv, Consistent, AnswerFollows, MarkIsTrue
  <2>2. \A s \in committed : s \in sessions \cup orphans \/ link[ConnectionOf[s]] # "open"
    BY DEF IInv, TypeOK, Consistent, MarkIsTrue
  <2> QED
    BY <2>1, <2>2 DEF MarksAreTrue
<1> QED
  BY <1>1, Inductive, PTL

(* Two sessions of a connection are accepted only when the client has ended    *)
(* one of them: one that is accepted and not ended holds the only place.      *)
THEOREM OneAtATime == Spec => []OneSessionAccepted
<1>1. IInv => OneSessionAccepted
  <2> SUFFICES ASSUME IInv, NEW s \in Sessions, NEW t \in Sessions,
                      s # t, ConnectionOf[s] = ConnectionOf[t],
                      tx[s] = "accepted", tx[t] = "accepted",
                      rx[s] # "finished", rx[t] # "finished"
               PROVE  FALSE
    BY DEF OneSessionAccepted
  <2>1. ASSUME NEW u \in Sessions, tx[u] = "accepted", rx[u] # "finished"
        PROVE  u \in connSessions[ConnectionOf[u]]
    <3>1. pc[u] = "accepted" /\ rx[u] # "new" /\ rx[u] # "aborted"
      BY <2>1 DEF IInv, Consistent, AnswerFollows
    <3> QED
      BY <2>1, <3>1 DEF IInv, TypeOK, Consistent, PlaceIsHeld
  <2> QED
    BY <2>1, SessionsAssumption DEF IInv, PlacesBelong
<1> QED
  BY <1>1, Inductive, PTL

(* The end of every stream that the application knows is reported, unless its  *)
(* session is gone.                                                           *)
THEOREM EndIsReported == Spec => []StreamEndIsReported
<1>1. IInv => StreamEndIsReported
  BY DEF IInv, StreamsBelong, StreamEndIsReported
<1> QED
  BY <1>1, Inductive, PTL
================================================================================
