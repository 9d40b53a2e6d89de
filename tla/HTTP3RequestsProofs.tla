------------------------- MODULE HTTP3RequestsProofs -------------------------
(***************************************************************************)
(* Proofs about HTTP3Requests, for any set of requests and connections and *)
(* any length of a response body.                                          *)
(***************************************************************************)
EXTENDS HTTP3Requests, TLAPS

(* A stream is only in the map of its own connection. *)
StreamsBelong == \A c \in Connections : connStreams[c] \subseteq Of(c)

NewIsEmpty == \A c \in Connections : link[c] = "new" => connStreams[c] = {}

(* Where #handleRequest stands, the maps, the source and the native stream of *)
(* one request agree.                                                        *)
Agrees(r) ==
    /\ rx[r] = "new" => pc[r] = "new"
    /\ source[r] = "open" => r \in readers
    /\ r \in readers => pc[r] \in InResponse
    /\ r \in committed => pc[r] \in Sending \cup {"cancelling"}
    /\ pc[r] \in Sending => /\ r \in committed /\ r \notin raw
                            /\ tx[r] \in {"headers", "closed"}
    /\ r \in raw => tx[r] # "idle"
    /\ r \notin raw /\ r \notin committed /\ pc[r] # "done" => tx[r] # "headers"

(* What has been read from the source has been sent, except the chunk that is *)
(* on its way, and a source is stopped under a response only when the native  *)
(* stream is closed.                                                         *)
Delivered(r) ==
    /\ pc[r] \in {"new", "handler", "short"} => source[r] = "none"
    /\ pc[r] \in {"new", "handler", "headers"} => produced[r] = 0 /\ accepted[r] = 0
    /\ pc[r] \in {"headers", "reading", "sending"} => source[r] \in {"open", "stopped"}
    /\ pc[r] = "finishing" => source[r] \in {"exhausted", "stopped"}
    /\ pc[r] \in {"reading", "finishing"} => accepted[r] = produced[r]
    /\ pc[r] = "sending" => accepted[r] + 1 = produced[r]
    /\ pc[r] \in {"headers"} \cup Sending /\ source[r] = "stopped" =>
          tx[r] \in {"fin", "closed"}
    /\ pc[r] = "cancelling" => source[r] # "open"
    /\ source[r] = "exhausted" => tx[r] # "idle"

Consistent(r) == Agrees(r) /\ Delivered(r)

IInv ==
    /\ TypeOK
    /\ IndexesAgree
    /\ StreamsBelong
    /\ NewIsEmpty
    /\ \A r \in Requests : Consistent(r)

-----------------------------------------------------------------------------
(* The initial state satisfies the inductive invariant. *)
LEMMA InitIInv == Init => IInv
<1> SUFFICES ASSUME Init PROVE IInv
  OBVIOUS
<1>1. TypeOK
  BY RequestsAssumption DEF Init, TypeOK
<1>2. IndexesAgree /\ StreamsBelong /\ NewIsEmpty
  BY DEF Init, IndexesAgree, StreamsBelong, NewIsEmpty
<1>3. ASSUME NEW r \in Requests PROVE Consistent(r)
  BY DEF Init, Consistent, Agrees, Delivered, Sending
<1> QED
  BY <1>1, <1>2, <1>3 DEF IInv

(* A step that leaves request r alone. *)
Same(r) ==
    /\ rx'[r] = rx[r] /\ tx'[r] = tx[r] /\ pc'[r] = pc[r] /\ source'[r] = source[r]
    /\ produced'[r] = produced[r] /\ accepted'[r] = accepted[r]
    /\ (r \in readers' <=> r \in readers) /\ (r \in committed' <=> r \in committed)
    /\ (r \in raw' <=> r \in raw)

LEMMA SameConsistent ==
    ASSUME NEW r \in Requests, Consistent(r), Same(r)
    PROVE  Consistent(r)'
BY DEF Consistent, Agrees, Delivered, Same

(* A step of one request that leaves the index alone. *)
LEMMA OneRequest ==
    ASSUME IInv, NEW r \in Requests, TypeOK', UNCHANGED <<link, connections, connStreams, streams>>,
           \A u \in Requests \ {r} : Same(u),
           Consistent(r)'
    PROVE  IInv'
<1>1. \A u \in Requests : Consistent(u)'
  BY SameConsistent DEF IInv
<1>2. IndexesAgree' /\ StreamsBelong' /\ NewIsEmpty'
  BY DEF IInv, IndexesAgree, StreamsBelong, NewIsEmpty, Of
<1> QED
  BY <1>1, <1>2 DEF IInv

-----------------------------------------------------------------------------
LEMMA HandlerSendsIInv ==
    ASSUME IInv, NEW r \in Requests, HandlerSends(r)
    PROVE  IInv'
<1>1. TypeOK'
  BY DEF IInv, TypeOK, HandlerSends, index, body
<1>2. \A u \in Requests \ {r} : Same(u)
  BY DEF IInv, TypeOK, HandlerSends, body, Same
<1>3. Consistent(r)'
  BY DEF IInv, TypeOK, HandlerSends, body, Consistent, Agrees, Delivered, InResponse,
         Sending
<1> QED
  BY <1>1, <1>2, <1>3, OneRequest DEF HandlerSends, index, native

LEMMA HandlerReturnsBodyIInv ==
    ASSUME IInv, NEW r \in Requests, HandlerReturnsBody(r)
    PROVE  IInv'
<1>1. TypeOK'
  BY DEF IInv, TypeOK, HandlerReturnsBody, index, native, Goto, InResponse
<1>2. \A u \in Requests \ {r} : Same(u)
  BY DEF IInv, TypeOK, HandlerReturnsBody, native, Goto, Same
<1>3. Consistent(r)'
  BY DEF IInv, TypeOK, HandlerReturnsBody, native, Goto, Consistent, Agrees, Delivered,
         InResponse, Sending
<1> QED
  BY <1>1, <1>2, <1>3, OneRequest DEF HandlerReturnsBody, index, native

LEMMA HandlerReturnsIInv ==
    ASSUME IInv, NEW r \in Requests, HandlerReturns(r)
    PROVE  IInv'
<1>1. PICK label \in {"short", "done", "error"} : Goto(r, label)
  BY DEF HandlerReturns
<1>2. TypeOK'
  BY <1>1 DEF IInv, TypeOK, HandlerReturns, index, native, body, Goto
<1>3. \A u \in Requests \ {r} : Same(u)
  BY <1>1 DEF IInv, TypeOK, HandlerReturns, native, body, Goto, Same
<1>4. Consistent(r)'
  BY <1>1 DEF IInv, TypeOK, HandlerReturns, native, body, Goto, Consistent, Agrees,
              Delivered, InResponse, Sending
<1> QED
  BY <1>2, <1>3, <1>4, OneRequest DEF HandlerReturns, index, native

LEMMA ShortSettlesIInv ==
    ASSUME IInv, NEW r \in Requests, ShortSettles(r)
    PROVE  IInv'
<1>1. TypeOK'
  BY DEF IInv, TypeOK, ShortSettles, index, body, Goto
<1>2. \A u \in Requests \ {r} : Same(u)
  BY DEF IInv, TypeOK, ShortSettles, body, Goto, Same
<1>3. Consistent(r)'
  BY DEF IInv, TypeOK, ShortSettles, body, Goto, Consistent, Agrees, Delivered,
         InResponse, Sending
<1> QED
  BY <1>1, <1>2, <1>3, OneRequest DEF ShortSettles, index, native

LEMMA HeadersSettleIInv ==
    ASSUME IInv, NEW r \in Requests, HeadersSettle(r)
    PROVE  IInv'
<1>1. TypeOK'
  BY DEF IInv, TypeOK, HeadersSettle, index, Goto, Fail, InResponse, Sending
<1>2. \A u \in Requests \ {r} : Same(u)
  BY DEF IInv, TypeOK, HeadersSettle, Goto, Fail, Same
<1>3. Consistent(r)'
  BY DEF IInv, TypeOK, HeadersSettle, Goto, Fail, Consistent, Agrees, Delivered,
         InResponse, Sending
<1> QED
  BY <1>1, <1>2, <1>3, OneRequest DEF HeadersSettle, index, native

LEMMA ReadSettlesIInv ==
    ASSUME IInv, NEW r \in Requests, ReadSettles(r)
    PROVE  IInv'
<1>1. TypeOK'
  <2>1. produced' \in [Requests -> 0 .. MaxChunks]
    BY RequestsAssumption DEF IInv, TypeOK, ReadSettles
  <2>2. source' \in [Requests -> {"none", "open", "exhausted", "stopped"}]
    BY DEF IInv, TypeOK, ReadSettles, Fail
  <2>3. pc' \in [Requests -> {"new", "handler", "short", "error", "done"} \cup InResponse]
    BY DEF IInv, TypeOK, ReadSettles, Goto, Fail, InResponse, Sending
  <2> QED
    BY <2>1, <2>2, <2>3 DEF IInv, TypeOK, ReadSettles, index, native
<1>2. \A u \in Requests \ {r} : Same(u)
  BY DEF IInv, TypeOK, ReadSettles, native, Goto, Fail, Same
<1>3. Consistent(r)'
  BY DEF IInv, TypeOK, ReadSettles, native, Goto, Fail, Consistent, Agrees, Delivered,
         InResponse, Sending
<1> QED
  BY <1>1, <1>2, <1>3, OneRequest DEF ReadSettles, index, native

LEMMA SendSettlesIInv ==
    ASSUME IInv, NEW r \in Requests, SendSettles(r)
    PROVE  IInv'
<1>1. TypeOK'
  BY RequestsAssumption
     DEF IInv, TypeOK, SendSettles, index, native, Goto, Fail, InResponse, Sending,
         Consistent, Delivered
<1>2. \A u \in Requests \ {r} : Same(u)
  BY DEF IInv, TypeOK, SendSettles, native, Goto, Fail, Same
<1>3. Consistent(r)'
  BY DEF IInv, TypeOK, SendSettles, native, Goto, Fail, Consistent, Agrees, Delivered,
         InResponse, Sending
<1> QED
  BY <1>1, <1>2, <1>3, OneRequest DEF SendSettles, index, native

LEMMA FinSettlesIInv ==
    ASSUME IInv, NEW r \in Requests, FinSettles(r)
    PROVE  IInv'
<1>1. TypeOK'
  BY DEF IInv, TypeOK, FinSettles, index, Goto, Fail, InResponse
<1>2. \A u \in Requests \ {r} : Same(u)
  BY DEF IInv, TypeOK, FinSettles, Goto, Fail, Same
<1>3. Consistent(r)'
  BY DEF IInv, TypeOK, FinSettles, Goto, Fail, Consistent, Agrees, Delivered,
         InResponse, Sending
<1> QED
  BY <1>1, <1>2, <1>3, OneRequest DEF FinSettles, index, native

LEMMA CancelSettlesIInv ==
    ASSUME IInv, NEW r \in Requests, CancelSettles(r)
    PROVE  IInv'
<1>1. TypeOK'
  BY DEF IInv, TypeOK, CancelSettles, index, native, body, Goto
<1>2. \A u \in Requests \ {r} : Same(u)
  BY DEF IInv, TypeOK, CancelSettles, native, body, Goto, Same
<1>3. Consistent(r)'
  BY DEF IInv, TypeOK, CancelSettles, native, body, Goto, Consistent, Agrees, Delivered,
         InResponse, Sending
<1> QED
  BY <1>1, <1>2, <1>3, OneRequest DEF CancelSettles, index, native

LEMMA ErrorSettlesIInv ==
    ASSUME IInv, NEW r \in Requests, ErrorSettles(r)
    PROVE  IInv'
<1>1. TypeOK'
  BY DEF IInv, TypeOK, ErrorSettles, index, body, Goto
<1>2. \A u \in Requests \ {r} : Same(u)
  BY DEF IInv, TypeOK, ErrorSettles, body, Goto, Same
<1>3. Consistent(r)'
  BY DEF IInv, TypeOK, ErrorSettles, body, Goto, Consistent, Agrees, Delivered,
         InResponse, Sending
<1> QED
  BY <1>1, <1>2, <1>3, OneRequest DEF ErrorSettles, index, native

-----------------------------------------------------------------------------
(* Closing the send side of the requests of S and cancelling the readers of   *)
(* some of them.                                                             *)
LEMMA TornDown ==
    ASSUME IInv, NEW S \in SUBSET Requests, NEW C \in SUBSET S,
           CloseSending(S), CancelResponses(C), UNCHANGED <<pc, committed, raw>>,
           \A r \in Requests : rx'[r] = rx[r] \/ rx'[r] # "new"
    PROVE  /\ tx' \in [Requests -> {"idle", "headers", "fin", "closed"}]
           /\ source' \in [Requests -> {"none", "open", "exhausted", "stopped"}]
           /\ readers' \subseteq Requests
           /\ UNCHANGED <<produced, accepted>>
           /\ \A r \in Requests : Consistent(r)'
<1>1. /\ tx' \in [Requests -> {"idle", "headers", "fin", "closed"}]
      /\ source' \in [Requests -> {"none", "open", "exhausted", "stopped"}]
      /\ readers' \subseteq Requests
      /\ UNCHANGED <<produced, accepted>>
  BY DEF IInv, TypeOK, CloseSending, CancelResponses
<1>2. ASSUME NEW r \in Requests
      PROVE  /\ tx'[r] = IF r \in S /\ tx[r] # "fin" THEN "closed" ELSE tx[r]
             /\ r \in readers' <=> r \in readers /\ r \notin C
             /\ source'[r] = IF r \in C /\ r \in readers /\ source[r] = "open"
                             THEN "stopped" ELSE source[r]
             /\ r \in C => r \in S
  BY DEF CloseSending, CancelResponses
<1>3. ASSUME NEW r \in Requests
      PROVE  Agrees(r)'
  <2>1. Agrees(r) /\ tx[r] \in {"idle", "headers", "fin", "closed"}
    BY DEF IInv, Consistent, TypeOK
  <2> QED
    BY <1>2, <2>1 DEF Agrees
<1>4. ASSUME NEW r \in Requests
      PROVE  Delivered(r)'
  <2>1. Delivered(r) /\ (source[r] = "open" => pc[r] \in InResponse)
    BY DEF IInv, Consistent, Agrees
  <2>2. Agrees(r) /\ tx[r] \in {"idle", "headers", "fin", "closed"}
    BY DEF IInv, Consistent, TypeOK
  <2> QED
    BY <1>1, <1>2, <2>1, <2>2 DEF Delivered, Agrees, InResponse, Sending
<1> QED
  BY <1>1, <1>3, <1>4 DEF Consistent

LEMMA PeerStopsIInv ==
    ASSUME IInv, NEW r \in Requests, PeerStops(r)
    PROVE  IInv'
<1>1. TypeOK'
  BY DEF IInv, TypeOK, PeerStops, CloseSending, index, body
<1>2. \A u \in Requests \ {r} : Same(u)
  BY DEF PeerStops, CloseSending, body, Same
<1>3. Consistent(r)'
  BY DEF IInv, TypeOK, PeerStops, CloseSending, body, Consistent, Agrees, Delivered,
         InResponse, Sending
<1> QED
  BY <1>1, <1>2, <1>3, OneRequest DEF PeerStops, index

LEMMA HandleConnectionIInv ==
    ASSUME IInv, NEW c \in Connections, HandleConnection(c)
    PROVE  IInv'
<1>1. TypeOK'
  BY DEF IInv, TypeOK, HandleConnection, body
<1>2. \A r \in Requests : Consistent(r)'
  <2>1. \A r \in Requests : Same(r)
    BY DEF HandleConnection, body, Same
  <2> QED
    BY <2>1, SameConsistent DEF IInv
<1>3. StreamsBelong' /\ IndexesAgree'
  BY DEF IInv, StreamsBelong, NewIsEmpty, IndexesAgree, HandleConnection, Of
<1>4. NewIsEmpty'
  BY DEF IInv, NewIsEmpty, HandleConnection, TypeOK
<1> QED
  BY <1>1, <1>2, <1>3, <1>4 DEF IInv

LEMMA HandleRequestIInv ==
    ASSUME IInv, NEW r \in Requests, HandleRequest(r)
    PROVE  IInv'
<1> DEFINE c == ConnectionOf[r]
<1>1. c \in Connections /\ r \in Of(c) /\ link[c] = "open"
  BY RequestsAssumption DEF Of, HandleRequest
<1>2. TypeOK'
  <2>1. connStreams' \in [Connections -> SUBSET Requests] /\ streams' \subseteq Requests
    BY <1>1 DEF IInv, TypeOK, HandleRequest
  <2>2. rx' \in [Requests -> {"new", "open", "finished", "aborted"}]
    BY DEF IInv, TypeOK, HandleRequest
  <2> QED
    BY <2>1, <2>2 DEF IInv, TypeOK, HandleRequest, body, Goto
<1>3. Consistent(r)'
  <2>1. Consistent(r) /\ pc[r] = "new"
    BY DEF IInv, HandleRequest, Consistent, Agrees
  <2>2. /\ pc'[r] \in {"handler", "error"} /\ rx'[r] = "open"
        /\ UNCHANGED <<tx, readers, committed, source, produced, accepted, raw>>
    BY DEF IInv, TypeOK, HandleRequest, Goto, body
  <2> QED
    BY <2>1, <2>2 DEF Consistent, Agrees, Delivered, InResponse, Sending
<1>4. \A u \in Requests : Consistent(u)'
  <2>1. \A u \in Requests \ {r} : Same(u)
    BY DEF IInv, TypeOK, HandleRequest, body, Goto, Same
  <2> QED
    BY <1>3, <2>1, SameConsistent DEF IInv
<1>5. IndexesAgree' /\ StreamsBelong' /\ NewIsEmpty'
  <2>1. /\ IndexesAgree /\ StreamsBelong /\ NewIsEmpty
        /\ connStreams \in [Connections -> SUBSET Requests]
        /\ connections \subseteq Connections
    BY DEF IInv, TypeOK
  <2>2. c \in connections /\ UNCHANGED <<connections, link>>
    BY DEF HandleRequest
  <2>3. CASE /\ connStreams' = [connStreams EXCEPT ![c] = @ \cup {r}]
             /\ streams' = streams \cup {r}
    <3>1. IndexesAgree'
      BY <1>1, <2>1, <2>2, <2>3 DEF IndexesAgree
    <3>2. StreamsBelong' /\ NewIsEmpty'
      BY <1>1, <2>1, <2>2, <2>3 DEF StreamsBelong, NewIsEmpty, Of
    <3> QED
      BY <3>1, <3>2
  <2>4. CASE UNCHANGED <<connStreams, streams>>
    BY <2>1, <2>2, <2>4 DEF IndexesAgree, StreamsBelong, NewIsEmpty, Of
  <2> QED
    BY <2>3, <2>4 DEF HandleRequest
<1> QED
  BY <1>2, <1>4, <1>5 DEF IInv

LEMMA HandleRequestEndIInv ==
    ASSUME IInv, NEW r \in Requests, NEW reason \in {"finished", "aborted"},
           HandleRequestEnd(r, reason)
    PROVE  IInv'
<1> DEFINE c == ConnectionOf[r]
<1>1. c \in Connections /\ r \in Of(c)
  BY RequestsAssumption DEF Of
<1>2. rx' \in [Requests -> {"new", "open", "finished", "aborted"}]
  BY DEF IInv, TypeOK, HandleRequestEnd
<1>3. \A u \in Requests : rx'[u] = rx[u] \/ rx'[u] # "new"
  BY DEF IInv, TypeOK, HandleRequestEnd
<1>4. UNCHANGED <<pc, committed, raw, link, connections>>
  BY DEF HandleRequestEnd
<1>5. /\ tx' \in [Requests -> {"idle", "headers", "fin", "closed"}]
      /\ source' \in [Requests -> {"none", "open", "exhausted", "stopped"}]
      /\ readers' \subseteq Requests
      /\ UNCHANGED <<produced, accepted>>
      /\ \A u \in Requests : Consistent(u)'
  <2>1. CASE reason = "aborted"
    <3>1. CloseSending({r}) /\ CancelResponses({r})
      BY <2>1 DEF HandleRequestEnd
    <3> QED
      BY <1>3, <1>4, <3>1, TornDown
  <2>2. CASE reason # "aborted"
    <3>1. UNCHANGED <<tx, readers, source, produced, accepted>>
      BY <2>2 DEF HandleRequestEnd, body
    <3>2. ASSUME NEW u \in Requests
          PROVE  Consistent(u)'
      <4>1. Consistent(u) /\ (rx'[u] = "new" => rx[u] = "new")
        BY <1>3 DEF IInv
      <4> QED
        BY <1>4, <3>1, <4>1 DEF Consistent, Agrees, Delivered
    <3> QED
      BY <3>1, <3>2 DEF IInv, TypeOK
  <2> QED
    BY <2>1, <2>2
<1>6. /\ streams' = streams \ {r}
      /\ connStreams' = [connStreams EXCEPT ![c] = @ \ {r}] \/ connStreams' = connStreams
      /\ r \notin streams => connStreams' = connStreams
      /\ r \in streams => connStreams' = [connStreams EXCEPT ![c] = @ \ {r}]
  BY DEF HandleRequestEnd
<1>7. TypeOK'
  <2>1. connStreams' \in [Connections -> SUBSET Requests] /\ streams' \subseteq Requests
    BY <1>1, <1>6 DEF IInv, TypeOK
  <2> QED
    BY <1>2, <1>4, <1>5, <2>1 DEF IInv, TypeOK
<1>8. IndexesAgree' /\ StreamsBelong' /\ NewIsEmpty'
  <2>1. /\ IndexesAgree /\ StreamsBelong /\ NewIsEmpty
        /\ connStreams \in [Connections -> SUBSET Requests]
        /\ connections \subseteq Connections
    BY DEF IInv, TypeOK
  <2>2. \A d \in Connections : r \in connStreams[d] => d = c
    BY <2>1 DEF StreamsBelong, Of
  <2>3. CASE r \in streams
    <3>1. \A d \in Connections : connStreams'[d] = connStreams[d] \ {r}
      BY <1>6, <2>1, <2>2, <2>3
    <3>2. IndexesAgree'
      BY <1>4, <1>6, <2>1, <3>1 DEF IndexesAgree
    <3> QED
      BY <1>4, <2>1, <3>1, <3>2 DEF StreamsBelong, NewIsEmpty, Of
  <2>4. CASE r \notin streams
    BY <1>4, <1>6, <2>1, <2>4 DEF IndexesAgree, StreamsBelong, NewIsEmpty, Of
  <2> QED
    BY <2>3, <2>4
<1> QED
  BY <1>5, <1>7, <1>8 DEF IInv

LEMMA HandleConnectionEndIInv ==
    ASSUME IInv, NEW c \in Connections, HandleConnectionEnd(c)
    PROVE  IInv'
<1>1. UNCHANGED <<rx, connStreams, committed, pc, raw>>
  BY DEF HandleConnectionEnd
<1>2. CloseSending(Of(c)) /\ CancelResponses(Of(c)) /\ Of(c) \subseteq Requests
  BY DEF HandleConnectionEnd, Of
<1>3. /\ tx' \in [Requests -> {"idle", "headers", "fin", "closed"}]
      /\ source' \in [Requests -> {"none", "open", "exhausted", "stopped"}]
      /\ readers' \subseteq Requests
      /\ UNCHANGED <<produced, accepted>>
      /\ \A u \in Requests : Consistent(u)'
  BY <1>1, <1>2, TornDown
<1>4. TypeOK'
  <2>1. link' \in [Connections -> {"new", "open", "ended", "stopped"}]
    BY DEF IInv, TypeOK, HandleConnectionEnd
  <2> QED
    BY <1>1, <1>3, <2>1 DEF IInv, TypeOK, HandleConnectionEnd
<1>5. IndexesAgree' /\ StreamsBelong' /\ NewIsEmpty'
  <2>1. /\ IndexesAgree /\ StreamsBelong /\ NewIsEmpty
        /\ connections \subseteq Connections
    BY DEF IInv, TypeOK
  <2>2. \A d \in Connections \ {c} : connStreams[d] \cap connStreams[c] = {}
    BY <2>1 DEF StreamsBelong, Of
  <2>3. IndexesAgree'
    BY <1>1, <2>1, <2>2 DEF IndexesAgree, HandleConnectionEnd
  <2>4. \A d \in Connections : link'[d] = "new" => link[d] = "new"
    BY DEF IInv, TypeOK, HandleConnectionEnd
  <2> QED
    BY <1>1, <2>1, <2>3, <2>4 DEF StreamsBelong, NewIsEmpty, Of
<1> QED
  BY <1>3, <1>4, <1>5 DEF IInv

LEMMA HandleStopIInv ==
    ASSUME IInv, HandleStop
    PROVE  IInv'
<1>1. UNCHANGED <<rx, committed, pc, raw>>
  BY DEF HandleStop
<1>2. CloseSending(Requests) /\ CancelResponses(readers) /\ readers \subseteq Requests
  BY DEF HandleStop, IInv, TypeOK
<1>3. /\ tx' \in [Requests -> {"idle", "headers", "fin", "closed"}]
      /\ source' \in [Requests -> {"none", "open", "exhausted", "stopped"}]
      /\ readers' \subseteq Requests
      /\ UNCHANGED <<produced, accepted>>
      /\ \A u \in Requests : Consistent(u)'
  BY <1>1, <1>2, TornDown
<1>4. TypeOK'
  <2>1. /\ link' \in [Connections -> {"new", "open", "ended", "stopped"}]
        /\ connStreams' \in [Connections -> SUBSET Requests]
    BY DEF IInv, TypeOK, HandleStop
  <2> QED
    BY <1>1, <1>3, <2>1 DEF IInv, TypeOK, HandleStop
<1>5. IndexesAgree' /\ StreamsBelong' /\ NewIsEmpty'
  BY DEF IInv, IndexesAgree, StreamsBelong, NewIsEmpty, Of, HandleStop
<1> QED
  BY <1>3, <1>4, <1>5 DEF IInv

-----------------------------------------------------------------------------
(* Every step preserves the inductive invariant. *)
LEMMA NextIInv == IInv /\ [Next]_vars => IInv'
<1> SUFFICES ASSUME IInv, [Next]_vars PROVE IInv'
  OBVIOUS
<1>1. CASE UNCHANGED vars
  <2>1. UNCHANGED <<link, rx, tx, connections, connStreams, streams, readers, committed,
                    pc, source, produced, accepted, raw>>
    BY <1>1 DEF vars
  <2>2. TypeOK' /\ IndexesAgree' /\ StreamsBelong' /\ NewIsEmpty'
    BY <2>1 DEF IInv, TypeOK, IndexesAgree, StreamsBelong, NewIsEmpty, Of
  <2>3. \A r \in Requests : Consistent(r)'
    BY <2>1, SameConsistent DEF IInv, Same
  <2> QED
    BY <2>2, <2>3 DEF IInv
<1>2. ASSUME NEW c \in Connections, HandleConnection(c) \/ HandleConnectionEnd(c)
      PROVE  IInv'
  BY <1>2, HandleConnectionIInv, HandleConnectionEndIInv
<1>3. CASE HandleStop
  BY <1>3, HandleStopIInv
<1>4. ASSUME NEW r \in Requests,
             \/ HandleRequest(r)
             \/ \E reason \in {"finished", "aborted"} : HandleRequestEnd(r, reason)
             \/ PeerStops(r)
      PROVE  IInv'
  BY <1>4, HandleRequestIInv, HandleRequestEndIInv, PeerStopsIInv
<1>5. ASSUME NEW r \in Requests,
             HandlerSends(r) \/ HandlerReturnsBody(r) \/ HandlerReturns(r)
      PROVE  IInv'
  BY <1>5, HandlerSendsIInv, HandlerReturnsBodyIInv, HandlerReturnsIInv
<1>6. ASSUME NEW r \in Requests,
             ShortSettles(r) \/ SendResponse(r) \/ ErrorSettles(r)
      PROVE  IInv'
  BY <1>6, ShortSettlesIInv, ErrorSettlesIInv, HeadersSettleIInv, ReadSettlesIInv,
     SendSettlesIInv, FinSettlesIInv, CancelSettlesIInv DEF SendResponse
<1> QED
  BY <1>1, <1>2, <1>3, <1>4, <1>5, <1>6 DEF Next

(* The invariant holds in every state: the index of #streams and the maps of  *)
(* the Connection objects, the reader map, the committed set, the position of *)
(* every #sendResponse and the native streams agree.                          *)
THEOREM Inductive == Spec => []IInv
BY InitIInv, NextIInv, PTL DEF Spec

(* The maps and labels keep their types; no more chunks are accepted than a   *)
(* body has.                                                                  *)
THEOREM TypeCorrect == Spec => []TypeOK
<1>1. IInv => TypeOK
  BY DEF IInv
<1> QED
  BY <1>1, Inductive, PTL

(* #streams and the streams maps of the live Connection objects are the same. *)
THEOREM IndexesAlwaysAgree == Spec => []IndexesAgree
<1>1. IInv => IndexesAgree
  BY DEF IInv
<1> QED
  BY <1>1, Inductive, PTL

(* A response body that is still open can be cancelled through the map. *)
THEOREM SourcesStayCancellable == Spec => []OpenSourceIsCancellable
<1>1. IInv => OpenSourceIsCancellable
  BY DEF IInv, Consistent, Agrees, OpenSourceIsCancellable
<1> QED
  BY <1>1, Inductive, PTL

(* #responseReaders and #responseCommitted hold no response that is over. *)
THEOREM MapsStayCurrent == Spec => []MapsAreCurrent
<1>1. IInv => MapsAreCurrent
  BY DEF IInv, TypeOK, Consistent, Agrees, MapsAreCurrent
<1> QED
  BY <1>1, Inductive, PTL

(* An error answer is only tried while the response headers are not out. *)
THEOREM ErrorsComeFirst == Spec => []ErrorComesFirst
<1>1. IInv => ErrorComesFirst
  <2> SUFFICES ASSUME IInv, NEW r \in Requests, pc[r] = "error", r \notin raw
               PROVE  tx[r] # "headers"
    BY DEF ErrorComesFirst
  <2>1. Agrees(r)
    BY DEF IInv, Consistent
  <2> QED
    BY <2>1 DEF Agrees, Sending
<1> QED
  BY <1>1, Inductive, PTL

-----------------------------------------------------------------------------
(* No step breaks the rule for the FIN: only FinSettles finishes a response   *)
(* whose headers are out.                                                     *)
LEMMA NextFin ==
    ASSUME IInv, [Next]_vars, NEW r \in Requests \ raw, tx[r] = "headers", tx'[r] = "fin"
    PROVE  source[r] = "exhausted" /\ accepted[r] = produced[r]
<1>1. TypeOK /\ Agrees(r) /\ Delivered(r)
  BY DEF IInv, Consistent
<1>2. CASE UNCHANGED vars
  BY <1>2 DEF vars
<1>3. ASSUME NEW S \in SUBSET Requests, CloseSending(S)
      PROVE  FALSE
  BY <1>3 DEF CloseSending
<1>4. ASSUME NEW c \in Connections, HandleConnection(c) \/ HandleConnectionEnd(c)
      PROVE  FALSE
  BY <1>3, <1>4 DEF HandleConnection, HandleConnectionEnd, Of
<1>5. CASE HandleStop
  BY <1>3, <1>5 DEF HandleStop
<1>6. ASSUME NEW q \in Requests,
             \/ HandleRequest(q)
             \/ \E reason \in {"finished", "aborted"} : HandleRequestEnd(q, reason)
             \/ PeerStops(q)
      PROVE  FALSE
  BY <1>3, <1>6 DEF HandleRequest, HandleRequestEnd, PeerStops
<1>7. ASSUME NEW q \in Requests,
             HandlerSends(q) \/ HandlerReturnsBody(q) \/ HandlerReturns(q)
      PROVE  FALSE
  <2>1. CASE HandlerSends(q)
    <3>1. CASE q = r
      BY <1>1, <2>1, <3>1 DEF HandlerSends, Agrees, Sending
    <3>2. CASE q # r
      BY <1>1, <2>1, <3>2 DEF HandlerSends, TypeOK
    <3> QED
      BY <3>1, <3>2
  <2> QED
    BY <1>7, <2>1 DEF HandlerReturnsBody, HandlerReturns, native
<1>8. ASSUME NEW q \in Requests, ShortSettles(q) \/ ErrorSettles(q)
      PROVE  FALSE
  BY <1>1, <1>8 DEF ShortSettles, ErrorSettles, TypeOK
<1>9. ASSUME NEW q \in Requests, SendResponse(q)
      PROVE  source[r] = "exhausted" /\ accepted[r] = produced[r]
  <2>1. CASE FinSettles(q)
    <3>1. q = r /\ pc[r] = "finishing"
      BY <1>1, <2>1 DEF FinSettles, TypeOK
    <3> QED
      BY <1>1, <3>1 DEF Delivered, Sending
  <2>2. CASE HeadersSettle(q)
    BY <1>1, <2>2 DEF HeadersSettle, TypeOK
  <2> QED
    BY <1>9, <2>1, <2>2 DEF SendResponse, ReadSettles, SendSettles, CancelSettles, native
<1> QED
  BY <1>2, <1>4, <1>5, <1>6, <1>7, <1>8, <1>9 DEF Next

(* A FIN follows a body of which every chunk was accepted, and never the end  *)
(* that a cancelled reader reports.                                           *)
THEOREM FinsAreComplete == Spec => FinIsComplete
<1>1. IInv /\ [Next]_vars =>
        [\A r \in Requests \ raw : tx[r] = "headers" /\ tx'[r] = "fin" =>
            source[r] = "exhausted" /\ accepted[r] = produced[r]]_vars
  BY NextFin
<1> QED
  BY <1>1, Inductive, PTL DEF Spec, FinIsComplete

-----------------------------------------------------------------------------
(* What the client sees of a native stream in state t. *)
Seen(t) == CASE t = "idle" -> "none" [] t = "headers" -> "streaming"
             [] t = "fin" -> "complete" [] t = "closed" -> "gone"

LEMMA WireIsSeen ==
    /\ Wire = [r \in Requests |-> Seen(tx[r])]
    /\ Wire' = [r \in Requests |-> Seen(tx'[r])]
    /\ Seen("idle") = "none" /\ Seen("headers") = "streaming"
    /\ Seen("fin") = "complete" /\ Seen("closed") = "gone"
BY DEF Wire, Seen

(* When one native stream moves, one entry of Wire moves. *)
LEMMA WireMoves ==
    ASSUME TypeOK, NEW r \in Requests
    PROVE  /\ tx[r] = "idle" => Wire[r] = "none"
           /\ tx[r] = "headers" => Wire[r] = "streaming"
           /\ tx' = [tx EXCEPT ![r] = "headers"] => Wire' = [Wire EXCEPT ![r] = "streaming"]
           /\ tx' = [tx EXCEPT ![r] = "fin"] => Wire' = [Wire EXCEPT ![r] = "complete"]
<1>1. Wire[r] = Seen(tx[r])
  BY WireIsSeen
<1>2. ASSUME NEW t, tx' = [tx EXCEPT ![r] = t]
      PROVE  Wire' = [Wire EXCEPT ![r] = Seen(t)]
  BY <1>2, WireIsSeen DEF TypeOK
<1>3. tx' = [tx EXCEPT ![r] = "headers"] => Wire' = [Wire EXCEPT ![r] = Seen("headers")]
  BY <1>2
<1>4. tx' = [tx EXCEPT ![r] = "fin"] => Wire' = [Wire EXCEPT ![r] = Seen("fin")]
  BY <1>2
<1> QED
  BY <1>1, <1>3, <1>4, WireIsSeen

(* A response that fails is a Stop of the abstract specification, or nothing. *)
LEMMA FailStops ==
    ASSUME TypeOK, NEW r \in Requests, Fail(r), UNCHANGED tx
    PROVE  Response!Next \/ UNCHANGED <<Wire, source>>
<1>1. Wire' = Wire
  BY WireIsSeen
<1>2. CASE source[r] = "open"
  <2>1. source' = [u \in Requests |-> IF u \in {r} THEN "stopped" ELSE source[u]]
    BY <1>2 DEF TypeOK, Fail
  <2>2. Wire' = [u \in Requests |-> IF u \in {} THEN "gone" ELSE Wire[u]]
    BY <1>1, WireIsSeen
  <2>3. Response!Stop({}, {r})
    BY <1>2, <2>1, <2>2 DEF Response!Stop
  <2> QED
    BY <2>3 DEF Response!Next
<1>3. CASE source[r] # "open"
  BY <1>1, <1>3 DEF TypeOK, Fail
<1> QED
  BY <1>2, <1>3

(* So is the end of several clients at once. *)
LEMMA TeardownStops ==
    ASSUME TypeOK, NEW S \in SUBSET Requests, NEW C \in SUBSET Requests,
           CloseSending(S), CancelResponses(C)
    PROVE  Response!Next
<1> DEFINE gone == {r \in S : tx[r] # "fin"}
           stopped == {r \in C \cap readers : source[r] = "open"}
<1>1. gone \in SUBSET Requests /\ stopped \in SUBSET Requests
  OBVIOUS
<1>2. Wire' = [r \in Requests |-> IF r \in gone THEN "gone" ELSE Wire[r]]
  <2>1. ASSUME NEW r \in Requests
        PROVE  Seen(tx'[r]) = IF r \in gone THEN "gone" ELSE Seen(tx[r])
    BY WireIsSeen DEF CloseSending
  <2> QED
    BY <2>1, WireIsSeen
<1>3. source' = [r \in Requests |-> IF r \in stopped THEN "stopped" ELSE source[r]]
  BY DEF CancelResponses
<1>4. \A r \in gone : Wire[r] # "complete"
  BY WireIsSeen DEF TypeOK
<1>5. Response!Stop(gone, stopped)
  BY <1>2, <1>3, <1>4 DEF Response!Stop
<1> QED
  BY <1>1, <1>5 DEF Response!Next

(* A step of the connection callbacks. *)
LEMMA IndexSteps ==
    ASSUME IInv,
           \/ HandleStop
           \/ \E c \in Connections : HandleConnection(c) \/ HandleConnectionEnd(c)
           \/ \E r \in Requests :
                 \/ HandleRequest(r) \/ PeerStops(r)
                 \/ \E reason \in {"finished", "aborted"} : HandleRequestEnd(r, reason)
    PROVE  Response!Next \/ UNCHANGED <<Wire, source>>
<1>1. TypeOK
  BY DEF IInv
<1>2. CASE HandleStop
  BY <1>1, <1>2, TeardownStops DEF HandleStop, TypeOK
<1>3. ASSUME NEW c \in Connections, HandleConnection(c)
      PROVE  UNCHANGED <<Wire, source>>
  BY <1>3, WireIsSeen DEF HandleConnection, body
<1>4. ASSUME NEW c \in Connections, HandleConnectionEnd(c)
      PROVE  Response!Next
  BY <1>1, <1>4, TeardownStops DEF HandleConnectionEnd, Of
<1>5. ASSUME NEW r \in Requests, HandleRequest(r)
      PROVE  UNCHANGED <<Wire, source>>
  BY <1>5, WireIsSeen DEF HandleRequest, body
<1>6. ASSUME NEW r \in Requests, PeerStops(r)
      PROVE  Response!Next
  <2>1. CloseSending({r}) /\ CancelResponses({})
    BY <1>1, <1>6 DEF PeerStops, CancelResponses, body, TypeOK
  <2> QED
    BY <1>1, <2>1, TeardownStops
<1>7. ASSUME NEW r \in Requests, NEW reason \in {"finished", "aborted"},
             HandleRequestEnd(r, reason)
      PROVE  Response!Next \/ UNCHANGED <<Wire, source>>
  <2>1. CASE reason = "aborted"
    BY <1>1, <1>7, <2>1, TeardownStops DEF HandleRequestEnd
  <2>2. CASE reason # "aborted"
    BY <1>7, <2>2, WireIsSeen DEF HandleRequestEnd, body
  <2> QED
    BY <2>1, <2>2
<1> QED
  BY <1>2, <1>3, <1>4, <1>5, <1>6, <1>7

(* A step of the handler or of the answers without a body. *)
LEMMA HandlerSteps ==
    ASSUME IInv, NEW r \in Requests,
           \/ HandlerSends(r) \/ HandlerReturnsBody(r) \/ HandlerReturns(r)
           \/ ShortSettles(r) \/ ErrorSettles(r)
    PROVE  Response!Next \/ UNCHANGED <<Wire, source>>
<1>1. TypeOK /\ Agrees(r) /\ Delivered(r)
  BY DEF IInv, Consistent
<1>2. CASE HandlerSends(r)
  <2>1. source[r] = "none" /\ UNCHANGED source
    BY <1>1, <1>2 DEF HandlerSends, Delivered, body
  <2>2. CASE tx[r] = "idle" /\ tx' = [tx EXCEPT ![r] = "headers"]
    <3>1. Wire[r] = "none" /\ Wire' = [Wire EXCEPT ![r] = "streaming"]
      BY <1>1, <2>2, WireMoves
    <3> QED
      BY <2>1, <3>1 DEF Response!Next, Response!Begin
  <2>3. CASE tx[r] = "headers" /\ tx' = [tx EXCEPT ![r] = "fin"]
    <3>1. Wire[r] = "streaming" /\ Wire' = [Wire EXCEPT ![r] = "complete"]
      BY <1>1, <2>3, WireMoves
    <3> QED
      BY <2>1, <3>1 DEF Response!Next, Response!Complete
  <2> QED
    BY <1>2, <2>2, <2>3 DEF HandlerSends
<1>3. CASE HandlerReturnsBody(r)
  <2>1. source[r] = "none" /\ source' = [source EXCEPT ![r] = "open"]
    BY <1>1, <1>3 DEF HandlerReturnsBody, Delivered
  <2>2. UNCHANGED Wire
    BY <1>3, WireIsSeen DEF HandlerReturnsBody, native
  <2> QED
    BY <2>1, <2>2 DEF Response!Next, Response!Open
<1>4. CASE HandlerReturns(r)
  BY <1>4, WireIsSeen DEF HandlerReturns, native, body
<1>5. CASE ShortSettles(r) \/ ErrorSettles(r)
  <2>1. UNCHANGED source
    BY <1>5 DEF ShortSettles, ErrorSettles, body
  <2>2. CASE UNCHANGED tx
    BY <2>1, <2>2, WireIsSeen
  <2>3. CASE tx[r] = "idle" /\ tx' = [tx EXCEPT ![r] = "fin"]
    <3>1. Wire[r] = "none" /\ Wire' = [Wire EXCEPT ![r] = "complete"]
      BY <1>1, <2>3, WireMoves
    <3>2. pc[r] \in {"short", "error"}
      BY <1>5 DEF ShortSettles, ErrorSettles
    <3>3. source[r] \in {"none", "stopped"}
      BY <1>1, <2>3, <3>2 DEF Agrees, Delivered, TypeOK, InResponse, Sending
    <3> QED
      BY <2>1, <3>1, <3>3 DEF Response!Next, Response!Answer
  <2> QED
    BY <1>5, <2>2, <2>3 DEF ShortSettles, ErrorSettles
<1> QED
  BY <1>2, <1>3, <1>4, <1>5

(* A step of #sendResponse. *)
LEMMA SendSteps ==
    ASSUME IInv, NEW r \in Requests, SendResponse(r)
    PROVE  Response!Next \/ UNCHANGED <<Wire, source>>
<1>1. TypeOK /\ Agrees(r) /\ Delivered(r)
  BY DEF IInv, Consistent
<1>2. CASE Fail(r) /\ UNCHANGED tx
  BY <1>1, <1>2, FailStops
<1>3. CASE UNCHANGED <<tx, source>>
  BY <1>3, WireIsSeen
<1>4. CASE HeadersSettle(r) /\ tx' # tx
  <2>1. Wire[r] = "none" /\ Wire' = [Wire EXCEPT ![r] = "streaming"]
    BY <1>1, <1>4, WireMoves DEF HeadersSettle
  <2> QED
    BY <1>4, <2>1 DEF HeadersSettle, Response!Next, Response!Begin
<1>5. CASE ReadSettles(r) /\ ~Fail(r) /\ source' # source
  <2>1. UNCHANGED Wire
    BY <1>5, WireIsSeen DEF ReadSettles, native
  <2> QED
    BY <1>5, <2>1 DEF ReadSettles, Response!Next, Response!Exhaust
<1>6. CASE FinSettles(r) /\ tx' # tx
  <2>1. tx[r] = "headers" /\ tx' = [tx EXCEPT ![r] = "fin"] /\ UNCHANGED source
    BY <1>6 DEF FinSettles
  <2>2. Wire[r] = "streaming" /\ Wire' = [Wire EXCEPT ![r] = "complete"]
    BY <1>1, <2>1, WireMoves
  <2>3. source[r] = "exhausted"
    BY <1>1, <1>6, <2>1 DEF FinSettles, Delivered, Sending
  <2> QED
    BY <2>1, <2>2, <2>3 DEF Response!Next, Response!Complete
<1>7. CASE HeadersSettle(r)
  BY <1>2, <1>3, <1>4, <1>7 DEF HeadersSettle
<1>8. CASE ReadSettles(r)
  BY <1>2, <1>3, <1>5, <1>8 DEF ReadSettles, native
<1>9. CASE SendSettles(r)
  BY <1>2, <1>3, <1>9 DEF SendSettles, native
<1>10. CASE FinSettles(r)
  BY <1>2, <1>3, <1>6, <1>10 DEF FinSettles
<1>11. CASE CancelSettles(r)
  BY <1>3, <1>11 DEF CancelSettles, native, body
<1> QED
  BY <1>7, <1>8, <1>9, <1>10, <1>11 DEF SendResponse

(* The request path implements StreamedResponse: the client sees a complete   *)
(* response only after every chunk of its source was taken, and a source is   *)
(* stopped, never forgotten, when its response cannot go on.                  *)
THEOREM ImplementsResponse == Spec => ImplementsStreamedResponse
<1>1. Init => Response!Init
  BY WireIsSeen DEF Init, Response!Init
<1>2. IInv /\ [Next]_vars => [Response!Next]_<<Wire, source>>
  <2> SUFFICES ASSUME IInv, [Next]_vars
               PROVE  Response!Next \/ UNCHANGED <<Wire, source>>
    OBVIOUS
  <2>1. CASE UNCHANGED vars
    BY <2>1, WireIsSeen DEF vars
  <2>2. CASE Next
    BY <2>2, IndexSteps, HandlerSteps, SendSteps DEF Next
  <2> QED
    BY <2>1, <2>2
<1> QED
  BY <1>1, <1>2, Inductive, PTL DEF Spec, ImplementsStreamedResponse, Response!Safety
=============================================================================
