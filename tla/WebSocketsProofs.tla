--------------------------- MODULE WebSocketsProofs ----------------------------
(***************************************************************************)
(* Proofs about WebSocketConnection, for any number of frames, of calls of *)
(* close and of ends, and whatever the transport does with the writes;     *)
(* then about WebSockets: what holds of a WebSocketConnection still holds  *)
(* when it is put on the stream of an HTTP/1.1, HTTP/2 or HTTP/3 request,  *)
(* and the registry of the server follows it.                              *)
(***************************************************************************)
EXTENDS WebSockets, SequenceTheorems, TLAPS

(* The types the proofs need. *)
CoreTypes ==
    /\ readyState \in {"CONNECTING", "OPEN", "CLOSING", "CLOSED"}
    /\ todo \in [Tasks -> Seq(Steps)]
    /\ frames \in Seq({"data", "pong", "close"})
    /\ reported \in Seq({"peer", "abnormal"})
    /\ sentClose \in BOOLEAN /\ receivedClose \in BOOLEAN

(* sentClose is set together with CLOSING, and the peer's Close is answered. *)
SentCloseIsClosing ==
    /\ sentClose => readyState \in {"CLOSING", "CLOSED"}
    /\ receivedClose => sentClose

(* The peer's code is on its way only after the peer's Close. *)
PeerIsReceived ==
    /\ \A t \in Tasks : Will(t, "conclude") \/ Will(t, "peer") => receivedClose
    /\ reported = <<"peer">> => receivedClose

(* Once the peer's Close is here some task reports the end without a timer. *)
ReceivedHasFinisher ==
    readyState = "CLOSING" /\ receivedClose =>
        \/ rejected # {}
        \/ \E t \in Tasks : \E step \in Finishing : Will(t, step)

(* Whoever waits for the peer, or will report the end of a failure, comes     *)
(* after our Close, unless the socket was CLOSED before one.                  *)
FinishersAnnounced ==
    closeTimer \/ (\E t \in Tasks : \E step \in {"arm", "shut", "abnormal"} : Will(t, step)) =>
        sentClose \/ readyState = "CLOSED"

(* And then nothing is left to read: no frame can open it again. *)
UnsentIsEmpty == readyState = "CLOSED" /\ ~sentClose => buffer = <<>>

IInv ==
    /\ CoreTypes
    /\ SentCloseIsClosing
    /\ CloseReportedOnce
    /\ CloseIsLastData
    /\ PeerIsReceived
    /\ ReceivedHasFinisher
    /\ ClosingHasFinisher
    /\ FinishersAnnounced
    /\ UnsentIsEmpty

-----------------------------------------------------------------------------
(* Sequences of steps, as sets. *)
Elements(q) == {q[i] : i \in DOMAIN q}

LEMMA Concatenated ==
    ASSUME NEW p \in Seq(Steps), NEW q \in Seq(Steps)
    PROVE  p \o q \in Seq(Steps) /\ Elements(p \o q) = Elements(p) \cup Elements(q)
<1>1. /\ p \o q \in Seq(Steps) /\ Len(p \o q) = Len(p) + Len(q)
      /\ \A i \in 1 .. Len(p) + Len(q) :
            (p \o q)[i] = IF i <= Len(p) THEN p[i] ELSE q[i - Len(p)]
  BY ConcatProperties
<1>2. ASSUME NEW i \in DOMAIN q  PROVE q[i] \in Elements(p \o q)
  <2>1. Len(p) + i \in DOMAIN (p \o q) /\ (p \o q)[Len(p) + i] = q[i]
    BY <1>1
  <2> QED
    BY <2>1 DEF Elements
<1>3. ASSUME NEW i \in DOMAIN p  PROVE p[i] \in Elements(p \o q)
  <2>1. i \in DOMAIN (p \o q) /\ (p \o q)[i] = p[i]
    BY <1>1
  <2> QED
    BY <2>1 DEF Elements
<1>4. ASSUME NEW i \in DOMAIN (p \o q)
      PROVE  (p \o q)[i] \in Elements(p) \cup Elements(q)
  <2>1. CASE i <= Len(p)
    BY <1>1, <2>1 DEF Elements
  <2>2. CASE ~(i <= Len(p))
    <3>1. i - Len(p) \in DOMAIN q /\ (p \o q)[i] = q[i - Len(p)]
      BY <1>1, <2>2
    <3> QED
      BY <3>1 DEF Elements
  <2> QED
    BY <2>1, <2>2
<1> QED
  BY <1>1, <1>2, <1>3, <1>4 DEF Elements

(* The continuations of the model. *)
LEMMA Continuations ==
    /\ Receive \in Seq(Steps) /\ Elements(Receive) = {"receive"}
    /\ Read \in Seq(Steps) /\ Elements(Read) = {"handled"}
    /\ Failure \in Seq(Steps) /\ Elements(Failure) = {"error", "fail"}
    /\ Shutdown \in Seq(Steps) /\ Elements(Shutdown) = {"queue", "end"}
    /\ <<>> \in Seq(Steps) /\ Elements(<<>>) = {}
<1>1. \A a \in Steps : <<a>> \in Seq(Steps) /\ Elements(<<a>>) = {a}
  BY DEF Elements
<1>2. \A a, b \in Steps : <<a, b>> \in Seq(Steps) /\ Elements(<<a, b>>) = {a, b}
  BY DEF Elements
<1>3. <<>> \in Seq(Steps) /\ Elements(<<>>) = {}
  BY DEF Elements
<1>4. Failure \in Seq(Steps) /\ Elements(Failure) = {"error", "fail"}
  BY <1>2 DEF Failure, Steps
<1>5. /\ Receive \in Seq(Steps) /\ Elements(Receive) = {"receive"}
      /\ Read \in Seq(Steps) /\ Elements(Read) = {"handled"}
  BY <1>1 DEF Receive, Read, Steps
<1>6. Shutdown \in Seq(Steps) /\ Elements(Shutdown) = {"queue", "end"}
  BY <1>2 DEF Shutdown, Steps
<1> QED
  BY <1>3, <1>4, <1>5, <1>6

LEMMA OneStep ==
    ASSUME NEW a \in Steps
    PROVE  <<a>> \in Seq(Steps) /\ Elements(<<a>>) = {a}
BY DEF Elements

LEMMA TwoSteps ==
    ASSUME NEW a \in Steps, NEW b \in Steps
    PROVE  <<a, b>> \in Seq(Steps) /\ Elements(<<a, b>>) = {a, b}
BY DEF Elements

(* What is left of the calls after task t has done a step and the functions   *)
(* it called have added theirs.                                              *)
Adds(t, steps) ==
    /\ todo' \in [Tasks -> Seq(Steps)]
    /\ \A u \in Tasks, s \in Steps :
          Will(u, s) /\ (u = t => s # Head(todo[t])) => Will(u, s)'
    /\ \A s \in steps : Will(t, s)'
    /\ \A u \in Tasks, s \in Steps : Will(u, s)' => Will(u, s) \/ (u = t /\ s \in steps)

LEMMA WillIsElement ==
    \A t, s : /\ Will(t, s) <=> s \in Elements(todo[t])
              /\ Will(t, s)' <=> s \in Elements(todo'[t])
BY DEF Will, Elements

LEMMA ContinueAdds ==
    ASSUME todo \in [Tasks -> Seq(Steps)], NEW t \in Tasks, NEW steps \in Seq(Steps),
           todo[t] # <<>>, Continue(t, steps)
    PROVE  Adds(t, Elements(steps))
<1>1. /\ Tail(todo[t]) \in Seq(Steps)
      /\ Len(Tail(todo[t])) = Len(todo[t]) - 1
      /\ \A i \in 1 .. Len(Tail(todo[t])) : Tail(todo[t])[i] = todo[t][i + 1]
  BY HeadTailProperties
<1>2. /\ steps \o Tail(todo[t]) \in Seq(Steps)
      /\ Elements(steps \o Tail(todo[t])) = Elements(steps) \cup Elements(Tail(todo[t]))
  BY <1>1, Concatenated
<1>3. /\ todo' \in [Tasks -> Seq(Steps)]
      /\ todo'[t] = steps \o Tail(todo[t])
      /\ \A u \in Tasks \ {t} : todo'[u] = todo[u]
  BY <1>2 DEF Continue
<1>4. ASSUME NEW s \in Elements(todo[t]), s # Head(todo[t])
      PROVE  s \in Elements(Tail(todo[t]))
  <2>1. PICK i \in DOMAIN todo[t] : todo[t][i] = s
    BY DEF Elements
  <2>2. i # 1
    BY <1>4, <2>1
  <2>3. i - 1 \in DOMAIN Tail(todo[t]) /\ Tail(todo[t])[i - 1] = s
    BY <1>1, <2>1, <2>2
  <2> QED
    BY <2>3 DEF Elements
<1>5. Elements(Tail(todo[t])) \subseteq Elements(todo[t])
  <2>1. ASSUME NEW i \in DOMAIN Tail(todo[t])
        PROVE  i + 1 \in DOMAIN todo[t] /\ Tail(todo[t])[i] = todo[t][i + 1]
    BY <1>1
  <2> QED
    BY <2>1 DEF Elements
<1> QED
  BY <1>2, <1>3, <1>4, <1>5, WillIsElement DEF Adds

LEMMA StartAdds ==
    ASSUME todo \in [Tasks -> Seq(Steps)], NEW t \in Tasks, NEW steps \in Seq(Steps),
           Start(t, steps)
    PROVE  Adds(t, Elements(steps))
<1>1. /\ todo' \in [Tasks -> Seq(Steps)]
      /\ todo'[t] = steps /\ Elements(todo[t]) = {}
      /\ \A u \in Tasks \ {t} : todo'[u] = todo[u]
  BY DEF Start, Idle, Elements
<1> QED
  BY <1>1, WillIsElement DEF Adds

LEMMA UnwindAdds ==
    ASSUME todo \in [Tasks -> Seq(Steps)], NEW t \in Tasks, Unwind(t)
    PROVE  /\ todo' \in [Tasks -> Seq(Steps)]
           /\ \A u \in Tasks, s \in Steps : Will(u, s)' => Will(u, s)
<1>1. CASE todo' = [todo EXCEPT ![t] = <<>>]
  BY <1>1, Continuations, WillIsElement
<1>2. CASE \E i \in DOMAIN todo[t] :
             todo' = [todo EXCEPT ![t] = SubSeq(todo[t], i, Len(todo[t]))]
  <2>1. PICK i \in DOMAIN todo[t] :
              todo' = [todo EXCEPT ![t] = SubSeq(todo[t], i, Len(todo[t]))]
    BY <1>2
  <2> DEFINE rest == SubSeq(todo[t], i, Len(todo[t]))
  <2>2. /\ rest \in Seq(Steps)
        /\ Len(rest) = Len(todo[t]) - i + 1
        /\ \A j \in 1 .. Len(todo[t]) - i + 1 : rest[j] = todo[t][i + j - 1]
    BY SubSeqProperties
  <2>3. ASSUME NEW j \in DOMAIN rest
        PROVE  i + j - 1 \in DOMAIN todo[t] /\ rest[j] = todo[t][i + j - 1]
    BY <2>2
  <2>4. Elements(rest) \subseteq Elements(todo[t])
    BY <2>3 DEF Elements
  <2> QED
    BY <2>1, <2>2, <2>4, WillIsElement
<1> QED
  BY <1>1, <1>2 DEF Unwind

-----------------------------------------------------------------------------
(* The initial state satisfies the inductive invariant. *)
LEMMA InitIInv == Init => IInv
<1> SUFFICES ASSUME Init PROVE IInv
  OBVIOUS
<1>1. CoreTypes
  <2>1. \A S : <<>> \in Seq(S)
    OBVIOUS
  <2>2. todo \in [Tasks -> Seq(Steps)]
    BY <2>1 DEF Init
  <2> QED
    BY <2>1, <2>2 DEF Init, CoreTypes
<1>2. ASSUME NEW t \in Tasks, NEW s
      PROVE  ~Will(t, s)
  BY DEF Init, Will
<1> QED
  BY <1>1, <1>2 DEF Init, IInv, SentCloseIsClosing, CloseReportedOnce,
                    CloseIsLastData, PeerIsReceived, ReceivedHasFinisher,
                    ClosingHasFinisher, FinishersAnnounced, UnsentIsEmpty

FrameKinds == {"data", "pong", "close"}

(* A frame handed to #writeFrame: a message only before the Close frame, and  *)
(* the Close frame once.                                                     *)
LEMMA FrameAppended ==
    ASSUME CoreTypes, CloseIsLastData, NEW kind \in FrameKinds,
           frames' = Append(frames, kind),
           kind = "data" => ~sentClose /\ UNCHANGED sentClose,
           kind = "pong" => UNCHANGED sentClose,
           kind = "close" => ~sentClose /\ sentClose'
    PROVE  frames' \in Seq(FrameKinds) /\ CloseIsLastData'
<1>1. frames \in Seq(FrameKinds)
  BY DEF CoreTypes, FrameKinds
<1>2. /\ frames' \in Seq(FrameKinds) /\ DOMAIN frames' = DOMAIN frames \cup {Len(frames) + 1}
      /\ \A i \in DOMAIN frames : frames'[i] = frames[i] /\ i <= Len(frames)
      /\ frames'[Len(frames) + 1] = kind
      /\ DOMAIN frames \subseteq Nat /\ Len(frames) \in Nat
  BY <1>1, AppendProperties
<1>3. sentClose' <=> \E i \in DOMAIN frames' : frames'[i] = "close"
  BY <1>2 DEF CloseIsLastData, FrameKinds
<1>4. ASSUME NEW i \in DOMAIN frames', NEW j \in DOMAIN frames', i < j,
             frames'[i] = "close"
      PROVE  frames'[j] = "pong"
  <2>1. i \in DOMAIN frames /\ frames[i] = "close" /\ sentClose
    BY <1>2, <1>4 DEF CloseIsLastData
  <2>2. CASE j \in DOMAIN frames
    BY <1>2, <1>4, <2>1, <2>2 DEF CloseIsLastData
  <2>3. CASE j = Len(frames) + 1
    BY <1>2, <2>1, <2>3 DEF FrameKinds
  <2> QED
    BY <1>2, <2>2, <2>3
<1> QED
  BY <1>2, <1>3, <1>4 DEF CloseIsLastData

(* A step that reports nothing and takes no finisher away.                   *)
QuietAdds ==
    /\ todo' \in [Tasks -> Seq(Steps)]
    /\ \A u \in Tasks, s \in Finishing \cup {"arm"} : Will(u, s) => Will(u, s)'
    /\ \A u \in Tasks, s \in {"conclude", "peer"} : Will(u, s)' => Will(u, s)
    /\ \A u \in Tasks, s \in {"arm", "shut", "abnormal"} : Will(u, s)' => Will(u, s)

KeepsQuiet ==
    /\ QuietAdds
    /\ \/ UNCHANGED readyState
       \/ readyState = "CONNECTING" /\ readyState' = "OPEN"
    /\ UNCHANGED <<sentClose, receivedClose, reported>>
    /\ frames' \in Seq(FrameKinds) /\ CloseIsLastData'
    /\ closeTimer' = closeTimer
    /\ rejected \subseteq rejected'
    /\ readyState = "CLOSED" /\ buffer = <<>> => buffer' = <<>>

LEMMA QuietStep ==
    ASSUME IInv, KeepsQuiet
    PROVE  IInv'
<1>1. CoreTypes'
  BY DEF IInv, KeepsQuiet, QuietAdds, CoreTypes, FrameKinds
<1>2. SentCloseIsClosing'
  BY DEF IInv, KeepsQuiet, SentCloseIsClosing
<1>3. CloseReportedOnce'
  BY DEF IInv, KeepsQuiet, CloseReportedOnce
<1>4. PeerIsReceived'
  BY DEF IInv, KeepsQuiet, QuietAdds, PeerIsReceived
<1>5. ReceivedHasFinisher'
  <2>1. CASE ~(readyState' = "CLOSING" /\ receivedClose')
    BY <2>1 DEF ReceivedHasFinisher
  <2>2. CASE readyState' = "CLOSING" /\ receivedClose'
    <3>1. readyState = "CLOSING" /\ receivedClose
      BY <2>2 DEF KeepsQuiet
    <3>2. rejected # {} \/ \E t \in Tasks : \E step \in Finishing : Will(t, step)
      BY <3>1 DEF IInv, ReceivedHasFinisher
    <3>3. rejected # {} => rejected' # {}
      BY DEF KeepsQuiet
    <3>4. (\E t \in Tasks : \E step \in Finishing : Will(t, step)) =>
             \E t \in Tasks : \E step \in Finishing : Will(t, step)'
      BY DEF KeepsQuiet, QuietAdds
    <3> QED
      BY <3>2, <3>3, <3>4 DEF ReceivedHasFinisher
  <2> QED
    BY <2>1, <2>2
<1>6. ClosingHasFinisher'
  <2>1. CASE readyState' # "CLOSING"
    BY <2>1 DEF ClosingHasFinisher
  <2>2. CASE readyState' = "CLOSING"
    <3>1. readyState = "CLOSING"
      BY <2>2 DEF KeepsQuiet
    <3>2. \/ closeTimer \/ rejected # {}
          \/ \E t \in Tasks : \E step \in Finishing \cup {"arm"} : Will(t, step)
      BY <3>1 DEF IInv, ClosingHasFinisher
    <3>3. (closeTimer => closeTimer') /\ (rejected # {} => rejected' # {})
      BY DEF KeepsQuiet
    <3>4. (\E t \in Tasks : \E step \in Finishing \cup {"arm"} : Will(t, step)) =>
             \E t \in Tasks : \E step \in Finishing \cup {"arm"} : Will(t, step)'
      BY DEF KeepsQuiet, QuietAdds
    <3> QED
      BY <3>2, <3>3, <3>4 DEF ClosingHasFinisher
  <2> QED
    BY <2>1, <2>2
<1>7. FinishersAnnounced'
  <2>1. ~sentClose' /\ readyState' # "CLOSED" => ~sentClose /\ readyState # "CLOSED"
    BY DEF KeepsQuiet
  <2> QED
    BY <2>1 DEF IInv, KeepsQuiet, QuietAdds, FinishersAnnounced
<1>8. UnsentIsEmpty'
  BY DEF IInv, KeepsQuiet, UnsentIsEmpty
<1> QED
  BY <1>1, <1>2, <1>3, <1>4, <1>5, <1>6, <1>7, <1>8 DEF KeepsQuiet, IInv

(* The usual ways of being quiet: task t starts or continues with steps that  *)
(* take no code anywhere, nor wait for the peer.                              *)
Loud == {"conclude", "peer", "arm", "shut", "abnormal"}

LEMMA QuietTask ==
    ASSUME IInv, NEW t \in Tasks, NEW steps \in Seq(Steps),
           \/ Start(t, steps)
           \/ /\ todo[t] # <<>> /\ Head(todo[t]) \notin Finishing \cup {"arm"}
              /\ Continue(t, steps),
           Elements(steps) \cap Loud = {}
    PROVE  QuietAdds
<1>1. Adds(t, Elements(steps))
  BY StartAdds, ContinueAdds DEF IInv, CoreTypes
<1>2. Finishing \cup {"arm"} \subseteq Steps /\ Loud \subseteq Steps
  BY DEF Finishing, Loud, Steps
<1>3. ASSUME NEW u \in Tasks, NEW s \in Finishing \cup {"arm"}, Will(u, s)
      PROVE  Will(u, s)'
  <2>1. u = t => s # Head(todo[t])
    <3>1. CASE Start(t, steps)
      BY <3>1, <1>3 DEF Start, Idle, Will
    <3> QED
      BY <3>1
  <2> QED
    BY <1>1, <1>2, <1>3, <2>1 DEF Adds
<1>4. ASSUME NEW u \in Tasks, NEW s \in Loud, Will(u, s)'
      PROVE  Will(u, s)
  BY <1>1, <1>2, <1>4 DEF Adds
<1> QED
  BY <1>1, <1>3, <1>4 DEF Adds, QuietAdds, Loud

(* A step that ends CLOSED. *)
LEMMA FinishIInv ==
    ASSUME IInv, NEW code \in {"peer", "abnormal"}, Finish(code),
           code = "peer" => receivedClose,
           UNCHANGED <<sentClose, receivedClose, frames, buffer>>,
           todo' \in [Tasks -> Seq(Steps)],
           \A u \in Tasks, s \in {"conclude", "peer"} : Will(u, s)' => Will(u, s),
           readyState = "CLOSED" \/ sentClose \/ buffer = <<>>
    PROVE  IInv'
<1>1. readyState' = "CLOSED"
  BY DEF Finish
<1>2. /\ reported' \in Seq({"peer", "abnormal"}) /\ Len(reported') = 1
      /\ reported' = reported \/ reported' = <<code>>
  <2>1. CASE readyState = "CLOSED"
    BY <2>1 DEF Finish, IInv, CoreTypes, CloseReportedOnce
  <2>2. CASE readyState # "CLOSED"
    <3>1. reported = <<>>
      BY <2>2, EmptySeq DEF IInv, CoreTypes, CloseReportedOnce
    <3>2. reported' = Append(<<>>, code)
      BY <2>2, <3>1 DEF Finish
    <3>3. Append(<<>>, code) = <<code>>
      OBVIOUS
    <3> QED
      BY <3>2, <3>3
  <2> QED
    BY <2>1, <2>2
<1>3. CoreTypes' /\ CloseReportedOnce'
  BY <1>1, <1>2 DEF IInv, CoreTypes, CloseReportedOnce
<1>4. SentCloseIsClosing' /\ CloseIsLastData'
  BY <1>1 DEF IInv, SentCloseIsClosing, CloseIsLastData
<1>5. PeerIsReceived'
  <2>1. reported' = <<"peer">> => receivedClose'
    <3>1. <<code>> = <<"peer">> => code = "peer"
      OBVIOUS
    <3> QED
      BY <1>2, <3>1 DEF IInv, PeerIsReceived
  <2> QED
    BY <2>1 DEF IInv, PeerIsReceived
<1>6. ReceivedHasFinisher' /\ ClosingHasFinisher' /\ FinishersAnnounced'
  BY <1>1 DEF ReceivedHasFinisher, ClosingHasFinisher, FinishersAnnounced
<1>7. UnsentIsEmpty'
  BY DEF IInv, UnsentIsEmpty
<1> QED
  BY <1>3, <1>4, <1>5, <1>6, <1>7 DEF IInv

-----------------------------------------------------------------------------
LEMMA AtHead ==
    ASSUME IInv, NEW t \in Tasks, NEW s, At(t, s)
    PROVE  todo[t] # <<>> /\ Head(todo[t]) = s /\ Will(t, s)
BY DEF IInv, CoreTypes, At, Idle, Will

(* A task whose turn leaves the handshake, the frames and the timer alone.   *)
LEMMA QuietTurn ==
    ASSUME IInv, NEW t \in Tasks, NEW steps \in Seq(Steps),
           \/ Start(t, steps)
           \/ /\ todo[t] # <<>> /\ Head(todo[t]) \notin Finishing \cup {"arm"}
              /\ Continue(t, steps),
           Elements(steps) \cap Loud = {},
           UNCHANGED <<readyState, sentClose, receivedClose, reported, frames,
                       closeTimer, rejected>>,
           readyState = "CLOSED" /\ buffer = <<>> => buffer' = <<>>
    PROVE  IInv'
<1>1. frames' \in Seq(FrameKinds) /\ CloseIsLastData'
  BY DEF IInv, CoreTypes, FrameKinds, CloseIsLastData
<1> QED
  BY <1>1, QuietTask, QuietStep DEF KeepsQuiet

LEMMA QuietActions ==
    ASSUME IInv, NEW t \in Tasks,
           \/ EndStep(t) \/ Drained(t) \/ EndSettles(t) \/ ErrorReported(t)
           \/ HandlerSettles(t) \/ Handled(t) \/ ReadNothing(t) \/ ReadBadHeader(t)
           \/ ReadMessage(t) \/ ReadFragment(t) \/ ReadMisplaced(t)
    PROVE  IInv'
<1> DEFINE Unchanged == /\ UNCHANGED <<readyState, sentClose, receivedClose, reported,
                                       frames, closeTimer, rejected>>
                        /\ buffer = <<>> => buffer' = <<>>
           Goes(steps) == /\ todo[t] # <<>> /\ Head(todo[t]) \notin Finishing \cup {"arm"}
                          /\ Continue(t, steps) /\ Unchanged
           Harmless == {q \in Seq(Steps) : Elements(q) \cap Loud = {}}
<1>1. \A steps \in Harmless : Goes(steps) => IInv'
  BY QuietTurn
<1>2. /\ <<>> \in Harmless /\ Failure \in Harmless /\ Read \in Harmless
      /\ <<"ending">> \in Harmless /\ <<"error", "close">> \in Harmless
      /\ <<"read">> \in Harmless
      /\ <<"handler">> \o Read \in Harmless /\ Failure \o Read \in Harmless
  <2>1. {"ending", "error", "close", "handler", "read"} \subseteq Steps
    BY DEF Steps
  <2>2. /\ <<"ending">> \in Harmless /\ <<"error", "close">> \in Harmless
        /\ <<"handler">> \in Harmless /\ <<"read">> \in Harmless
    BY <2>1, OneStep, TwoSteps DEF Loud
  <2>3. <<>> \in Harmless /\ Failure \in Harmless /\ Read \in Harmless
    BY Continuations DEF Loud
  <2>4. \A p, q \in Harmless : p \o q \in Harmless
    BY Concatenated
  <2> QED
    BY <2>2, <2>3, <2>4
<1> HIDE DEF Harmless
<1>3. ASSUME NEW s \in {"end", "queue", "ending", "error", "handler", "handled", "read",
                         "receive"},
             At(t, s)
      PROVE  todo[t] # <<>> /\ Head(todo[t]) \notin Finishing \cup {"arm"}
  BY <1>3, AtHead DEF Finishing
<1>4. ASSUME Reading(t)
      PROVE  todo[t] # <<>> /\ Head(todo[t]) \notin Finishing \cup {"arm"}
  BY <1>3, <1>4 DEF Reading
<1>5. CASE EndStep(t)
  <2>1. Goes(<<"ending">>)
    BY <1>3, <1>5 DEF EndStep, input, handshake, output
  <2> QED
    BY <1>1, <1>2, <2>1
<1>6. CASE Drained(t) \/ EndSettles(t) \/ ErrorReported(t) \/ ReadNothing(t)
  <2>1. Goes(<<>>)
    BY <1>3, <1>4, <1>6 DEF Drained, EndSettles, ErrorReported, ReadNothing, input,
                            handshake, output, transport
  <2> QED
    BY <1>1, <1>2, <2>1
<1>7. CASE HandlerSettles(t) \/ Handled(t)
  <2>1. Goes(<<>>) \/ Goes(<<"error", "close">>) \/ Goes(<<"read">>)
    BY <1>3, <1>7 DEF HandlerSettles, Handled, input, handshake, output, transport
  <2> QED
    BY <1>1, <1>2, <2>1
<1>8. CASE ReadBadHeader(t)
  <2>1. Goes(Failure)
    BY <1>4, <1>8 DEF ReadBadHeader, input, handshake, output, transport
  <2> QED
    BY <1>1, <1>2, <2>1
<1>9. CASE ReadMessage(t)
  <2>1. Goes(<<"handler">> \o Read)
    BY <1>4, <1>9 DEF ReadMessage, TakeFrame, handshake, output, transport
  <2> QED
    BY <1>1, <1>2, <2>1
<1>10. CASE ReadFragment(t)
  <2>1. Goes(Read)
    BY <1>4, <1>10 DEF ReadFragment, TakeFrame, handshake, output, transport
  <2> QED
    BY <1>1, <1>2, <2>1
<1>11. CASE ReadMisplaced(t)
  <2>1. Goes(Failure \o Read)
    BY <1>4, <1>11 DEF ReadMisplaced, TakeFrame, handshake, output, transport
  <2> QED
    BY <1>1, <1>2, <2>1
<1> QED
  BY <1>5, <1>6, <1>7, <1>8, <1>9, <1>10, <1>11

(* A chunk is only stored, or its task starts reading it or failing on it.   *)
LEMMA ReceiveDataIInv ==
    ASSUME IInv, NEW chunk, ReceiveData(chunk)
    PROVE  IInv'
<1>1. \E steps \in {<<>>, Failure, Receive} : Start(Deliverer, steps)
  BY DEF ReceiveData
<1>2. PICK steps \in {<<>>, Failure, Receive} : Start(Deliverer, steps)
  BY <1>1
<1>3.steps \in Seq(Steps) /\ Elements(steps) \cap Loud = {}
  <2>1. CASE steps = <<>>
    BY <2>1, Continuations DEF Loud
  <2>2. CASE steps = Failure
    BY <2>2, Continuations DEF Loud
  <2>3. CASE steps = Receive
    BY <2>3, Continuations DEF Loud
  <2> QED
    BY <2>1, <2>2, <2>3
<1>4. UNCHANGED <<readyState, sentClose, receivedClose, reported, frames,
                  closeTimer, rejected>> /\ readyState # "CLOSED"
  BY DEF ReceiveData, handshake, output, transport
<1> QED
  BY <1>2, <1>3, <1>4, QuietTurn DEF Tasks

LEMMA AcceptIInv ==
    ASSUME IInv, Accept
    PROVE  IInv'
<1>1. PICK steps \in {<<>>, Receive} : Start(Opener, steps)
  BY DEF Accept
<1>2.steps \in Seq(Steps) /\ Elements(steps) \cap Loud = {}
  <2>1. CASE steps = <<>>
    BY <2>1, Continuations DEF Loud
  <2>2. CASE steps = Receive
    BY <2>2, Continuations DEF Loud
  <2> QED
    BY <2>1, <2>2
<1>3. frames' \in Seq(FrameKinds) /\ CloseIsLastData'
  BY DEF IInv, CoreTypes, FrameKinds, CloseIsLastData, Accept, output, handshake
<1>4. /\ readyState = "CONNECTING" /\ readyState' = "OPEN"
      /\ UNCHANGED <<sentClose, receivedClose, reported, closeTimer, rejected>>
  BY DEF Accept, handshake, output
<1>5. KeepsQuiet
  BY <1>1, <1>2, <1>3, <1>4, QuietTask DEF KeepsQuiet, Tasks
<1> QED
  BY <1>5, QuietStep

LEMMA SendIInv ==
    ASSUME IInv, Send
    PROVE  IInv'
<1>1. frames' \in Seq(FrameKinds) /\ CloseIsLastData'
  <2>1. ~sentClose
    BY DEF Send, IInv, SentCloseIsClosing
  <2> QED
    BY <2>1, FrameAppended DEF Send, IInv, FrameKinds, handshake
<1>2. /\ \A u, s : Will(u, s)' <=> Will(u, s)
      /\ todo' \in [Tasks -> Seq(Steps)]
  BY DEF Send, Will, IInv, CoreTypes
<1>3. UNCHANGED <<readyState, sentClose, receivedClose, reported, closeTimer, rejected, buffer>>
  BY DEF Send, handshake, input
<1>4. KeepsQuiet
  BY <1>1, <1>2, <1>3 DEF KeepsQuiet, QuietAdds
<1> QED
  BY <1>4, QuietStep

LEMMA WriteSettlesIInv ==
    ASSUME IInv, WriteSettles
    PROVE  IInv'
<1>1. frames' \in Seq(FrameKinds) /\ CloseIsLastData'
  BY DEF IInv, CoreTypes, FrameKinds, CloseIsLastData, WriteSettles, handshake
<1>2. /\ \A u, s : Will(u, s)' <=> Will(u, s)
      /\ todo' \in [Tasks -> Seq(Steps)]
  BY DEF WriteSettles, Will, IInv, CoreTypes
<1>3. /\ UNCHANGED <<readyState, sentClose, receivedClose, reported, closeTimer, buffer>>
      /\ rejected \subseteq rejected'
  BY DEF WriteSettles, handshake, input
<1>4. KeepsQuiet
  BY <1>1, <1>2, <1>3 DEF KeepsQuiet, QuietAdds
<1> QED
  BY <1>4, QuietStep

LEMMA ReadPingIInv ==
    ASSUME IInv, NEW t \in Tasks, ReadPing(t)
    PROVE  IInv'
<1>1. frames' \in Seq(FrameKinds) /\ CloseIsLastData'
  BY FrameAppended DEF ReadPing, WriteFrame, IInv, FrameKinds, handshake
<1>2. /\ <<"write">> \o Read \in Seq(Steps)
      /\ Elements(<<"write">> \o Read) = {"write", "handled"}
  <2>1. "write" \in Steps
    BY DEF Steps
  <2>2. <<"write">> \in Seq(Steps) /\ Elements(<<"write">>) = {"write"}
    BY <2>1, OneStep
  <2>3. Read \in Seq(Steps) /\ Elements(Read) = {"handled"}
    BY Continuations
  <2>4. \A p, q \in Seq(Steps) :
           p \o q \in Seq(Steps) /\ Elements(p \o q) = Elements(p) \cup Elements(q)
    BY Concatenated
  <2>5. /\ <<"write">> \o Read \in Seq(Steps)
        /\ Elements(<<"write">> \o Read) = Elements(<<"write">>) \cup Elements(Read)
    BY <2>2, <2>3, <2>4
  <2> QED
    BY <2>2, <2>3, <2>5
<1>3. todo[t] # <<>> /\ Head(todo[t]) \in {"read", "receive"}
  BY AtHead DEF ReadPing, TakeFrame, Reading
<1>4. Head(todo[t]) \notin Finishing \cup {"arm"}
  BY <1>3 DEF Finishing
<1>5. /\ Continue(t, <<"write">> \o Read)
      /\ UNCHANGED <<readyState, sentClose, receivedClose, reported, closeTimer, rejected>>
      /\ buffer # <<>>
  BY DEF ReadPing, handshake, WriteFrame, TakeFrame
<1>6. QuietAdds
  BY <1>2, <1>3, <1>4, <1>5, QuietTask DEF Loud
<1>7. KeepsQuiet
  BY <1>1, <1>5, <1>6 DEF KeepsQuiet
<1> QED
  BY <1>7, QuietStep

-----------------------------------------------------------------------------
(* Our Close frame: from here on some task will arm the timer. *)
LEMMA SendCloseIInv ==
    ASSUME IInv, NEW t \in Tasks, SendClose(t),
           NEW steps \in Seq(Steps), Elements(steps) \in {{"write", "arm"}, {"write", "arm", "shut"}},
           \/ Start(t, steps)
           \/ todo[t] # <<>> /\ Head(todo[t]) \in {"close", "fail"} /\ Continue(t, steps)
    PROVE  IInv'
<1>1. Adds(t, Elements(steps))
  BY StartAdds, ContinueAdds DEF IInv, CoreTypes
<1>2. \A u \in Tasks, s \in {"conclude", "peer"} : Will(u, s)' => Will(u, s)
  BY <1>1 DEF Adds, Steps
<1>3. Will(t, "arm")'
  BY <1>1 DEF Adds
<1>4. frames' \in Seq(FrameKinds) /\ CloseIsLastData'
  BY FrameAppended DEF SendClose, WriteFrame, IInv, FrameKinds
<1>5. /\ ~receivedClose /\ ~receivedClose' /\ sentClose' /\ readyState' = "CLOSING"
      /\ readyState # "CLOSED" /\ reported' = reported
  BY DEF SendClose, IInv, SentCloseIsClosing, CoreTypes
<1>6. CoreTypes'
  BY <1>1, <1>4, <1>5 DEF IInv, CoreTypes, Adds, FrameKinds, SendClose
<1>7. SentCloseIsClosing' /\ CloseReportedOnce' /\ ReceivedHasFinisher'
  BY <1>5 DEF IInv, SentCloseIsClosing, CloseReportedOnce, ReceivedHasFinisher
<1>8. PeerIsReceived'
  BY <1>2, <1>5 DEF IInv, PeerIsReceived
<1>9. ClosingHasFinisher' /\ FinishersAnnounced' /\ UnsentIsEmpty'
  BY <1>3, <1>5 DEF ClosingHasFinisher, FinishersAnnounced, UnsentIsEmpty
<1> QED
  BY <1>4, <1>6, <1>7, <1>8, <1>9 DEF IInv

(* The ways of calling close. *)
LEMMA Closing ==
    /\ <<"write", "arm">> \in Seq(Steps) /\ Elements(<<"write", "arm">>) = {"write", "arm"}
    /\ <<"write", "arm">> \o <<>> = <<"write", "arm">>
    /\ <<"shut">> \in Seq(Steps) /\ Elements(<<"shut">>) = {"shut"}
    /\ <<"write", "arm">> \o <<"shut">> \in Seq(Steps)
    /\ Elements(<<"write", "arm">> \o <<"shut">>) = {"write", "arm", "shut"}
<1>1. {"write", "arm", "shut"} \subseteq Steps
  BY DEF Steps
<1>2. /\ <<"write", "arm">> \in Seq(Steps) /\ Elements(<<"write", "arm">>) = {"write", "arm"}
      /\ <<"shut">> \in Seq(Steps) /\ Elements(<<"shut">>) = {"shut"}
  BY <1>1, OneStep, TwoSteps
<1>3. <<"write", "arm">> \o <<>> = <<"write", "arm">>
  OBVIOUS
<1>4. \A p, q \in Seq(Steps) :
         p \o q \in Seq(Steps) /\ Elements(p \o q) = Elements(p) \cup Elements(q)
  BY Concatenated
<1>5. /\ <<"write", "arm">> \o <<"shut">> \in Seq(Steps)
      /\ Elements(<<"write", "arm">> \o <<"shut">>) =
            Elements(<<"write", "arm">>) \cup Elements(<<"shut">>)
  BY <1>2, <1>4
<1> QED
  BY <1>2, <1>3, <1>5

LEMMA CloseIInv ==
    ASSUME IInv, NEW t \in Tasks, Close(t)
    PROVE  IInv'
BY SendCloseIInv, Closing DEF Close

(* A step that keeps the handshake but may take the timer or "arm" away: a   *)
(* finisher that does not need the timer, or the timer itself, must be left. *)
LEMMA HandshakeStep ==
    ASSUME IInv,
           UNCHANGED <<readyState, sentClose, receivedClose, reported, frames>>,
           todo' \in [Tasks -> Seq(Steps)],
           \A u \in Tasks, s \in {"conclude", "peer"} : Will(u, s)' =>
              receivedClose,
           \/ rejected' # {}
           \/ \E u \in Tasks : \E s \in Finishing : Will(u, s)'
           \/ ~receivedClose /\ closeTimer',
           FinishersAnnounced', UNCHANGED buffer
    PROVE  IInv'
<1>1. CoreTypes' /\ SentCloseIsClosing' /\ CloseReportedOnce'
  BY DEF IInv, CoreTypes, SentCloseIsClosing, CloseReportedOnce
<1>2. CloseIsLastData'
  BY DEF IInv, CloseIsLastData
<1>3. PeerIsReceived'
  BY DEF IInv, PeerIsReceived
<1>4. ReceivedHasFinisher' /\ ClosingHasFinisher'
  BY DEF ReceivedHasFinisher, ClosingHasFinisher
<1>5. UnsentIsEmpty'
  BY DEF IInv, UnsentIsEmpty
<1> QED
  BY <1>1, <1>2, <1>3, <1>4, <1>5 DEF IInv

(* A call of close inside another one: it sends the Close frame, or what      *)
(* #protocolFailure goes on to do comes next.                                 *)
LEMMA CloseStepIInv ==
    ASSUME IInv, NEW t \in Tasks, CloseStep(t)
    PROVE  IInv'
<1>1. PICK rest \in {<<>>, <<"shut">>} :
            /\ IF rest = <<>> THEN At(t, "close") ELSE At(t, "fail")
            /\ \/ SendClose(t) /\ Continue(t, <<"write", "arm">> \o rest)
               \/ /\ sentClose \/ readyState = "CLOSED"
                  /\ Continue(t, rest)
                  /\ UNCHANGED <<readyState, input, handshake, closeTimer, output, reported,
                                 transport>>
  BY DEF CloseStep
<1>2. todo[t] # <<>> /\ Head(todo[t]) \in {"close", "fail"}
  BY <1>1, AtHead
<1>3. CASE SendClose(t) /\ Continue(t, <<"write", "arm">> \o rest)
  <2>1. CASE rest = <<>>
    BY <1>2, <1>3, <2>1, Closing, SendCloseIInv
  <2>2. CASE rest = <<"shut">>
    BY <1>2, <1>3, <2>2, Closing, SendCloseIInv
  <2> QED
    BY <2>1, <2>2
<1>4. CASE /\ sentClose \/ readyState = "CLOSED"
           /\ Continue(t, rest)
           /\ UNCHANGED <<readyState, input, handshake, closeTimer, output, reported, transport>>
  <2>1. UNCHANGED <<readyState, sentClose, receivedClose, reported, frames, closeTimer,
                    rejected, buffer>>
    BY <1>4 DEF handshake, output, input
  <2>2. CASE rest = <<>>
    <3>1. Head(todo[t]) \notin Finishing \cup {"arm"}
      BY <1>1, <2>2, AtHead DEF Finishing
    <3> QED
      BY <1>2, <1>4, <2>1, <2>2, <3>1, QuietTurn, Continuations
  <2>3. CASE rest = <<"shut">>
    <3>1. Adds(t, {"shut"})
      <4>1. rest \in Seq(Steps) /\ Elements(rest) = {"shut"}
        BY <2>3, Closing
      <4>2. Adds(t, Elements(rest))
        BY <1>2, <1>4, <4>1, ContinueAdds DEF IInv, CoreTypes
      <4> QED
        BY <4>1, <4>2
    <3>2. Will(t, "shut")' /\ todo' \in [Tasks -> Seq(Steps)]
      BY <3>1 DEF Adds
    <3>3. \A u \in Tasks, s \in {"conclude", "peer"} : Will(u, s)' => receivedClose
      BY <3>1 DEF Adds, Steps, IInv, PeerIsReceived
    <3>4. FinishersAnnounced'
      BY <1>4, <2>1 DEF FinishersAnnounced
    <3> QED
      BY <2>1, <3>2, <3>3, <3>4, HandshakeStep DEF Finishing
  <2> QED
    BY <2>2, <2>3
<1> QED
  BY <1>1, <1>3, <1>4

(* Shutdown followed by one more step. *)
LEMMA ShutdownThen ==
    ASSUME NEW s \in Steps
    PROVE  /\ Shutdown \o <<s>> \in Seq(Steps)
           /\ Elements(Shutdown \o <<s>>) = {"queue", "end", s}
<1>1. <<s>> \in Seq(Steps) /\ Elements(<<s>>) = {s}
  BY OneStep
<1>2. Shutdown \in Seq(Steps) /\ Elements(Shutdown) = {"queue", "end"}
  BY Continuations
<1>3. \A p, q \in Seq(Steps) :
         p \o q \in Seq(Steps) /\ Elements(p \o q) = Elements(p) \cup Elements(q)
  BY Concatenated
<1>4. /\ Shutdown \o <<s>> \in Seq(Steps)
      /\ Elements(Shutdown \o <<s>>) = Elements(Shutdown) \cup Elements(<<s>>)
  BY <1>1, <1>2, <1>3
<1> QED
  BY <1>1, <1>2, <1>4

LEMMA ShutStepIInv ==
    ASSUME IInv, NEW t \in Tasks, ShutStep(t)
    PROVE  IInv'
<1>1. PICK s \in {"abnormal", "peer"} :
            /\ Continue(t, Shutdown \o <<s>>) /\ todo[t] # <<>>
            /\ IF s = "peer" THEN Will(t, "conclude") ELSE Will(t, "shut")
  BY AtHead DEF ShutStep
<1>2. s \in Steps /\ s \in Finishing /\ {"conclude", "peer"} \subseteq Steps
  BY DEF Steps, Finishing
<1>3. Adds(t, {"queue", "end", s})
  <2>1. /\ Shutdown \o <<s>> \in Seq(Steps)
        /\ Elements(Shutdown \o <<s>>) = {"queue", "end", s}
    BY <1>2, ShutdownThen
  <2>2. Adds(t, Elements(Shutdown \o <<s>>))
    BY <1>1, <2>1, ContinueAdds DEF IInv, CoreTypes
  <2> QED
    BY <2>1, <2>2
<1>4. Will(t, s)'
  BY <1>3 DEF Adds
<1>5. ASSUME NEW u \in Tasks, NEW q \in {"conclude", "peer"}, Will(u, q)'
      PROVE  receivedClose
  <2>1. Will(u, q) \/ (u = t /\ q = s)
    BY <1>2, <1>3, <1>5 DEF Adds
  <2> QED
    BY <1>1, <1>5, <2>1 DEF IInv, PeerIsReceived
<1>6. UNCHANGED <<readyState, sentClose, receivedClose, reported, frames, buffer>>
  BY DEF ShutStep, FinishTransport, handshake, input
<1>7. sentClose \/ readyState = "CLOSED"
  BY <1>1 DEF IInv, PeerIsReceived, SentCloseIsClosing, FinishersAnnounced
<1>8. FinishersAnnounced'
  BY <1>6, <1>7 DEF FinishersAnnounced
<1> QED
  BY <1>2, <1>3, <1>4, <1>5, <1>6, <1>8, HandshakeStep DEF Adds

LEMMA ArmStepIInv ==
    ASSUME IInv, NEW t \in Tasks, ArmStep(t)
    PROVE  IInv'
<1>1. todo[t] # <<>> /\ Head(todo[t]) = "arm"
  BY AtHead DEF ArmStep
<1>2. PICK steps \in {<<>>, Shutdown} : Continue(t, steps)
  BY DEF ArmStep
<1>3. /\ steps \in Seq(Steps)
      /\ Elements(steps) \subseteq {"queue", "end"}
  <2>1. CASE steps = <<>>
    BY <2>1, Continuations
  <2>2. CASE steps = Shutdown
    BY <2>2, Continuations
  <2> QED
    BY <2>1, <2>2
<1>4. Adds(t, Elements(steps))
  BY <1>1, <1>2, <1>3, ContinueAdds DEF IInv, CoreTypes
<1>5. UNCHANGED <<readyState, sentClose, receivedClose, reported, frames, rejected, buffer>>
  BY DEF ArmStep, FinishTransport, handshake, output, input
<1>6. ASSUME NEW u \in Tasks, NEW s \in {"conclude", "peer"}, Will(u, s)'
      PROVE  receivedClose
  <2>1. Will(u, s)
    BY <1>3, <1>4, <1>6 DEF Adds, Steps
  <2> QED
    BY <2>1 DEF IInv, PeerIsReceived
<1>7. ASSUME NEW u \in Tasks, NEW s \in Finishing, Will(u, s)
      PROVE  Will(u, s)'
  BY <1>1, <1>4, <1>7 DEF Adds, Finishing, Steps
<1>8. FinishersAnnounced'
  <2>1. sentClose \/ readyState = "CLOSED"
    BY AtHead DEF ArmStep, IInv, FinishersAnnounced
  <2> QED
    BY <1>5, <2>1 DEF FinishersAnnounced
<1>9. CASE readyState = "CLOSING" /\ receivedClose
  <2>1. rejected # {} \/ \E u \in Tasks : \E s \in Finishing : Will(u, s)
    BY <1>9 DEF IInv, ReceivedHasFinisher
  <2>2. rejected' # {} \/ \E u \in Tasks : \E s \in Finishing : Will(u, s)'
    BY <1>5, <1>7, <2>1
  <2> QED
    BY <1>4, <1>5, <1>6, <1>8, <2>2, HandshakeStep DEF Adds
<1>10. CASE readyState = "CLOSING" /\ ~receivedClose
  <2>1. closeTimer'
    BY <1>10 DEF ArmStep
  <2> QED
    BY <1>4, <1>5, <1>6, <1>10, <1>8, <2>1, HandshakeStep DEF Adds
<1>11. CASE readyState # "CLOSING"
  <2>1. CoreTypes' /\ SentCloseIsClosing' /\ CloseReportedOnce'
    BY <1>4, <1>5 DEF IInv, CoreTypes, SentCloseIsClosing, CloseReportedOnce, Adds
  <2>2. CloseIsLastData'
    BY <1>5 DEF IInv, CloseIsLastData
  <2>3. PeerIsReceived'
    BY <1>5, <1>6 DEF IInv, PeerIsReceived
  <2>4. ReceivedHasFinisher' /\ ClosingHasFinisher'
    BY <1>5, <1>11 DEF ReceivedHasFinisher, ClosingHasFinisher
  <2>5. UnsentIsEmpty'
    BY <1>5 DEF IInv, UnsentIsEmpty
  <2> QED
    BY <1>8, <2>1, <2>2, <2>3, <2>4, <2>5 DEF IInv
<1> QED
  BY <1>9, <1>10, <1>11

LEMMA WrittenIInv ==
    ASSUME IInv, NEW t \in Tasks, Written(t)
    PROVE  IInv'
<1>1. UNCHANGED <<readyState, sentClose, receivedClose, reported, frames,
                  closeTimer, rejected, buffer>>
  BY DEF Written, handshake, input
<1>2. CASE awaited[t] \notin rejected
  <2>1. Continue(t, <<>>)
    BY <1>2 DEF Written
  <2>2. todo[t] # <<>> /\ Head(todo[t]) \notin Finishing \cup {"arm"}
    BY AtHead DEF Written, Finishing
  <2> QED
    BY <1>1, <2>1, <2>2, QuietTurn, Continuations
<1>3. CASE awaited[t] \in rejected
  <2>1. Unwind(t) /\ rejected' # {}
    BY <1>1, <1>3 DEF Written
  <2>2. /\ todo' \in [Tasks -> Seq(Steps)]
        /\ \A u \in Tasks, s \in Steps : Will(u, s)' => Will(u, s)
    BY <2>1, UnwindAdds DEF IInv, CoreTypes
  <2>3. \A u \in Tasks, s \in {"conclude", "peer"} : Will(u, s)' => receivedClose
    BY <2>2 DEF IInv, PeerIsReceived, Steps
  <2>4. FinishersAnnounced'
    BY <1>1, <2>2 DEF IInv, FinishersAnnounced, Steps
  <2> QED
    BY <1>1, <2>1, <2>2, <2>3, <2>4, HandshakeStep
<1> QED
  BY <1>2, <1>3

-----------------------------------------------------------------------------
(* The peer's Close: this task will report it itself, timer or not. *)
LEMMA ReadCloseIInv ==
    ASSUME IInv, NEW t \in Tasks, ReadClose(t)
    PROVE  IInv'
<1>1. todo[t] # <<>> /\ Head(todo[t]) \in {"read", "receive"}
  BY AtHead DEF ReadClose, TakeFrame, Reading
<1>2. /\ receivedClose' /\ sentClose' /\ (~sentClose => readyState # "CLOSED")
      /\ UNCHANGED <<reported, rejected>>
  BY DEF ReadClose, TakeFrame, WriteFrame, output, IInv, UnsentIsEmpty
<1>3. PICK steps \in {<<"conclude">>, <<"write", "conclude">>} : Continue(t, steps \o Read)
  BY DEF ReadClose
<1>4. steps \in Seq(Steps) /\ "conclude" \in Elements(steps)
  <2>1. "conclude" \in Steps /\ "write" \in Steps
    BY DEF Steps
  <2>2. CASE steps = <<"conclude">>
    BY <2>1, <2>2, OneStep
  <2>3. CASE steps = <<"write", "conclude">>
    BY <2>1, <2>3, TwoSteps
  <2> QED
    BY <2>2, <2>3
<1>5. Adds(t, Elements(steps \o Read)) /\ "conclude" \in Elements(steps \o Read)
  <2>1. Read \in Seq(Steps)
    BY Continuations
  <2>2. steps \o Read \in Seq(Steps) /\ "conclude" \in Elements(steps \o Read)
    BY <1>4, <2>1, Concatenated
  <2> QED
    BY <1>1, <1>3, <2>2, ContinueAdds DEF IInv, CoreTypes
<1>6. Will(t, "conclude")'
  BY <1>5 DEF Adds
<1>7. frames' \in Seq(FrameKinds) /\ CloseIsLastData'
  <2>1. CASE sentClose
    BY <1>2, <2>1 DEF ReadClose, IInv, CoreTypes, FrameKinds, CloseIsLastData, output
  <2>2. CASE ~sentClose
    BY <1>2, <2>2, FrameAppended DEF ReadClose, WriteFrame, IInv, FrameKinds
  <2> QED
    BY <2>1, <2>2
<1>8. /\ readyState' \in {"CLOSING", "CLOSED"}
      /\ readyState' = "CLOSED" <=> readyState = "CLOSED"
  BY <1>2 DEF ReadClose, IInv, SentCloseIsClosing
<1>9. CoreTypes' /\ SentCloseIsClosing' /\ CloseReportedOnce' /\ PeerIsReceived'
  BY <1>2, <1>5, <1>7, <1>8 DEF IInv, CoreTypes, SentCloseIsClosing, FrameKinds,
                                CloseReportedOnce, PeerIsReceived, Adds
<1>10. ReceivedHasFinisher' /\ ClosingHasFinisher' /\ FinishersAnnounced' /\ UnsentIsEmpty'
  BY <1>2, <1>6 DEF ReceivedHasFinisher, ClosingHasFinisher, Finishing, FinishersAnnounced,
                    UnsentIsEmpty
<1> QED
  BY <1>7, <1>9, <1>10 DEF IInv

LEMMA FinishStepIInv ==
    ASSUME IInv, NEW t \in Tasks, FinishStep(t)
    PROVE  IInv'
<1>1. /\ todo[t] # <<>> /\ Head(todo[t]) \in {"abnormal", "peer"}
      /\ Head(todo[t]) = "peer" => receivedClose
  BY AtHead DEF FinishStep, IInv, PeerIsReceived
<1>2. Adds(t, {})
  <2>1. <<>> \in Seq(Steps) /\ Elements(<<>>) = {}
    BY Continuations
  <2>2. Continue(t, <<>>)
    BY DEF FinishStep
  <2>3. Adds(t, Elements(<<>>))
    BY <1>1, <2>1, <2>2, ContinueAdds DEF IInv, CoreTypes
  <2> QED
    BY <2>1, <2>3
<1>3. \A u \in Tasks, s \in {"conclude", "peer"} : Will(u, s)' => Will(u, s)
  BY <1>2 DEF Adds, Steps
<1>4. Finish(Head(todo[t])) /\ UNCHANGED <<sentClose, receivedClose, frames, buffer>>
  BY DEF FinishStep, handshake, output, input
<1>5. sentClose \/ readyState = "CLOSED"
  BY AtHead DEF FinishStep, IInv, PeerIsReceived, SentCloseIsClosing, FinishersAnnounced
<1> QED
  BY <1>1, <1>2, <1>3, <1>4, <1>5, FinishIInv DEF Adds

LEMMA ReceiveEndIInv ==
    ASSUME IInv, NEW t \in Tasks, NEW reason, ReceiveEnd(t, reason)
    PROVE  IInv'
<1> DEFINE code == IF reason = "finished" /\ receivedClose THEN "peer" ELSE "abnormal"
<1>1. UNCHANGED <<sentClose, receivedClose, frames, rejected, buffer>>
  BY DEF ReceiveEnd, handshake, output
<1>2. CASE buffer # <<>>
  <2>1. /\ Start(t, Failure) /\ UNCHANGED <<readyState, closeTimer, reported>>
    BY <1>2 DEF ReceiveEnd
  <2>2. Failure \in Seq(Steps) /\ Elements(Failure) \cap Loud = {}
    BY Continuations DEF Loud
  <2> QED
    BY <1>1, <2>1, <2>2, QuietTurn
<1>3. CASE buffer = <<>>
  <2>1. Start(t, <<>>) /\ Finish(code)
    BY <1>3 DEF ReceiveEnd
  <2>2. /\ todo' \in [Tasks -> Seq(Steps)]
        /\ \A u \in Tasks, s \in {"conclude", "peer"} : Will(u, s)' => Will(u, s)
    BY <2>1, QuietTask, Continuations DEF QuietAdds
  <2>3. code \in {"peer", "abnormal"} /\ (code = "peer" => receivedClose)
    OBVIOUS
  <2> QED
    BY <1>1, <1>3, <2>1, <2>2, <2>3, FinishIInv
<1> QED
  BY <1>2, <1>3

LEMMA CloseTimerFiresIInv ==
    ASSUME IInv, CloseTimerFires
    PROVE  IInv'
<1>1. /\ \A u, s : Will(u, s)' <=> Will(u, s)
      /\ todo' \in [Tasks -> Seq(Steps)]
      /\ UNCHANGED <<sentClose, receivedClose, frames, buffer>>
  BY DEF CloseTimerFires, Will, IInv, CoreTypes, handshake, output, input
<1>2. CASE readyState # "CLOSED"
  <2>1. Finish("abnormal")
    BY <1>2 DEF CloseTimerFires
  <2>2. sentClose
    BY <1>2 DEF CloseTimerFires, IInv, FinishersAnnounced
  <2> QED
    BY <1>1, <2>1, <2>2, FinishIInv
<1>3. CASE readyState = "CLOSED"
  <2>1. readyState' = "CLOSED" /\ UNCHANGED reported
    BY <1>3 DEF CloseTimerFires
  <2> QED
    BY <1>1, <1>3, <2>1 DEF IInv, CoreTypes, SentCloseIsClosing, CloseReportedOnce,
       CloseIsLastData, PeerIsReceived, ReceivedHasFinisher, ClosingHasFinisher,
       FinishersAnnounced, UnsentIsEmpty
<1> QED
  BY <1>2, <1>3

-----------------------------------------------------------------------------
(* Every step of a WebSocket preserves the inductive invariant. *)
LEMMA NextIInv == IInv /\ [Next]_vars => IInv'
<1> SUFFICES ASSUME IInv, [Next]_vars PROVE IInv'
  OBVIOUS
<1>1. CASE Send
  BY <1>1, SendIInv
<1>2. CASE Accept
  BY <1>2, AcceptIInv
<1>3. CASE CloseTimerFires
  BY <1>3, CloseTimerFiresIInv
<1>4. CASE WriteSettles
  BY <1>4, WriteSettlesIInv
<1>5. ASSUME NEW chunk \in InputChunks, ReceiveData(chunk)
      PROVE  IInv'
  BY <1>5, ReceiveDataIInv
<1>6. ASSUME NEW t \in Tasks, Step(t) \/ HandlerSettles(t)
      PROVE  IInv'
  <2>1. CASE CloseStep(t)
    BY <2>1, CloseStepIInv
  <2>2. CASE ArmStep(t)
    BY <2>2, ArmStepIInv
  <2>3. CASE ShutStep(t)
    BY <2>3, ShutStepIInv
  <2>4. CASE FinishStep(t)
    BY <2>4, FinishStepIInv
  <2>5. CASE Written(t)
    BY <2>5, WrittenIInv
  <2>6. CASE ReadPing(t)
    BY <2>6, ReadPingIInv
  <2>7. CASE ReadClose(t)
    BY <2>7, ReadCloseIInv
  <2>8. CASE \/ EndStep(t) \/ Drained(t) \/ EndSettles(t) \/ ErrorReported(t)
             \/ HandlerSettles(t) \/ Handled(t) \/ ReadNothing(t) \/ ReadBadHeader(t)
             \/ ReadMessage(t) \/ ReadFragment(t) \/ ReadMisplaced(t)
    BY <2>8, QuietActions
  <2> QED
    BY <1>6, <2>1, <2>2, <2>3, <2>4, <2>5, <2>6, <2>7, <2>8 DEF Step, ReadFrame
<1>7. ASSUME NEW t \in Closers, Close(t)
      PROVE  IInv'
  BY <1>7, CloseIInv DEF Tasks
<1>8. ASSUME NEW t \in Enders, NEW reason \in {"finished", "aborted"}, ReceiveEnd(t, reason)
      PROVE  IInv'
  BY <1>8, ReceiveEndIInv DEF Tasks
<1>9. CASE UNCHANGED vars
  <2>1. \A u, s : Will(u, s)' <=> Will(u, s)
    BY <1>9 DEF Will, vars
  <2> QED
    BY <1>9, <2>1 DEF vars, IInv, CoreTypes, SentCloseIsClosing, CloseReportedOnce,
       CloseIsLastData, PeerIsReceived, ReceivedHasFinisher, ClosingHasFinisher,
       FinishersAnnounced, UnsentIsEmpty
<1> QED
  BY <1>1, <1>2, <1>3, <1>4, <1>5, <1>6, <1>7, <1>8, <1>9 DEF Next

(* The invariant holds in every reachable state. *)
THEOREM Inductive == Spec => []IInv
<1> QED
  BY InitIInv, NextIInv, PTL DEF Spec

(* webSocketClose is called exactly once, when the socket becomes CLOSED:     *)
(* #finish in WebSocketConnection.js, for any number of racing finishers.    *)
THEOREM ReportsOnce == Spec => []CloseReportedOnce
<1>1. IInv => CloseReportedOnce
  BY DEF IInv
<1> QED
  BY <1>1, Inductive, PTL

(* No message and no second Close frame follows the Close frame, however the *)
(* application, the opener, the deliverer and the ends interleave.           *)
THEOREM ClosesLast == Spec => []CloseIsLastData
<1>1. IInv => CloseIsLastData
  BY DEF IInv
<1> QED
  BY <1>1, Inductive, PTL

(* A socket that is CLOSING always has a timer or a task that will finish    *)
(* it, unless the transport rejected a write.                                *)
THEOREM NeverOrphaned == Spec => []ClosingHasFinisher
<1>1. IInv => ClosingHasFinisher
  BY DEF IInv
<1> QED
  BY <1>1, Inductive, PTL

(* The peer's code reaches the application only after a Close frame in each  *)
(* direction.                                                                *)
THEOREM CleanIsMutual == Spec => []CleanCloseIsMutual
<1>1. IInv => CleanCloseIsMutual
  BY DEF IInv, PeerIsReceived, SentCloseIsClosing, CloseIsLastData, CleanCloseIsMutual
<1> QED
  BY <1>1, Inductive, PTL

-----------------------------------------------------------------------------
(* #finish is one of the two closing steps of the lifecycle, or nothing.     *)
LEMMA FinishMaps ==
    ASSUME IInv, NEW code \in {"peer", "abnormal"}, Finish(code),
           code = "peer" => receivedClose
    PROVE  [Lifecycle!Next]_<<readyState, reported>>
<1>1. CASE readyState = "CLOSED"
  BY <1>1 DEF Finish
<1>2. CASE readyState # "CLOSED"
  <2>1. reported = <<>>
    BY <1>2, EmptySeq DEF IInv, CoreTypes, CloseReportedOnce
  <2>2. Append(<<>>, code) = <<code>>
    OBVIOUS
  <2>3. readyState' = "CLOSED" /\ reported' = <<code>>
    BY <1>2, <2>1, <2>2 DEF Finish
  <2>4. code = "peer" => readyState = "CLOSING"
    BY <1>2 DEF IInv, SentCloseIsClosing
  <2> QED
    BY <1>2, <2>3, <2>4 DEF Lifecycle!Next, Lifecycle!CloseCleanly,
                            Lifecycle!CloseAbnormally
<1> QED
  BY <1>1, <1>2

(* Every step of the connection is a step of the lifecycle, or none.         *)
LEMMA StepMaps == IInv /\ [Next]_vars => [Lifecycle!Next]_<<readyState, reported>>
<1> SUFFICES ASSUME IInv, [Next]_vars PROVE [Lifecycle!Next]_<<readyState, reported>>
  OBVIOUS
<1>1. ASSUME NEW t \in Tasks, SendClose(t)
      PROVE  [Lifecycle!Next]_<<readyState, reported>>
  <2>1. /\ readyState' = "CLOSING" /\ reported' = reported
        /\ readyState \in {"CONNECTING", "OPEN", "CLOSING"}
    BY <1>1 DEF SendClose, IInv, CoreTypes
  <2> QED
    BY <2>1 DEF Lifecycle!Next, Lifecycle!StartClosing
<1>2. CASE Send \/ WriteSettles \/ \E chunk \in InputChunks : ReceiveData(chunk)
  BY <1>2 DEF Send, WriteSettles, ReceiveData
<1>3. CASE Accept
  BY <1>3 DEF Accept, Lifecycle!Next, Lifecycle!Open
<1>4. CASE CloseTimerFires
  BY <1>4, FinishMaps DEF CloseTimerFires
<1>5. ASSUME NEW t \in Tasks, Step(t) \/ HandlerSettles(t)
      PROVE  [Lifecycle!Next]_<<readyState, reported>>
  <2>1. CASE CloseStep(t)
    BY <1>1, <2>1 DEF CloseStep
  <2>2. CASE FinishStep(t)
    <3>1. /\ Head(todo[t]) \in {"abnormal", "peer"}
          /\ Head(todo[t]) = "peer" => receivedClose
      BY <2>2, AtHead DEF FinishStep, IInv, PeerIsReceived
    <3>2. Finish(Head(todo[t]))
      BY <2>2 DEF FinishStep
    <3> QED
      BY <3>1, <3>2, FinishMaps
  <2>3. CASE ReadClose(t)
    <3>1. /\ reported' = reported
          /\ \/ readyState' = readyState
             \/ /\ readyState' = "CLOSING"
                /\ readyState \in {"CONNECTING", "OPEN", "CLOSING"}
      BY <2>3 DEF ReadClose, TakeFrame, IInv, CoreTypes, UnsentIsEmpty
    <3> QED
      BY <3>1 DEF Lifecycle!Next, Lifecycle!StartClosing
  <2>4. CASE \/ ArmStep(t) \/ ShutStep(t) \/ EndStep(t) \/ Written(t) \/ Drained(t)
             \/ EndSettles(t) \/ ErrorReported(t) \/ HandlerSettles(t)
    BY <2>4 DEF ArmStep, ShutStep, EndStep, Written, Drained, EndSettles,
                ErrorReported, HandlerSettles
  <2>5. CASE \/ Handled(t) \/ ReadNothing(t) \/ ReadBadHeader(t) \/ ReadMessage(t)
             \/ ReadFragment(t) \/ ReadMisplaced(t) \/ ReadPing(t)
    BY <2>5 DEF Handled, ReadNothing, ReadBadHeader, ReadMessage, ReadFragment,
                ReadMisplaced, ReadPing
  <2> QED
    BY <1>5, <2>1, <2>2, <2>3, <2>4, <2>5 DEF Step, ReadFrame
<1>6. ASSUME NEW t \in Closers, Close(t)
      PROVE  [Lifecycle!Next]_<<readyState, reported>>
  BY <1>1, <1>6 DEF Close, Tasks
<1>7. ASSUME NEW t \in Enders, NEW reason \in {"finished", "aborted"}, ReceiveEnd(t, reason)
      PROVE  [Lifecycle!Next]_<<readyState, reported>>
  <2> DEFINE code == IF reason = "finished" /\ receivedClose THEN "peer" ELSE "abnormal"
  <2>1. Finish(code) \/ UNCHANGED <<readyState, reported>>
    BY <1>7 DEF ReceiveEnd
  <2>2. code \in {"peer", "abnormal"} /\ (code = "peer" => receivedClose)
    OBVIOUS
  <2> QED
    BY <2>1, <2>2, FinishMaps
<1>8. CASE UNCHANGED vars
  BY <1>8 DEF vars
<1> QED
  BY <1>2, <1>3, <1>4, <1>5, <1>6, <1>7, <1>8 DEF Next

(* The promise made to the application: the connection implements the         *)
(* lifecycle, over every transport that settles or rejects its writes at any  *)
(* time, and with any number of ends, closes and tasks.                       *)
THEOREM Implements == Spec => ImplementsLifecycle
<1>1. Init => Lifecycle!Init
  BY DEF Init, Lifecycle!Init
<1> QED
  BY <1>1, Inductive, StepMaps, PTL DEF Spec, ImplementsLifecycle, Lifecycle!Spec

(* readyState never goes back, whatever the tasks of the connection do.       *)
THEOREM MovesForward == Spec => StateMovesForward
<1>1. IInv /\ [Next]_vars => [Order[readyState] <= Order[readyState']]_readyState
  BY StepMaps DEF Lifecycle!Next, Lifecycle!Open, Lifecycle!StartClosing,
                  Lifecycle!CloseCleanly, Lifecycle!CloseAbnormally, Order,
                  IInv, CoreTypes
<1> QED
  BY <1>1, Inductive, PTL DEF Spec, StateMovesForward
-----------------------------------------------------------------------------
(* The calls that will end or abort the transport. *)
Releasers == {"fail", "shut", "conclude", "end"}

Releasing ==
    \/ ended \/ aborted \/ rejected # {}
    \/ \E t \in Tasks : \E s \in Releasers : Will(t, s)

(* What obliges the server to release the transport: the peer's Close, or a  *)
(* report, made or on its way.                                               *)
Obliged ==
    \/ receivedClose \/ readyState = "CLOSED"
    \/ \E t \in Tasks : \E s \in {"abnormal", "peer"} : Will(t, s)

ReleaseInv == Obliged => Releasing

(* A step that takes no release away, and none of whose obligations is new   *)
(* without a release.                                                        *)
Careful ==
    /\ \A u \in Tasks, s \in Releasers : Will(u, s) => Will(u, s)'
    /\ (ended => ended') /\ (aborted => aborted') /\ rejected \subseteq rejected'
    /\ Obliged' => Obliged \/ Releasing'

LEMMA CarefulStep ==
    ASSUME ReleaseInv, Careful
    PROVE  ReleaseInv'
<1>1. (\E t \in Tasks : \E s \in Releasers : Will(t, s)) =>
         \E t \in Tasks : \E s \in Releasers : Will(t, s)'
  BY DEF Careful
<1>2. Releasing => Releasing'
  BY <1>1 DEF Careful, Releasing
<1> QED
  BY <1>2 DEF Careful, ReleaseInv

(* All that a turn may put before the rest of its call, but for the way from  *)
(* ShutStep to the report.                                                   *)
Plain == {<<>>, Receive, Read, Failure, Shutdown, <<"read">>, <<"ending">>,
          <<"write", "arm">>, <<"error", "close">>, <<"handler">> \o Read, Failure \o Read,
          <<"write">> \o Read, <<"conclude">> \o Read, <<"write", "conclude">> \o Read}

LEMMA PlainSteps ==
    \A q \in Plain : q \in Seq(Steps) /\ Elements(q) \cap {"abnormal", "peer"} = {}
<1> DEFINE Silent == {q \in Seq(Steps) : Elements(q) \cap {"abnormal", "peer"} = {}}
<1>1. {"ending", "write", "arm", "error", "close", "handler", "read", "conclude"}
         \subseteq Steps
  BY DEF Steps
<1>2. /\ <<>> \in Silent /\ Receive \in Silent /\ Read \in Silent
      /\ Failure \in Silent /\ Shutdown \in Silent
  BY Continuations
<1>3. /\ <<"ending">> \in Silent /\ <<"handler">> \in Silent
      /\ <<"write">> \in Silent /\ <<"conclude">> \in Silent /\ <<"read">> \in Silent
  BY <1>1, OneStep
<1>4. /\ <<"write", "arm">> \in Silent /\ <<"error", "close">> \in Silent
      /\ <<"write", "conclude">> \in Silent
  BY <1>1, TwoSteps
<1>5. \A p, q \in Silent : p \o q \in Silent
  BY Concatenated
<1> HIDE DEF Silent
<1>6. Plain \subseteq Silent
  BY <1>2, <1>3, <1>4, <1>5 DEF Plain
<1> QED
  BY <1>6 DEF Silent

(* A turn of task t with such a continuation, or the start of a call.        *)
LEMMA PlainTurn ==
    ASSUME IInv, NEW t \in Tasks, NEW steps \in Plain,
           \/ Start(t, steps)
           \/ /\ todo[t] # <<>> /\ Head(todo[t]) \notin Releasers
              /\ Continue(t, steps)
    PROVE  /\ \A u \in Tasks, s \in Releasers : Will(u, s) => Will(u, s)'
           /\ \A u \in Tasks, s \in {"abnormal", "peer"} : Will(u, s)' => Will(u, s)
<1>1. steps \in Seq(Steps) /\ Elements(steps) \cap {"abnormal", "peer"} = {}
  BY PlainSteps
<1>2. Adds(t, Elements(steps))
  BY <1>1, StartAdds, ContinueAdds DEF IInv, CoreTypes
<1>3. Releasers \subseteq Steps /\ {"abnormal", "peer"} \subseteq Steps
  BY DEF Releasers, Steps
<1>4. ASSUME NEW u \in Tasks, NEW s \in Releasers, Will(u, s)
      PROVE  Will(u, s)'
  <2>1. u = t => s # Head(todo[t])
    <3>1. CASE Start(t, steps)
      BY <3>1, <1>4 DEF Start, Idle, Will
    <3> QED
      BY <3>1
  <2> QED
    BY <1>2, <1>3, <1>4, <2>1 DEF Adds
<1> QED
  BY <1>1, <1>2, <1>3, <1>4 DEF Adds

(* ... which neither closes the socket nor receives the peer's Close.        *)
LEMMA PlainRelease ==
    ASSUME IInv, ReleaseInv, NEW t \in Tasks, NEW steps \in Plain,
           \/ Start(t, steps)
           \/ /\ todo[t] # <<>> /\ Head(todo[t]) \notin Releasers
              /\ Continue(t, steps),
           ended => ended', aborted => aborted', rejected \subseteq rejected',
           receivedClose' = receivedClose,
           readyState' = "CLOSED" => Obliged \/ aborted'
    PROVE  ReleaseInv'
<1>1. /\ \A u \in Tasks, s \in Releasers : Will(u, s) => Will(u, s)'
      /\ \A u \in Tasks, s \in {"abnormal", "peer"} : Will(u, s)' => Will(u, s)
  BY PlainTurn
<1>2. Obliged' => Obliged \/ Releasing'
  BY <1>1 DEF Obliged, Releasing
<1> QED
  BY <1>1, <1>2, CarefulStep DEF Careful

(* A rejected write is a release of its own: the transport has failed. *)
LEMMA TurnRelease ==
    ASSUME IInv, ReleaseInv, NEW t \in Tasks, Step(t) \/ HandlerSettles(t)
    PROVE  ReleaseInv'
<1> DEFINE Goes(steps) == /\ todo[t] # <<>> /\ Head(todo[t]) \notin Releasers
                          /\ Continue(t, steps)
           Kept == /\ (ended => ended') /\ (aborted => aborted')
                   /\ rejected \subseteq rejected'
                   /\ receivedClose' = receivedClose
                   /\ readyState' = "CLOSED" => Obliged \/ aborted'
<1>1. \A steps \in Plain : Goes(steps) /\ Kept => ReleaseInv'
  BY PlainRelease
<1>2. readyState = "CLOSED" => Obliged
  BY DEF Obliged
<1>3. \A s \in {"close", "arm", "write", "queue", "ending", "error", "handler",
                "abnormal", "peer", "handled", "read", "receive"} :
         At(t, s) => todo[t] # <<>> /\ Head(todo[t]) \notin Releasers
  BY AtHead DEF Releasers
<1>4. Reading(t) => todo[t] # <<>> /\ Head(todo[t]) \notin Releasers
  BY <1>3 DEF Reading
<1>5. CASE CloseStep(t)
  <2>1. PICK rest \in {<<>>, <<"shut">>} :
               /\ IF rest = <<>> THEN At(t, "close") ELSE At(t, "fail")
               /\ Continue(t, <<"write", "arm">> \o rest) \/ Continue(t, rest)
    BY <1>5 DEF CloseStep
  <2>2. CASE rest = <<>>
    <3>1. Kept
      BY <1>2, <1>5 DEF CloseStep, SendClose, WriteFrame, handshake, output, transport
    <3>2. Goes(<<"write", "arm">>) \/ Goes(<<>>)
      BY <1>3, <2>1, <2>2, Closing
    <3> QED
      BY <1>1, <3>1, <3>2 DEF Plain
  <2>3. CASE rest = <<"shut">>
    <3>1. PICK steps \in {<<"write", "arm">> \o <<"shut">>, <<"shut">>} : Continue(t, steps)
      BY <2>1, <2>3
    <3>2. steps \in Seq(Steps) /\ "shut" \in Elements(steps)
      BY Closing
    <3>3. todo[t] # <<>>
      BY <2>1, AtHead
    <3>4. Adds(t, Elements(steps))
      BY <3>1, <3>2, <3>3, ContinueAdds DEF IInv, CoreTypes
    <3>5. Will(t, "shut")'
      BY <3>2, <3>4 DEF Adds
    <3> QED
      BY <3>5 DEF ReleaseInv, Releasing, Releasers
  <2> QED
    BY <2>2, <2>3
<1>6. CASE ArmStep(t)
  <2>1. Kept
    BY <1>2, <1>6 DEF ArmStep, FinishTransport, handshake, output, transport
  <2>2. Goes(Shutdown) \/ Goes(<<>>)
    BY <1>3, <1>6 DEF ArmStep
  <2> QED
    BY <1>1, <2>1, <2>2 DEF Plain
<1>7. CASE ShutStep(t)
  <2>1. PICK s \in {"abnormal", "peer"} :
               Continue(t, Shutdown \o <<s>>) /\ todo[t] # <<>>
    BY <1>7, AtHead DEF ShutStep
  <2>2. /\ Shutdown \o <<s>> \in Seq(Steps)
        /\ Elements(Shutdown \o <<s>>) = {"queue", "end", s}
    BY <2>1, ShutdownThen DEF Steps
  <2>3. Adds(t, Elements(Shutdown \o <<s>>))
    BY <2>1, <2>2, ContinueAdds DEF IInv, CoreTypes
  <2>4. Will(t, "end")'
    BY <2>2, <2>3 DEF Adds
  <2> QED
    BY <2>4 DEF ReleaseInv, Releasing, Releasers
<1>8. CASE EndStep(t)
  BY <1>8 DEF EndStep, ReleaseInv, Releasing
<1>9. CASE FinishStep(t)
  <2>1. Obliged
    BY <1>9, AtHead DEF FinishStep, Obliged
  <2>2. Kept
    BY <1>9, <2>1 DEF FinishStep, handshake, output, transport
  <2>3. Goes(<<>>)
    BY <1>3, <1>9 DEF FinishStep
  <2> QED
    BY <1>1, <2>2, <2>3 DEF Plain
<1>10. CASE Written(t)
  <2>1. CASE awaited[t] \in rejected
    <3>1. rejected' # {}
      BY <1>10, <2>1 DEF Written
    <3> QED
      BY <3>1 DEF ReleaseInv, Releasing
  <2>2. CASE awaited[t] \notin rejected
    <3>1. Kept
      BY <1>2, <1>10 DEF Written, handshake, transport
    <3>2. Goes(<<>>)
      BY <1>3, <1>10, <2>2 DEF Written
    <3> QED
      BY <1>1, <3>1, <3>2 DEF Plain
  <2> QED
    BY <2>1, <2>2
<1>11. CASE Drained(t) \/ EndSettles(t) \/ ErrorReported(t) \/ HandlerSettles(t)
  <2>1. /\ UNCHANGED <<ended, rejected, receivedClose, readyState>>
        /\ aborted => aborted'
    <3>1. CASE EndSettles(t)
      <4>1. aborted => aborted'
        <5>1. PICK outcome \in WriteOutcomes : aborted' = (aborted \/ outcome = "rejects")
          BY <3>1 DEF EndSettles
        <5> QED
          BY <5>1
      <4> QED
        BY <3>1, <4>1 DEF EndSettles, handshake, output
    <3>2. CASE Drained(t) \/ ErrorReported(t) \/ HandlerSettles(t)
      BY <3>2 DEF Drained, ErrorReported, HandlerSettles, handshake, output, transport
    <3> QED
      BY <1>11, <3>1, <3>2
  <2>2. Goes(<<>>) \/ Goes(<<"error", "close">>)
    BY <1>3, <1>11 DEF Drained, EndSettles, ErrorReported, HandlerSettles
  <2>3. Kept
    BY <1>2, <2>1
  <2> QED
    BY <1>1, <2>2, <2>3 DEF Plain
<1>12. CASE \/ Handled(t) \/ ReadNothing(t) \/ ReadBadHeader(t) \/ ReadMessage(t)
            \/ ReadFragment(t) \/ ReadMisplaced(t) \/ ReadPing(t)
  <2>1. Kept
    BY <1>2, <1>12 DEF Handled, ReadNothing, ReadBadHeader, ReadMessage, ReadFragment,
       ReadMisplaced, ReadPing, WriteFrame, handshake, output, transport
  <2>2. PICK steps \in Plain : Continue(t, steps)
    BY <1>12 DEF Handled, ReadNothing, ReadBadHeader, ReadMessage, ReadFragment,
                 ReadMisplaced, ReadPing, Plain
  <2>3. Reading(t) \/ At(t, "handled")
    BY <1>12 DEF Handled, ReadNothing, ReadBadHeader, ReadMessage, ReadFragment,
                 ReadMisplaced, ReadPing, TakeFrame
  <2> QED
    BY <1>1, <1>3, <1>4, <2>1, <2>2, <2>3
<1>13. CASE ReadClose(t)
  <2>1. PICK steps \in {<<"conclude">>, <<"write", "conclude">>} :
               Continue(t, steps \o Read)
    BY <1>13 DEF ReadClose
  <2>2. todo[t] # <<>>
    BY <1>4, <1>13 DEF ReadClose, TakeFrame
  <2>3. steps \in Seq(Steps) /\ "conclude" \in Elements(steps)
    <3>1. {"conclude", "write"} \subseteq Steps
      BY DEF Steps
    <3>2. CASE steps = <<"conclude">>
      BY <3>1, <3>2, OneStep
    <3>3. CASE steps = <<"write", "conclude">>
      BY <3>1, <3>3, TwoSteps
    <3> QED
      BY <3>2, <3>3
  <2>4. steps \o Read \in Seq(Steps) /\ "conclude" \in Elements(steps \o Read)
    BY <2>3, Continuations, Concatenated
  <2>5. Adds(t, Elements(steps \o Read))
    BY <2>1, <2>2, <2>4, ContinueAdds DEF IInv, CoreTypes
  <2>6. Will(t, "conclude")'
    BY <2>4, <2>5 DEF Adds
  <2> QED
    BY <2>6 DEF ReleaseInv, Releasing, Releasers
<1> QED
  BY <1>5, <1>6, <1>7, <1>8, <1>9, <1>10, <1>11, <1>12, <1>13 DEF Step, ReadFrame

(* Every step of a WebSocket preserves it. *)
LEMMA NextRelease == IInv /\ ReleaseInv /\ [Next]_vars => ReleaseInv'
<1> SUFFICES ASSUME IInv, ReleaseInv, [Next]_vars PROVE ReleaseInv'
  OBVIOUS
<1>1. readyState = "CLOSED" => Obliged
  BY DEF Obliged
<1>2. CASE Send \/ WriteSettles \/ UNCHANGED vars
  <2>1. /\ \A u, s : Will(u, s)' <=> Will(u, s)
        /\ UNCHANGED <<ended, aborted, receivedClose, readyState>>
        /\ rejected \subseteq rejected'
    BY <1>2 DEF Send, WriteSettles, vars, Will, handshake, transport
  <2>2. Careful
    BY <2>1 DEF Careful, Obliged
  <2> QED
    BY <2>2, CarefulStep
<1>3. CASE Accept
  <2>1. PICK steps \in {<<>>, Receive} : Start(Opener, steps)
    BY <1>3 DEF Accept
  <2>2. /\ UNCHANGED <<ended, aborted, receivedClose, rejected>> /\ readyState' = "OPEN"
    BY <1>3 DEF Accept, handshake, output, transport
  <2>3. steps \in Plain /\ Opener \in Tasks
    BY <2>1 DEF Plain, Tasks
  <2> QED
    BY <2>1, <2>2, <2>3, PlainRelease
<1>4. CASE CloseTimerFires
  BY <1>4 DEF CloseTimerFires, ReleaseInv, Releasing
<1>5. ASSUME NEW chunk \in InputChunks, ReceiveData(chunk)
      PROVE  ReleaseInv'
  <2>1. PICK steps \in {<<>>, Failure, Receive} : Start(Deliverer, steps)
    BY <1>5 DEF ReceiveData
  <2>2. UNCHANGED <<ended, aborted, receivedClose, rejected, readyState>>
    BY <1>5 DEF ReceiveData, handshake, output, transport
  <2>3. steps \in Plain /\ Deliverer \in Tasks
    BY <2>1 DEF Plain, Tasks
  <2> QED
    BY <1>1, <2>1, <2>2, <2>3, PlainRelease
<1>6. ASSUME NEW t \in Tasks, Step(t) \/ HandlerSettles(t)
      PROVE  ReleaseInv'
  BY <1>6, TurnRelease
<1>7. ASSUME NEW t \in Closers, Close(t)
      PROVE  ReleaseInv'
  <2>1. Start(t, <<"write", "arm">>) /\ <<"write", "arm">> \in Plain /\ t \in Tasks
    BY <1>7 DEF Close, Plain, Tasks
  <2>2. UNCHANGED <<ended, aborted, receivedClose, rejected>> /\ readyState' = "CLOSING"
    BY <1>7 DEF Close, SendClose, WriteFrame, transport
  <2> QED
    BY <2>1, <2>2, PlainRelease
<1>8. ASSUME NEW t \in Enders, NEW reason \in {"finished", "aborted"}, ReceiveEnd(t, reason)
      PROVE  ReleaseInv'
  <2>1. UNCHANGED <<ended, receivedClose, rejected>> /\ (aborted => aborted')
    BY <1>8 DEF ReceiveEnd, handshake, output
  <2>2. PICK steps \in {<<>>, Failure} : Start(t, steps)
    BY <1>8 DEF ReceiveEnd
  <2>3. steps \in Plain /\ t \in Tasks
    BY <2>2 DEF Plain, Tasks
  <2>4. readyState' = "CLOSED" => Obliged \/ aborted'
    BY <1>1, <1>8 DEF ReceiveEnd, Obliged
  <2> QED
    BY <2>1, <2>2, <2>3, <2>4, PlainRelease
<1> QED
  BY <1>2, <1>3, <1>4, <1>5, <1>6, <1>7, <1>8 DEF Next

(* A socket that reported its close has released its transport or is about   *)
(* to: whichever of the timer, the ends and the tasks closed it, and however  *)
(* many there are, no stream is left half open unless a write was rejected.  *)
THEOREM ClosedReleases == Spec => []ClosedReleasesTransport
<1>1. Init => ReleaseInv
  BY DEF Init, ReleaseInv, Obliged, Will
<1>2. Spec => []ReleaseInv
  BY <1>1, Inductive, NextRelease, PTL DEF Spec
<1>3. ReleaseInv => ClosedReleasesTransport
  BY DEF ReleaseInv, Obliged, Releasing, Releasers, ClosedReleasesTransport
<1> QED
  BY <1>2, <1>3, PTL

-----------------------------------------------------------------------------
(* The steps of a connection in this composition: those of its own Next,      *)
(* chunks that are cut otherwise, and the head of an upgrade request.         *)
HeadStart ==
    /\ readyState # "CLOSED"
    /\ buffer' = Joined(buffer, head)
    /\ Start(Opener, Receive)
    /\ UNCHANGED <<readyState, pendingInput, fragmented, received, peerEnded, handshake,
                   closeTimer, output, reported, transport>>

ConnectionStep ==
    \/ [Next]_vars
    \/ \E chunk \in Seq(Kinds) : ReceiveData(chunk)
    \/ HeadStart

LEMMA HeadStartIInv == ASSUME IInv, HeadStart PROVE IInv'
<1>1. Receive \in Seq(Steps) /\ Elements(Receive) \cap Loud = {}
  BY Continuations DEF Loud
<1>2. Opener \in Tasks
  BY DEF Tasks
<1>3. UNCHANGED <<readyState, sentClose, receivedClose, reported, frames, closeTimer,
                  rejected>>
  BY DEF HeadStart, handshake, output
<1> QED
  BY <1>1, <1>2, <1>3, QuietTurn DEF HeadStart

LEMMA ConnectionIInv == IInv /\ ConnectionStep => IInv'
BY NextIInv, ReceiveDataIInv, HeadStartIInv DEF ConnectionStep

LEMMA ReceiveDataRelease ==
    ASSUME IInv, ReleaseInv, NEW chunk, ReceiveData(chunk)
    PROVE  ReleaseInv'
<1>1. PICK steps \in {<<>>, Failure, Receive} : Start(Deliverer, steps)
  BY DEF ReceiveData
<1>2. UNCHANGED <<ended, aborted, receivedClose, rejected, readyState>>
  BY DEF ReceiveData, handshake, output, transport
<1>3. steps \in Plain /\ Deliverer \in Tasks
  BY <1>1 DEF Plain, Tasks
<1>4. readyState' = "CLOSED" => Obliged
  BY <1>2 DEF Obliged
<1> QED
  BY <1>1, <1>2, <1>3, <1>4, PlainRelease

LEMMA ConnectionRelease == IInv /\ ReleaseInv /\ ConnectionStep => ReleaseInv'
<1> SUFFICES ASSUME IInv, ReleaseInv, ConnectionStep PROVE ReleaseInv'
  OBVIOUS
<1>1. CASE [Next]_vars
  BY <1>1, NextRelease
<1>2. ASSUME NEW chunk \in Seq(Kinds), ReceiveData(chunk) PROVE ReleaseInv'
  BY <1>2, ReceiveDataRelease
<1>3. CASE HeadStart
  <2>1. Start(Opener, Receive) /\ Receive \in Plain /\ Opener \in Tasks
    BY <1>3 DEF HeadStart, Plain, Tasks
  <2>2. UNCHANGED <<ended, aborted, receivedClose, rejected, readyState>>
    BY <1>3 DEF HeadStart, handshake, output, transport
  <2>3. readyState' = "CLOSED" => Obliged
    BY <2>2 DEF Obliged
  <2> QED
    BY <2>1, <2>2, <2>3, PlainRelease
<1> QED
  BY <1>1, <1>2, <1>3 DEF ConnectionStep

LEMMA ConnectionMaps ==
    IInv /\ ConnectionStep => [Lifecycle!Next]_<<readyState, reported>>
<1> SUFFICES ASSUME IInv, ConnectionStep PROVE [Lifecycle!Next]_<<readyState, reported>>
  OBVIOUS
<1>1. CASE [Next]_vars
  BY <1>1, StepMaps
<1>2. CASE (\E chunk \in Seq(Kinds) : ReceiveData(chunk)) \/ HeadStart
  BY <1>2 DEF ReceiveData, HeadStart
<1> QED
  BY <1>1, <1>2 DEF ConnectionStep

LEMMA ClosedStays ==
    ASSUME IInv, ConnectionStep, readyState = "CLOSED"
    PROVE  readyState' = "CLOSED"
BY ConnectionMaps DEF Lifecycle!Next, Lifecycle!Open, Lifecycle!StartClosing,
                      Lifecycle!CloseCleanly, Lifecycle!CloseAbnormally

-----------------------------------------------------------------------------
(* The types of a connection that its own proofs do not need. *)
InputTypes ==
    /\ pendingInput \in Seq(AllKinds) /\ buffer \in Seq(AllKinds)
    /\ fragmented \in BOOLEAN /\ peerEnded \in BOOLEAN
    /\ received \in 0 .. MaxFrames

OutputTypes ==
    /\ settled \in 0 .. Len(frames) /\ rejected \subseteq 1 .. settled
    /\ awaited \in [Tasks -> Nat]

FlagTypes == closeTimer \in BOOLEAN /\ ended \in BOOLEAN /\ aborted \in BOOLEAN

LEMMA TypesTogether == CoreTypes /\ InputTypes /\ OutputTypes /\ FlagTypes => TypeOK
BY DEF CoreTypes, InputTypes, OutputTypes, FlagTypes, TypeOK

LEMMA JoinedType ==
    ASSUME NEW old \in Seq(AllKinds), NEW chunk \in Seq(AllKinds)
    PROVE  Joined(old, chunk) \in Seq(AllKinds)
<1>1. CASE old # <<>> /\ old[Len(old)] = "partial"
  <2>1. SubSeq(old, 1, Len(old) - 1) \in Seq(AllKinds)
    BY SubSeqProperties
  <2> QED
    BY <1>1, <2>1, ConcatProperties DEF Joined
<1>2. CASE ~(old # <<>> /\ old[Len(old)] = "partial")
  BY <1>2, ConcatProperties DEF Joined
<1> QED
  BY <1>1, <1>2

LEMMA KindsOfFrames == Seq(Kinds) \subseteq Seq(AllKinds)
BY WebSocketAssumption

LEMMA InputChunkType == InputChunks \subseteq Seq(Kinds)
<1> DEFINE Singles == {<<k>> : k \in Kinds}
           Pairs == {<<k, l>> : k \in Kinds \ {"partial"}, l \in Kinds}
<1>1. ASSUME NEW chunk \in Singles PROVE chunk \in Seq(Kinds)
  <2>1. PICK k \in Kinds : chunk = <<k>>
    OBVIOUS
  <2> QED
    BY <2>1
<1>2. ASSUME NEW chunk \in Pairs PROVE chunk \in Seq(Kinds)
  <2>1. PICK k \in Kinds, l \in Kinds : chunk = <<k, l>>
    OBVIOUS
  <2> QED
    BY <2>1
<1>3. InputChunks = Singles \cup Pairs
  BY DEF InputChunks
<1> HIDE DEF Singles, Pairs
<1> QED
  BY <1>1, <1>2, <1>3

LEMMA ReceiveDataInput ==
    ASSUME InputTypes, NEW chunk \in Seq(Kinds), ReceiveData(chunk)
    PROVE  InputTypes'
<1>1. chunk \in Seq(AllKinds) /\ Len(chunk) \in Nat
  BY KindsOfFrames, LenProperties
<1>2. Joined(pendingInput, chunk) \in Seq(AllKinds) /\ Joined(buffer, chunk) \in Seq(AllKinds)
  BY <1>1, JoinedType DEF InputTypes
<1>3. received' \in 0 .. MaxFrames
  BY <1>1, WebSocketAssumption DEF ReceiveData, InputTypes
<1> QED
  BY <1>2, <1>3 DEF ReceiveData, InputTypes

LEMMA TakeFrameInput ==
    ASSUME InputTypes, NEW t, NEW kind, TakeFrame(t, kind), fragmented' \in BOOLEAN
    PROVE  InputTypes'
<1>1. Tail(buffer) \in Seq(AllKinds)
  BY HeadTailProperties DEF InputTypes, TakeFrame
<1> QED
  BY <1>1 DEF InputTypes, TakeFrame

LEMMA TurnInput ==
    ASSUME InputTypes, NEW t \in Tasks, Step(t) \/ HandlerSettles(t)
    PROVE  InputTypes'
<1>1. CASE UNCHANGED input
  BY <1>1 DEF input, InputTypes
<1>2. CASE ReadMessage(t) \/ ReadFragment(t) \/ ReadMisplaced(t) \/ ReadPing(t) \/ ReadClose(t)
  <2>1. fragmented' \in BOOLEAN
    BY <1>2 DEF ReadMessage, ReadFragment, ReadMisplaced, ReadPing, ReadClose, InputTypes
  <2>2. PICK kind \in AllKinds : TakeFrame(t, kind)
    BY <1>2 DEF ReadMessage, ReadFragment, ReadMisplaced, ReadPing, ReadClose, AllKinds
  <2> QED
    BY <2>1, <2>2, TakeFrameInput
<1>3. CASE \/ CloseStep(t) \/ ArmStep(t) \/ ShutStep(t) \/ EndStep(t) \/ FinishStep(t)
  BY <1>1, <1>3 DEF CloseStep, SendClose, ArmStep, ShutStep, EndStep, FinishStep
<1>4. CASE \/ Written(t) \/ Drained(t) \/ EndSettles(t) \/ ErrorReported(t)
           \/ HandlerSettles(t) \/ Handled(t) \/ ReadNothing(t) \/ ReadBadHeader(t)
  BY <1>1, <1>4 DEF Written, Drained, EndSettles, ErrorReported, HandlerSettles,
                    Handled, ReadNothing, ReadBadHeader
<1> QED
  BY <1>2, <1>3, <1>4 DEF Step, ReadFrame

LEMMA ConnectionInput ==
    ASSUME InputTypes, ConnectionStep, head \in Seq(Kinds)
    PROVE  InputTypes'
<1>1. CASE UNCHANGED input
  BY <1>1 DEF input, InputTypes
<1>2. CASE Send \/ CloseTimerFires \/ WriteSettles \/ UNCHANGED vars
  BY <1>1, <1>2 DEF Send, CloseTimerFires, WriteSettles, vars, input
<1>3. CASE Accept
  <2>1. buffer \o pendingInput \in Seq(AllKinds) /\ <<>> \in Seq(AllKinds)
    BY ConcatProperties DEF InputTypes
  <2> QED
    BY <1>3, <2>1 DEF Accept, InputTypes
<1>4. CASE \E chunk \in Seq(Kinds) : ReceiveData(chunk)
  BY <1>4, ReceiveDataInput
<1>5. CASE \E t \in Tasks : Step(t) \/ HandlerSettles(t)
  BY <1>5, TurnInput
<1>6. CASE \E t \in Closers : Close(t)
  BY <1>1, <1>6 DEF Close, SendClose
<1>7. CASE \E t \in Enders : \E reason \in {"finished", "aborted"} : ReceiveEnd(t, reason)
  BY <1>7 DEF ReceiveEnd, InputTypes
<1>8. CASE HeadStart
  <2>1. Joined(buffer, head) \in Seq(AllKinds)
    BY KindsOfFrames, JoinedType DEF InputTypes
  <2> QED
    BY <1>8, <2>1 DEF HeadStart, InputTypes
<1> QED
  BY <1>2, <1>3, <1>4, <1>5, <1>6, <1>7, <1>8, InputChunkType DEF ConnectionStep, Next

(* A frame that joins the queue leaves the writes before it alone. *)
LEMMA FrameOutput ==
    ASSUME CoreTypes, OutputTypes, NEW kind \in FrameKinds, frames' = Append(frames, kind),
           UNCHANGED <<settled, rejected>>, awaited' \in [Tasks -> Nat]
    PROVE  OutputTypes'
<1>1. Len(frames) \in Nat /\ Len(frames') = Len(frames) + 1
  BY AppendProperties, LenProperties DEF CoreTypes, FrameKinds
<1> QED
  BY <1>1 DEF OutputTypes

LEMMA WriteFrameOutput ==
    ASSUME CoreTypes, OutputTypes, NEW t \in Tasks, NEW kind \in FrameKinds,
           WriteFrame(t, kind)
    PROVE  OutputTypes'
<1>1. Len(frames) + 1 \in Nat
  BY LenProperties DEF CoreTypes
<1>2. awaited' \in [Tasks -> Nat]
  BY <1>1 DEF WriteFrame, OutputTypes
<1> QED
  BY <1>2, FrameOutput DEF WriteFrame

(* A task waits for another write, or for none. *)
LEMMA AwaitedOutput ==
    ASSUME OutputTypes, NEW t \in Tasks, NEW n \in Nat, awaited' = [awaited EXCEPT ![t] = n],
           UNCHANGED <<frames, settled, rejected>>
    PROVE  OutputTypes'
BY DEF OutputTypes

LEMMA FinishTransportOutput ==
    ASSUME CoreTypes, OutputTypes, NEW t \in Tasks, FinishTransport(t)
    PROVE  OutputTypes'
<1>1. Len(frames) \in Nat
  BY LenProperties DEF CoreTypes
<1> QED
  BY <1>1, AwaitedOutput DEF FinishTransport

LEMMA SendCloseOutput ==
    ASSUME CoreTypes, OutputTypes, NEW t \in Tasks, SendClose(t)
    PROVE  OutputTypes'
BY WriteFrameOutput DEF SendClose, FrameKinds

LEMMA TurnOutput ==
    ASSUME CoreTypes, OutputTypes, NEW t \in Tasks, Step(t) \/ HandlerSettles(t)
    PROVE  OutputTypes'
<1>1. CASE UNCHANGED output
  BY <1>1 DEF output, OutputTypes
<1>2. CASE CloseStep(t)
  BY <1>1, <1>2, SendCloseOutput DEF CloseStep
<1>3. CASE ArmStep(t)
  BY <1>1, <1>3, FinishTransportOutput DEF ArmStep
<1>4. CASE ShutStep(t)
  BY <1>4, FinishTransportOutput DEF ShutStep
<1>5. CASE ReadPing(t)
  BY <1>5, WriteFrameOutput DEF ReadPing, FrameKinds
<1>6. CASE ReadClose(t)
  BY <1>1, <1>6, WriteFrameOutput DEF ReadClose, FrameKinds
<1>7. CASE Written(t) \/ Drained(t)
  BY <1>7, AwaitedOutput DEF Written, Drained
<1>8. CASE \/ EndStep(t) \/ FinishStep(t) \/ EndSettles(t) \/ ErrorReported(t)
           \/ HandlerSettles(t) \/ Handled(t) \/ ReadNothing(t) \/ ReadBadHeader(t) \/ ReadMessage(t)
           \/ ReadFragment(t) \/ ReadMisplaced(t)
  BY <1>1, <1>8 DEF EndStep, FinishStep, EndSettles, ErrorReported, HandlerSettles, Handled,
                    ReadNothing, ReadBadHeader, ReadMessage, ReadFragment, ReadMisplaced
<1> QED
  BY <1>2, <1>3, <1>4, <1>5, <1>6, <1>7, <1>8 DEF Step, ReadFrame

LEMMA ConnectionOutput ==
    ASSUME CoreTypes, OutputTypes, ConnectionStep
    PROVE  OutputTypes'
<1>1. CASE UNCHANGED output
  BY <1>1 DEF output, OutputTypes
<1>2. CASE Send
  BY <1>2, FrameOutput DEF Send, OutputTypes, FrameKinds
<1>3. CASE WriteSettles
  <2>1. Len(frames) \in Nat /\ settled \in Nat
    BY LenProperties DEF CoreTypes, OutputTypes
  <2>2. rejected' = rejected \/ rejected' = rejected \cup {settled + 1}
    BY <1>3 DEF WriteSettles
  <2>3. \A n \in rejected : n \in 1 .. settled
    BY DEF OutputTypes
  <2>4. \A n \in rejected' : n \in rejected \/ n = settled + 1
    BY <2>2
  <2>5. \A n \in rejected' : n \in 1 .. settled + 1
    BY <2>1, <2>3, <2>4
  <2> QED
    BY <1>3, <2>1, <2>5 DEF WriteSettles, OutputTypes
<1>4. CASE Accept \/ CloseTimerFires \/ HeadStart \/ UNCHANGED vars
  BY <1>1, <1>4 DEF Accept, CloseTimerFires, HeadStart, vars, output
<1>5. CASE \E chunk \in Seq(Kinds) : ReceiveData(chunk)
  BY <1>1, <1>5 DEF ReceiveData
<1>6. CASE \E t \in Tasks : Step(t) \/ HandlerSettles(t)
  BY <1>6, TurnOutput
<1>7. CASE \E t \in Closers : Close(t)
  BY <1>7, SendCloseOutput DEF Close, Tasks
<1>8. CASE \E t \in Enders : \E reason \in {"finished", "aborted"} : ReceiveEnd(t, reason)
  BY <1>1, <1>8 DEF ReceiveEnd
<1> QED
  BY <1>2, <1>3, <1>4, <1>5, <1>6, <1>7, <1>8, InputChunkType DEF ConnectionStep, Next

(* #finish leaves the timer off, or as it was. *)
LEMMA FinishFlag == ASSUME NEW code, Finish(code), closeTimer \in BOOLEAN
                    PROVE  closeTimer' \in BOOLEAN
BY DEF Finish

LEMMA TurnFlags ==
    ASSUME FlagTypes, NEW t \in Tasks, Step(t) \/ HandlerSettles(t)
    PROVE  FlagTypes'
<1>1. CASE UNCHANGED <<closeTimer, transport>>
  BY <1>1 DEF transport, FlagTypes
<1>2. CASE CloseStep(t)
  BY <1>1, <1>2 DEF CloseStep, SendClose
<1>3. CASE ArmStep(t)
  BY <1>3 DEF ArmStep, FinishTransport, transport, FlagTypes
<1>4. CASE ShutStep(t)
  BY <1>4 DEF ShutStep, FinishTransport, transport, FlagTypes
<1>5. CASE EndStep(t)
  BY <1>5 DEF EndStep, FlagTypes
<1>6. CASE FinishStep(t)
  BY <1>6, FinishFlag DEF FinishStep, transport, FlagTypes
<1>7. CASE EndSettles(t)
  <2>1. PICK outcome \in WriteOutcomes : aborted' = (aborted \/ outcome = "rejects")
    BY <1>7 DEF EndSettles
  <2>2. aborted' \in BOOLEAN
    BY <2>1
  <2> QED
    BY <1>7, <2>2 DEF EndSettles, FlagTypes
<1>8. CASE \/ Written(t) \/ Drained(t) \/ ErrorReported(t) \/ HandlerSettles(t) \/ ReadFrame(t)
  BY <1>1, <1>8 DEF Written, Drained, ErrorReported, HandlerSettles, ReadFrame, Handled, ReadNothing,
                    ReadBadHeader, ReadMessage, ReadFragment, ReadMisplaced, ReadPing,
                    ReadClose
<1> QED
  BY <1>2, <1>3, <1>4, <1>5, <1>6, <1>7, <1>8 DEF Step

LEMMA ConnectionFlags ==
    ASSUME FlagTypes, ConnectionStep
    PROVE  FlagTypes'
<1>1. CASE UNCHANGED <<closeTimer, transport>>
  BY <1>1 DEF transport, FlagTypes
<1>2. CASE Send \/ WriteSettles \/ Accept \/ HeadStart \/ UNCHANGED vars
  BY <1>1, <1>2 DEF Send, WriteSettles, Accept, HeadStart, vars, transport
<1>3. CASE CloseTimerFires
  BY <1>3, FinishFlag DEF CloseTimerFires, FlagTypes
<1>4. CASE \E chunk \in Seq(Kinds) : ReceiveData(chunk)
  BY <1>1, <1>4 DEF ReceiveData
<1>5. CASE \E t \in Tasks : Step(t) \/ HandlerSettles(t)
  BY <1>5, TurnFlags
<1>6. CASE \E t \in Closers : Close(t)
  BY <1>1, <1>6 DEF Close, SendClose
<1>7. ASSUME NEW t \in Enders, NEW reason, ReceiveEnd(t, reason) PROVE FlagTypes'
  <2>1. aborted' \in BOOLEAN
    BY <1>7 DEF ReceiveEnd, FlagTypes
  <2>2. closeTimer' \in BOOLEAN
    BY <1>7, FinishFlag DEF ReceiveEnd, FlagTypes
  <2> QED
    BY <1>7, <2>1, <2>2 DEF ReceiveEnd, FlagTypes
<1> QED
  BY <1>2, <1>3, <1>4, <1>5, <1>6, <1>7, InputChunkType DEF ConnectionStep, Next

(* Everything that is kept about the connection. *)
ConnectionInv == IInv /\ ReleaseInv /\ InputTypes /\ OutputTypes /\ FlagTypes

LEMMA ConnectionInit == Init => ConnectionInv
<1> SUFFICES ASSUME Init PROVE ConnectionInv
  OBVIOUS
<1>1. \A S : <<>> \in Seq(S)
  OBVIOUS
<1>2. Len(frames) = 0
  BY DEF Init
<1>3. FlagTypes
  BY DEF Init, FlagTypes
<1>4. 0 \in 0 .. MaxFrames /\ <<>> \in Seq(AllKinds)
  BY <1>1, WebSocketAssumption
<1>5. InputTypes
  BY <1>4 DEF Init, InputTypes
<1>6. awaited \in [Tasks -> Nat] /\ settled = 0 /\ rejected = {}
  BY DEF Init
<1>7. OutputTypes
  BY <1>2, <1>6 DEF OutputTypes
<1>8. ReleaseInv
  BY DEF Init, ReleaseInv, Obliged, Will
<1> QED
  BY <1>3, <1>5, <1>7, <1>8, InitIInv DEF ConnectionInv

LEMMA ConnectionKept ==
    ASSUME ConnectionInv, head \in Seq(Kinds), ConnectionStep
    PROVE  ConnectionInv'
<1>1. CoreTypes
  BY DEF ConnectionInv, IInv
<1> QED
  BY <1>1, ConnectionIInv, ConnectionRelease, ConnectionInput, ConnectionOutput,
     ConnectionFlags DEF ConnectionInv

-----------------------------------------------------------------------------
(* The types of the stream. *)
Stages == {"request", "refused", "headers", "failed", "open"}
Operations == [task : {Deliverer} \cup Enders, chunk : Seq(Kinds)]

StreamTypes ==
    /\ protocol \in TCP \cup {HTTP3} /\ stage \in Stages
    /\ head \in Seq(Kinds) /\ chain \in Seq(Operations)
    /\ failed \in BOOLEAN /\ registered \in BOOLEAN /\ destroyed \in BOOLEAN
    /\ readEnded \in BOOLEAN /\ notified \in BOOLEAN
    /\ arrived \in 0 .. MaxFrames

LEMMA ChunkTypes ==
    ASSUME NEW chunk \in Chunks
    PROVE  chunk \in Seq(Kinds) /\ Len(chunk) \in Nat
BY InputChunkType, LenProperties DEF Chunks

LEMMA EnderTypes == Finisher \in Enders /\ Aborter \in Enders
BY StreamAssumption

LEMMA HeadTypes ==
    ASSUME protocol \in TCP,
           head' \in IF protocol = "HTTP/1.1" THEN {<<>>} \cup {<<k>> : k \in KindsOver[protocol]}
                                             ELSE {<<>>}
    PROVE  head' \in Seq(Kinds)
<1>1. CASE head' = <<>>
  BY <1>1
<1>2. CASE head' \in {<<k>> : k \in KindsOver[protocol]}
  <2>1. PICK k \in KindsOver[protocol] : head' = <<k>>
    BY <1>2
  <2>2. k \in Kinds
    BY StreamAssumption
  <2> QED
    BY <2>1, <2>2
<1> QED
  BY <1>1, <1>2

LEMMA DeliverTypes ==
    ASSUME NEW queue \in Seq(Operations), NEW task \in {Deliverer} \cup Enders,
           NEW chunk \in Seq(Kinds), Deliver(queue, task, chunk)
    PROVE  chain' \in Seq(Operations)
<1>1. Operation(task, chunk) \in Operations
  BY DEF Operation, Operations
<1>2. Append(queue, Operation(task, chunk)) \in Seq(Operations)
  BY <1>1, AppendProperties
<1> QED
  BY <1>2 DEF Deliver

LEMMA DestroyTypes ==
    ASSUME StreamTypes, NEW queue \in Seq(Operations), NEW cut \in BOOLEAN, Destroy(cut, queue)
    PROVE  chain' \in Seq(Operations) /\ destroyed' \in BOOLEAN /\ notified' \in BOOLEAN
<1>1. <<>> \in Seq(Kinds)
  OBVIOUS
<1>2. destroyed' \in BOOLEAN
  BY DEF StreamTypes, Destroy
<1>3. CASE notified' = TRUE /\ Deliver(queue, Aborter, <<>>)
  BY <1>1, <1>2, <1>3, EnderTypes, DeliverTypes
<1>4. CASE chain' = queue /\ UNCHANGED notified
  BY <1>2, <1>4 DEF StreamTypes
<1> QED
  BY <1>3, <1>4 DEF Destroy

LEMMA FollowTypes ==
    ASSUME StreamTypes, NEW queue \in Seq(Operations), Follow(queue)
    PROVE  StreamTypes'
<1>1. (aborted' # aborted) \in BOOLEAN
  OBVIOUS
<1>2. chain' \in Seq(Operations) /\ destroyed' \in BOOLEAN /\ notified' \in BOOLEAN
  BY <1>1, DestroyTypes DEF Follow
<1>3. registered' \in BOOLEAN
  BY DEF Follow
<1> QED
  BY <1>2, <1>3 DEF Follow, StreamTypes

LEMMA DropTypes ==
    ASSUME StreamTypes, Drop, stage' \in Stages
    PROVE  StreamTypes'
<1>1. registered' \in BOOLEAN
  BY DEF Drop
<1> QED
  BY <1>1 DEF Drop, StreamTypes

(* The next operation of the chain. *)
LEMMA NextTypes ==
    ASSUME StreamTypes, chain # <<>>
    PROVE  Head(chain) \in Operations /\ Tail(chain) \in Seq(Operations)
BY HeadTailProperties DEF StreamTypes

-----------------------------------------------------------------------------
(* The actions, by what they do to the socket and to its stream. *)
Following ==
    \/ RunNext /\ Follow(Tail(chain))
    \/ StreamTimerFires \/ StreamWriteSettles \/ StreamSend
    \/ \E t \in Tasks : StreamStep(t) \/ StreamHandlerSettles(t)
    \/ \E t \in Closers : StreamClose(t)

Events ==
    \/ Refuse \/ EndEvent \/ Lost \/ CloseEvent
    \/ \E chunk \in Chunks : Data(chunk)

Dropping ==
    \/ RefuseRequest \/ HeadersAccepted \/ NativeWriteSettles \/ OfferedSend
    \/ NativeTimerFires \/ SocketConnectionEnds
    \/ \E reason \in {"finished", "aborted"} : HandleRequestEnd(reason)
    \/ \E t \in Tasks : NativeStep(t) \/ NativeHandlerSettles(t)
    \/ \E t \in Closers : OfferedClose(t)

Opening == Open \/ OfferSocket \/ RefuseSocket

Forgetting ==
    \/ HeadersRejected \/ AcceptRejected \/ SocketsStop
    \/ \E t \in Tasks : Catch(t)

LEMMA NextSplits ==
    SocketsNext =>
        \/ Following \/ Events \/ Dropping \/ Opening \/ Forgetting
        \/ ReadHead \/ NativeStreamGone
        \/ \E chunk \in Chunks : HandleData(chunk)
<1>1. StreamTurn => ReadHead \/ Following \/ Events \/ Forgetting
  BY DEF StreamTurn, Following, Events, Forgetting, RunNext
<1>2. StreamInput => Events \/ Opening \/ Following
  BY DEF StreamInput, Events, Opening, Following
<1>3. NativeTurn => Dropping \/ Forgetting
  BY DEF NativeTurn, Dropping, Forgetting
<1>4. NativeInput =>
        \/ Dropping \/ Opening \/ Forgetting \/ NativeStreamGone
        \/ \E chunk \in Chunks : HandleData(chunk)
  BY DEF NativeInput, Dropping, Opening, Forgetting
<1> QED
  BY <1>1, <1>2, <1>3, <1>4 DEF SocketsNext, StreamNext, HTTP3Next

LEMMA FollowingSteps ==
    ASSUME StreamTypes, Following
    PROVE  ConnectionStep /\ StreamTypes' /\ \E queue \in Seq(Operations) : Follow(queue)
<1>1. CASE RunNext
  <2>1. Head(chain) \in Operations /\ Tail(chain) \in Seq(Operations) /\ Follow(Tail(chain))
    BY <1>1, NextTypes DEF RunNext
  <2>2. Head(chain).chunk \in Seq(Kinds)
    BY <2>1 DEF Operations
  <2>3. \/ ReceiveData(Head(chain).chunk) \/ ReceiveEnd(Finisher, "finished")
        \/ ReceiveEnd(Aborter, "aborted") \/ UNCHANGED vars
    BY <1>1 DEF RunNext
  <2>4. ConnectionStep
    BY <2>2, <2>3, EnderTypes DEF ConnectionStep, Next
  <2> QED
    BY <2>1, <2>4, FollowTypes
<1>2. CASE ~RunNext
  <2>1. chain \in Seq(Operations) /\ Follow(chain)
    BY <1>2 DEF Following, StreamTimerFires, StreamWriteSettles, StreamSend, StreamStep,
                StreamHandlerSettles, StreamClose, StreamTypes
  <2>2. Next
    BY <1>2 DEF Following, StreamTimerFires, StreamWriteSettles, StreamSend, StreamStep,
                StreamHandlerSettles, StreamClose, Next
  <2> QED
    BY <2>1, <2>2, FollowTypes DEF ConnectionStep
<1> QED
  BY <1>1, <1>2

LEMMA EventsSteps ==
    ASSUME StreamTypes, Events
    PROVE  ConnectionStep /\ StreamTypes' /\ UNCHANGED <<vars, registered>>
           /\ (destroyed => destroyed')
<1>1. UNCHANGED <<vars, registered>>
  BY DEF Events, Refuse, EndEvent, Lost, CloseEvent, Data
<1>2. ConnectionStep
  BY <1>1 DEF ConnectionStep
<1>3. <<>> \in Seq(Kinds)
  OBVIOUS
<1>4. CASE Refuse
  BY <1>1, <1>2, <1>4 DEF Refuse, StreamTypes, Stages
<1>5. CASE EndEvent
  <2>1. chain' \in Seq(Operations)
    BY <1>3, <1>5, EnderTypes, DeliverTypes DEF EndEvent, StreamTypes
  <2> QED
    BY <1>1, <1>2, <1>5, <2>1 DEF EndEvent, StreamTypes
<1>6. CASE Lost
  <2>1. chain' \in Seq(Operations) /\ destroyed' \in BOOLEAN /\ notified' \in BOOLEAN
    BY <1>6, DestroyTypes DEF Lost, StreamTypes
  <2> QED
    BY <1>1, <1>2, <1>6, <2>1 DEF Lost, StreamTypes
<1>7. CASE CloseEvent
  <2>1. chain' \in Seq(Operations)
    BY <1>3, <1>7, EnderTypes, DeliverTypes DEF CloseEvent, StreamTypes
  <2> QED
    BY <1>1, <1>2, <1>7, <2>1 DEF CloseEvent, StreamTypes
<1>8. ASSUME NEW chunk \in Chunks, Data(chunk)
      PROVE  StreamTypes' /\ (destroyed => destroyed')
  <2>1. chunk \in Seq(Kinds) /\ Len(chunk) \in Nat
    BY ChunkTypes
  <2>2. chain' \in Seq(Operations)
    BY <1>8, <2>1, DeliverTypes DEF Data, StreamTypes
  <2>3. arrived' \in 0 .. MaxFrames
    BY <1>8, <2>1, WebSocketAssumption DEF Data, StreamTypes
  <2> QED
    BY <1>8, <2>2, <2>3 DEF Data, StreamTypes
<1> QED
  BY <1>1, <1>2, <1>4, <1>5, <1>6, <1>7, <1>8 DEF Events

LEMMA DroppingSteps ==
    ASSUME StreamTypes, Dropping
    PROVE  ConnectionStep /\ StreamTypes' /\ Drop
           /\ (stage' = stage \/ stage' = "refused" \/ (stage = "headers" /\ stage' = "open"))
<1>1. /\ Drop
      /\ stage' = stage \/ stage' = "refused" \/ (stage = "headers" /\ stage' = "open")
  BY DEF Dropping, RefuseRequest, HeadersAccepted, NativeWriteSettles, OfferedSend,
         NativeTimerFires, SocketConnectionEnds, HandleRequestEnd, NativeStep,
         NativeHandlerSettles, OfferedClose
<1>2. StreamTypes'
  BY <1>1, DropTypes DEF StreamTypes, Stages
<1>3. CASE RefuseRequest \/ HeadersAccepted
  BY <1>1, <1>2, <1>3 DEF RefuseRequest, HeadersAccepted, ConnectionStep, Next
<1>4. CASE SocketConnectionEnds \/ \E reason \in {"finished", "aborted"} : HandleRequestEnd(reason)
  <2>1. \E t \in Enders : \E reason \in {"finished", "aborted"} : ReceiveEnd(t, reason)
    BY <1>4, EnderTypes DEF SocketConnectionEnds, HandleRequestEnd
  <2> QED
    BY <1>1, <1>2, <2>1 DEF ConnectionStep, Next
<1>5. CASE \/ NativeWriteSettles \/ OfferedSend \/ NativeTimerFires
           \/ \E t \in Tasks : NativeStep(t) \/ NativeHandlerSettles(t)
           \/ \E t \in Closers : OfferedClose(t)
  <2>1. Next
    BY <1>5 DEF NativeWriteSettles, OfferedSend, NativeTimerFires, NativeStep,
                NativeHandlerSettles, OfferedClose, Next
  <2> QED
    BY <1>1, <1>2, <2>1 DEF ConnectionStep
<1> QED
  BY <1>1, <1>2, <1>3, <1>4, <1>5 DEF Dropping

LEMMA OpeningSteps ==
    ASSUME StreamTypes, Opening
    PROVE  ConnectionStep /\ StreamTypes' /\ stage = "request"
<1>1. CASE Open
  <2>1. head' \in Seq(Kinds)
    BY <1>1, HeadTypes DEF Open
  <2>2. ConnectionStep
    BY <1>1 DEF Open, ConnectionStep, Next
  <2> QED
    BY <1>1, <2>1, <2>2 DEF Open, StreamTypes, Stages
<1>2. CASE OfferSocket
  <2>1. ConnectionStep
    BY <1>2 DEF OfferSocket, ConnectionStep, Next
  <2> QED
    BY <1>2, <2>1 DEF OfferSocket, StreamTypes, Stages
<1>3. CASE RefuseSocket
  <2>1. ConnectionStep
    BY <1>3 DEF RefuseSocket, ConnectionStep, Next
  <2> QED
    BY <1>3, <2>1 DEF RefuseSocket, StreamTypes, Stages
<1> QED
  BY <1>1, <1>2, <1>3 DEF Opening

LEMMA ForgettingSteps ==
    ASSUME StreamTypes, Forgetting
    PROVE  ConnectionStep /\ StreamTypes'
<1>1. CASE HeadersRejected
  BY <1>1 DEF HeadersRejected, ConnectionStep, StreamTypes, Stages
<1>2. CASE AcceptRejected
  <2>1. Opener \in Tasks /\ Written(Opener)
    BY <1>2 DEF AcceptRejected, Tasks
  <2>2. ConnectionStep
    BY <2>1 DEF ConnectionStep, Next, Step
  <2> QED
    BY <1>2, <2>2 DEF AcceptRejected, StreamTypes, Stages
<1>3. CASE SocketsStop
  <2>1. ConnectionStep
    BY <1>3, EnderTypes DEF SocketsStop, ConnectionStep, Next
  <2> QED
    BY <1>3, <2>1 DEF SocketsStop, StreamTypes
<1>4. ASSUME NEW t \in Tasks, Catch(t) PROVE ConnectionStep /\ StreamTypes'
  <2>1. ConnectionStep
    BY <1>4 DEF Catch, ConnectionStep, Next, Step
  <2>2. chain' \in Seq(Operations) /\ destroyed' \in BOOLEAN /\ notified' \in BOOLEAN
    BY <1>4, DestroyTypes DEF Catch, StreamTypes
  <2>3. failed' \in BOOLEAN /\ registered' \in BOOLEAN
    BY <1>4 DEF Catch
  <2> QED
    BY <1>4, <2>1, <2>2, <2>3 DEF Catch, StreamTypes
<1> QED
  BY <1>1, <1>2, <1>3, <1>4 DEF Forgetting

LEMMA OtherSteps ==
    ASSUME StreamTypes,
           ReadHead \/ NativeStreamGone \/ \E chunk \in Chunks : HandleData(chunk)
    PROVE  ConnectionStep /\ StreamTypes'
<1>1. CASE ReadHead
  <2>1. <<>> \in Seq(Kinds)
    OBVIOUS
  <2>2. ConnectionStep
    BY <1>1 DEF ReadHead, ConnectionStep, HeadStart
  <2> QED
    BY <1>1, <2>1, <2>2 DEF ReadHead, StreamTypes
<1>2. CASE NativeStreamGone
  BY <1>2 DEF NativeStreamGone, StreamTypes, ConnectionStep
<1>3. ASSUME NEW chunk \in Chunks, HandleData(chunk) PROVE ConnectionStep /\ StreamTypes'
  <2>1. chunk \in Seq(Kinds) /\ Len(chunk) \in Nat
    BY ChunkTypes
  <2>2. ConnectionStep
    BY <1>3, <2>1 DEF HandleData, ConnectionStep
  <2>3. arrived' \in 0 .. MaxFrames /\ registered' \in BOOLEAN
    BY <1>3, <2>1, WebSocketAssumption DEF HandleData, StreamTypes
  <2> QED
    BY <1>3, <2>2, <2>3 DEF HandleData, StreamTypes
<1> QED
  BY <1>1, <1>2, <1>3

(* Every step of the composition is a step of the connection, or none. *)
LEMMA SocketsSteps ==
    ASSUME StreamTypes, [SocketsNext]_allVars
    PROVE  ConnectionStep /\ StreamTypes'
<1>1. CASE SocketsNext
  BY <1>1, NextSplits, FollowingSteps, EventsSteps, DroppingSteps, OpeningSteps,
     ForgettingSteps, OtherSteps
<1>2. CASE UNCHANGED allVars
  BY <1>2 DEF allVars, stream, StreamTypes, ConnectionStep
<1> QED
  BY <1>1, <1>2

-----------------------------------------------------------------------------
(* Nothing happens to a socket before its request has been looked at. *)
Untouched ==
    stage = "request" =>
        /\ readyState = "CONNECTING" /\ ~closeTimer /\ ~registered
        /\ \A t \in Tasks : Idle(t)
        /\ head = <<>> /\ chain = <<>>

LEMMA UntouchedKept ==
    ASSUME StreamTypes, Untouched, SocketsNext
    PROVE  Untouched'
<1> SUFFICES ASSUME stage = "request", stage' = "request" PROVE Untouched'
  <2>1. stage' = "request" => stage = "request"
    BY NextSplits DEF Following, Events, Dropping, Opening, Forgetting, RunNext,
       StreamTimerFires, StreamWriteSettles, StreamSend, StreamStep, StreamHandlerSettles,
       StreamClose, Refuse, EndEvent, Lost, CloseEvent, Data, RefuseRequest,
       HeadersAccepted, NativeWriteSettles, OfferedSend, NativeTimerFires,
       SocketConnectionEnds, HandleRequestEnd, NativeStep, NativeHandlerSettles,
       OfferedClose, Open, OfferSocket, RefuseSocket, HeadersRejected, AcceptRejected, SocketsStop,
       Catch, ReadHead, NativeStreamGone, HandleData, Follow, Drop
  <2> QED
    BY <2>1 DEF Untouched
<1>1. \A t \in Tasks : \A step : ~At(t, step)
  BY DEF Untouched, At
<1>2. ASSUME NEW t \in Tasks PROVE ~Step(t) /\ ~HandlerSettles(t) /\ ~Rejects(t)
  BY <1>1 DEF Step, HandlerSettles, Rejects, CloseStep, ArmStep, ShutStep, EndStep, FinishStep,
              Written, Drained, EndSettles, ErrorReported, ReadFrame, Handled, ReadNothing,
              ReadBadHeader, ReadMessage, ReadFragment, ReadMisplaced, ReadPing, ReadClose,
              TakeFrame, Reading
<1>3. Opener \in Tasks
  BY DEF Tasks
<1>4. CASE StreamWriteSettles
  <2>1. UNCHANGED <<readyState, closeTimer, todo, aborted>> /\ Follow(chain)
    BY <1>4 DEF StreamWriteSettles, WriteSettles, transport
  <2>2. chain' = chain
    BY <2>1 DEF Follow, Destroy
  <2> QED
    BY <2>1, <2>2 DEF Untouched, Follow, Idle
<1>5. CASE NativeWriteSettles
  BY <1>5 DEF NativeWriteSettles, WriteSettles, Drop, Untouched, Idle
<1>6. ~Following \/ StreamWriteSettles
  BY <1>2 DEF Following, RunNext, StreamTimerFires, CloseTimerFires, StreamSend, StreamStep,
              StreamHandlerSettles, StreamClose, Untouched
<1>7. ~Dropping \/ NativeWriteSettles
  BY <1>2 DEF Dropping, RefuseRequest, HeadersAccepted, OfferedSend, NativeTimerFires,
              CloseTimerFires, SocketConnectionEnds, HandleRequestEnd, NativeStep,
              NativeHandlerSettles, OfferedClose, Untouched
<1>8. ~Events /\ ~Opening
  BY DEF Events, Refuse, EndEvent, Lost, CloseEvent, Data, Listening, Opening, Open,
         OfferSocket, RefuseSocket
<1>9. ~Forgetting
  BY <1>2, <1>3 DEF Forgetting, HeadersRejected, AcceptRejected, SocketsStop, Catch, Untouched
<1>10. /\ ~ReadHead /\ ~NativeStreamGone
       /\ \A chunk \in Chunks : ~HandleData(chunk)
  BY DEF ReadHead, NativeStreamGone, HandleData, Untouched
<1> QED
  BY <1>4, <1>5, <1>6, <1>7, <1>8, <1>9, <1>10, NextSplits

(* A step keeps the registry true when onClose is all it does to it. *)
LEMMA RegistryAlong ==
    ASSUME IInv, RegistryFollows, ConnectionStep,
           \/ stage' = stage
           \/ stage \in {"headers", "open"} /\ stage' \in {"headers", "open"}
           \/ stage' = "refused" /\ ~registered,
           registered' <=> registered /\ readyState' # "CLOSED",
           destroyed => destroyed'
    PROVE  RegistryFollows'
<1>1. readyState' # "CLOSED" => readyState # "CLOSED"
  BY ClosedStays
<1> QED
  BY <1>1 DEF RegistryFollows

LEMMA RegistryKept ==
    ASSUME IInv, StreamTypes, Untouched, RegistryFollows, SocketsNext
    PROVE  RegistryFollows'
<1>1. ConnectionStep
  BY SocketsSteps
<1>2. CASE Following
  <2>1. PICK queue \in Seq(Operations) : Follow(queue)
    BY <1>2, FollowingSteps
  <2>2. /\ stage' = stage /\ (destroyed => destroyed')
        /\ registered' <=> registered /\ readyState' # "CLOSED"
    BY <2>1 DEF Follow, Destroy
  <2> QED
    BY <1>1, <2>2, RegistryAlong
<1>3. CASE Events
  <2>1. UNCHANGED <<readyState, registered>> /\ (destroyed => destroyed')
    BY <1>3, EventsSteps DEF vars
  <2>2. stage' = stage \/ (stage' = "refused" /\ stage = "request")
    BY <1>3 DEF Events, Refuse, EndEvent, Lost, CloseEvent, Data
  <2> QED
    BY <2>1, <2>2 DEF RegistryFollows
<1>4. CASE Dropping
  <2>1. Drop
    BY <1>4, DroppingSteps
  <2>2. CASE RefuseRequest
    BY <2>2 DEF RefuseRequest, Drop, vars, RegistryFollows
  <2>3. CASE HeadersAccepted
    <3>1. stage = "headers" /\ stage' = "open"
      BY <2>3 DEF HeadersAccepted
    <3>2. /\ destroyed => destroyed'
          /\ registered' <=> registered /\ readyState' # "CLOSED"
      BY <2>1 DEF Drop
    <3> QED
      BY <1>1, <3>1, <3>2, RegistryAlong
  <2>4. CASE ~RefuseRequest /\ ~HeadersAccepted
    <3>1. stage' = stage
      BY <1>4, <2>4 DEF Dropping, NativeWriteSettles, OfferedSend, NativeTimerFires,
         SocketConnectionEnds, HandleRequestEnd, NativeStep, NativeHandlerSettles, OfferedClose
    <3>2. /\ destroyed => destroyed'
          /\ registered' <=> registered /\ readyState' # "CLOSED"
      BY <2>1 DEF Drop
    <3> QED
      BY <1>1, <3>1, <3>2, RegistryAlong
  <2> QED
    BY <2>2, <2>3, <2>4
<1>5. CASE Open
  <2>1. readyState' # "CLOSED"
    BY <1>5 DEF Open, Accept, Close, SendClose
  <2> QED
    BY <1>5, <2>1 DEF Open, RegistryFollows
<1>6. CASE OfferSocket
  <2>1. readyState' # "CLOSED"
    BY <1>6 DEF OfferSocket, vars, Close, SendClose, Untouched
  <2> QED
    BY <1>6, <2>1 DEF OfferSocket, RegistryFollows
<1>7. CASE HeadersRejected \/ AcceptRejected \/ RefuseSocket
  BY <1>7 DEF HeadersRejected, AcceptRejected, RefuseSocket, RegistryFollows, Untouched
<1>8. CASE SocketsStop
  BY <1>8 DEF SocketsStop, RegistryFollows
<1>9. ASSUME NEW t \in Tasks, Catch(t) PROVE RegistryFollows'
  <2>1. UNCHANGED <<readyState, stage>> /\ destroyed' /\ (registered' => registered)
    BY <1>9 DEF Catch, Written, Destroy
  <2> QED
    BY <2>1 DEF RegistryFollows
<1>10. CASE ReadHead
  <2>1. UNCHANGED <<readyState, stage, registered, destroyed>>
    BY <1>10 DEF ReadHead, vars
  <2> QED
    BY <2>1 DEF RegistryFollows
<1>11. CASE NativeStreamGone
  <2>1. UNCHANGED <<readyState, stage, registered>> /\ destroyed'
    BY <1>11 DEF NativeStreamGone, vars
  <2> QED
    BY <2>1 DEF RegistryFollows
<1>12. ASSUME NEW chunk \in Chunks, HandleData(chunk) PROVE RegistryFollows'
  <2>1. /\ stage' = stage /\ (destroyed => destroyed')
        /\ registered' <=> registered /\ readyState' # "CLOSED"
    BY <1>12 DEF HandleData
  <2> QED
    BY <1>1, <2>1, RegistryAlong
<1> QED
  BY <1>2, <1>3, <1>4, <1>5, <1>6, <1>7, <1>8, <1>9, <1>10, <1>11, <1>12, NextSplits
     DEF Opening, Forgetting

-----------------------------------------------------------------------------
(* The inductive invariant of the composition. *)
SocketsInv == ConnectionInv /\ StreamTypes /\ Untouched /\ RegistryFollows

LEMMA SocketsInvInit == SocketsInit => SocketsInv
<1> SUFFICES ASSUME SocketsInit PROVE SocketsInv
  OBVIOUS
<1>1. Init
  BY DEF SocketsInit, StreamInit
<1>2. <<>> \in Seq(Kinds) /\ <<>> \in Seq(Operations) /\ 0 \in 0 .. MaxFrames
  BY WebSocketAssumption
<1>3. StreamTypes
  BY <1>2 DEF SocketsInit, StreamInit, StreamTypes, Stages
<1>4. Untouched
  BY <1>1 DEF SocketsInit, StreamInit, Init, Untouched, Idle
<1>5. RegistryFollows
  BY DEF SocketsInit, StreamInit, RegistryFollows
<1> QED
  BY <1>1, <1>3, <1>4, <1>5, ConnectionInit DEF SocketsInv

LEMMA SocketsInvNext == SocketsInv /\ [SocketsNext]_allVars => SocketsInv'
<1> SUFFICES ASSUME SocketsInv, [SocketsNext]_allVars PROVE SocketsInv'
  OBVIOUS
<1>1. IInv /\ StreamTypes /\ Untouched /\ RegistryFollows /\ head \in Seq(Kinds)
  BY DEF SocketsInv, ConnectionInv, StreamTypes
<1>2. ConnectionStep /\ StreamTypes'
  BY <1>1, SocketsSteps
<1>3. ConnectionInv'
  BY <1>1, <1>2, ConnectionKept DEF SocketsInv
<1>4. CASE SocketsNext
  BY <1>1, <1>2, <1>3, <1>4, UntouchedKept, RegistryKept DEF SocketsInv
<1>5. CASE UNCHANGED allVars
  <2>1. Untouched' /\ RegistryFollows'
    BY <1>1, <1>5 DEF allVars, stream, vars, Untouched, Idle, RegistryFollows
  <2> QED
    BY <1>2, <1>3, <2>1 DEF SocketsInv
<1> QED
  BY <1>4, <1>5

THEOREM SocketsInductive == SocketsSpec => []SocketsInv
BY SocketsInvInit, SocketsInvNext, PTL DEF SocketsSpec

(* Every variable of a socket and of its stream keeps its type, over all      *)
(* three HTTP versions; in particular what is awaited of the write queue      *)
(* stays within what was written.                                             *)
THEOREM SocketsTypeCorrect == SocketsSpec => []SocketsTypeOK
<1>1. SocketsInv => SocketsTypeOK
  <2> SUFFICES ASSUME SocketsInv PROVE SocketsTypeOK
    OBVIOUS
  <2>1. TypeOK
    BY TypesTogether DEF SocketsInv, ConnectionInv, IInv
  <2>2. ASSUME NEW i \in DOMAIN chain
        PROVE  chain[i].task \in {Deliverer} \cup Enders /\ chain[i].chunk \in Seq(Kinds)
    <3>1. chain[i] \in Operations
      BY DEF SocketsInv, StreamTypes
    <3> QED
      BY <3>1 DEF Operations
  <2> QED
    BY <2>1, <2>2 DEF SocketsInv, StreamTypes, Stages, SocketsTypeOK
<1> QED
  BY <1>1, SocketsInductive, PTL

(* #webSockets holds exactly the sockets that were offered and neither failed *)
(* to open nor reported their close, whichever of the handshakes, the chain   *)
(* of promises, the native callbacks, the timer or the stop ends them.        *)
THEOREM RegistryCorrect == SocketsSpec => []RegistryFollows
BY SocketsInductive, PTL DEF SocketsInv

(* What a connection promises on its own it keeps on the streams of the       *)
(* server: one report, at the close; no data behind the Close frame; and      *)
(* nobody is left waiting in CLOSING.                                         *)
THEOREM SocketsKeep ==
    SocketsSpec => [](CloseReportedOnce /\ CloseIsLastData /\ ClosingHasFinisher)
<1>1. SocketsInv => CloseReportedOnce /\ CloseIsLastData /\ ClosingHasFinisher
  BY DEF SocketsInv, ConnectionInv, IInv
<1> QED
  BY <1>1, SocketsInductive, PTL

(* The peer's code is reported only after a Close frame in each direction,    *)
(* over each HTTP version.                                                    *)
THEOREM SocketsCloseCleanly == SocketsSpec => []CleanCloseIsMutual
<1>1. SocketsInv => CleanCloseIsMutual
  BY DEF SocketsInv, ConnectionInv, IInv, PeerIsReceived, SentCloseIsClosing,
     CloseIsLastData, CleanCloseIsMutual
<1> QED
  BY <1>1, SocketsInductive, PTL

(* A socket that is closed releases its stream, also when Node.js or the      *)
(* native layer closed it: it was ended or aborted, it rejected a write, or a *)
(* call that will end it is under way.                                        *)
THEOREM SocketsRelease == SocketsSpec => []ClosedReleasesTransport
<1>1. SocketsInv => ClosedReleasesTransport
  BY DEF SocketsInv, ConnectionInv, ReleaseInv, Obliged, Releasing, Releasers,
     ClosedReleasesTransport
<1> QED
  BY <1>1, SocketsInductive, PTL

(* The composition implements the lifecycle promised to the application: each *)
(* step of a stream, of the server or of Node.js opens, starts closing or     *)
(* closes the socket, or leaves what the application sees alone.              *)
THEOREM SocketsImplement == SocketsSpec => ImplementsLifecycle
<1>1. SocketsInit => Lifecycle!Init
  BY DEF SocketsInit, StreamInit, Init, Lifecycle!Init
<1>2. SocketsInv /\ [SocketsNext]_allVars => [Lifecycle!Next]_<<readyState, reported>>
  BY SocketsSteps, ConnectionMaps DEF SocketsInv, ConnectionInv
<1> QED
  BY <1>1, <1>2, SocketsInductive, PTL DEF SocketsSpec, ImplementsLifecycle, Lifecycle!Spec
================================================================================
