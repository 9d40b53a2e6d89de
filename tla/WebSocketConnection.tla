------------------------- MODULE WebSocketConnection -------------------------
(***************************************************************************)
(* packages/server/WebSocketConnection.js: one server-side WebSocket over  *)
(* HTTP/3, HTTP/2 or HTTP/1.1.                                             *)
(*                                                                         *)
(* Its methods are asynchronous and run interleaved: the opening handshake *)
(* delivers early input (accept), the transport delivers chunks one at a   *)
(* time (receiveData) and its end (receiveEnd, from the stream, then maybe *)
(* from the connection or the server), the application closes (close), and *)
(* the close timer fires.  Each such call is a task.  todo[t] is what is   *)
(* left of the call of task t: its first element is what the task awaits   *)
(* or does in its next turn, the rest are the continuations of the         *)
(* functions that called it, so a rejected promise unwinds todo[t] the way *)
(* an exception unwinds the awaiting functions.                            *)
(***************************************************************************)
EXTENDS Naturals, Sequences, FiniteSets

CONSTANTS
    Opener,         \* the task of accept()
    Deliverer,      \* the task of receiveData(), one chunk at a time
    Enders,         \* tasks of receiveEnd()
    Closers,        \* tasks of close() called by the application
    Kinds,          \* kinds of frames the peer sends
    MaxFrames,      \* bound: frames the peer sends
    MaxPending,     \* frames held before accept() (maxMessageBytes + 14)
    MaxSends,       \* bound: messages the application sends
    WriteOutcomes   \* how transport.write() and end() settle

AllKinds == {"message", "fragment", "continuation", "ping", "close",
             "badClose", "badHeader", "partial"}

ASSUME WebSocketAssumption ==
    /\ Opener # Deliverer
    /\ {Opener, Deliverer} \cap (Enders \cup Closers) = {}
    /\ Enders \cap Closers = {}
    /\ Kinds \subseteq AllKinds
    /\ MaxFrames \in Nat /\ MaxPending \in Nat /\ MaxSends \in Nat
    /\ WriteOutcomes \subseteq {"resolves", "rejects"}

Tasks == {Opener, Deliverer} \cup Enders \cup Closers
Receivers == {Opener, Deliverer}

VARIABLES
    readyState,     \* #readyState
    pendingInput,   \* #pendingInput, as frames
    buffer,         \* #buffer, as frames: only the last may be "partial"
    fragmented,     \* #fragmentOpcode # 0
    sentClose,      \* #sentClose
    receivedClose,  \* #receivedClose
    closeTimer,     \* #closeTimer is armed
    frames,         \* frames handed to #writeFrame, in the order of #writeQueue
    settled,        \* how many of their writes have settled
    rejected,       \* which of them were rejected
    todo,           \* what is left of the call each task runs
    awaited,        \* the write a task waits for
    reported,       \* codes passed to #onClose: "peer" stands for the peer's
                    \* code, "abnormal" for 1006
    ended,          \* transport.end() has been called
    aborted,        \* transport.abort() has been called
    received,       \* frames the peer has sent
    peerEnded       \* the transport has reported the peer's FIN

vars == <<readyState, pendingInput, buffer, fragmented, sentClose, receivedClose,
          closeTimer, frames, settled, rejected, todo, awaited, reported, ended,
          aborted, received, peerEnded>>
input == <<pendingInput, buffer, fragmented, received, peerEnded>>
handshake == <<sentClose, receivedClose>>
output == <<frames, awaited, settled, rejected>>
transport == <<ended, aborted>>

Init ==
    /\ readyState = "CONNECTING"
    /\ pendingInput = <<>> /\ buffer = <<>> /\ fragmented = FALSE
    /\ sentClose = FALSE /\ receivedClose = FALSE /\ closeTimer = FALSE
    /\ frames = <<>> /\ settled = 0 /\ rejected = {}
    /\ todo = [t \in Tasks |-> <<>>] /\ awaited = [t \in Tasks |-> 0]
    /\ reported = <<>> /\ ended = FALSE /\ aborted = FALSE
    /\ received = 0 /\ peerEnded = FALSE

\* A task in the middle of its turn: receiveData has yet to call #readFrame.
Running == {t \in Receivers : todo[t] = <<"receive">>}

Idle(t) == todo[t] = <<>>
At(t, step) == ~Idle(t) /\ Head(todo[t]) = step /\ Running \subseteq {t}
Continue(t, steps) == todo' = [todo EXCEPT ![t] = steps \o Tail(@)]
Start(t, steps) == Idle(t) /\ Running = {} /\ todo' = [todo EXCEPT ![t] = steps]

\* The call of task t has yet to do this step.
Will(t, step) == \E i \in DOMAIN todo[t] : todo[t][i] = step

\* What the asynchronous functions do after the promise they await:
Read == <<"handled">>                       \* #readFrame, then receiveData's loop
Receive == <<"receive">>                    \* its first #readFrame, which runs in
                                            \* the turn of the call
Failure == <<"error", "fail">>              \* #protocolFailure
Shutdown == <<"queue", "end">>              \* #finishTransport

-----------------------------------------------------------------------------
(* #writeFrame: the frame joins the queue; the task waits for its write. *)
WriteFrame(t, kind) ==
    /\ frames' = Append(frames, kind)
    /\ awaited' = [awaited EXCEPT ![t] = Len(frames) + 1]
    /\ UNCHANGED <<settled, rejected>>

(* #finishTransport up to its first await: what is queued now comes first. *)
FinishTransport(t) ==
    /\ closeTimer' = FALSE
    /\ awaited' = [awaited EXCEPT ![t] = Len(frames)]
    /\ UNCHANGED <<frames, settled, rejected>>

(* #finish: the first caller reports the code. *)
Finish(code) ==
    IF readyState = "CLOSED"
    THEN UNCHANGED <<readyState, closeTimer, reported>>
    ELSE /\ readyState' = "CLOSED"
         /\ closeTimer' = FALSE
         /\ reported' = Append(reported, code)

-----------------------------------------------------------------------------
(* send: nobody waits for the write. *)
Send ==
    /\ Running = {}
    /\ readyState = "OPEN"
    /\ Cardinality({i \in DOMAIN frames : frames[i] = "data"}) < MaxSends
    /\ frames' = Append(frames, "data")
    /\ UNCHANGED <<readyState, input, handshake, closeTimer, awaited, settled,
                   rejected, todo, reported, transport>>

(* Mutant: close does not look for CLOSED. *)
SendCloseLate(t) ==
    /\ ~sentClose
    /\ sentClose' = TRUE
    /\ readyState' = "CLOSING"
    /\ WriteFrame(t, "close")
    /\ UNCHANGED <<input, receivedClose, closeTimer, reported, transport>>

(* Mutant: close does not look whether a Close is out already. *)
SendCloseAgain(t) ==
    /\ readyState # "CLOSED"
    /\ sentClose' = TRUE
    /\ readyState' = "CLOSING"
    /\ WriteFrame(t, "close")
    /\ UNCHANGED <<input, receivedClose, closeTimer, reported, transport>>

(* close, when no Close is out yet, up to its first await. *)
SendClose(t) ==
    /\ ~sentClose /\ readyState # "CLOSED"
    /\ sentClose' = TRUE
    /\ readyState' = "CLOSING"
    /\ WriteFrame(t, "close")
    /\ UNCHANGED <<input, receivedClose, closeTimer, reported, transport>>

(* Called by the application on its own ... *)
Close(t) ==
    /\ SendClose(t)
    /\ Start(t, <<"write", "arm">>)

(* ... or inside #handleFrame, or inside #protocolFailure, which goes on to   *)
(* shut the transport.                                                        *)
CloseStep(t) ==
    \E rest \in {<<>>, <<"shut">>} :
        /\ IF rest = <<>> THEN At(t, "close") ELSE At(t, "fail")
        /\ \/ SendClose(t) /\ Continue(t, <<"write", "arm">> \o rest)
           \/ /\ sentClose \/ readyState = "CLOSED"
              /\ Continue(t, rest)
              /\ UNCHANGED <<readyState, input, handshake, closeTimer, output, reported,
                             transport>>

(* Mutant: close ends without arming the timer. *)
ArmStepUntimed(t) ==
    /\ At(t, "arm")
    /\ IF receivedClose
       THEN FinishTransport(t) /\ Continue(t, Shutdown)
       ELSE Continue(t, <<>>) /\ UNCHANGED <<closeTimer, output>>
    /\ UNCHANGED <<readyState, input, handshake, reported, transport>>

(* The end of close: wait for the peer's Close, or finish when it is here.   *)
(* #armCloseTimer does not look at readyState.                               *)
ArmStep(t) ==
    /\ At(t, "arm")
    /\ IF receivedClose
       THEN FinishTransport(t) /\ Continue(t, Shutdown)
       ELSE closeTimer' = TRUE /\ Continue(t, <<>>) /\ UNCHANGED output
    /\ UNCHANGED <<readyState, input, handshake, reported, transport>>

(* The callback of the close timer. *)
CloseTimerFires ==
    /\ Running = {}
    /\ closeTimer
    /\ aborted' = TRUE
    /\ IF readyState = "CLOSED"
       THEN closeTimer' = FALSE /\ UNCHANGED <<readyState, reported>>
       ELSE Finish("abnormal")
    /\ UNCHANGED <<input, handshake, output, todo, ended>>

(* The end of #protocolFailure and of #receiveClose: #finishTransport, then  *)
(* #finish.                                                                  *)
ShutStep(t) ==
    /\ \/ At(t, "shut") /\ Continue(t, Shutdown \o <<"abnormal">>)
       \/ At(t, "conclude") /\ Continue(t, Shutdown \o <<"peer">>)
    /\ FinishTransport(t)
    /\ UNCHANGED <<readyState, input, handshake, reported, transport>>

EndStep(t) ==
    /\ At(t, "end")
    /\ ended' = TRUE
    /\ Continue(t, <<"ending">>)
    /\ UNCHANGED <<readyState, input, handshake, closeTimer, output, reported,
                   aborted>>

FinishStep(t) ==
    /\ At(t, "abnormal") \/ At(t, "peer")
    /\ Finish(Head(todo[t]))
    /\ Continue(t, <<>>)
    /\ UNCHANGED <<input, handshake, output, transport>>

-----------------------------------------------------------------------------
(* The transport settles the oldest write of the queue. *)
WriteSettles ==
    /\ Running = {}
    /\ settled < Len(frames)
    /\ settled' = settled + 1
    /\ \E outcome \in WriteOutcomes :
          rejected' = IF outcome = "rejects" THEN rejected \cup {settled + 1}
                                             ELSE rejected
    /\ UNCHANGED <<readyState, input, handshake, closeTimer, frames, awaited, todo,
                   reported, transport>>

(* A rejected write unwinds the call up to the catch of #protocolFailure, or *)
(* rejects the call of the task.                                             *)
Unwind(t) ==
    \/ ~Will(t, "shut") /\ todo' = [todo EXCEPT ![t] = <<>>]
    \/ \E i \in DOMAIN todo[t] :
          /\ todo[t][i] = "shut" /\ \A j \in 1 .. i - 1 : todo[t][j] # "shut"
          /\ todo' = [todo EXCEPT ![t] = SubSeq(@, i, Len(@))]

Written(t) ==
    /\ At(t, "write")
    /\ awaited[t] <= settled
    /\ IF awaited[t] \in rejected
       THEN Unwind(t)
       ELSE Continue(t, <<>>)
    /\ awaited' = [awaited EXCEPT ![t] = 0]
    /\ UNCHANGED <<readyState, input, handshake, closeTimer, frames, settled,
                   rejected, reported, transport>>

(* #writeQueue never rejects. *)
Drained(t) ==
    /\ At(t, "queue")
    /\ awaited[t] <= settled
    /\ Continue(t, <<>>)
    /\ awaited' = [awaited EXCEPT ![t] = 0]
    /\ UNCHANGED <<readyState, input, handshake, closeTimer, frames, settled,
                   rejected, reported, transport>>

(* transport.end() settles; a rejection aborts the transport. *)
EndSettles(t) ==
    /\ At(t, "ending")
    /\ \E outcome \in WriteOutcomes : aborted' = (aborted \/ outcome = "rejects")
    /\ Continue(t, <<>>)
    /\ UNCHANGED <<readyState, input, handshake, closeTimer, output, reported, ended>>

-----------------------------------------------------------------------------
(* accept: the 200 has been sent. *)
Accept ==
    /\ readyState = "CONNECTING"
    /\ readyState' = "OPEN"
    /\ pendingInput' = <<>>
    /\ buffer' = buffer \o pendingInput
    /\ Start(Opener, IF pendingInput = <<>> THEN <<>> ELSE Receive)
    /\ UNCHANGED <<fragmented, received, peerEnded, handshake, closeTimer, output,
                   reported, transport>>

(* The bytes that complete a partial frame make it a frame of any kind. *)
Joined(old, chunk) ==
    IF old # <<>> /\ old[Len(old)] = "partial"
    THEN SubSeq(old, 1, Len(old) - 1) \o chunk
    ELSE old \o chunk

ReceiveData(chunk) ==
    /\ Idle(Deliverer)
    /\ ~peerEnded
    /\ received + Len(chunk) <= MaxFrames
    /\ readyState # "CLOSED"
    /\ received' = received + Len(chunk)
    /\ IF readyState = "CONNECTING"
       THEN /\ pendingInput' = Joined(pendingInput, chunk)
            /\ Start(Deliverer, IF Len(pendingInput') > MaxPending THEN Failure
                                                                   ELSE <<>>)
            /\ UNCHANGED buffer
       ELSE /\ buffer' = Joined(buffer, chunk)
            /\ Start(Deliverer, Receive)
            /\ UNCHANGED pendingInput
    /\ UNCHANGED <<readyState, fragmented, peerEnded, handshake, closeTimer, output,
                   reported, transport>>

Reading(t) == At(t, "read") \/ At(t, "receive")

(* #readFrame has handled a frame and looks for CLOSED; the loop reads the    *)
(* next one in a later turn, without looking again.                           *)
Handled(t) ==
    /\ At(t, "handled")
    /\ Continue(t, IF readyState = "CLOSED" THEN <<>> ELSE <<"read">>)
    /\ UNCHANGED <<readyState, input, handshake, closeTimer, output, reported,
                   transport>>

(* The loop of receiveData ends: nothing complete is left. *)
ReadNothing(t) ==
    /\ Reading(t)
    /\ buffer = <<>> \/ (buffer # <<>> /\ buffer[1] = "partial")
    /\ Continue(t, <<>>)
    /\ UNCHANGED <<readyState, input, handshake, closeTimer, output, reported,
                   transport>>

(* #readFrame rejects a frame by its header and leaves it in the buffer. *)
ReadBadHeader(t) ==
    /\ Reading(t)
    /\ buffer # <<>> /\ buffer[1] = "badHeader"
    /\ Continue(t, Failure)
    /\ UNCHANGED <<readyState, input, handshake, closeTimer, output, reported,
                   transport>>

(* #readFrame takes a complete frame off the buffer for #handleFrame. *)
TakeFrame(t, kind) ==
    /\ Reading(t)
    /\ buffer # <<>> /\ buffer[1] = kind
    /\ buffer' = Tail(buffer)
    /\ UNCHANGED <<pendingInput, received, peerEnded>>

(* A message, whole or ended by this frame, goes to the application. *)
ReadMessage(t) ==
    /\ \/ TakeFrame(t, "message") /\ ~fragmented
       \/ TakeFrame(t, "continuation") /\ fragmented
    /\ fragmented' = FALSE
    /\ Continue(t, <<"handler">> \o Read)
    /\ UNCHANGED <<readyState, handshake, closeTimer, output, reported, transport>>

ReadFragment(t) ==
    /\ TakeFrame(t, "fragment") /\ ~fragmented
    /\ fragmented' = TRUE
    /\ Continue(t, Read)
    /\ UNCHANGED <<readyState, handshake, closeTimer, output, reported, transport>>

(* A frame out of its place in a fragmented message, or a bad Close payload. *)
ReadMisplaced(t) ==
    /\ \/ fragmented /\ (TakeFrame(t, "message") \/ TakeFrame(t, "fragment"))
       \/ ~fragmented /\ TakeFrame(t, "continuation")
       \/ TakeFrame(t, "badClose")
    /\ Continue(t, Failure \o Read)
    /\ UNCHANGED <<readyState, fragmented, handshake, closeTimer, output, reported,
                   transport>>

ReadPing(t) ==
    /\ TakeFrame(t, "ping")
    /\ WriteFrame(t, "pong")
    /\ Continue(t, <<"write">> \o Read)
    /\ UNCHANGED <<readyState, fragmented, handshake, closeTimer, reported, transport>>

(* #receiveClose: echo the Close unless ours is already out. *)
ReadClose(t) ==
    /\ TakeFrame(t, "close")
    /\ receivedClose' = TRUE
    /\ sentClose' = TRUE
    /\ IF sentClose
       THEN /\ Continue(t, <<"conclude">> \o Read)
            /\ UNCHANGED <<readyState, output>>
       ELSE /\ readyState' = "CLOSING"
            /\ WriteFrame(t, "close")
            /\ Continue(t, <<"write", "conclude">> \o Read)
    /\ UNCHANGED <<fragmented, closeTimer, reported, transport>>

(* onMessage settles; a failed handler is reported and closes with 1011. *)
HandlerSettles(t) ==
    /\ At(t, "handler")
    /\ \/ Continue(t, <<>>)
       \/ Continue(t, <<"error", "close">>)
    /\ UNCHANGED <<readyState, input, handshake, closeTimer, output, reported,
                   transport>>

ErrorReported(t) ==
    /\ At(t, "error")
    /\ Continue(t, <<>>)
    /\ UNCHANGED <<readyState, input, handshake, closeTimer, output, reported,
                   transport>>

(* Mutant: an unclean end does not abort the transport. *)
ReceiveEndWithoutAbort(t, reason) ==
    LET clean == reason = "finished" /\ receivedClose IN
    /\ reason = "finished" => Idle(Deliverer) /\ ~peerEnded
    /\ readyState # "CLOSED"
    /\ peerEnded' = TRUE
    /\ IF buffer # <<>>
       THEN Start(t, Failure) /\ UNCHANGED <<readyState, closeTimer, reported>>
       ELSE Start(t, <<>>) /\ Finish(IF clean THEN "peer" ELSE "abnormal")
    /\ UNCHANGED <<pendingInput, buffer, fragmented, received, handshake, output,
                   transport>>

(* Mutant: any FIN counts as a clean close. *)
ReceiveEndAlwaysClean(t, reason) ==
    LET clean == reason = "finished" IN
    /\ clean => Idle(Deliverer) /\ ~peerEnded
    /\ readyState # "CLOSED"
    /\ peerEnded' = TRUE
    /\ IF buffer # <<>>
       THEN /\ Start(t, Failure)
            /\ UNCHANGED <<readyState, closeTimer, reported, aborted>>
       ELSE /\ Start(t, <<>>)
            /\ aborted' = (aborted \/ ~clean)
            /\ Finish(IF clean THEN "peer" ELSE "abnormal")
    /\ UNCHANGED <<pendingInput, buffer, fragmented, received, handshake, output, ended>>

(* receiveEnd.  The transport reports FIN after the last chunk has been      *)
(* consumed, and an abort at any time.                                       *)
ReceiveEnd(t, reason) ==
    LET clean == reason = "finished" /\ receivedClose IN
    /\ reason = "finished" => Idle(Deliverer) /\ ~peerEnded
    /\ readyState # "CLOSED"
    /\ peerEnded' = TRUE
    /\ IF buffer # <<>>
       THEN /\ Start(t, Failure)
            /\ UNCHANGED <<readyState, closeTimer, reported, aborted>>
       ELSE /\ Start(t, <<>>)
            /\ aborted' = (aborted \/ ~clean)
            /\ Finish(IF clean THEN "peer" ELSE "abnormal")
    /\ UNCHANGED <<pendingInput, buffer, fragmented, received, handshake, output, ended>>

-----------------------------------------------------------------------------
ReadFrame(t) ==
    \/ Handled(t) \/ ReadNothing(t) \/ ReadBadHeader(t) \/ ReadMessage(t)
    \/ ReadFragment(t) \/ ReadMisplaced(t) \/ ReadPing(t) \/ ReadClose(t)

Step(t) ==
    \/ CloseStep(t) \/ ArmStep(t) \/ ShutStep(t) \/ EndStep(t) \/ FinishStep(t)
    \/ Written(t) \/ Drained(t) \/ EndSettles(t) \/ ErrorReported(t)
    \/ ReadFrame(t)

InputChunks == {<<k>> : k \in Kinds} \cup {<<k, l>> : k \in Kinds \ {"partial"}, l \in Kinds}

Next ==
    \/ Send \/ Accept \/ CloseTimerFires \/ WriteSettles
    \/ \E chunk \in InputChunks : ReceiveData(chunk)
    \/ \E t \in Tasks : Step(t) \/ HandlerSettles(t)
    \/ \E t \in Closers : Close(t)
    \/ \E t \in Enders : \E reason \in {"finished", "aborted"} : ReceiveEnd(t, reason)

Spec == Init /\ [][Next]_vars

(* Promises that have settled are resumed, and an armed timer fires.  No     *)
(* handler has to return, and the peer has to send and to read nothing.      *)
EventLoop == WF_vars(CloseTimerFires) /\ \A t \in Tasks : WF_vars(Step(t))

StallSpec == Spec /\ EventLoop

-----------------------------------------------------------------------------
Steps == {"read", "receive", "handled", "handler", "error", "close", "fail", "write",
          "arm", "shut", "conclude", "queue", "end", "ending", "abnormal", "peer"}

TypeOK ==
    /\ readyState \in {"CONNECTING", "OPEN", "CLOSING", "CLOSED"}
    /\ pendingInput \in Seq(AllKinds) /\ buffer \in Seq(AllKinds)
    /\ fragmented \in BOOLEAN /\ sentClose \in BOOLEAN /\ receivedClose \in BOOLEAN
    /\ closeTimer \in BOOLEAN /\ ended \in BOOLEAN /\ aborted \in BOOLEAN
    /\ peerEnded \in BOOLEAN
    /\ frames \in Seq({"data", "pong", "close"})
    /\ settled \in 0 .. Len(frames) /\ rejected \subseteq 1 .. settled
    /\ todo \in [Tasks -> Seq(Steps)]
    /\ awaited \in [Tasks -> Nat]
    /\ reported \in Seq({"peer", "abnormal"})
    /\ received \in 0 .. MaxFrames

(* webSocketClose is called once, exactly when the socket becomes CLOSED,    *)
(* however the timer, the peer's Close, failures and ends race.              *)
CloseReportedOnce ==
    Len(reported) = IF readyState = "CLOSED" THEN 1 ELSE 0

(* The server writes one Close frame, when sentClose is set, and only pongs   *)
(* after it: no task sends a message or a second Close behind it.            *)
CloseIsLastData ==
    /\ sentClose <=> \E i \in DOMAIN frames : frames[i] = "close"
    /\ \A i, j \in DOMAIN frames : i < j /\ frames[i] = "close" => frames[j] = "pong"

(* A closing handshake is never orphaned: the close timer runs, or a task    *)
(* will start it, or will report the end itself.  Only a rejected write may  *)
(* leave the socket CLOSING with nobody in charge but the transport's end.   *)
Finishing == {"fail", "shut", "conclude", "abnormal", "peer"}

ClosingHasFinisher ==
    readyState = "CLOSING" =>
        \/ closeTimer
        \/ rejected # {}
        \/ \E t \in Tasks : \E step \in Finishing \cup {"arm"} : Will(t, step)

(* A socket that reported its close has released its transport, or a task is *)
(* about to: no stream is left half open.                                    *)
ClosedReleasesTransport ==
    readyState = "CLOSED" =>
        \/ ended \/ aborted \/ rejected # {}
        \/ \E t \in Tasks : \E step \in {"fail", "shut", "conclude", "end"} : Will(t, step)

(* The peer's code is reported only when both sides sent a Close frame, on   *)
(* each of the ways a task may reach the report.                             *)
CleanCloseIsMutual ==
    reported = <<"peer">> =>
        receivedClose /\ \E i \in DOMAIN frames : frames[i] = "close"

(* readyState only moves forward.                                            *)
Order == [CONNECTING |-> 0, OPEN |-> 1, CLOSING |-> 2, CLOSED |-> 3]
StateMovesForward == [][Order[readyState] <= Order[readyState']]_readyState

(* The lifecycle promised to the application is implemented. *)
Lifecycle == INSTANCE WebSocketLifecycle WITH state <- readyState

ImplementsLifecycle == Lifecycle!Spec

(* README: "an unanswered close handshake aborts the transport".  The code   *)
(* arms the close timer only when the write of the Close frame has settled.  *)
UnansweredCloseAborts ==
    (sentClose /\ ~receivedClose) ~> (receivedClose \/ aborted \/ ended)
=============================================================================
