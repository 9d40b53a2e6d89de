---------------------------- MODULE WebSocketFrames ----------------------------
(***************************************************************************)
(* The frame parser of packages/server/WebSocketConnection.js: receiveData *)
(* adds a chunk to #buffer and calls #readFrame until it returns false.    *)
(* The peer's bytes are a sequence of frames; a chunk may end anywhere in  *)
(* it.  Bytes are counted, with the real widths and limits; what they say  *)
(* is a record per frame.  WebSocketConnection.tla models the same socket  *)
(* with whole frames and with everything that runs beside the parser.      *)
(***************************************************************************)
EXTENDS Integers, SequencesExt

CONSTANTS
    Wires,              \* the byte streams: sequences of frames
    MaxMessageBytes     \* maxMessageBytes

ASSUME LimitAssumption == MaxMessageBytes \in Nat \ {0}

VARIABLES
    wire,           \* what the peer sends
    arrived,        \* bytes delivered by receiveData so far
    next,           \* the first frame whose bytes are still in #buffer
    reading,        \* the loop of receiveData runs
    fragments,      \* #fragments, by length
    fragmentOpcode, \* #fragmentOpcode
    fragmentBytes,  \* #fragmentBytes
    passed,         \* the messages and pings answered, in order
    outcome         \* "open", "closed" by the peer, or the code of a failure

vars == <<wire, arrived, next, reading, fragments, fragmentOpcode, fragmentBytes, passed, outcome>>

Control == {"close", "ping", "pong", "reserved control"}
Opcodes == {"continuation", "text", "binary", "reserved"} \cup Control

\* encodeFrame: the length field of the frames this side writes.
LengthField(len) == IF len <= 125 THEN 7 ELSE IF len <= 65535 THEN 16 ELSE 64

\* External: the frames of a client, whose length is one its field can hold.
\* "wide" tells a 64-bit length that is negative or beyond the safe integers
\* from one that is a number.
Frames ==
    {f \in [fin : BOOLEAN, opcode : Opcodes, rsv : BOOLEAN, masked : BOOLEAN, field : {7, 16, 64},
            len : Nat, wide : {"fits", "unsafe", "negative"}, valid : BOOLEAN] :
        /\ f.field = 7 => f.len <= 125
        /\ f.field = 16 => f.len <= 65535
        /\ f.wide # "fits" => f.field = 64}

ASSUME WiresAssumption == Wires \subseteq Seq(Frames)

Sum(s) ==
    LET sum[i \in 0..Len(s)] == IF i = 0 THEN 0 ELSE sum[i - 1] + s[i]
    IN  sum[Len(s)]

HeaderBytes(f) == IF f.field = 7 THEN 2 ELSE IF f.field = 16 THEN 4 ELSE 10
Bytes(f) == HeaderBytes(f) + 4 + f.len
Before(i) == Sum([k \in 1..i - 1 |-> Bytes(wire[k])])

TypeOK ==
    /\ wire \in Seq(Frames)
    /\ arrived \in 0..Before(Len(wire) + 1)
    /\ next \in 1..Len(wire) + 1 /\ Before(next) <= arrived
    /\ reading \in BOOLEAN
    /\ fragments \in Seq(Nat) /\ fragmentBytes \in 0..2 * MaxMessageBytes
    /\ fragmentOpcode \in {"none", "text", "binary"}
    /\ outcome \in {"open", "closed", "1002", "1009"}

Init ==
    /\ wire \in Wires
    /\ arrived = 0 /\ next = 1 /\ reading = FALSE
    /\ fragments = <<>> /\ fragmentOpcode = "none" /\ fragmentBytes = 0
    /\ passed = <<>> /\ outcome = "open"

-----------------------------------------------------------------------------
\* Where a chunk may end: after every byte at which #readFrame decides
\* something, and one before.
Cuts(i) ==
    LET start == Before(i) header == HeaderBytes(wire[i]) IN
    {start + k : k \in {1, 2, 3, 4, 9, 10, header + 3, header + 4, Bytes(wire[i]) - 1, Bytes(wire[i])}
                       \cap 1..Bytes(wire[i])}

ReceiveData ==
    /\ ~reading
    /\ outcome = "open"
    /\ \E i \in DOMAIN wire : \E n \in Cuts(i) :
        /\ n > arrived
        /\ arrived' = n
    /\ reading' = TRUE
    /\ UNCHANGED <<wire, next, fragments, fragmentOpcode, fragmentBytes, passed, outcome>>

Buffered == arrived - Before(next)
Frame == wire[next]

Buffers(n) == Buffered >= n

\* #readFrame compares the length only when it is a safe integer.
NonMinimal(f) == (f.field = 16 /\ f.len < 126) \/ (f.field = 64 /\ f.len <= 65535)
EarlyFlaw(f) == f.rsv \/ ~f.masked
TooLong(f) == (f.opcode \in Control /\ (~f.fin \/ f.len > 125)) \/ f.len > MaxMessageBytes
Flawed(f) == EarlyFlaw(f) \/ f.wide # "fits" \/ NonMinimal(f) \/ TooLong(f)

HeaderFailure(f) ==
    IF \/ EarlyFlaw(f) \/ f.wide = "negative"
       \/ f.wide = "fits" /\ (NonMinimal(f) \/ f.opcode \in Control)
    THEN "1002"
    ELSE "1009"

\* #protocolFailure: the socket ends CLOSED, as after the peer's close frame.
Fail(code) == outcome' = code /\ reading' = FALSE
GoOn == UNCHANGED <<outcome, reading>>
KeepMessage == UNCHANGED <<fragments, fragmentOpcode, fragmentBytes>>

\* Mutant: a flawed header waits for the payload too.
AwaitBytesOfFlawed ==
    /\ reading
    /\ \/ ~Buffers(2)
       \/ Buffers(2) /\ ~Buffers(Bytes(Frame))
    /\ reading' = FALSE
    /\ UNCHANGED <<wire, arrived, next, passed, outcome>> /\ KeepMessage

\* #readFrame returns false: the rest of the frame has not arrived.
AwaitBytes ==
    /\ reading
    /\ \/ ~Buffers(2)
       \/ Buffers(2) /\ ~EarlyFlaw(Frame) /\ ~Buffers(HeaderBytes(Frame))
       \/ Buffers(2) /\ ~Flawed(Frame) /\ Buffers(HeaderBytes(Frame)) /\ ~Buffers(Bytes(Frame))
    /\ reading' = FALSE
    /\ UNCHANGED <<wire, arrived, next, passed, outcome>> /\ KeepMessage

\* A flaw in the header ends the socket before the payload is waited for.
RejectHeader ==
    /\ reading /\ Buffers(2)
    /\ EarlyFlaw(Frame) \/ (Buffers(HeaderBytes(Frame)) /\ Flawed(Frame))
    /\ Fail(HeaderFailure(Frame))
    /\ UNCHANGED <<wire, arrived, next, passed>> /\ KeepMessage

\* A complete frame leaves the buffer and goes to #handleFrame.
TakeFrame ==
    /\ reading /\ Buffers(2)
    /\ ~Flawed(Frame) /\ Buffers(Bytes(Frame))
    /\ next' = next + 1
    /\ UNCHANGED <<wire, arrived>>

HandleControl ==
    /\ TakeFrame
    /\ \/ /\ Frame.opcode = "ping"
          /\ passed' = Append(passed, [what |-> "pong", bytes |-> Frame.len])
          /\ GoOn
       \/ Frame.opcode = "pong" /\ GoOn /\ UNCHANGED passed
       \/ Frame.opcode = "close" /\ Frame.valid /\ Fail("closed") /\ UNCHANGED passed
       \/ Frame.opcode = "close" /\ ~Frame.valid /\ Fail("1002") /\ UNCHANGED passed
    /\ KeepMessage

\* An opcode that is not defined, a continuation of nothing, or a message
\* inside another.
OutOfSequence(f) ==
    \/ f.opcode \in {"reserved", "reserved control"}
    \/ f.opcode = "continuation" /\ fragmentOpcode = "none"
    \/ f.opcode \in {"text", "binary"} /\ fragmentOpcode # "none"

RejectSequence ==
    /\ TakeFrame
    /\ OutOfSequence(Frame)
    /\ Fail("1002")
    /\ UNCHANGED passed /\ KeepMessage

IsData(f) == f.opcode \in {"continuation", "text", "binary"}

\* Mutant: a continuation becomes the opcode of the message.
KeepFragmentOpcode ==
    /\ TakeFrame
    /\ IsData(Frame) /\ ~OutOfSequence(Frame) /\ ~Frame.fin
    /\ fragmentOpcode' = Frame.opcode
    /\ fragmentBytes' = fragmentBytes + Frame.len
    /\ IF fragmentBytes' > MaxMessageBytes
         THEN Fail("1009") /\ UNCHANGED fragments
         ELSE fragments' = Append(fragments, Frame.len) /\ GoOn
    /\ UNCHANGED passed

\* A frame without FIN is kept, or is one too many for the limit.
KeepFragment ==
    /\ TakeFrame
    /\ IsData(Frame) /\ ~OutOfSequence(Frame) /\ ~Frame.fin
    /\ fragmentOpcode' = IF Frame.opcode = "continuation" THEN fragmentOpcode ELSE Frame.opcode
    /\ fragmentBytes' = fragmentBytes + Frame.len
    /\ IF fragmentBytes' > MaxMessageBytes
         THEN Fail("1009") /\ UNCHANGED fragments
         ELSE fragments' = Append(fragments, Frame.len) /\ GoOn
    /\ UNCHANGED passed

\* Mutant: the count of the fragments survives the message.
CompleteMessageKeepingCount ==
    /\ TakeFrame
    /\ IsData(Frame) /\ ~OutOfSequence(Frame) /\ Frame.fin
    /\ IF fragmentBytes + Frame.len > MaxMessageBytes
         THEN Fail("1009") /\ UNCHANGED passed /\ KeepMessage
         ELSE /\ passed' = Append(passed, [what |-> Frame.opcode, bytes |-> Frame.len])
              /\ fragments' = <<>> /\ fragmentOpcode' = "none" /\ UNCHANGED fragmentBytes
              /\ GoOn

\* A frame with FIN completes the message, which goes to onMessage.
CompleteMessage ==
    /\ TakeFrame
    /\ IsData(Frame) /\ ~OutOfSequence(Frame) /\ Frame.fin
    /\ IF fragmentBytes + Frame.len > MaxMessageBytes
         THEN Fail("1009") /\ UNCHANGED passed /\ KeepMessage
         ELSE /\ passed' = Append(passed,
                   [what |-> IF Frame.opcode = "continuation" THEN fragmentOpcode ELSE Frame.opcode,
                    bytes |-> Sum(Append(fragments, Frame.len))])
              /\ fragments' = <<>> /\ fragmentOpcode' = "none" /\ fragmentBytes' = 0
              /\ GoOn

Next ==
    \/ ReceiveData
    \/ AwaitBytes
    \/ RejectHeader
    \/ HandleControl
    \/ RejectSequence
    \/ KeepFragment
    \/ CompleteMessage

Spec == Init /\ [][Next]_vars

-----------------------------------------------------------------------------
\* The reference looks at the bytes as a whole: the frames of the message
\* that data frame i belongs to, up to i.
Message(i) ==
    {k \in 1..i : /\ IsData(wire[k])
                  /\ \A m \in k..i - 1 : IsData(wire[m]) => ~wire[m].fin}
MessageBytes(i) == Sum([k \in 1..i |-> IF k \in Message(i) THEN wire[k].len ELSE 0])
MessageKind(i) == wire[CHOOSE k \in Message(i) : \A m \in Message(i) : k <= m].opcode

\* A header as this side would have written it, but for the mask.
GoodHeader(f) ==
    /\ f.wide = "fits" /\ f.field = LengthField(f.len) /\ f.len <= MaxMessageBytes
    /\ f.opcode \in Control => f.fin /\ f.len <= 125

\* A frame after which the parser goes on, one that is only too large, and
\* the bytes it takes to tell.
InSequence(i) == wire[i].opcode = "continuation" <=> Message(i) # {i}
Proper(i) ==
    LET f == wire[i] IN
    /\ ~EarlyFlaw(f) /\ GoodHeader(f)
    /\ f.opcode \notin {"close", "reserved", "reserved control"}
    /\ IsData(f) => InSequence(i) /\ MessageBytes(i) <= MaxMessageBytes
TooLarge(i) ==
    LET f == wire[i] IN
    /\ ~EarlyFlaw(f)
    /\ \/ f.wide = "unsafe"
       \/ f.wide = "fits" /\ f.field = LengthField(f.len) /\ f.opcode \notin Control
          /\ (f.len > MaxMessageBytes \/ (IsData(f) /\ InSequence(i) /\ MessageBytes(i) > MaxMessageBytes))
Noticed(i) ==
    LET f == wire[i] IN
    Before(i) + (IF EarlyFlaw(f) THEN 2 ELSE IF GoodHeader(f) THEN Bytes(f) ELSE HeaderBytes(f))

\* What a prefix of proper frames is worth: a pong, a message or nothing.
Output(i) ==
    IF wire[i].opcode = "ping" THEN <<[what |-> "pong", bytes |-> wire[i].len]>>
    ELSE IF IsData(wire[i]) /\ wire[i].fin THEN <<[what |-> MessageKind(i), bytes |-> MessageBytes(i)]>>
    ELSE <<>>

Seen == {i \in DOMAIN wire : Noticed(i) <= arrived /\ \A k \in 1..i - 1 : Proper(k)}
Flaw == {i \in Seen : ~Proper(i)}

\* Whatever the chunks (receiveData is given those of the transport): once it
\* has returned, every frame that has arrived was acted on, in order and as
\* RFC 6455 reads it, and the first improper one has ended the socket, with
\* 1009 when it is only too large (packages/server/README.md:236, "oversized
\* frames or reassembled messages close with 1009").
SameHoweverCut ==
    ~reading =>
        /\ passed = FlattenSeq([i \in 1..Cardinality(Seen \ Flaw) |-> Output(i)])
        /\ outcome = "open" <=> Flaw = {}
        /\ outcome = "closed" => \E i \in Flaw : wire[i].opcode = "close"
        /\ outcome = "1009" <=> \E i \in Flaw : TooLarge(i)

\* Between two chunks the parser holds less than one frame of the largest
\* size, and fragments of one message within the limit (README: the option
\* maxWebSocketMessageBytes).
BufferIsBounded ==
    ~reading /\ outcome = "open" =>
        /\ Buffered < MaxMessageBytes + 14
        /\ Sum(fragments) = fragmentBytes
        /\ fragmentBytes <= MaxMessageBytes
=============================================================================
