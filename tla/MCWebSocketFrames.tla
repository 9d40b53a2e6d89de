-------------------------- MODULE MCWebSocketFrames --------------------------
(***************************************************************************)
(* Streams of up to three frames, each at a boundary of the format: the    *)
(* three length fields at both ends of their ranges, the message limit     *)
(* from below and above, in one frame and as a sum, and every flaw.        *)
(***************************************************************************)
EXTENDS WebSocketFrames

Sound(fin, opcode, field, len) ==
    [fin |-> fin, opcode |-> opcode, rsv |-> FALSE, masked |-> TRUE,
     field |-> field, len |-> len, wide |-> "fits", valid |-> TRUE]
Text(field, len) == Sound(TRUE, "text", field, len)

MCLimit == 65537

Ordinary ==
    {Text(7, 125), Text(16, 126), Text(64, 65536), Text(64, MCLimit),
     Sound(FALSE, "binary", 7, 1), Sound(FALSE, "text", 64, 65536),
     Sound(FALSE, "continuation", 7, 1), Sound(TRUE, "continuation", 7, 0), Sound(TRUE, "continuation", 7, 2),
     Sound(TRUE, "ping", 7, 125), Sound(TRUE, "pong", 7, 0)}

Final ==
    {Text(16, 125), Text(64, 65535), Text(64, MCLimit + 1), Text(16, 65535),
     Sound(TRUE, "ping", 16, 126), Sound(FALSE, "ping", 7, 0),
     Sound(TRUE, "close", 7, 2), [Sound(TRUE, "close", 7, 1) EXCEPT !.valid = FALSE],
     Sound(TRUE, "reserved", 7, 0), Sound(TRUE, "reserved control", 7, 0),
     [Text(7, 1) EXCEPT !.rsv = TRUE], [Text(16, 126) EXCEPT !.masked = FALSE],
     [Text(64, 0) EXCEPT !.wide = "unsafe"], [Text(64, 0) EXCEPT !.wide = "negative"]}

MCWires ==
    {<<f>> : f \in Ordinary \cup Final}
        \cup {<<f, g>> : f \in Ordinary, g \in Ordinary \cup Final}
        \cup {<<f, g, h>> : f \in Ordinary, g \in Ordinary, h \in Ordinary \cup Final}
=============================================================================
