-------------------------- MODULE WebSocketLifecycle --------------------------
(***************************************************************************)
(* What a WebSocket promises the application, whatever its transport:      *)
(* readyState goes CONNECTING, OPEN, CLOSING, CLOSED without going back,   *)
(* webSocketClose is called once, when it becomes CLOSED, with the peer's  *)
(* code only after a closing handshake.  WebSocketConnection is shown to   *)
(* implement it.                                                           *)
(***************************************************************************)
EXTENDS Sequences

VARIABLES state, reported

TypeOK ==
    /\ state \in {"CONNECTING", "OPEN", "CLOSING", "CLOSED"}
    /\ reported \in {<<>>, <<"peer">>, <<"abnormal">>}

Init == state = "CONNECTING" /\ reported = <<>>

Open ==
    /\ state = "CONNECTING"
    /\ state' = "OPEN"
    /\ UNCHANGED reported

StartClosing ==
    /\ state \in {"CONNECTING", "OPEN"}
    /\ state' = "CLOSING"
    /\ UNCHANGED reported

CloseCleanly ==
    /\ state = "CLOSING"
    /\ state' = "CLOSED"
    /\ reported' = <<"peer">>

CloseAbnormally ==
    /\ state # "CLOSED"
    /\ state' = "CLOSED"
    /\ reported' = <<"abnormal">>

Next == Open \/ StartClosing \/ CloseCleanly \/ CloseAbnormally

Spec == Init /\ [][Next]_<<state, reported>>
=============================================================================
