---------------------------- MODULE ReceiveCredit ----------------------------
(***************************************************************************)
(* What the receive path promises the QUIC transport, independently of     *)
(* timers, promises and maps: on every stream at most one chunk is out for *)
(* delivery, and a chunk that is out is eventually given back, or the      *)
(* receive side is closed.  ReceiveDelivery is shown to implement it.      *)
(***************************************************************************)
CONSTANT Ids        \* receive sides: requests, WebSockets, WebTransport streams

VARIABLE credit     \* "idle": the peer may be read; "out": one chunk is with
                    \* the application; "closed": nothing more is delivered

TypeOK == credit \in [Ids -> {"idle", "out", "closed"}]

Init == credit = [id \in Ids |-> "idle"]

Deliver(id) ==
    /\ credit[id] = "idle"
    /\ credit' = [credit EXCEPT ![id] = "out"]

GiveBack(id) ==
    /\ credit[id] = "out"
    /\ credit' = [credit EXCEPT ![id] = "idle"]

\* One connection, or the whole server, may close several streams at once.
Close(S) ==
    /\ S # {}
    /\ credit' = [id \in Ids |-> IF id \in S THEN "closed" ELSE credit[id]]

Next ==
    \/ \E id \in Ids : Deliver(id) \/ GiveBack(id)
    \/ \E S \in SUBSET Ids : Close(S)

(* What no step may do ... *)
Safety == Init /\ [][Next]_credit

(* ... and the promise to the peer: a chunk does not stay out for ever.       *)
Settled(id) == credit[id] # "out"

Spec == Safety /\ \A id \in Ids : []<>Settled(id)
=============================================================================
