--------------------------- MODULE StreamedResponse ---------------------------
(***************************************************************************)
(* What a streamed response promises, whatever maps and promises serve it: *)
(* the client sees a complete response only if every chunk of its source   *)
(* was taken, and when the client or its connection is gone the source is  *)
(* told so instead of being left open.  HTTP3Requests is shown to          *)
(* implement it.                                                           *)
(***************************************************************************)
CONSTANT Requests

VARIABLES
    wire,       \* what the client sees: "none", "streaming", "complete", "gone"
    source      \* the body: "none", "open", "exhausted", "stopped"

TypeOK ==
    /\ wire \in [Requests -> {"none", "streaming", "complete", "gone"}]
    /\ source \in [Requests -> {"none", "open", "exhausted", "stopped"}]

Init ==
    /\ wire = [r \in Requests |-> "none"]
    /\ source = [r \in Requests |-> "none"]

Open(r) ==
    /\ source[r] = "none"
    /\ source' = [source EXCEPT ![r] = "open"]
    /\ UNCHANGED wire

Begin(r) ==
    /\ wire[r] = "none"
    /\ wire' = [wire EXCEPT ![r] = "streaming"]
    /\ UNCHANGED source

Exhaust(r) ==
    /\ source[r] = "open"
    /\ source' = [source EXCEPT ![r] = "exhausted"]
    /\ UNCHANGED wire

\* A response without a body, or an error instead of the one that failed.
Answer(r) ==
    /\ wire[r] = "none" /\ source[r] \in {"none", "stopped"}
    /\ wire' = [wire EXCEPT ![r] = "complete"]
    /\ UNCHANGED source

Complete(r) ==
    /\ wire[r] = "streaming" /\ source[r] \in {"none", "exhausted"}
    /\ wire' = [wire EXCEPT ![r] = "complete"]
    /\ UNCHANGED source

\* The source fails or is stopped, and clients go away, several at once.
Stop(gone, stopped) ==
    /\ \A r \in gone : wire[r] # "complete"
    /\ \A r \in stopped : source[r] = "open"
    /\ wire' = [r \in Requests |-> IF r \in gone THEN "gone" ELSE wire[r]]
    /\ source' = [r \in Requests |-> IF r \in stopped THEN "stopped" ELSE source[r]]

Next ==
    \/ \E r \in Requests : Open(r) \/ Begin(r) \/ Exhaust(r) \/ Answer(r) \/ Complete(r)
    \/ \E gone, stopped \in SUBSET Requests : Stop(gone, stopped)

Safety == Init /\ [][Next]_<<wire, source>>
=============================================================================
