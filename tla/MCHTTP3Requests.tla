--------------------------- MODULE MCHTTP3Requests ---------------------------
(* A request on each of two connections.                                     *)
EXTENDS HTTP3Requests
CONSTANTS r1, r2, c1, c2

MCConnectionOf == [r \in Requests |-> IF r = r2 THEN c2 ELSE c1]
=============================================================================
