--------------------------- MODULE MCHTTP3Sessions ---------------------------
(* Two sessions of one connection with a stream each.                        *)
EXTENDS HTTP3Sessions
CONSTANTS s1, s2, w1, w2, c1

MCConnectionOf == [s \in Sessions |-> c1]
MCSessionOf == [w \in Streams |-> IF w = w1 THEN s1 ELSE s2]
=============================================================================
