------------------------- MODULE MCTrustedCertificates -------------------------
(* Two calls and a removal in one process, and a call in another.             *)
EXTENDS TrustedCertificates
CONSTANTS e1, e2, e3, rm, p1, p2, one, other

MCProcessOf == [o \in Operations |-> IF o = e3 THEN p2 ELSE p1]
MCProfileOf == [c \in Calls |-> IF c = e1 THEN one ELSE other]
================================================================================
