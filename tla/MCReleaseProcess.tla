--------------------------- MODULE MCReleaseProcess ---------------------------
(***************************************************************************)
(* The release process with two platform packages (five packages in all),  *)
(* a committed build and two builds of the pinned baseline.  The two       *)
(* commits are of different versions; two candidates of one version differ *)
(* by their build.                                                         *)
(***************************************************************************)
EXTENDS ReleaseProcess

CONSTANTS b0, b1, b2, c1, c2, v1, v2

MCDeclarations == [b \in Builds |-> IF b = b0 THEN "old" ELSE "new"]
MCProducer == [b \in Builds |-> IF b = b0 THEN "old" ELSE "new"]
MCVersionOf == [c \in Commits |-> IF c = c1 THEN v1 ELSE v2]
=============================================================================
