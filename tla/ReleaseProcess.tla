---------------------------- MODULE ReleaseProcess ----------------------------
(***************************************************************************)
(* A release from end to end: trees into which builds are imported, the    *)
(* candidates packed from them, and the registry that the candidates are   *)
(* published to.  The parts meet in the set of uploaded candidates.        *)
(* Candidates are made before the first job of the publication: a          *)
(* publication runs on a machine of its own and reads only artifacts that  *)
(* no longer change, so the order of the two loses no behaviour of either. *)
(***************************************************************************)
EXTENDS ReleasePublication

processVars == <<candidateVars, registryVars>>

ProcessInit == CandidateInit /\ PublicationInit

NotPublishing == job = NoJob /\ registry = NothingPublished

\* A step that makes a candidate: of an import, or of anything else in a tree.
Importing(step) == step /\ UNCHANGED <<packVars, registryVars>>
Making(step) == step /\ UNCHANGED registryVars

ProcessNext ==
    \/ NotPublishing /\ candidates = {} /\ Making(Checkout("local", AnyCommit))
    \/ \E c \in Commits : NotPublishing /\ Making(Checkout("job", c))
    \/ \E bundle \in Bundles : Making(ImportInto(bundle))
    \/ Importing(Stage)
    \/ Importing(BackUp)
    \/ Importing(Install)
    \/ Importing(Restore)
    \/ Importing(RemoveReplaced)
    \/ Importing(ReturnBackup)
    \/ Importing(Clean)
    \/ Importing(KillImport)
    \/ Making(Pack)
    \/ Making(PutAside)
    \/ Making(InstallCandidate)
    \/ Making(UndoAside)
    \/ Making(KillPack)
    \/ Making(Upload)
    \/ Making(Discard)
    \/ PublicationNext

\* The maintainer repeats the publication of a version that is incomplete, and
\* a job that runs goes on to its end (RELEASING.md:98-101).
Repeat(v) ==
    /\ Present(v) \notin {{}, Packages}
    /\ \E c \in candidates : VersionOf[c.commit] = v /\ StartPublish(c, "next")

ProcessSpec ==
    /\ ProcessInit /\ [][ProcessNext]_processVars
    /\ WF_processVars(PublicationStep)
    /\ \A v \in Versions : SF_processVars(Repeat(v))

-----------------------------------------------------------------------------
ProcessTypeOK == CandidateTypeOK /\ PublicationTypeOK

\* A publication that was interrupted can always be completed, and repeating
\* it does so: "making recovery from an interrupted eleven-package bootstrap
\* safe" (RELEASING.md:98-100).
RecoveryCompletes ==
    \A v \in Versions : Present(v) # {} ~> Present(v) = Packages
=============================================================================
