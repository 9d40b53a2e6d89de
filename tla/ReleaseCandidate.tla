--------------------------- MODULE ReleaseCandidate ---------------------------
(***************************************************************************)
(* From a tree to a release candidate: scripts/pack-release.js packs every *)
(* package directory, verifies the result and installs it at release/ by   *)
(* two renames; the workflow release-candidate.yml imports one build into a *)
(* clean checkout, repeats the checks, packs and uploads the artifact.  A   *)
(* developer runs the same scripts on a tree of their own.                  *)
(***************************************************************************)
EXTENDS ImportTransaction

CONSTANTS
    Commits,        \* source commits of this repository
    Producer,       \* [Builds -> the msh3-node commit that the manifest names]
    MaxCandidates   \* bound: artifacts uploaded

ASSUME ProducerAssumption == \A a, b \in Accepted : Producer[a] = Producer[b]
ASSUME CandidatesAssumption == Commits # {} /\ MaxCandidates \in Nat

VARIABLES
    tree,           \* whose tree it is, and how far a workflow job has come
    packing,        \* the run of pack-release.js: its step and its candidate
    destination,    \* release/: no candidate, or the set of one
    aside,          \* release.<pid>.backup of the current run, likewise
    retained,       \* backups that runs left behind
    previous,       \* history: what release/ held, until a candidate replaced it
    candidates      \* the artifacts of successful workflow jobs

packVars == <<tree, packing, destination, aside, retained, previous, candidates>>
candidateVars == <<importVars, packVars>>

Candidates == [commit : Commits, files : [Targets -> Builds]]
NotPacking == [step |-> "idle", candidate |-> {}]

CandidateTypeOK ==
    /\ ImportTypeOK
    /\ tree.kind \in {"none", "local", "job", "failed", "packed"} /\ tree.commit \in Commits
    /\ packing.step \in {"idle", "aside", "install", "undo"}
    /\ \A held \in {packing.candidate, destination, aside, previous} :
          held \subseteq Candidates /\ Cardinality(held) <= 1
    /\ retained \subseteq Candidates
    /\ candidates \subseteq Candidates /\ Cardinality(candidates) <= MaxCandidates

AnyCommit == CHOOSE c \in Commits : TRUE
NoTree == [kind |-> "none", commit |-> AnyCommit]

CandidateInit ==
    /\ ImportInit
    /\ packing = NotPacking
    /\ destination = {} /\ aside = {} /\ retained = {} /\ previous = {}
    /\ tree = NoTree
    /\ candidates = {}

-----------------------------------------------------------------------------
AtRest == Settled /\ packing.step = "idle"
Whole(files) == \A t \in Targets : files[t] # None

\* A clone of a developer's (at some commit: which one makes no difference to
\* what is never uploaded), or the clean checkout of a workflow job.
Checkout(kind, c) ==
    /\ tree.kind = "none"
    /\ tree' = [kind |-> kind, commit |-> c]
    /\ UNCHANGED <<importVars, packing, destination, aside, retained, previous, candidates>>

FreshPack ==
    /\ packing' = NotPacking
    /\ destination' = {} /\ aside' = {} /\ retained' = {} /\ previous' = {}

\* The tree is deleted, or the machine of a job that ended is.
Discard ==
    /\ AtRest
    /\ tree.kind # "none"
    /\ tree' = NoTree
    /\ FreshTree /\ FreshPack
    /\ UNCHANGED candidates

\* The job imports the artifact of one producer run, once; a directory that a
\* developer assembled may hold anything.
OneRun(bundle) == \E b \in Builds : \A p \in 1..Platforms : bundle[p] = b
ImportInto(bundle) ==
    /\ AtRest
    /\ \/ tree.kind = "local"
       \/ tree.kind = "job" /\ OneRun(bundle) /\ outcome = None /\ importing = Idle
    /\ StartImport(bundle)
    /\ UNCHANGED packVars

\* check-release.js --require-manifests: the manifests of the platform
\* directories are those of the baseline.  It does not look at the declarations.
CheckPasses == \A p \in 1..Platforms : live[p] \in Accepted

\* verify-candidate.js: all native packages name one producer revision.
CandidateVerifies(files) == Cardinality({Producer[files[p]] : p \in 1..Platforms}) = 1

\* Mutant: the job goes on after an import that failed.
PackWhateverImported ==
    /\ AtRest
    /\ \/ tree.kind = "local"
       \/ tree.kind = "job" /\ outcome # None /\ CheckPasses
    /\ previous' = destination
    /\ \/ /\ Whole(live) /\ CandidateVerifies(live)
          /\ packing' = [step |-> IF destination = {} THEN "install" ELSE "aside",
                         candidate |-> {[commit |-> tree.commit, files |-> live]}]
          /\ UNCHANGED <<tree, faults>>
       \/ /\ ~(Whole(live) /\ CandidateVerifies(live))
          /\ UNCHANGED <<tree, packing, faults>>
       \/ /\ Fault
          /\ tree' = IF tree.kind = "job" THEN [tree EXCEPT !.kind = "failed"] ELSE tree
          /\ UNCHANGED packing
    /\ UNCHANGED <<treeVars, destination, aside, retained, candidates>>

\* pack-release.js down to its own verification and smoke tests: a failure of
\* any part of it leaves no candidate and release/ untouched.  A step of the
\* job that fails is the end of the job.
Pack ==
    /\ AtRest
    /\ \/ tree.kind = "local"
       \/ tree.kind = "job" /\ outcome = "imported" /\ CheckPasses
    /\ previous' = destination
    /\ \/ /\ Whole(live) /\ CandidateVerifies(live)
          /\ packing' = [step |-> IF destination = {} THEN "install" ELSE "aside",
                         candidate |-> {[commit |-> tree.commit, files |-> live]}]
          /\ UNCHANGED <<tree, faults>>
       \/ /\ ~(Whole(live) /\ CandidateVerifies(live))
          /\ UNCHANGED <<tree, packing, faults>>
       \/ /\ Fault
          /\ tree' = IF tree.kind = "job" THEN [tree EXCEPT !.kind = "failed"] ELSE tree
          /\ UNCHANGED packing
    /\ UNCHANGED <<treeVars, destination, aside, retained, candidates>>

\* The end of a run; a backup that is not removed stays beside release/.
EndPack(kept) ==
    /\ packing' = NotPacking
    /\ aside' = {}
    /\ retained' = retained \cup kept
FailPack(kept) ==
    /\ EndPack(kept)
    /\ tree' = IF tree.kind = "job" THEN [tree EXCEPT !.kind = "failed"] ELSE tree

PutAside ==
    /\ packing.step = "aside"
    /\ \/ /\ aside' = destination /\ destination' = {}
          /\ packing' = [packing EXCEPT !.step = "install"]
          /\ UNCHANGED <<tree, retained, faults>>
       \/ Fault /\ FailPack({}) /\ UNCHANGED destination
    /\ UNCHANGED <<treeVars, previous, candidates>>

\* Once the candidate is in its place only the removal of the backup can fail.
InstallCandidate ==
    /\ packing.step = "install"
    /\ \/ /\ destination' = packing.candidate /\ previous' = {}
          /\ EndPack({})
          /\ tree' = IF tree.kind = "job" THEN [tree EXCEPT !.kind = "packed"] ELSE tree
          /\ UNCHANGED faults
       \/ /\ destination' = packing.candidate /\ previous' = {}
          /\ aside # {}
          /\ Fault /\ FailPack(aside)
       \/ /\ Fault
          /\ IF aside = {}
               THEN FailPack({})
               ELSE packing' = [packing EXCEPT !.step = "undo"] /\ UNCHANGED <<tree, aside, retained>>
          /\ UNCHANGED <<destination, previous>>
    /\ UNCHANGED <<treeVars, candidates>>

\* Mutant: a refused exchange is reported without putting release/ back.
UndoForgotten ==
    /\ packing.step = "undo"
    /\ FailPack({})
    /\ UNCHANGED <<treeVars, faults, destination, previous, candidates>>

UndoAside ==
    /\ packing.step = "undo"
    /\ \/ destination' = aside /\ FailPack({}) /\ UNCHANGED faults
       \/ Fault /\ FailPack(aside) /\ UNCHANGED destination
    /\ UNCHANGED <<treeVars, previous, candidates>>

KillPack ==
    /\ packing.step # "idle"
    /\ Fault
    /\ FailPack(aside)
    /\ UNCHANGED <<treeVars, destination, previous, candidates>>

\* upload-artifact, the last step of the job.
Upload ==
    /\ tree.kind = "packed"
    /\ Cardinality(candidates \cup destination) <= MaxCandidates
    /\ candidates' = candidates \cup destination
    /\ tree' = NoTree
    /\ FreshTree /\ FreshPack

-----------------------------------------------------------------------------
\* An uploaded candidate is one build throughout (RELEASING.md:4, "never
\* assembled from runs or local machines"): the native declarations, which no
\* later check compares, included.
CandidateIsWhole ==
    \A c \in candidates : \E b \in Accepted : c.files = Installed([p \in 1..Platforms |-> b])

\* Packing again never costs the candidate that release/ held: it is there, or
\* beside it, until the new one has taken its place.
CandidateIsKept == previous \subseteq destination \cup aside \cup retained

\* Neither the tree nor release/ loses what it held to a run that fails or is
\* killed: each step of the two exchanges leaves the old content somewhere.
NothingIsLost == TreeIsKept /\ CandidateIsKept
=============================================================================
