-------------------------- MODULE ReleasePublication --------------------------
(***************************************************************************)
(* The publication of a candidate and its promotion, scripts/              *)
(* publish-candidate.js and promote-release.js, with the workflows that    *)
(* run them.  The registry is external: it refuses to overwrite a version, *)
(* answers reads late, and a job may be cut off before or after a request  *)
(* took effect.  Both workflows share one concurrency group, so at most    *)
(* one job talks to the registry at a time.                                *)
(***************************************************************************)
EXTENDS ReleaseCandidate

CONSTANTS
    Versions,           \* release versions
    VersionOf,          \* [Commits -> the version that the commit is of]
    Attempts,           \* rounds of verifyTagConvergence
    MaxRegistryFaults   \* bound: failed or late answers and jobs cut off

ASSUME VersionsAssumption == VersionOf \in [Commits -> Versions] /\ Attempts \in Nat \ {0}
ASSUME RegistryAssumption == MaxRegistryFaults \in Nat /\ None \notin Builds \cup Commits

VARIABLES
    registry,       \* published contents, next and latest of every package
    job,            \* the publish or promote job that runs
    direct,         \* history: versions published with the tag latest
    jobFaults       \* registry faults so far

registryVars == <<registry, job, direct, jobFaults>>

\* publicationOrder: the development certificates, the platform packages,
\* the declarations package and the server.
Packages == 1..Platforms + 3
Server == Platforms + 3
Native == Platforms + 2
Tags == {"next", "latest"}

\* What a candidate holds for a package: native files of a build, or the
\* source of its commit.
Content(c, p) == IF p \in 2..Native THEN c.files[p - 1] ELSE c.commit

\* The exact-version dependencies that verify-candidate.js checks.
Requires(p) == IF p = Server THEN {Native} ELSE IF p = Native THEN 2..Platforms + 1 ELSE {}

NoJob == [kind |-> "none"]
NothingPublished ==
    [published |-> [v \in Versions |-> [p \in Packages |-> None]],
     tags |-> [g \in Tags |-> [p \in Packages |-> None]]]

PublicationTypeOK ==
    /\ registry.published \in [Versions -> [Packages -> Builds \cup Commits \cup {None}]]
    /\ registry.tags \in [Tags -> [Packages -> Versions \cup {None}]]
    /\ job.kind \in {"none", "publish", "promote", "verify"}
    /\ job.kind # "none" => job.version \in Versions
    /\ direct \subseteq Versions
    /\ jobFaults \in 0..MaxRegistryFaults

PublicationInit ==
    /\ registry = NothingPublished
    /\ job = NoJob
    /\ direct = {}
    /\ jobFaults = 0

-----------------------------------------------------------------------------
RegistryFault == jobFaults < MaxRegistryFaults /\ jobFaults' = jobFaults + 1
Answers == UNCHANGED jobFaults

Present(v) == {p \in Packages : registry.published[v][p] # None}

\* A job goes through its packages in publicationOrder and passes over those
\* that need nothing any more.
Upcoming == CHOOSE p \in job.todo : \A q \in job.todo : p <= q

\* Mutants: the integrities are not compared; nothing is passed over.
StartPublishUncompared(c, tag) ==
    LET v == VersionOf[c.commit] IN
    /\ job = NoJob /\ tree.kind = "none"
    /\ \E known \in SUBSET Present(v) :
        /\ \/ known = Present(v) /\ Answers
           \/ known # Present(v) /\ RegistryFault
        /\ known # Packages
        /\ job' = [kind |-> "publish", version |-> v, candidate |-> c, tag |-> tag, todo |-> Packages \ known]
    /\ direct' = IF tag = "latest" THEN direct \cup {v} ELSE direct
    /\ UNCHANGED <<candidateVars, registry>>

StartPublishOver(c, tag) ==
    LET v == VersionOf[c.commit] IN
    /\ job = NoJob /\ tree.kind = "none"
    /\ \E known \in SUBSET Present(v) :
        /\ \/ known = Present(v) /\ Answers
           \/ known # Present(v) /\ RegistryFault
        /\ \A p \in known : registry.published[v][p] = Content(c, p)
        /\ known # Packages
        /\ job' = [kind |-> "publish", version |-> v, candidate |-> c, tag |-> tag, todo |-> Packages]
    /\ direct' = IF tag = "latest" THEN direct \cup {v} ELSE direct
    /\ UNCHANGED <<candidateVars, registry>>

\* publicationPlan and the reads before the first change: the whole registry
\* is compared with the candidate, and a job that finds other contents ends
\* there.  A read may miss a package that was published a moment ago.
StartPublish(c, tag) ==
    LET v == VersionOf[c.commit] IN
    /\ job = NoJob /\ tree.kind = "none"
    /\ \E known \in SUBSET Present(v) :
        /\ \/ known = Present(v) /\ Answers
           \/ known # Present(v) /\ RegistryFault
        /\ \A p \in known : registry.published[v][p] = Content(c, p)
        /\ known # Packages
        /\ job' = [kind |-> "publish", version |-> v, candidate |-> c, tag |-> tag, todo |-> Packages \ known]
    /\ direct' = IF tag = "latest" THEN direct \cup {v} ELSE direct
    /\ UNCHANGED <<candidateVars, registry>>

\* npm publish, as the registry carries it out.
Accept(p) ==
    /\ registry.published[job.version][p] = None
    /\ registry' = [registry EXCEPT !.published[job.version][p] = Content(job.candidate, p),
                                    !.tags[job.tag][p] = job.version]

Published(p) == job' = IF job.todo = {p} THEN NoJob ELSE [job EXCEPT !.todo = @ \ {p}]

\* Mutant: the exit status of npm publish is not looked at.
PublishDespiteFailure ==
    /\ job.kind = "publish"
    /\ \/ Accept(Upcoming) /\ Published(Upcoming) /\ Answers
       \/ Accept(Upcoming) /\ job' = NoJob /\ RegistryFault
       \/ registry.published[job.version][Upcoming] # None /\ job' = NoJob /\ Answers /\ UNCHANGED registry
       \/ Published(Upcoming) /\ RegistryFault /\ UNCHANGED registry
    /\ UNCHANGED <<candidateVars, direct>>

\* A refusal, an error, a time limit or a cut connection ends the job, and
\* the request may have had its effect all the same.
PublishPackage ==
    /\ job.kind = "publish"
    /\ \/ Accept(Upcoming) /\ Published(Upcoming) /\ Answers
       \/ Accept(Upcoming) /\ job' = NoJob /\ RegistryFault
       \/ registry.published[job.version][Upcoming] # None /\ job' = NoJob /\ Answers /\ UNCHANGED registry
       \/ job' = NoJob /\ RegistryFault /\ UNCHANGED registry
    /\ UNCHANGED <<candidateVars, direct>>

-----------------------------------------------------------------------------
\* Mutant: one package that is ready makes the release ready.
PromotableBySome(v) == \E p \in Packages : registry.published[v][p] # None /\ registry.tags["next"][p] = v

\* promotionPlan: every package is published at the version and has it as next.
Promotable(v) == \A p \in Packages : registry.published[v][p] # None /\ registry.tags["next"][p] = v

VerifyJob(v, began) == [kind |-> "verify", version |-> v, at |-> 1, pending |-> Packages, began |-> began]

\* promotionPlan on the tags as they are read.  A read may miss that a package
\* was promoted a moment ago.
StartPromote(v) ==
    /\ job = NoJob /\ tree.kind = "none"
    /\ Promotable(v)
    /\ \E late \in {{}} \cup {{p} : p \in Packages} :
        LET todo == {p \in Packages : registry.tags["latest"][p] # v} \cup late IN
        /\ IF late = {} THEN Answers ELSE RegistryFault
        /\ job' = IF todo = {} THEN VerifyJob(v, registry.tags)
                  ELSE [kind |-> "promote", version |-> v, todo |-> todo, began |-> registry.tags]
    /\ UNCHANGED <<candidateVars, registry, direct>>

\* npm dist-tag add, which needs the version to exist: the plan has seen it.
Retag(p) ==
    /\ registry.published[job.version][p] # None
    /\ registry' = [registry EXCEPT !.tags["latest"][p] = job.version]

Promoted(p) == job' = IF job.todo = {p} THEN VerifyJob(job.version, job.began)
                                       ELSE [job EXCEPT !.todo = @ \ {p}]
PromotePackage ==
    /\ job.kind = "promote"
    /\ \/ Retag(Upcoming) /\ Promoted(Upcoming) /\ Answers
       \/ Retag(Upcoming) /\ job' = NoJob /\ RegistryFault
       \/ job' = NoJob /\ RegistryFault /\ UNCHANGED registry
    /\ UNCHANGED <<candidateVars, direct>>

\* One round of verifyTagConvergence.  A read shows the tags as they are, or
\* still as they were when the job began; nothing is left to read, another
\* round follows, or the job fails.  It also fails with a read that fails.
Converged(tags, p) == \A g \in Tags : tags[g][p] = job.version
VerifyTags ==
    /\ job.kind = "verify"
    /\ \/ \E late \in {{}} \cup {{p} : p \in job.pending} :
           LET left == {p \in job.pending : ~Converged(IF p \in late THEN job.began ELSE registry.tags, p)} IN
           /\ IF late = {} THEN Answers ELSE RegistryFault
           /\ job' = IF left = {} \/ job.at = Attempts THEN NoJob
                     ELSE [job EXCEPT !.at = job.at + 1, !.pending = left]
       \/ job' = NoJob /\ RegistryFault
    /\ UNCHANGED <<candidateVars, registry, direct>>

PublicationStep ==
    \/ PublishPackage
    \/ PromotePackage
    \/ VerifyTags

PublicationNext ==
    \/ \E c \in candidates, tag \in Tags : StartPublish(c, tag)
    \/ \E v \in Versions : StartPromote(v)
    \/ PublicationStep

-----------------------------------------------------------------------------
\* A package is never in the registry before what it depends on at the same
\* version (publish.yml:86, "Publish verified tarballs in dependency order"),
\* whichever jobs failed and were repeated on the way.
DependenciesFirst ==
    \A v \in Versions : \A p \in Present(v) : Requires(p) \subseteq Present(v)

\* What is published of a version is part of one candidate, also when jobs of
\* two candidates of that version were started in turn (RELEASING.md:98-100,
\* a retry skips a package only when its integrity matches the candidate).
OneRelease ==
    \A v \in Versions : Present(v) # {} =>
        \E c \in candidates :
            /\ VersionOf[c.commit] = v
            /\ \A p \in Present(v) : registry.published[v][p] = Content(c, p)

\* A version that latest selects anywhere is complete, unless a publish job
\* was told to tag it so itself (RELEASING.md:122-124).
LatestIsWhole ==
    \A p \in Packages :
        LET v == registry.tags["latest"][p] IN
        v # None /\ v \notin direct => Present(v) = Packages
=============================================================================
