-------------------------- MODULE ReleaseProcessProofs --------------------------
(***************************************************************************)
(* For any number of platforms, builds, commits, versions and faults: an   *)
(* import is atomic, neither a tree nor release/ loses what it held, an    *)
(* uploaded candidate is one accepted build, packages are published in     *)
(* dependency order and from one candidate, and latest selects complete    *)
(* versions.                                                               *)
(*                                                                         *)
(* The proof has three parts, as the process has.  Of an import the        *)
(* invariant is the layout of the package directories at every step of the *)
(* exchange and of the rollback; of a tree, what its job may have packed;  *)
(* of the registry, that the packages of a version are published in order, *)
(* so that whoever publishes the next one has compared all before it.      *)
(***************************************************************************)
EXTENDS ReleaseProcess, FiniteSetTheorems, WellFoundedInduction, TLAPS

-----------------------------------------------------------------------------
(* The import. *)

Steps == {"idle", "stage", "backup", "install", "restore", "remove", "return", "clean"}

Wanted(t) == NewContent(importing.bundle, t)
Untouched(t) == live[t] = before[t]
Replaced(t) == live[t] = Wanted(t) /\ backup[t] = before[t]
Missing(t) == live[t] = None /\ backup[t] = before[t]

\* The targets below t are replaced, and the others untouched; or t is between
\* its two renames.
ReplacedBelow(t) == \A u \in Targets : IF u < t THEN Replaced(u) ELSE Untouched(u)
MissingAt(t) ==
    \A u \in Targets : IF u < t THEN Replaced(u) ELSE IF u = t THEN Missing(u) ELSE Untouched(u)
StagedFrom(t) == \A u \in Targets : u >= t => staged[u] = Wanted(u)
NothingChanged == live = before
AllReplaced == live = Installed(importing.bundle)

\* The layout at every step.  After a second refusal nothing is said of it.
Layout ==
    LET t == importing.at IN
    /\ importing.step = "stage" =>
         slips = 0 /\ NothingChanged /\ \A u \in Targets : u < t => staged[u] = Wanted(u)
    /\ importing.step = "backup" => slips = 0 /\ ReplacedBelow(t) /\ StagedFrom(t)
    /\ importing.step = "install" => slips = 0 /\ MissingAt(t) /\ StagedFrom(t)
    /\ importing.step = "restore" => slips = 1 /\ MissingAt(t)
    /\ importing.step = "remove" => slips >= 1 /\ (slips = 1 => ReplacedBelow(t + 1))
    /\ importing.step = "return" => slips >= 1 /\ (slips = 1 => MissingAt(t))
    /\ importing.step = "clean" /\ outcome = None => slips >= 1 /\ (slips = 1 => NothingChanged)
    /\ importing.step \notin {"idle", "clean"} => outcome = None
    /\ importing.step = "clean" => outcome \in {None, "imported"}
    /\ outcome = "imported" => AllReplaced

\* How a run that was not killed leaves the tree.
Leaves ==
    importing.step = "idle" /\ outcome \in {None, "rejected", "failed"} /\ slips < 2
        => NothingChanged \/ AllReplaced

\* Only a bundle without a flaw gets further than main.
Checked == importing.step # "idle" \/ outcome = "imported" => Verified(importing.bundle)

KeptAtRest == importing.step = "idle" => TreeIsKept

ImportInv ==
    /\ ImportTypeOK
    /\ importing \in [step : Steps, at : Targets, bundle : Bundles]
    /\ slips <= faults
    /\ Layout /\ Leaves /\ Checked /\ KeptAtRest

-----------------------------------------------------------------------------
(* The candidates. *)

IsWhole(c) == \E b \in Accepted : c.files = Installed([p \in 1..Platforms |-> b])

\* The old candidate on its way: only one of release/ and the backup has it.
Exchange ==
    /\ packing.step \in {"idle", "aside"} => aside = {}
    /\ packing.step \in {"install", "undo"} => destination = {}

\* A job imports one build, and packs and uploads nothing but its import.
JobIsWhole ==
    /\ packing.step = "idle" \/ tree.kind \notin {"local", "job"} => packing = NotPacking
    /\ tree.kind \in {"none", "job"} => OneRun(importing.bundle)
    /\ tree.kind = "job" => \A c \in packing.candidate : IsWhole(c)
    /\ tree.kind = "packed" => \A c \in destination : IsWhole(c)

\* At most one candidate.
Single(held) == held = {} \/ \E c \in Candidates : held = {c}

PackInv ==
    /\ tree \in [kind : {"none", "local", "job", "failed", "packed"}, commit : Commits]
    /\ packing.step \in {"idle", "aside", "install", "undo"}
    /\ packing = [step |-> packing.step, candidate |-> packing.candidate]
    /\ Single(packing.candidate) /\ Single(destination) /\ Single(aside) /\ Single(previous)
    /\ retained \subseteq Candidates
    /\ candidates \subseteq Candidates /\ Cardinality(candidates) <= MaxCandidates
    /\ Exchange /\ JobIsWhole /\ CandidateIsKept /\ CandidateIsWhole

-----------------------------------------------------------------------------
(* The publication. *)

PublishJobs == [kind : {"publish"}, version : Versions, candidate : candidates, tag : Tags,
                todo : SUBSET Packages]
PromoteJobs == [kind : {"promote"}, version : Versions, todo : SUBSET Packages,
                began : [Tags -> [Packages -> Versions \cup {None}]]]
VerifyJobs == [kind : {"verify"}, version : Versions, at : 1..Attempts, pending : SUBSET Packages,
               began : [Tags -> [Packages -> Versions \cup {None}]]]

Matches(v, c, p) == registry.published[v][p] = Content(c, p)

\* The packages of a version are published in order.
InOrder == \A v \in Versions : \A p \in Present(v) : \A q \in Packages : q < p => q \in Present(v)

\* What a publish job does not do any more is published from its candidate, and
\* a promote job has seen everything published.
JobFollowsPlan ==
    /\ job.kind = "publish" =>
         /\ VersionOf[job.candidate.commit] = job.version
         /\ job.todo # {}
         /\ \A p \in Packages \ job.todo : Matches(job.version, job.candidate, p)
         /\ job.tag = "latest" => job.version \in direct
    /\ job.kind = "promote" => job.todo # {} /\ Present(job.version) = Packages

PublicationInv ==
    /\ registry \in [published : [Versions -> [Packages -> Builds \cup Commits \cup {None}]],
                     tags : [Tags -> [Packages -> Versions \cup {None}]]]
    /\ job \in {NoJob} \cup PublishJobs \cup PromoteJobs \cup VerifyJobs
    /\ direct \subseteq Versions
    /\ jobFaults \in 0..MaxRegistryFaults
    /\ InOrder /\ JobFollowsPlan /\ OneRelease /\ LatestIsWhole

IInv == ImportInv /\ PackInv /\ PublicationInv

-----------------------------------------------------------------------------
(* The steps of an import. *)

LEMMA TargetsFacts ==
    /\ 1 \in Targets /\ NativeDirectory \in Targets
    /\ \A t \in Targets : t \in Nat /\ 1 <= t /\ t <= NativeDirectory
    /\ \A t \in Targets : t # 1 => t - 1 \in Targets
    /\ \A t \in Targets : t < NativeDirectory => t + 1 \in Targets
BY PlatformsAssumption DEF Targets, NativeDirectory

\* What a bundle brings is a build, for the declarations too.
LEMMA InstalledType ==
    ASSUME NEW bundle \in Bundles
    PROVE  /\ \A t \in Targets : NewContent(bundle, t) \in Builds
           /\ Installed(bundle) \in [Targets -> Builds]
           /\ \A t \in Targets : Installed(bundle)[t] = NewContent(bundle, t)
BY PlatformsAssumption DEF Bundles, NewContent, Installed, Targets, NativeDirectory

LEMMA ImportFacts ==
    ASSUME ImportInv
    PROVE  /\ live \in [Targets -> Builds \cup {None}] /\ staged \in [Targets -> Builds \cup {None}]
           /\ backup \in [Targets -> Builds \cup {None}] /\ before \in [Targets -> Builds \cup {None}]
           /\ importing.at \in Targets /\ importing.bundle \in Bundles /\ importing.step \in Steps
           /\ \A t \in Targets : Wanted(t) \in Builds
           /\ AllReplaced <=> \A t \in Targets : live[t] = Wanted(t)
           /\ NothingChanged <=> \A t \in Targets : Untouched(t)
<1>1. /\ live \in [Targets -> Builds \cup {None}] /\ staged \in [Targets -> Builds \cup {None}]
      /\ backup \in [Targets -> Builds \cup {None}] /\ before \in [Targets -> Builds \cup {None}]
      /\ importing.at \in Targets /\ importing.bundle \in Bundles /\ importing.step \in Steps
  BY DEF ImportInv, ImportTypeOK
<1>2. /\ \A t \in Targets : Wanted(t) \in Builds
      /\ Installed(importing.bundle) \in [Targets -> Builds]
      /\ \A t \in Targets : Installed(importing.bundle)[t] = Wanted(t)
  BY <1>1, InstalledType DEF Wanted
<1>3. AllReplaced <=> \A t \in Targets : live[t] = Wanted(t)
  BY <1>1, <1>2 DEF AllReplaced
<1>4. NothingChanged <=> \A t \in Targets : Untouched(t)
  BY <1>1 DEF NothingChanged, Untouched
<1> QED
  BY <1>1, <1>2, <1>3, <1>4

LEMMA GotoEffect ==
    ASSUME ImportInv, NEW s \in Steps, NEW t \in Targets, Goto(s, t)
    PROVE  /\ importing' \in [step : Steps, at : Targets, bundle : Bundles]
           /\ importing'.step = s /\ importing'.at = t /\ importing'.bundle = importing.bundle
BY DEF ImportInv, Goto

LEMMA FaultBounds ==
    ASSUME ImportInv, Works \/ Refused \/ (Fault /\ UNCHANGED slips)
    PROVE  slips' \in 0..MaxFaults /\ faults' \in 0..MaxFaults /\ slips' <= faults'
BY BoundsAssumption DEF ImportInv, ImportTypeOK, Works, Refused, Fault

(* A step of a run to another step: only the layout has to be shown.          *)
LEMMA StepOfRun ==
    ASSUME ImportInv, NEW s \in Steps \ {"idle"}, NEW t \in Targets, Goto(s, t),
           importing.step # "idle",
           live' \in [Targets -> Builds \cup {None}],
           staged' \in [Targets -> Builds \cup {None}],
           backup' \in [Targets -> Builds \cup {None}],
           UNCHANGED <<orphans, before, runs>>,
           outcome' \in {outcome, "imported"},
           Works \/ Refused,
           Layout'
    PROVE  ImportInv' /\ importing'.bundle = importing.bundle
<1>1. /\ importing' \in [step : Steps, at : Targets, bundle : Bundles]
      /\ importing'.step = s /\ importing'.at = t /\ importing'.bundle = importing.bundle
  BY GotoEffect
<1>2. slips' \in 0..MaxFaults /\ faults' \in 0..MaxFaults /\ slips' <= faults'
  BY FaultBounds
<1>3. ImportTypeOK'
  BY <1>1, <1>2 DEF ImportInv, ImportTypeOK, Steps
<1>4. Leaves' /\ KeptAtRest'
  BY <1>1 DEF Leaves, KeptAtRest
<1>5. Checked'
  BY <1>1 DEF ImportInv, Checked, Verified
<1> QED
  BY <1>1, <1>2, <1>3, <1>4, <1>5 DEF ImportInv

(* The end of a run. *)
LEMMA EndOfRun ==
    ASSUME ImportInv, importing.step # "idle",
           NEW result \in {"imported", "failed", "killed"}, Finish(result),
           UNCHANGED <<live, before, runs>>, orphans' \in [Targets -> SUBSET Builds],
           Works \/ Refused \/ (Fault /\ UNCHANGED slips),
           result = "imported" => AllReplaced,
           result = "failed" /\ slips' < 2 => NothingChanged \/ AllReplaced,
           slips' < 2 =>
             \/ result = "imported" \/ AllReplaced
             \/ \A t \in Targets : before[t] \in {None, live[t]} \cup orphans'[t]
    PROVE  ImportInv' /\ importing'.bundle = importing.bundle
<1>1. /\ importing' \in [step : Steps, at : Targets, bundle : Bundles]
      /\ importing'.step = "idle" /\ importing'.at = 1 /\ importing'.bundle = importing.bundle
  BY GotoEffect, TargetsFacts DEF Finish, Steps
<1>2. slips' \in 0..MaxFaults /\ faults' \in 0..MaxFaults /\ slips' <= faults'
  BY FaultBounds
<1>3. ImportTypeOK'
  BY <1>1, <1>2 DEF ImportInv, ImportTypeOK, Steps, Finish, Empty
<1>4. AllReplaced' <=> AllReplaced
  BY <1>1 DEF AllReplaced
<1>5. Layout'
  BY <1>1, <1>4 DEF Layout, Finish
<1>8. Leaves'
  BY <1>1, <1>4 DEF Leaves, Finish, NothingChanged, None
<1>6. KeptAtRest'
  BY <1>1, <1>4 DEF KeptAtRest, TreeIsKept, AllReplaced, Finish
<1>7. Checked'
  BY <1>1 DEF ImportInv, Checked, Verified
<1> QED
  BY <1>1, <1>2, <1>3, <1>5, <1>6, <1>7, <1>8 DEF ImportInv

(* A bundle is staged without touching the tree. *)
LEMMA StageInv ==
    ASSUME ImportInv, Stage
    PROVE  ImportInv' /\ importing'.bundle = importing.bundle
<1> DEFINE t == importing.at
<1>1. /\ importing.step = "stage" /\ outcome = None /\ slips = 0
      /\ NothingChanged /\ \A u \in Targets : Untouched(u)
      /\ \A u \in Targets : u < t => staged[u] = Wanted(u)
      /\ UNCHANGED <<live, orphans, before, runs>>
  BY ImportFacts DEF ImportInv, Layout, Stage
<1>2. CASE /\ staged' = [staged EXCEPT ![t] = NewContent(importing.bundle, t)]
           /\ IF t < NativeDirectory THEN Goto("stage", t + 1) ELSE Goto("backup", 1)
           /\ Works
           /\ UNCHANGED <<backup, outcome>>
  <2>1. /\ staged' \in [Targets -> Builds \cup {None}]
        /\ \A u \in Targets : staged'[u] = IF u = t THEN Wanted(t) ELSE staged[u]
    BY <1>2, ImportFacts DEF Wanted
  <2>2. CASE t < NativeDirectory
    <3>1. Goto("stage", t + 1) /\ t + 1 \in Targets
      BY <1>2, <2>2, ImportFacts, TargetsFacts
    <3>2. importing'.step = "stage" /\ importing'.at = t + 1 /\ importing'.bundle = importing.bundle
      BY <3>1, GotoEffect DEF Steps
    <3>3. Layout'
      BY <1>1, <1>2, <2>1, <3>2, ImportFacts, TargetsFacts
         DEF Layout, Wanted, NothingChanged, Untouched, Works, None
    <3> QED
      BY <1>1, <1>2, <2>1, <3>1, <3>3, StepOfRun, ImportFacts DEF Steps
  <2>3. CASE ~(t < NativeDirectory)
    <3>1. Goto("backup", 1) /\ 1 \in Targets /\ t = NativeDirectory
      BY <1>2, <2>3, ImportFacts, TargetsFacts
    <3>2. importing'.step = "backup" /\ importing'.at = 1 /\ importing'.bundle = importing.bundle
      BY <3>1, GotoEffect DEF Steps
    <3>3. ReplacedBelow(importing.at)' /\ StagedFrom(importing.at)'
      BY <1>1, <1>2, <2>1, <3>1, <3>2, ImportFacts, TargetsFacts
         DEF ReplacedBelow, StagedFrom, Untouched, Wanted
    <3>4. Layout'
      BY <1>1, <1>2, <3>2, <3>3 DEF Layout, Works, None
    <3> QED
      BY <1>1, <1>2, <2>1, <3>1, <3>4, StepOfRun, ImportFacts DEF Steps
  <2> QED
    BY <2>2, <2>3
<1>3. CASE (Works \/ Refused) /\ Finish("failed")
  BY <1>1, <1>3, EndOfRun, ImportFacts DEF ImportInv, ImportTypeOK, Untouched
<1> QED
  BY <1>2, <1>3 DEF Stage

(* The rollback goes on below t, or it is over. *)
LEMMA RollBackStep ==
    ASSUME ImportInv, NEW t \in Targets, RollBackBelow(t), importing.step # "idle", outcome = None,
           live' \in [Targets -> Builds \cup {None}], backup' \in [Targets -> Builds \cup {None}],
           UNCHANGED <<staged, orphans, before, outcome, runs>>,
           Works \/ Refused,
           slips' >= 1,
           slips' = 1 => \A u \in Targets :
               IF u < t THEN live'[u] = Wanted(u) /\ backup'[u] = before[u] ELSE live'[u] = before[u]
    PROVE  ImportInv' /\ importing'.bundle = importing.bundle
<1>1. CASE t = 1
  <2>1. Goto("clean", 1) /\ 1 \in Targets
    BY <1>1, TargetsFacts DEF RollBackBelow
  <2>2. importing'.step = "clean" /\ importing'.at = 1 /\ importing'.bundle = importing.bundle
    BY <2>1, GotoEffect DEF Steps
  <2>3. slips' = 1 => NothingChanged'
    <3>1. slips' = 1 => \A u \in Targets : live'[u] = before[u]
      BY <1>1, TargetsFacts
    <3>2. slips' = 1 => live' = before
      BY <3>1, ImportFacts
    <3> QED
      BY <3>2 DEF NothingChanged
  <2>4. Layout'
    BY <2>2, <2>3 DEF Layout, None
  <2> QED
    BY <2>1, <2>4, StepOfRun, ImportFacts DEF Steps
<1>2. CASE t # 1
  <2>1. Goto("remove", t - 1) /\ t - 1 \in Targets
    BY <1>2, TargetsFacts DEF RollBackBelow
  <2>2. importing'.step = "remove" /\ importing'.at = t - 1 /\ importing'.bundle = importing.bundle
    BY <2>1, GotoEffect DEF Steps
  <2>3. importing'.at + 1 = t
    BY <2>2, TargetsFacts
  <2>4. slips' = 1 => ReplacedBelow(importing.at + 1)'
    BY <2>2, <2>3 DEF ReplacedBelow, Replaced, Untouched, Wanted
  <2>5. Layout'
    BY <2>2, <2>4 DEF Layout, None
  <2> QED
    BY <2>1, <2>5, StepOfRun, ImportFacts DEF Steps
<1> QED
  BY <1>1, <1>2

(* The first of the two renames, and the first failure that rolls back.       *)
LEMMA BackUpInv ==
    ASSUME ImportInv, BackUp
    PROVE  ImportInv' /\ importing'.bundle = importing.bundle
<1> DEFINE t == importing.at
<1>1. /\ importing.step = "backup" /\ outcome = None /\ slips = 0
      /\ \A u \in Targets : IF u < t THEN Replaced(u) ELSE Untouched(u)
      /\ \A u \in Targets : u >= t => staged[u] = Wanted(u)
      /\ UNCHANGED <<staged, orphans, before, outcome, runs>>
  BY DEF ImportInv, Layout, BackUp, ReplacedBelow, StagedFrom
<1>2. CASE /\ backup' = [backup EXCEPT ![t] = live[t]]
           /\ live' = [live EXCEPT ![t] = None]
           /\ Goto("install", t)
           /\ Works
  <2>1. /\ backup' \in [Targets -> Builds \cup {None}] /\ live' \in [Targets -> Builds \cup {None}]
        /\ \A u \in Targets : /\ live'[u] = IF u = t THEN None ELSE live[u]
                              /\ backup'[u] = IF u = t THEN live[t] ELSE backup[u]
    BY <1>2, ImportFacts
  <2>2. importing'.step = "install" /\ importing'.at = t /\ importing'.bundle = importing.bundle
    BY <1>2, GotoEffect, ImportFacts DEF Steps
  <2>3. MissingAt(importing.at)' /\ StagedFrom(importing.at)'
    BY <1>1, <2>1, <2>2, ImportFacts, TargetsFacts
       DEF MissingAt, StagedFrom, Replaced, Missing, Untouched, Wanted
  <2>4. Layout'
    BY <1>1, <1>2, <2>2, <2>3 DEF Layout, Works, None
  <2> QED
    BY <1>1, <1>2, <2>1, <2>4, StepOfRun, ImportFacts DEF Steps
<1>3. CASE Refused /\ RollBackBelow(t) /\ UNCHANGED <<live, backup>>
  <2>1. slips' = 1
    BY <1>1, <1>3 DEF Refused
  <2> QED
    BY <1>1, <1>3, <2>1, RollBackStep, ImportFacts DEF Replaced, Untouched
<1> QED
  BY <1>2, <1>3 DEF BackUp

(* The second rename; after the last one everything is replaced.              *)
LEMMA InstallInv ==
    ASSUME ImportInv, Install
    PROVE  ImportInv' /\ importing'.bundle = importing.bundle
<1> DEFINE t == importing.at
<1>1. /\ importing.step = "install" /\ outcome = None /\ slips = 0
      /\ \A u \in Targets : IF u < t THEN Replaced(u) ELSE IF u = t THEN Missing(u) ELSE Untouched(u)
      /\ \A u \in Targets : u >= t => staged[u] = Wanted(u)
      /\ UNCHANGED <<backup, orphans, before, runs>>
  BY DEF ImportInv, Layout, Install, MissingAt, StagedFrom
<1>2. CASE /\ live' = [live EXCEPT ![t] = staged[t]]
           /\ staged' = [staged EXCEPT ![t] = None]
           /\ IF t < NativeDirectory
                THEN Goto("backup", t + 1) /\ UNCHANGED outcome
                ELSE Goto("clean", t) /\ outcome' = "imported"
           /\ Works
  <2>1. /\ live' \in [Targets -> Builds \cup {None}] /\ staged' \in [Targets -> Builds \cup {None}]
        /\ \A u \in Targets : live'[u] = IF u = t THEN Wanted(t) ELSE live[u]
        /\ \A u \in Targets : u > t => staged'[u] = Wanted(u)
    BY <1>1, <1>2, ImportFacts, TargetsFacts
  <2>2. CASE t < NativeDirectory
    <3>1. Goto("backup", t + 1) /\ t + 1 \in Targets /\ outcome' = outcome
      BY <1>2, <2>2, ImportFacts, TargetsFacts
    <3>2. importing'.step = "backup" /\ importing'.at = t + 1 /\ importing'.bundle = importing.bundle
      BY <3>1, GotoEffect DEF Steps
    <3>3. ReplacedBelow(importing.at)' /\ StagedFrom(importing.at)'
      BY <1>1, <2>1, <3>2, ImportFacts, TargetsFacts
         DEF ReplacedBelow, StagedFrom, Replaced, Missing, Untouched, Wanted
    <3>4. Layout'
      BY <1>1, <1>2, <3>1, <3>2, <3>3 DEF Layout, Works, None
    <3> QED
      BY <1>1, <1>2, <2>1, <3>1, <3>4, StepOfRun, ImportFacts DEF Steps
  <2>3. CASE ~(t < NativeDirectory)
    <3>1. Goto("clean", t) /\ t = NativeDirectory /\ outcome' = "imported"
      BY <1>2, <2>3, ImportFacts, TargetsFacts
    <3>2. importing'.step = "clean" /\ importing'.at = t /\ importing'.bundle = importing.bundle
      BY <3>1, GotoEffect, ImportFacts DEF Steps
    <3>3. \A u \in Targets : live'[u] = Wanted(u)
      BY <1>1, <2>1, <3>1, TargetsFacts DEF Replaced
    <3>4. AllReplaced'
      BY <2>1, <3>2, <3>3, InstalledType, ImportFacts DEF AllReplaced, Wanted
    <3>5. Layout'
      BY <3>1, <3>2, <3>4 DEF Layout, None
    <3> QED
      BY <1>1, <1>2, <2>1, <3>1, <3>5, StepOfRun, ImportFacts DEF Steps
  <2> QED
    BY <2>2, <2>3
<1>3. CASE Refused /\ Goto("restore", t) /\ UNCHANGED <<live, staged, outcome>>
  <2>1. importing'.step = "restore" /\ importing'.at = t /\ importing'.bundle = importing.bundle
    BY <1>3, GotoEffect, ImportFacts DEF Steps
  <2>2. MissingAt(importing.at)'
    BY <1>1, <1>3, <2>1 DEF MissingAt, Replaced, Missing, Untouched, Wanted
  <2>3. Layout'
    BY <1>1, <1>3, <2>1, <2>2 DEF Layout, Refused, None
  <2> QED
    BY <1>1, <1>3, <2>3, StepOfRun, ImportFacts DEF Steps
<1> QED
  BY <1>2, <1>3 DEF Install

(* The target between its renames goes back, or a second refusal ends all      *)
(* claims on the tree.                                                        *)
LEMMA RestoreInv ==
    ASSUME ImportInv, Restore
    PROVE  ImportInv' /\ importing'.bundle = importing.bundle
<1> DEFINE t == importing.at
<1>1. /\ importing.step = "restore" /\ outcome = None /\ slips = 1 /\ RollBackBelow(t)
      /\ \A u \in Targets : IF u < t THEN Replaced(u) ELSE IF u = t THEN Missing(u) ELSE Untouched(u)
      /\ UNCHANGED <<staged, orphans, before, outcome, runs>>
  BY DEF ImportInv, Layout, Restore, MissingAt
<1>2. CASE /\ live' = [live EXCEPT ![t] = backup[t]]
           /\ backup' = [backup EXCEPT ![t] = None]
           /\ Works
  <2>1. /\ live' \in [Targets -> Builds \cup {None}] /\ backup' \in [Targets -> Builds \cup {None}]
        /\ \A u \in Targets : /\ live'[u] = IF u = t THEN backup[t] ELSE live[u]
                              /\ backup'[u] = IF u = t THEN None ELSE backup[u]
    BY <1>2, ImportFacts
  <2>2. \A u \in Targets :
          IF u < t THEN live'[u] = Wanted(u) /\ backup'[u] = before[u] ELSE live'[u] = before[u]
    BY <1>1, <2>1, ImportFacts, TargetsFacts DEF Replaced, Missing, Untouched
  <2>3. slips' = 1
    BY <1>1, <1>2 DEF Works
  <2> QED
    BY <1>1, <1>2, <2>1, <2>2, <2>3, RollBackStep, ImportFacts
<1>3. CASE Refused /\ UNCHANGED <<live, backup>>
  <2>1. slips' = 2
    BY <1>1, <1>3 DEF Refused
  <2> QED
    BY <1>1, <1>3, <2>1, RollBackStep, ImportFacts
<1> QED
  BY <1>2, <1>3 DEF Restore

(* A refusal during the rollback is a second one. *)
LEMMA RollBackEnds ==
    ASSUME ImportInv, importing.step \in {"remove", "return"}, Refused, Goto("clean", 1),
           UNCHANGED <<live, staged, backup, orphans, before, outcome, runs>>
    PROVE  ImportInv' /\ importing'.bundle = importing.bundle
<1>1. slips' >= 2 /\ slips' # 1 /\ slips' >= 1 /\ outcome = None
  BY BoundsAssumption DEF ImportInv, ImportTypeOK, Layout, Refused
<1>2. importing'.step = "clean" /\ importing'.at = 1 /\ importing'.bundle = importing.bundle
  BY GotoEffect, TargetsFacts DEF Steps
<1>3. Layout'
  BY <1>1, <1>2 DEF Layout, None
<1> QED
  BY <1>1, <1>3, StepOfRun, ImportFacts, TargetsFacts DEF Steps

LEMMA RemoveReplacedInv ==
    ASSUME ImportInv, RemoveReplaced
    PROVE  ImportInv' /\ importing'.bundle = importing.bundle
<1> DEFINE t == importing.at
<1>1. /\ importing.step = "remove" /\ outcome = None /\ slips >= 1
      /\ slips = 1 => \A u \in Targets : IF u < t + 1 THEN Replaced(u) ELSE Untouched(u)
      /\ UNCHANGED <<staged, backup, orphans, before, outcome, runs>>
  BY DEF ImportInv, Layout, RemoveReplaced, ReplacedBelow
<1>2. CASE live' = [live EXCEPT ![t] = None] /\ Goto("return", t) /\ Works
  <2>1. /\ live' \in [Targets -> Builds \cup {None}]
        /\ \A u \in Targets : live'[u] = IF u = t THEN None ELSE live[u]
    BY <1>2, ImportFacts
  <2>2. importing'.step = "return" /\ importing'.at = t /\ importing'.bundle = importing.bundle
    BY <1>2, GotoEffect, ImportFacts DEF Steps
  <2>3. slips = 1 => MissingAt(importing.at)'
    BY <1>1, <2>1, <2>2, ImportFacts, TargetsFacts
       DEF MissingAt, Replaced, Missing, Untouched, Wanted
  <2>4. Layout'
    BY <1>1, <1>2, <2>2, <2>3 DEF Layout, Works, None
  <2> QED
    BY <1>1, <1>2, <2>1, <2>4, StepOfRun, ImportFacts DEF Steps
<1>3. CASE Refused /\ Goto("clean", 1) /\ UNCHANGED live
  BY <1>1, <1>3, RollBackEnds
<1> QED
  BY <1>2, <1>3 DEF RemoveReplaced

LEMMA ReturnBackupInv ==
    ASSUME ImportInv, ReturnBackup
    PROVE  ImportInv' /\ importing'.bundle = importing.bundle
<1> DEFINE t == importing.at
<1>1. /\ importing.step = "return" /\ outcome = None /\ slips >= 1
      /\ slips = 1 => \A u \in Targets :
           IF u < t THEN Replaced(u) ELSE IF u = t THEN Missing(u) ELSE Untouched(u)
      /\ UNCHANGED <<staged, orphans, before, outcome, runs>>
  BY DEF ImportInv, Layout, ReturnBackup, MissingAt
<1>2. CASE /\ live' = [live EXCEPT ![t] = backup[t]]
           /\ backup' = [backup EXCEPT ![t] = None]
           /\ RollBackBelow(t)
           /\ Works
  <2>1. /\ live' \in [Targets -> Builds \cup {None}] /\ backup' \in [Targets -> Builds \cup {None}]
        /\ \A u \in Targets : /\ live'[u] = IF u = t THEN backup[t] ELSE live[u]
                              /\ backup'[u] = IF u = t THEN None ELSE backup[u]
    BY <1>2, ImportFacts
  <2>2. slips = 1 => \A u \in Targets :
          IF u < t THEN live'[u] = Wanted(u) /\ backup'[u] = before[u] ELSE live'[u] = before[u]
    BY <1>1, <2>1, ImportFacts, TargetsFacts DEF Replaced, Missing, Untouched
  <2>3. slips' = slips
    BY <1>2 DEF Works
  <2> QED
    BY <1>1, <1>2, <2>1, <2>2, <2>3, RollBackStep, ImportFacts
<1>3. CASE Refused /\ Goto("clean", 1) /\ UNCHANGED <<live, backup>>
  BY <1>1, <1>3, RollBackEnds
<1> QED
  BY <1>2, <1>3 DEF ReturnBackup

LEMMA CleanInv ==
    ASSUME ImportInv, Clean
    PROVE  ImportInv' /\ importing'.bundle = importing.bundle
<1>1. /\ importing.step = "clean" /\ outcome \in {None, "imported"}
      /\ outcome = None => slips >= 1 /\ (slips = 1 => NothingChanged)
      /\ outcome = "imported" => AllReplaced
      /\ UNCHANGED <<live, before, runs>>
  BY DEF ImportInv, Layout, Clean
<1>2. slips \in Nat /\ orphans \in [Targets -> SUBSET Builds]
  BY BoundsAssumption DEF ImportInv, ImportTypeOK
<1>3. NothingChanged => \A t \in Targets : before[t] = live[t]
  BY DEF NothingChanged
<1>4. CASE /\ Finish(IF outcome = "imported" THEN "imported" ELSE "failed")
           /\ Works
           /\ UNCHANGED orphans
  <2>1. CASE outcome = "imported"
    BY <1>1, <1>2, <1>4, <2>1, EndOfRun DEF Works
  <2>2. CASE outcome = None
    <3>1. Finish("failed") /\ slips' = slips
      BY <1>4, <2>2 DEF None, Works
    <3> QED
      BY <1>1, <1>2, <1>3, <1>4, <2>2, <3>1, EndOfRun
  <2> QED
    BY <1>1, <2>1, <2>2
<1>5. CASE Refused /\ Abandon /\ Finish("failed")
  <2>1. orphans' \in [Targets -> SUBSET Builds]
    BY <1>2, <1>5, ImportFacts DEF Abandon
  <2>2. slips' = slips + 1
    BY <1>5 DEF Refused
  <2>3. AllReplaced \/ slips' >= 2
    BY <1>1, <1>2, <2>2
  <2> QED
    BY <1>1, <1>2, <1>5, <2>1, <2>2, <2>3, EndOfRun
<1> QED
  BY <1>4, <1>5 DEF Clean

(* During a run every content is in the tree or among the backups.            *)
LEMMA RunKeepsTree ==
    ASSUME ImportInv, importing.step # "idle", slips < 2
    PROVE  AllReplaced \/ \A t \in Targets : before[t] \in {live[t], backup[t]}
<1>1. importing.at \in Nat /\ (\A u \in Targets : u \in Nat) /\ slips \in Nat /\ importing.step \in Steps
  BY BoundsAssumption, ImportFacts, TargetsFacts DEF ImportInv, ImportTypeOK
<1>2. CASE importing.step = "stage" \/ (importing.step = "clean" /\ outcome = None)
  BY <1>1, <1>2, ImportFacts DEF ImportInv, Layout, Untouched
<1>3. CASE importing.step \in {"backup", "remove"}
  BY <1>1, <1>3 DEF ImportInv, Layout, ReplacedBelow, Replaced, Untouched
<1>4. CASE importing.step \in {"install", "restore", "return"}
  BY <1>1, <1>4 DEF ImportInv, Layout, MissingAt, Replaced, Missing, Untouched
<1>5. CASE importing.step = "clean" /\ outcome = "imported"
  BY <1>5 DEF ImportInv, Layout
<1> QED
  BY <1>1, <1>2, <1>3, <1>4, <1>5 DEF ImportInv, Layout, Steps

LEMMA KillImportInv ==
    ASSUME ImportInv, KillImport
    PROVE  ImportInv' /\ importing'.bundle = importing.bundle
<1>1. /\ importing.step # "idle" /\ Fault /\ Abandon /\ Finish("killed")
      /\ UNCHANGED <<live, before, slips, runs>>
  BY DEF KillImport
<1>2. /\ orphans' \in [Targets -> SUBSET Builds]
      /\ \A t \in Targets : backup[t] \in orphans'[t] \cup {None}
  BY <1>1, ImportFacts DEF ImportInv, ImportTypeOK, Abandon
<1>3. slips' < 2 => AllReplaced \/ \A t \in Targets : before[t] \in {None, live[t]} \cup orphans'[t]
  BY <1>1, <1>2, RunKeepsTree
<1> QED
  BY <1>1, <1>2, <1>3, EndOfRun

(* A run begins with a bundle that was verified, or it ends there.            *)
LEMMA StartImportInv ==
    ASSUME ImportInv, NEW bundle \in Bundles, StartImport(bundle)
    PROVE  ImportInv' /\ importing'.bundle = bundle
<1>1. /\ importing.step = "idle" /\ runs < MaxRuns /\ runs' = runs + 1
      /\ before' = live /\ slips' = 0
      /\ UNCHANGED <<live, staged, backup, orphans, faults>>
  BY DEF StartImport
<1>2. /\ importing' \in [step : Steps, at : Targets, bundle : Bundles]
      /\ importing'.at = 1 /\ importing'.bundle = bundle
      /\ importing'.step = IF Verified(bundle) THEN "stage" ELSE "idle"
      /\ outcome' = IF Verified(bundle) THEN None ELSE "rejected"
  BY TargetsFacts DEF StartImport, Steps
<1>3. ImportTypeOK'
  BY <1>1, <1>2, BoundsAssumption DEF ImportInv, ImportTypeOK, Steps
<1>4. NothingChanged'
  BY <1>1 DEF NothingChanged
<1>5. \A u \in Targets : ~(u < importing'.at)
  BY <1>2, TargetsFacts
<1>6. Layout'
  BY <1>1, <1>2, <1>4, <1>5 DEF Layout, None
<1>7. Leaves' /\ Checked'
  BY <1>2, <1>4 DEF Leaves, Checked, None, Verified
<1>8. KeptAtRest'
  BY <1>1 DEF KeptAtRest, TreeIsKept
<1>9. slips' <= faults'
  BY <1>1, BoundsAssumption DEF ImportInv, ImportTypeOK
<1> QED
  BY <1>2, <1>3, <1>6, <1>7, <1>8, <1>9 DEF ImportInv

(* A checkout is a tree at rest. *)
CheckedOut ==
    /\ live = AsCommitted /\ before = AsCommitted /\ staged = Empty /\ backup = Empty
    /\ importing = Idle /\ orphans = NoOrphans
    /\ slips = 0 /\ outcome = None /\ runs = 0 /\ faults = 0

LEMMA CheckoutIsAtRest == CheckedOut => ImportInv
<1> SUFFICES ASSUME CheckedOut PROVE ImportInv
  OBVIOUS
<1> USE DEF CheckedOut
<1>1. /\ importing \in [step : Steps, at : Targets, bundle : Bundles]
      /\ importing.step = "idle" /\ importing.at = 1
  BY TargetsFacts, BuildsAssumption DEF Idle, Steps, Bundles
<1>2. ImportTypeOK
  BY <1>1, BuildsAssumption, BoundsAssumption
     DEF ImportTypeOK, AsCommitted, Empty, NoOrphans, Steps, None
<1>3. Layout /\ Leaves /\ Checked /\ KeptAtRest /\ slips <= faults
  BY <1>1 DEF Layout, Leaves, Checked, KeptAtRest, TreeIsKept, NothingChanged, None
<1> QED
  BY <1>1, <1>2, <1>3 DEF ImportInv

LEMMA FreshTreeInv ==
    ASSUME FreshTree
    PROVE  ImportInv'
<1>1. CheckedOut'
  BY DEF FreshTree, CheckedOut
<1> QED
  BY <1>1, CheckoutIsAtRest, PTL

(* Other steps cost an import nothing but a fault. *)
LEMMA TreeAlone ==
    ASSUME ImportInv, UNCHANGED treeVars, UNCHANGED faults \/ Fault
    PROVE  ImportInv'
<1>1. faults' \in 0..MaxFaults /\ slips' <= faults'
  BY BoundsAssumption DEF ImportInv, ImportTypeOK, treeVars, Fault
<1>2. ImportTypeOK' /\ importing' \in [step : Steps, at : Targets, bundle : Bundles]
  BY <1>1 DEF ImportInv, ImportTypeOK, treeVars
<1>3. Leaves' /\ Checked' /\ KeptAtRest'
  BY DEF ImportInv, Leaves, Checked, KeptAtRest, TreeIsKept, NothingChanged, AllReplaced, treeVars
<1>4. Layout'
  BY DEF ImportInv, Layout, NothingChanged, AllReplaced, ReplacedBelow, MissingAt, StagedFrom,
         Replaced, Missing, Untouched, Wanted, treeVars
<1> QED
  BY <1>1, <1>2, <1>3, <1>4 DEF ImportInv

-----------------------------------------------------------------------------
(* The steps of a tree. *)

LEMMA FreshFacts ==
    /\ NoTree.kind = "none" /\ NoTree \in [kind : {"none", "local", "job", "failed", "packed"}, commit : Commits]
    /\ NotPacking.step = "idle" /\ NotPacking.candidate = {}
    /\ NotPacking = [step |-> NotPacking.step, candidate |-> NotPacking.candidate]
    /\ Single({}) /\ OneRun(Idle.bundle)
<1>1. AnyCommit \in Commits
  BY CandidatesAssumption DEF AnyCommit
<1>2. OneRun(Idle.bundle)
  BY BuildsAssumption DEF OneRun, Idle
<1> QED
  BY <1>1, <1>2 DEF NoTree, NotPacking, Single

(* An import that goes on with its bundle, and the publication, leave the      *)
(* candidates alone.                                                          *)
LEMMA PackAlone ==
    ASSUME PackInv, UNCHANGED packVars, importing'.bundle = importing.bundle
    PROVE  PackInv'
<1>1. JobIsWhole'
  BY DEF PackInv, JobIsWhole, OneRun, packVars
<1>2. Exchange' /\ CandidateIsKept' /\ CandidateIsWhole'
  BY DEF PackInv, Exchange, CandidateIsKept, CandidateIsWhole, packVars
<1> QED
  BY <1>1, <1>2 DEF PackInv, packVars

LEMMA CheckoutInv ==
    ASSUME PackInv, NEW kind \in {"local", "job"}, NEW c \in Commits, Checkout(kind, c)
    PROVE  PackInv'
<1>1. /\ tree.kind = "none" /\ tree' = [kind |-> kind, commit |-> c]
      /\ UNCHANGED <<importing, packing, destination, aside, retained, previous, candidates>>
  BY DEF Checkout, importVars, treeVars
<1>2. packing = NotPacking /\ OneRun(importing.bundle)
  BY <1>1 DEF PackInv, JobIsWhole
<1>3. JobIsWhole'
  BY <1>1, <1>2, FreshFacts DEF JobIsWhole, OneRun
<1>4. Exchange' /\ CandidateIsKept' /\ CandidateIsWhole'
  BY <1>1 DEF PackInv, Exchange, CandidateIsKept, CandidateIsWhole
<1> QED
  BY <1>1, <1>3, <1>4 DEF PackInv

(* A tree that is gone leaves nothing behind but the artifacts. *)
LEMMA FreshPackInv ==
    ASSUME PackInv, FreshPack, tree' = NoTree, importing' = Idle,
           candidates' \subseteq Candidates, Cardinality(candidates') <= MaxCandidates,
           \A c \in candidates' : IsWhole(c)
    PROVE  PackInv'
<1>1. packing' = NotPacking /\ destination' = {} /\ aside' = {} /\ retained' = {} /\ previous' = {}
  BY DEF FreshPack
<1>2. JobIsWhole' /\ Exchange' /\ CandidateIsKept'
  BY <1>1, FreshFacts DEF JobIsWhole, Exchange, CandidateIsKept, OneRun
<1>3. CandidateIsWhole'
  BY DEF CandidateIsWhole, IsWhole
<1> QED
  BY <1>1, <1>2, <1>3, FreshFacts DEF PackInv

LEMMA DiscardInv ==
    ASSUME PackInv, Discard
    PROVE  PackInv'
<1>1. tree' = NoTree /\ importing' = Idle /\ FreshPack /\ candidates' = candidates
  BY DEF Discard, FreshTree
<1>2. candidates \subseteq Candidates /\ Cardinality(candidates) <= MaxCandidates
      /\ \A c \in candidates : IsWhole(c)
  BY DEF PackInv, CandidateIsWhole, IsWhole
<1> QED
  BY <1>1, <1>2, FreshPackInv

(* What a job uploads is what it packed. *)
LEMMA UploadInv ==
    ASSUME PackInv, Upload
    PROVE  PackInv'
<1>1. /\ tree' = NoTree /\ importing' = Idle /\ FreshPack /\ candidates' = candidates \cup destination
      /\ Cardinality(candidates') <= MaxCandidates
  BY DEF Upload, FreshTree
<1>2. candidates' \subseteq Candidates
  BY <1>1 DEF PackInv, Single
<1>3. \A c \in candidates' : IsWhole(c)
  BY <1>1 DEF PackInv, JobIsWhole, CandidateIsWhole, IsWhole, Upload
<1> QED
  BY <1>1, <1>2, <1>3, FreshPackInv

LEMMA ImportIntoInv ==
    ASSUME PackInv, NEW bundle \in Bundles, ImportInto(bundle), importing'.bundle = bundle
    PROVE  PackInv'
<1>1. UNCHANGED packVars
  BY DEF ImportInto
<1>4. tree.kind = "local" \/ (tree.kind = "job" /\ OneRun(bundle))
  BY DEF ImportInto
<1>2. JobIsWhole'
  BY <1>1, <1>4 DEF PackInv, JobIsWhole, OneRun, packVars
<1>3. Exchange' /\ CandidateIsKept' /\ CandidateIsWhole'
  BY <1>1 DEF PackInv, Exchange, CandidateIsKept, CandidateIsWhole, packVars
<1> QED
  BY <1>1, <1>2, <1>3 DEF PackInv, packVars

(* After its import the tree of a job is the installation of one build.       *)
LEMMA JobTreeIsWhole ==
    ASSUME ImportInv, PackInv, tree.kind = "job", outcome = "imported"
    PROVE  \E b \in Accepted : live = Installed([p \in 1..Platforms |-> b])
<1>1. /\ live = Installed(importing.bundle) /\ Verified(importing.bundle)
      /\ importing.bundle \in Bundles
  BY DEF ImportInv, Layout, Checked, AllReplaced
<1>2. PICK b \in Builds : \A p \in 1..Platforms : importing.bundle[p] = b
  BY DEF PackInv, JobIsWhole, OneRun
<1>3. b \in Accepted
  BY <1>1, <1>2, PlatformsAssumption DEF Verified
<1>4. importing.bundle = [p \in 1..Platforms |-> b]
  BY <1>1, <1>2 DEF Bundles
<1> QED
  BY <1>1, <1>3, <1>4

LEMMA PackStepInv ==
    ASSUME ImportInv, PackInv, Pack
    PROVE  PackInv'
<1>1. /\ packing.step = "idle"
      /\ tree.kind \in {"local", "job"} /\ (tree.kind = "job" => outcome = "imported")
      /\ previous' = destination
      /\ UNCHANGED <<importing, destination, aside, retained, candidates>>
  BY DEF Pack, AtRest, treeVars
<1>2. Single(previous') /\ CandidateIsKept' /\ CandidateIsWhole'
  BY <1>1 DEF PackInv, CandidateIsKept, CandidateIsWhole
<1>3. CASE /\ Whole(live)
           /\ packing' = [step |-> IF destination = {} THEN "install" ELSE "aside",
                          candidate |-> {[commit |-> tree.commit, files |-> live]}]
           /\ UNCHANGED tree
  <2> DEFINE c == [commit |-> tree.commit, files |-> live]
  <2>1. c \in Candidates
    <3>1. live \in [Targets -> Builds]
      BY <1>3, ImportFacts DEF Whole
    <3> QED
      BY <3>1 DEF PackInv, Candidates
  <2>2. /\ packing'.step = IF destination = {} THEN "install" ELSE "aside"
        /\ packing'.candidate = {c} /\ packing' = [step |-> packing'.step, candidate |-> packing'.candidate]
    BY <1>3
  <2>3. tree.kind = "job" => IsWhole(c)
    BY <1>1, JobTreeIsWhole DEF IsWhole
  <2>4. JobIsWhole'
    BY <1>1, <1>3, <2>2, <2>3 DEF PackInv, JobIsWhole, OneRun
  <2>5. Exchange'
    BY <1>1, <2>2 DEF PackInv, Exchange
  <2>6. Single(packing'.candidate)
    BY <2>1, <2>2 DEF Single
  <2> QED
    BY <1>1, <1>2, <1>3, <2>2, <2>4, <2>5, <2>6 DEF PackInv
<1>4. CASE UNCHANGED <<tree, packing>>
  <2>1. JobIsWhole' /\ Exchange'
    BY <1>1, <1>4 DEF PackInv, JobIsWhole, OneRun, Exchange
  <2> QED
    BY <1>1, <1>2, <1>4, <2>1 DEF PackInv
<1>5. CASE /\ tree' = IF tree.kind = "job" THEN [tree EXCEPT !.kind = "failed"] ELSE tree
           /\ UNCHANGED packing
  <2>1. /\ tree' \in [kind : {"none", "local", "job", "failed", "packed"}, commit : Commits]
        /\ tree'.kind = IF tree.kind = "job" THEN "failed" ELSE tree.kind
    BY <1>5 DEF PackInv
  <2>2. JobIsWhole' /\ Exchange'
    BY <1>1, <1>5, <2>1 DEF PackInv, JobIsWhole, OneRun, Exchange
  <2> QED
    BY <1>1, <1>2, <1>5, <2>1, <2>2 DEF PackInv
<1> QED
  BY <1>3, <1>4, <1>5 DEF Pack

(* A run that ends without a new candidate in release/. *)
LEMMA FailPackInv ==
    ASSUME PackInv, packing.step # "idle", NEW kept \in SUBSET Candidates, FailPack(kept),
           Single(destination'), Single(previous'), UNCHANGED <<importing, candidates>>,
           previous' \subseteq destination' \cup retained \cup kept
    PROVE  PackInv'
<1>1. /\ packing' = NotPacking /\ aside' = {} /\ retained' = retained \cup kept
      /\ tree' \in [kind : {"none", "local", "job", "failed", "packed"}, commit : Commits]
      /\ tree'.kind = IF tree.kind = "job" THEN "failed" ELSE tree.kind
  BY DEF FailPack, EndPack, PackInv
<1>2. tree'.kind \in {"local", "failed"}
  BY <1>1, FreshFacts DEF PackInv, JobIsWhole
<1>3. JobIsWhole' /\ Exchange' /\ CandidateIsKept' /\ CandidateIsWhole'
  BY <1>1, <1>2, FreshFacts DEF PackInv, JobIsWhole, Exchange, CandidateIsKept, CandidateIsWhole
<1> QED
  BY <1>1, <1>3, FreshFacts DEF PackInv

LEMMA PutAsideInv ==
    ASSUME PackInv, PutAside
    PROVE  PackInv'
<1>1. packing.step = "aside" /\ aside = {} /\ UNCHANGED <<importing, previous, candidates>>
  BY DEF PackInv, Exchange, PutAside, treeVars
<1>2. CASE /\ aside' = destination /\ destination' = {}
           /\ packing' = [packing EXCEPT !.step = "install"]
           /\ UNCHANGED <<tree, retained>>
  <2>1. /\ packing'.step = "install" /\ packing'.candidate = packing.candidate
        /\ packing' = [step |-> packing'.step, candidate |-> packing'.candidate]
    BY <1>2 DEF PackInv
  <2>2. tree.kind \in {"local", "job"}
    BY <1>1, FreshFacts DEF PackInv, JobIsWhole
  <2>3. JobIsWhole' /\ Exchange'
    BY <1>1, <1>2, <2>1, <2>2 DEF PackInv, JobIsWhole, OneRun, Exchange
  <2>4. CandidateIsKept' /\ CandidateIsWhole'
    BY <1>1, <1>2 DEF PackInv, CandidateIsKept, CandidateIsWhole
  <2> QED
    BY <1>1, <1>2, <2>1, <2>3, <2>4, FreshFacts DEF PackInv
<1>3. CASE FailPack({}) /\ UNCHANGED destination
  BY <1>1, <1>3, FailPackInv DEF PackInv, CandidateIsKept
<1> QED
  BY <1>2, <1>3 DEF PutAside

LEMMA InstallCandidateInv ==
    ASSUME PackInv, InstallCandidate
    PROVE  PackInv'
<1>1. /\ packing.step = "install" /\ destination = {} /\ UNCHANGED <<importing, candidates>>
      /\ tree.kind \in {"local", "job"} /\ aside \subseteq Candidates
  BY FreshFacts DEF PackInv, Exchange, JobIsWhole, Single, InstallCandidate, treeVars
<1>2. CASE /\ destination' = packing.candidate /\ previous' = {}
           /\ EndPack({})
           /\ tree' = IF tree.kind = "job" THEN [tree EXCEPT !.kind = "packed"] ELSE tree
  <2>1. /\ packing' = NotPacking /\ aside' = {} /\ retained' = retained
        /\ tree' \in [kind : {"none", "local", "job", "failed", "packed"}, commit : Commits]
        /\ tree'.kind = IF tree.kind = "job" THEN "packed" ELSE "local"
    BY <1>1, <1>2 DEF EndPack, PackInv
  <2>2. JobIsWhole' /\ Exchange' /\ CandidateIsKept' /\ CandidateIsWhole'
    BY <1>1, <1>2, <2>1, FreshFacts
       DEF PackInv, JobIsWhole, Exchange, CandidateIsKept, CandidateIsWhole
  <2> QED
    BY <1>1, <1>2, <2>1, <2>2, FreshFacts DEF PackInv
<1>3. CASE destination' = packing.candidate /\ previous' = {} /\ FailPack(aside)
  BY <1>1, <1>3, FailPackInv, FreshFacts DEF PackInv
<1>4. CASE aside = {} /\ FailPack({}) /\ UNCHANGED <<destination, previous>>
  BY <1>1, <1>4, FailPackInv DEF PackInv, CandidateIsKept
<1>5. CASE /\ packing' = [packing EXCEPT !.step = "undo"]
           /\ UNCHANGED <<tree, aside, retained, destination, previous>>
  <2>1. /\ packing'.step = "undo" /\ packing'.candidate = packing.candidate
        /\ packing' = [step |-> packing'.step, candidate |-> packing'.candidate]
    BY <1>5 DEF PackInv
  <2>2. JobIsWhole' /\ Exchange'
    BY <1>1, <1>5, <2>1 DEF PackInv, JobIsWhole, OneRun, Exchange
  <2>3. CandidateIsKept' /\ CandidateIsWhole'
    BY <1>1, <1>5 DEF PackInv, CandidateIsKept, CandidateIsWhole
  <2> QED
    BY <1>1, <1>5, <2>1, <2>2, <2>3 DEF PackInv
<1> QED
  BY <1>2, <1>3, <1>4, <1>5 DEF InstallCandidate

(* The backup goes back to release/, or it stays where it is. *)
LEMMA UndoAsideInv ==
    ASSUME PackInv, UndoAside
    PROVE  PackInv'
<1>1. /\ packing.step = "undo" /\ destination = {} /\ UNCHANGED <<importing, previous, candidates>>
      /\ aside \subseteq Candidates
  BY DEF PackInv, Exchange, Single, UndoAside, treeVars
<1>2. CASE destination' = aside /\ FailPack({})
  BY <1>1, <1>2, FailPackInv DEF PackInv, CandidateIsKept
<1>3. CASE FailPack(aside) /\ UNCHANGED destination
  BY <1>1, <1>3, FailPackInv DEF PackInv, CandidateIsKept
<1> QED
  BY <1>2, <1>3 DEF UndoAside

LEMMA KillPackInv ==
    ASSUME PackInv, KillPack
    PROVE  PackInv'
<1>1. /\ packing.step # "idle" /\ FailPack(aside) /\ aside \subseteq Candidates
      /\ UNCHANGED <<importing, destination, previous, candidates>>
  BY DEF PackInv, Single, KillPack, treeVars
<1> QED
  BY <1>1, FailPackInv DEF PackInv, CandidateIsKept

-----------------------------------------------------------------------------
(* The steps of the publication. *)

LEMMA PackagesFacts ==
    /\ \A p \in Packages : p \in Nat
    /\ Native \in Packages /\ Server \in Packages /\ Packages # {}
    /\ \A p \in Packages : \A q \in Requires(p) : q \in Packages /\ q < p
BY PlatformsAssumption DEF Packages, Native, Server, Requires

\* A job has a first package as long as it has one.
LEMMA UpcomingIsFirst ==
    ASSUME job.todo \subseteq Packages, job.todo # {}
    PROVE  Upcoming \in job.todo /\ \A q \in job.todo : Upcoming <= q
<1>1. job.todo \subseteq Nat
  BY PackagesFacts
<1> DEFINE less == {pair \in Nat \X Nat : pair[1] < pair[2]}
<1>2. IsWellFoundedOn(less, Nat)
  BY NatLessThanWellFounded, Zenon DEF OpToRel
<1>3. \E p \in job.todo : \A q \in job.todo : p <= q
  <2>1. PICK p \in job.todo : \A q \in job.todo : ~ (<<q, p>> \in less)
    <3> HIDE DEF less
    <3> QED
      BY <1>1, <1>2, WFMin
  <2>2. ASSUME NEW q \in job.todo PROVE p <= q
    <3>1. <<q, p>> \notin less
      BY <2>1
    <3>2. q \in Nat /\ p \in Nat
      BY <1>1
    <3>3. ~(q < p)
      BY <3>1, <3>2
    <3> QED
      BY <3>2, <3>3
  <2> QED
    BY <2>2
<1> QED
  BY <1>3 DEF Upcoming

LEMMA ContentType ==
    ASSUME NEW c \in Candidates, NEW p \in Packages
    PROVE  Content(c, p) \in Builds \cup Commits /\ Content(c, p) # None
<1>1. c.commit \in Commits /\ c.files \in [Targets -> Builds]
  BY DEF Candidates
<1>2. p \in 2..Native => p - 1 \in Targets
  BY PlatformsAssumption DEF Native, Targets, Packages
<1> QED
  BY <1>1, <1>2, RegistryAssumption DEF Content

LEMMA JobFacts ==
    ASSUME PublicationInv
    PROVE  /\ job.kind = "publish" => job \in PublishJobs
           /\ job.kind = "promote" => job \in PromoteJobs
           /\ job.kind = "verify" => job \in VerifyJobs
           /\ job.kind = "none" => job = NoJob
           /\ job.kind \in {"none", "publish", "promote", "verify"}
BY DEF PublicationInv, PublishJobs, PromoteJobs, VerifyJobs, NoJob

(* More candidates do not disturb the registry or its job. *)
LEMMA RegistryAlone ==
    ASSUME PublicationInv, UNCHANGED registryVars, candidates \subseteq candidates'
    PROVE  PublicationInv'
<1>1. UNCHANGED <<registry, job, direct, jobFaults>>
  BY DEF registryVars
<1>2. (job \in {NoJob} \cup PublishJobs \cup PromoteJobs \cup VerifyJobs)'
  BY <1>1 DEF PublicationInv, PublishJobs, PromoteJobs, VerifyJobs
<1>3. \A v \in Versions : Present(v)' = Present(v)
  BY <1>1 DEF Present
<1>4. InOrder' /\ LatestIsWhole'
  BY <1>1 DEF PublicationInv, InOrder, LatestIsWhole, Present
<1>5. OneRelease'
  BY <1>1 DEF PublicationInv, OneRelease, Present
<1>6. JobFollowsPlan'
  BY <1>1 DEF PublicationInv, JobFollowsPlan, Matches, Present
<1> QED
  BY <1>1, <1>2, <1>4, <1>5, <1>6 DEF PublicationInv

(* A step that leaves the registry as it is: only its job is to be shown.     *)
LEMMA JobStep ==
    ASSUME PublicationInv, UNCHANGED <<registry, candidates>>,
           job' \in {NoJob} \cup PublishJobs \cup PromoteJobs \cup VerifyJobs,
           direct \subseteq direct', direct' \subseteq Versions,
           Answers \/ RegistryFault,
           JobFollowsPlan'
    PROVE  PublicationInv'
<1>1. jobFaults' \in 0..MaxRegistryFaults
  BY RegistryAssumption DEF PublicationInv, Answers, RegistryFault
<1>2. InOrder' /\ LatestIsWhole'
  BY DEF PublicationInv, InOrder, LatestIsWhole, Present
<1>3. OneRelease'
  BY DEF PublicationInv, OneRelease, Present
<1>4. (job \in {NoJob} \cup PublishJobs \cup PromoteJobs \cup VerifyJobs)'
  BY DEF PublishJobs, PromoteJobs, VerifyJobs
<1> QED
  BY <1>1, <1>2, <1>3, <1>4 DEF PublicationInv

LEMMA NoJobFollowsPlan ==
    ASSUME job' = NoJob
    PROVE  JobFollowsPlan'
BY DEF JobFollowsPlan, NoJob

LEMMA StartPublishInv ==
    ASSUME PublicationInv, candidates \subseteq Candidates,
           NEW c \in candidates, NEW tag \in Tags, StartPublish(c, tag)
    PROVE  PublicationInv'
<1> DEFINE v == VersionOf[c.commit]
<1>1. v \in Versions
  BY VersionsAssumption DEF Candidates
<1>2. PICK known \in SUBSET Present(v) :
        /\ Answers \/ RegistryFault
        /\ \A p \in known : registry.published[v][p] = Content(c, p)
        /\ known # Packages
        /\ job' = [kind |-> "publish", version |-> v, candidate |-> c, tag |-> tag,
                   todo |-> Packages \ known]
  BY DEF StartPublish
<1>3. /\ direct' = IF tag = "latest" THEN direct \cup {v} ELSE direct
      /\ UNCHANGED <<registry, candidates>>
  BY DEF StartPublish, candidateVars, packVars
<1>4. direct \subseteq direct' /\ direct' \subseteq Versions
  BY <1>1, <1>3 DEF PublicationInv
<1>5. job' \in PublishJobs
  BY <1>1, <1>2 DEF PublishJobs
<1>6. known \subseteq Packages
  BY DEF Present
<1>7. JobFollowsPlan'
  <2>1. /\ job'.kind = "publish" /\ job'.version = v /\ job'.candidate = c /\ job'.tag = tag
        /\ job'.todo = Packages \ known
    BY <1>2
  <2>2. VersionOf[job'.candidate.commit] = job'.version /\ job'.todo # {}
    BY <1>2, <1>6, <2>1
  <2>3. \A p \in Packages \ job'.todo : Matches(job.version, job.candidate, p)'
    BY <1>2, <1>3, <2>1 DEF Matches
  <2>4. job'.tag = "latest" => job'.version \in direct'
    BY <1>3, <2>1
  <2> QED
    BY <2>1, <2>2, <2>3, <2>4 DEF JobFollowsPlan
<1> QED
  BY <1>2, <1>3, <1>4, <1>5, <1>7, JobStep

(* What npm publish does to the registry. *)
LEMMA AcceptEffect ==
    ASSUME PublicationInv, candidates \subseteq Candidates, job \in PublishJobs,
           NEW p \in Packages, Accept(p)
    PROVE  /\ registry' \in [published : [Versions -> [Packages -> Builds \cup Commits \cup {None}]],
                             tags : [Tags -> [Packages -> Versions \cup {None}]]]
           /\ \A v \in Versions : \A q \in Packages :
                registry'.published[v][q] = IF v = job.version /\ q = p
                                              THEN Content(job.candidate, p)
                                              ELSE registry.published[v][q]
           /\ \A q \in Packages :
                registry'.tags["latest"][q] = IF job.tag = "latest" /\ q = p
                                                THEN job.version
                                                ELSE registry.tags["latest"][q]
<1> DEFINE Contents == Builds \cup Commits \cup {None}
<1>1. /\ job.version \in Versions /\ job.tag \in Tags /\ job.candidate \in Candidates
      /\ "latest" \in Tags
  BY DEF PublishJobs, Tags
<1>2. Content(job.candidate, p) \in Contents
  BY <1>1, ContentType
<1>3. /\ registry.published \in [Versions -> [Packages -> Contents]]
      /\ registry.tags \in [Tags -> [Packages -> Versions \cup {None}]]
      /\ registry = [published |-> registry.published, tags |-> registry.tags]
  BY DEF PublicationInv
<1> DEFINE published == [registry.published EXCEPT ![job.version][p] = Content(job.candidate, p)]
           tags == [registry.tags EXCEPT ![job.tag][p] = job.version]
<1>4. registry' = [published |-> published, tags |-> tags]
  BY <1>3 DEF Accept
<1>5. /\ published \in [Versions -> [Packages -> Contents]]
      /\ \A v \in Versions : \A q \in Packages :
           published[v][q] = IF v = job.version /\ q = p THEN Content(job.candidate, p)
                                                         ELSE registry.published[v][q]
  BY <1>1, <1>2, <1>3
<1>6. /\ tags \in [Tags -> [Packages -> Versions \cup {None}]]
      /\ \A q \in Packages :
           tags["latest"][q] = IF job.tag = "latest" /\ q = p THEN job.version
                                                              ELSE registry.tags["latest"][q]
  BY <1>1, <1>3
<1> HIDE DEF published, tags
<1> QED
  BY <1>4, <1>5, <1>6

(* The first package that a job still has to publish extends an unbroken       *)
(* sequence, and all of it matches the candidate of the job.                  *)
LEMMA AcceptInv ==
    ASSUME PublicationInv, candidates \subseteq Candidates, job.kind = "publish",
           Accept(Upcoming), UNCHANGED <<candidates, direct>>
    PROVE  /\ registry' \in [published : [Versions -> [Packages -> Builds \cup Commits \cup {None}]],
                             tags : [Tags -> [Packages -> Versions \cup {None}]]]
           /\ InOrder' /\ OneRelease' /\ LatestIsWhole'
           /\ \A q \in (Packages \ job.todo) \cup {Upcoming} :
                registry'.published[job.version][q] = Content(job.candidate, q)
<1>1. job \in PublishJobs /\ job.version \in Versions /\ job.candidate \in candidates
  BY JobFacts DEF PublishJobs
<1>2. /\ VersionOf[job.candidate.commit] = job.version
      /\ \A q \in Packages \ job.todo : registry.published[job.version][q] = Content(job.candidate, q)
      /\ job.tag = "latest" => job.version \in direct
  BY DEF PublicationInv, JobFollowsPlan, Matches
<1>3. PICK p \in Packages : p = Upcoming /\ p \in job.todo /\ \A q \in job.todo : p <= q
  BY <1>1, UpcomingIsFirst DEF PublicationInv, JobFollowsPlan, PublishJobs
<1>4. registry.published[job.version][p] = None
  BY <1>3 DEF Accept
<1>5. /\ registry' \in [published : [Versions -> [Packages -> Builds \cup Commits \cup {None}]],
                        tags : [Tags -> [Packages -> Versions \cup {None}]]]
      /\ \A v \in Versions : \A q \in Packages :
           registry'.published[v][q] = IF v = job.version /\ q = p
                                         THEN Content(job.candidate, p)
                                         ELSE registry.published[v][q]
      /\ \A q \in Packages :
           registry'.tags["latest"][q] = IF job.tag = "latest" /\ q = p
                                           THEN job.version
                                           ELSE registry.tags["latest"][q]
  BY <1>1, <1>3, AcceptEffect
<1>6. \A q \in Packages : Content(job.candidate, q) # None
  BY <1>1, ContentType
<1>7. \A v \in Versions : Present(v)' = IF v = job.version THEN Present(v) \cup {p} ELSE Present(v)
  BY <1>5, <1>6 DEF Present
<1>8. \A q \in Packages : q < p => q \in Packages \ job.todo
  BY <1>3, PackagesFacts
<1>9. InOrder'
  <2>1. \A q \in Packages : q < p => q \in Present(job.version)
    BY <1>2, <1>6, <1>8 DEF Present
  <2> QED
    BY <1>1, <1>3, <1>7, <2>1 DEF PublicationInv, InOrder
<1>10. \A q \in Present(job.version) : q < p
  <2>1. p \notin Present(job.version)
    BY <1>4 DEF Present
  <2>2. \A q \in Present(job.version) : q \in Packages /\ q # p /\ ~(p < q)
    BY <1>1, <1>3, <2>1 DEF PublicationInv, InOrder, Present
  <2> QED
    BY <2>2, PackagesFacts
<1>11. OneRelease'
  <2> SUFFICES ASSUME NEW v \in Versions, Present(v)' # {}
               PROVE  \E c \in candidates :
                        /\ VersionOf[c.commit] = v
                        /\ \A q \in Present(v)' : registry'.published[v][q] = Content(c, q)
    BY DEF OneRelease
  <2>1. CASE v = job.version
    <3>1. \A q \in Present(v)' : q \in Packages /\ (q = p \/ (q < p /\ q \in Packages \ job.todo))
      BY <1>3, <1>7, <1>8, <1>10, <2>1 DEF Present
    <3>2. \A q \in Present(v)' : registry'.published[v][q] = Content(job.candidate, q)
      BY <1>1, <1>2, <1>5, <2>1, <3>1
    <3> QED
      BY <1>1, <1>2, <2>1, <3>2
  <2>2. CASE v # job.version
    <3>1. Present(v)' = Present(v) /\ \A q \in Present(v) : q \in Packages
      BY <1>7, <2>2 DEF Present
    <3>2. PICK c \in candidates :
            /\ VersionOf[c.commit] = v
            /\ \A q \in Present(v) : registry.published[v][q] = Content(c, q)
      BY <3>1 DEF PublicationInv, OneRelease
    <3> QED
      BY <1>5, <2>2, <3>1, <3>2
  <2> QED
    BY <2>1, <2>2
<1>12. LatestIsWhole'
  <2> SUFFICES ASSUME NEW q \in Packages, registry'.tags["latest"][q] # None,
                      registry'.tags["latest"][q] \notin direct
               PROVE  \A v \in Versions : v = registry'.tags["latest"][q] => Present(v)' = Packages
    <3>1. \A q \in Packages : registry'.tags["latest"][q] \in Versions \cup {None}
      BY <1>5 DEF Tags
    <3> QED
      BY <3>1 DEF LatestIsWhole, Present
  <2>1. registry'.tags["latest"][q] = registry.tags["latest"][q]
    BY <1>2, <1>5
  <2>2. \A v \in Versions : v = registry.tags["latest"][q] => Present(v) = Packages
    BY <2>1 DEF PublicationInv, LatestIsWhole
  <2> QED
    BY <1>7, <2>1, <2>2
<1>13. \A q \in (Packages \ job.todo) \cup {p} :
         registry'.published[job.version][q] = Content(job.candidate, q)
  BY <1>1, <1>2, <1>5
<1> QED
  BY <1>3, <1>5, <1>9, <1>11, <1>12, <1>13

LEMMA PublishPackageInv ==
    ASSUME PublicationInv, candidates \subseteq Candidates, PublishPackage
    PROVE  PublicationInv'
<1>1. job.kind = "publish" /\ UNCHANGED <<candidates, direct>>
  BY DEF PublishPackage, candidateVars, packVars
<1>2. job \in PublishJobs
  BY <1>1, JobFacts
<1>3. CASE Accept(Upcoming) /\ Published(Upcoming) /\ Answers
  <2>1. jobFaults' \in 0..MaxRegistryFaults
    BY <1>3 DEF PublicationInv, Answers
  <2>2. Upcoming \in job.todo
    BY <1>1, <1>2, UpcomingIsFirst DEF PublicationInv, JobFollowsPlan, PublishJobs
  <2>3. CASE job.todo = {Upcoming}
    <3>1. job' = NoJob
      BY <1>3, <2>3 DEF Published
    <3> QED
      BY <1>1, <1>3, <2>1, <3>1, AcceptInv, NoJobFollowsPlan DEF PublicationInv
  <2>4. CASE job.todo # {Upcoming}
    <3>1. job' = [job EXCEPT !.todo = @ \ {Upcoming}]
      BY <1>3, <2>4 DEF Published
    <3>2. /\ job'.kind = "publish" /\ job'.version = job.version /\ job'.candidate = job.candidate
          /\ job'.tag = job.tag /\ job'.todo = job.todo \ {Upcoming}
      BY <1>2, <3>1 DEF PublishJobs
    <3>3. job' \in PublishJobs'
      BY <1>1, <1>2, <3>1 DEF PublishJobs
    <3>4. job'.todo # {}
      BY <2>2, <2>4, <3>2
    <3>5. \A p \in Packages \ job'.todo : Matches(job.version, job.candidate, p)'
      BY <1>1, <1>3, <3>2, AcceptInv DEF Matches
    <3>6. JobFollowsPlan'
      BY <1>1, <3>2, <3>4, <3>5 DEF PublicationInv, JobFollowsPlan
    <3> QED
      BY <1>1, <1>3, <2>1, <3>3, <3>6, AcceptInv DEF PublicationInv
  <2> QED
    BY <2>3, <2>4
<1>4. CASE Accept(Upcoming) /\ job' = NoJob /\ RegistryFault
  <2>1. jobFaults' \in 0..MaxRegistryFaults
    BY <1>4, RegistryAssumption DEF PublicationInv, RegistryFault
  <2> QED
    BY <1>1, <1>4, <2>1, AcceptInv, NoJobFollowsPlan DEF PublicationInv
<1>5. CASE job' = NoJob /\ (Answers \/ RegistryFault) /\ UNCHANGED registry
  BY <1>1, <1>5, JobStep, NoJobFollowsPlan DEF PublicationInv
<1> QED
  BY <1>3, <1>4, <1>5 DEF PublishPackage

LEMMA StartPromoteInv ==
    ASSUME PublicationInv, NEW v \in Versions, StartPromote(v)
    PROVE  PublicationInv'
<1>1. UNCHANGED <<registry, candidates, direct>> /\ Promotable(v)
  BY DEF StartPromote, candidateVars, packVars
<1>2. Present(v) = Packages
  BY <1>1 DEF Promotable, Present
<1>3. registry.tags \in [Tags -> [Packages -> Versions \cup {None}]]
  BY DEF PublicationInv
<1> SUFFICES ASSUME NEW todo \in SUBSET Packages, Answers \/ RegistryFault,
                    job' = IF todo = {} THEN VerifyJob(v, registry.tags)
                           ELSE [kind |-> "promote", version |-> v, todo |-> todo,
                                 began |-> registry.tags]
             PROVE  PublicationInv'
  BY DEF StartPromote
<1>4. CASE todo = {}
  <2>1. job' \in VerifyJobs /\ job'.kind = "verify"
    BY <1>3, <1>4, VersionsAssumption DEF VerifyJob, VerifyJobs
  <2>2. JobFollowsPlan'
    BY <2>1 DEF JobFollowsPlan
  <2> QED
    BY <1>1, <2>1, <2>2, JobStep DEF PublicationInv
<1>5. CASE todo # {}
  <2>1. /\ job' \in PromoteJobs /\ job'.kind = "promote" /\ job'.version = v /\ job'.todo # {}
    BY <1>3, <1>5 DEF PromoteJobs
  <2>2. Present(job.version)' = Packages
    BY <1>1, <1>2, <2>1 DEF Present
  <2>3. JobFollowsPlan'
    BY <2>1, <2>2 DEF JobFollowsPlan
  <2> QED
    BY <1>1, <2>1, <2>3, JobStep DEF PublicationInv
<1> QED
  BY <1>4, <1>5

(* npm dist-tag add moves latest to a version that is complete. *)
LEMMA RetagInv ==
    ASSUME PublicationInv, job.kind = "promote", Retag(Upcoming), UNCHANGED <<candidates, direct>>
    PROVE  /\ registry' \in [published : [Versions -> [Packages -> Builds \cup Commits \cup {None}]],
                             tags : [Tags -> [Packages -> Versions \cup {None}]]]
           /\ registry'.published = registry.published
           /\ InOrder' /\ OneRelease' /\ LatestIsWhole'
<1>1. job \in PromoteJobs /\ job.version \in Versions
  BY JobFacts DEF PromoteJobs
<1>2. Present(job.version) = Packages
  BY DEF PublicationInv, JobFollowsPlan
<1>3. PICK p \in Packages : p = Upcoming
  BY <1>1, UpcomingIsFirst DEF PublicationInv, JobFollowsPlan, PromoteJobs
<1>4. /\ registry.tags \in [Tags -> [Packages -> Versions \cup {None}]]
      /\ registry = [published |-> registry.published, tags |-> registry.tags]
      /\ "latest" \in Tags
  BY DEF PublicationInv, Tags
<1> DEFINE tags == [registry.tags EXCEPT !["latest"][p] = job.version]
<1>5. registry' = [published |-> registry.published, tags |-> tags]
  BY <1>3, <1>4 DEF Retag
<1>6. /\ tags \in [Tags -> [Packages -> Versions \cup {None}]]
      /\ \A q \in Packages :
           tags["latest"][q] = IF q = p THEN job.version ELSE registry.tags["latest"][q]
  BY <1>1, <1>4
<1> HIDE DEF tags
<1>7. /\ registry' \in [published : [Versions -> [Packages -> Builds \cup Commits \cup {None}]],
                        tags : [Tags -> [Packages -> Versions \cup {None}]]]
      /\ registry'.published = registry.published /\ registry'.tags = tags
  BY <1>5, <1>6 DEF PublicationInv
<1>8. InOrder' /\ OneRelease'
  BY <1>7 DEF PublicationInv, InOrder, OneRelease, Present
<1>9. LatestIsWhole'
  <2>1. \A v \in Versions : Present(v)' = Present(v)
    BY <1>7 DEF Present
  <2> SUFFICES ASSUME NEW q \in Packages, registry'.tags["latest"][q] # None,
                      registry'.tags["latest"][q] \notin direct
               PROVE  \A v \in Versions : v = registry'.tags["latest"][q] => Present(v)' = Packages
    <3>1. \A q \in Packages : registry'.tags["latest"][q] \in Versions \cup {None}
      BY <1>7 DEF Tags
    <3> QED
      BY <3>1 DEF LatestIsWhole, Present
  <2>2. CASE q = p
    BY <1>1, <1>2, <1>6, <1>7, <2>1, <2>2
  <2>3. CASE q # p
    BY <1>6, <1>7, <2>1, <2>3 DEF PublicationInv, LatestIsWhole
  <2> QED
    BY <2>2, <2>3
<1> QED
  BY <1>7, <1>8, <1>9

LEMMA PromotePackageInv ==
    ASSUME PublicationInv, PromotePackage
    PROVE  PublicationInv'
<1>1. job.kind = "promote" /\ UNCHANGED <<candidates, direct>>
  BY DEF PromotePackage, candidateVars, packVars
<1>2. job \in PromoteJobs
  BY <1>1, JobFacts
<1>3. CASE Retag(Upcoming) /\ Promoted(Upcoming) /\ Answers
  <2>1. jobFaults' \in 0..MaxRegistryFaults
    BY <1>3 DEF PublicationInv, Answers
  <2>2. CASE job.todo = {Upcoming}
    <3>1. job' = VerifyJob(job.version, job.began)
      BY <1>3, <2>2 DEF Promoted
    <3>2. job' \in VerifyJobs' /\ job'.kind = "verify"
      BY <1>2, <3>1, VersionsAssumption DEF VerifyJob, VerifyJobs, PromoteJobs
    <3>3. JobFollowsPlan'
      BY <3>2 DEF JobFollowsPlan
    <3> QED
      BY <1>1, <1>3, <2>1, <3>2, <3>3, RetagInv DEF PublicationInv
  <2>3. CASE job.todo # {Upcoming}
    <3>1. job' = [job EXCEPT !.todo = @ \ {Upcoming}]
      BY <1>3, <2>3 DEF Promoted
    <3>2. /\ job' \in PromoteJobs'
          /\ job'.kind = "promote" /\ job'.version = job.version /\ job'.todo = job.todo \ {Upcoming}
      BY <1>2, <3>1 DEF PromoteJobs
    <3>3. job'.todo # {}
      BY <1>1, <2>3, <3>2 DEF PublicationInv, JobFollowsPlan
    <3>4. Present(job.version)' = Packages
      BY <1>1, <1>3, <3>2, RetagInv DEF PublicationInv, JobFollowsPlan, Present
    <3>5. JobFollowsPlan'
      BY <3>2, <3>3, <3>4 DEF JobFollowsPlan
    <3> QED
      BY <1>1, <1>3, <2>1, <3>2, <3>5, RetagInv DEF PublicationInv
  <2> QED
    BY <2>2, <2>3
<1>4. CASE Retag(Upcoming) /\ job' = NoJob /\ RegistryFault
  <2>1. jobFaults' \in 0..MaxRegistryFaults
    BY <1>4, RegistryAssumption DEF PublicationInv, RegistryFault
  <2> QED
    BY <1>1, <1>4, <2>1, RetagInv, NoJobFollowsPlan DEF PublicationInv
<1>5. CASE job' = NoJob /\ RegistryFault /\ UNCHANGED registry
  BY <1>1, <1>5, JobStep, NoJobFollowsPlan DEF PublicationInv
<1> QED
  BY <1>3, <1>4, <1>5 DEF PromotePackage

LEMMA VerifyTagsInv ==
    ASSUME PublicationInv, VerifyTags
    PROVE  PublicationInv'
<1>1. job.kind = "verify" /\ UNCHANGED <<registry, candidates, direct>>
  BY DEF VerifyTags, candidateVars, packVars
<1>2. job \in VerifyJobs
  BY <1>1, JobFacts
<1>3. PICK left \in SUBSET job.pending :
        /\ Answers \/ RegistryFault
        /\ \/ job' = NoJob
           \/ job.at # Attempts /\ job' = [job EXCEPT !.at = job.at + 1, !.pending = left]
  BY DEF VerifyTags
<1>4. CASE job' = NoJob
  BY <1>1, <1>3, <1>4, JobStep, NoJobFollowsPlan DEF PublicationInv
<1>5. CASE job' = [job EXCEPT !.at = job.at + 1, !.pending = left] /\ job.at # Attempts
  <2>0. job.at + 1 \in 1..Attempts /\ left \subseteq Packages
    BY <1>2, <1>5, VersionsAssumption DEF VerifyJobs
  <2>1. job' \in VerifyJobs /\ job'.kind = "verify"
    BY <1>2, <1>5, <2>0 DEF VerifyJobs
  <2>2. JobFollowsPlan'
    BY <2>1 DEF JobFollowsPlan
  <2> QED
    BY <1>1, <1>3, <2>1, <2>2, JobStep DEF PublicationInv
<1> QED
  BY <1>3, <1>4, <1>5

-----------------------------------------------------------------------------
(* The process. *)

(* The initial state satisfies the inductive invariant. *)
LEMMA InitIInv == ProcessInit => IInv
<1> SUFFICES ASSUME ProcessInit PROVE IInv
  OBVIOUS
<1>1. ImportInv
  BY CheckoutIsAtRest DEF CheckedOut, ProcessInit, CandidateInit, ImportInit
<1>2. PackInv
  <2>1. /\ packing = NotPacking /\ tree = NoTree /\ importing = Idle
        /\ destination = {} /\ aside = {} /\ retained = {} /\ previous = {} /\ candidates = {}
    BY DEF ProcessInit, CandidateInit, ImportInit
  <2>2. Cardinality(candidates) <= MaxCandidates
    BY <2>1, FS_EmptySet, CandidatesAssumption
  <2>3. Exchange /\ JobIsWhole /\ CandidateIsKept /\ CandidateIsWhole
    BY <2>1, FreshFacts DEF Exchange, JobIsWhole, CandidateIsKept, CandidateIsWhole
  <2> QED
    BY <2>1, <2>2, <2>3, FreshFacts DEF PackInv
<1>3. PublicationInv
  <2>1. registry = NothingPublished /\ job = NoJob /\ direct = {} /\ jobFaults = 0
    BY DEF ProcessInit, PublicationInit
  <2>2. registry \in [published : [Versions -> [Packages -> Builds \cup Commits \cup {None}]],
                      tags : [Tags -> [Packages -> Versions \cup {None}]]]
    BY <2>1 DEF NothingPublished
  <2>3. \A v \in Versions : Present(v) = {}
    BY <2>1 DEF NothingPublished, Present
  <2>4. \A p \in Packages : registry.tags["latest"][p] = None
    BY <2>1 DEF NothingPublished, Tags
  <2>5. InOrder /\ OneRelease /\ LatestIsWhole
    BY <2>3, <2>4 DEF InOrder, OneRelease, LatestIsWhole
  <2>6. JobFollowsPlan
    BY <2>1 DEF JobFollowsPlan, NoJob
  <2> QED
    BY <2>1, <2>2, <2>5, <2>6, RegistryAssumption DEF PublicationInv
<1> QED
  BY <1>1, <1>2, <1>3 DEF IInv

(* A step of an import leaves the candidates and the registry alone.          *)
LEMMA ImportingStep ==
    ASSUME IInv, ImportInv' /\ importing'.bundle = importing.bundle,
           UNCHANGED <<packVars, registryVars>>
    PROVE  IInv'
<1>1. PackInv'
  BY PackAlone DEF IInv
<1>2. PublicationInv'
  BY RegistryAlone DEF IInv, packVars
<1> QED
  BY <1>1, <1>2 DEF IInv

LEMMA ImportingInv ==
    ASSUME IInv,
           \/ Importing(Stage) \/ Importing(BackUp) \/ Importing(Install) \/ Importing(Restore)
           \/ Importing(RemoveReplaced) \/ Importing(ReturnBackup) \/ Importing(Clean)
           \/ Importing(KillImport)
    PROVE  IInv'
<1>1. UNCHANGED <<packVars, registryVars>> /\ ImportInv
  BY DEF Importing, IInv
<1>2. \/ Stage \/ BackUp \/ Install \/ Restore \/ RemoveReplaced \/ ReturnBackup \/ Clean
      \/ KillImport
  BY DEF Importing
<1>3. ImportInv' /\ importing'.bundle = importing.bundle
  BY <1>1, <1>2, StageInv, BackUpInv, InstallInv, RestoreInv, RemoveReplacedInv,
     ReturnBackupInv, CleanInv, KillImportInv
<1> QED
  BY <1>1, <1>3, ImportingStep

(* A step of packing costs the tree nothing but a fault. *)
LEMMA PackingInv ==
    ASSUME IInv,
           \/ Making(Pack) \/ Making(PutAside) \/ Making(InstallCandidate)
           \/ Making(UndoAside) \/ Making(KillPack)
    PROVE  IInv'
<1>1. /\ UNCHANGED <<registryVars, treeVars, candidates>>
      /\ UNCHANGED faults \/ Fault
      /\ \/ Pack \/ PutAside \/ InstallCandidate \/ UndoAside \/ KillPack
  BY DEF Making, Pack, PutAside, InstallCandidate, UndoAside, KillPack
<1>2. ImportInv'
  BY <1>1, TreeAlone DEF IInv
<1>3. PackInv'
  BY <1>1, PackStepInv, PutAsideInv, InstallCandidateInv, UndoAsideInv, KillPackInv DEF IInv
<1>4. PublicationInv'
  BY <1>1, RegistryAlone DEF IInv
<1> QED
  BY <1>2, <1>3, <1>4 DEF IInv

LEMMA CheckoutStep ==
    ASSUME IInv, NEW kind \in {"local", "job"}, NEW c \in Commits, Making(Checkout(kind, c))
    PROVE  IInv'
<1>1. UNCHANGED <<importVars, registryVars, candidates>> /\ Checkout(kind, c)
  BY DEF Making, Checkout
<1>2. ImportInv'
  BY <1>1, TreeAlone DEF IInv, importVars
<1>3. PackInv' /\ PublicationInv'
  BY <1>1, CheckoutInv, RegistryAlone DEF IInv
<1> QED
  BY <1>2, <1>3 DEF IInv

LEMMA ImportIntoStep ==
    ASSUME IInv, NEW bundle \in Bundles, Making(ImportInto(bundle))
    PROVE  IInv'
<1>1. StartImport(bundle) /\ ImportInto(bundle) /\ UNCHANGED <<registryVars, candidates>>
  BY DEF Making, ImportInto, packVars
<1>2. ImportInv' /\ importing'.bundle = bundle
  BY <1>1, StartImportInv DEF IInv
<1>3. PackInv' /\ PublicationInv'
  BY <1>1, <1>2, ImportIntoInv, RegistryAlone DEF IInv
<1> QED
  BY <1>2, <1>3 DEF IInv

(* The end of a tree, with or without an upload. *)
LEMMA EndOfTree ==
    ASSUME IInv, Making(Upload) \/ Making(Discard)
    PROVE  IInv'
<1>1. FreshTree /\ UNCHANGED registryVars /\ candidates \subseteq candidates'
  BY DEF Making, Upload, Discard
<1>2. PackInv'
  BY UploadInv, DiscardInv DEF IInv, Making
<1>3. ImportInv' /\ PublicationInv'
  BY <1>1, FreshTreeInv, RegistryAlone DEF IInv
<1> QED
  BY <1>2, <1>3 DEF IInv

LEMMA PublicationNextInv ==
    ASSUME IInv, PublicationNext
    PROVE  IInv'
<1>1. UNCHANGED candidateVars
  BY DEF PublicationNext, PublicationStep, StartPublish, StartPromote, PublishPackage,
         PromotePackage, VerifyTags
<1>2. ImportInv'
  BY <1>1, TreeAlone DEF IInv, candidateVars, importVars
<1>3. PackInv'
  BY <1>1, PackAlone DEF IInv, candidateVars, importVars, treeVars
<1>4. PublicationInv /\ candidates \subseteq Candidates
  BY DEF IInv, PackInv
<1>5. PublicationInv'
  BY <1>4, StartPublishInv, StartPromoteInv, PublishPackageInv, PromotePackageInv, VerifyTagsInv
     DEF PublicationNext, PublicationStep
<1> QED
  BY <1>2, <1>3, <1>5 DEF IInv

(* Every step keeps the inductive invariant. *)
LEMMA NextIInv == IInv /\ [ProcessNext]_processVars => IInv'
<1> SUFFICES ASSUME IInv, [ProcessNext]_processVars PROVE IInv'
  OBVIOUS
<1>1. CASE Making(Checkout("local", AnyCommit))
  BY <1>1, CheckoutStep, CandidatesAssumption DEF AnyCommit
<1>2. ASSUME NEW c \in Commits, Making(Checkout("job", c)) PROVE IInv'
  BY <1>2, CheckoutStep
<1>3. ASSUME NEW bundle \in Bundles, Making(ImportInto(bundle)) PROVE IInv'
  BY <1>3, ImportIntoStep
<1>4. CASE \/ Importing(Stage) \/ Importing(BackUp) \/ Importing(Install) \/ Importing(Restore)
           \/ Importing(RemoveReplaced) \/ Importing(ReturnBackup) \/ Importing(Clean)
           \/ Importing(KillImport)
  BY <1>4, ImportingInv
<1>5. CASE \/ Making(Pack) \/ Making(PutAside) \/ Making(InstallCandidate)
           \/ Making(UndoAside) \/ Making(KillPack)
  BY <1>5, PackingInv
<1>6. CASE Making(Upload) \/ Making(Discard)
  BY <1>6, EndOfTree
<1>7. CASE PublicationNext
  BY <1>7, PublicationNextInv
<1>8. CASE UNCHANGED processVars
  <2>1. UNCHANGED <<packVars, registryVars>> /\ UNCHANGED treeVars /\ UNCHANGED faults
    BY <1>8 DEF processVars, candidateVars, importVars
  <2>2. ImportInv' /\ importing'.bundle = importing.bundle
    BY <2>1, TreeAlone DEF IInv, treeVars
  <2> QED
    BY <2>1, <2>2, ImportingStep
<1> QED
  BY <1>1, <1>2, <1>3, <1>4, <1>5, <1>6, <1>7, <1>8 DEF ProcessNext

(* The inductive invariant: trees, candidates and registry at any point of a   *)
(* process that may fail or be cut off anywhere.                              *)
THEOREM Inductive == ProcessSpec => []IInv
BY InitIInv, NextIInv, PTL DEF ProcessSpec

(* Every variable keeps its type: only whole sets of files become candidates,  *)
(* and release/ and its backup hold at most one each.                         *)
THEOREM TypeCorrect == ProcessSpec => []ProcessTypeOK
<1>1. IInv => ProcessTypeOK
  <2> SUFFICES ASSUME IInv PROVE ProcessTypeOK
    OBVIOUS
  <2>1. ASSUME NEW held, Single(held) PROVE held \subseteq Candidates /\ Cardinality(held) <= 1
    <3>1. CASE held = {}
      BY <3>1, FS_EmptySet
    <3>2. CASE \E c \in Candidates : held = {c}
      <4>1. PICK c \in Candidates : held = {c}
        BY <3>2
      <4>2. Cardinality(held) = 1
        BY <4>1, FS_Singleton, Zenon
      <4> QED
        BY <4>1, <4>2
    <3> QED
      BY <2>1, <3>1, <3>2 DEF Single
  <2>2. CandidateTypeOK
    BY <2>1 DEF IInv, ImportInv, PackInv, CandidateTypeOK
  <2>3. PublicationTypeOK
    BY JobFacts DEF IInv, PublicationInv, PublicationTypeOK, PublishJobs, PromoteJobs, VerifyJobs
  <2> QED
    BY <2>2, <2>3 DEF ProcessTypeOK
<1> QED
  BY <1>1, Inductive, PTL

(* A run of import-binaries.js to which the file system refused at most one    *)
(* operation leaves the tree as it was or entirely replaced.                  *)
THEOREM ImportsAreAtomic == ProcessSpec => []ImportIsAtomic
<1>1. IInv => ImportIsAtomic
  BY DEF IInv, ImportInv, Layout, Leaves, ImportIsAtomic, Settled, NothingChanged, AllReplaced
<1> QED
  BY <1>1, Inductive, PTL

(* Imports and packings that fail or are killed leave the old content          *)
(* somewhere.                                                                 *)
THEOREM OldContentIsKept == ProcessSpec => []NothingIsLost
<1>1. IInv => NothingIsLost
  <2> SUFFICES ASSUME IInv PROVE NothingIsLost
    OBVIOUS
  <2>1. CASE importing.step = "idle"
    BY <2>1 DEF IInv, ImportInv, KeptAtRest, PackInv, NothingIsLost
  <2>2. CASE importing.step # "idle"
    <3>1. TreeIsKept
      BY <2>2, RunKeepsTree DEF IInv, TreeIsKept, AllReplaced
    <3> QED
      BY <3>1 DEF IInv, PackInv, NothingIsLost
  <2> QED
    BY <2>1, <2>2
<1> QED
  BY <1>1, Inductive, PTL

(* An uploaded candidate holds one accepted build in every native package and  *)
(* in the declarations.                                                       *)
THEOREM CandidatesAreWhole == ProcessSpec => []CandidateIsWhole
<1>1. IInv => CandidateIsWhole
  BY DEF IInv, PackInv
<1> QED
  BY <1>1, Inductive, PTL

(* No package is in the registry before its exact-version dependencies.       *)
THEOREM DependenciesComeFirst == ProcessSpec => []DependenciesFirst
<1>1. IInv => DependenciesFirst
  BY PackagesFacts DEF IInv, PublicationInv, InOrder, DependenciesFirst, Present
<1> QED
  BY <1>1, Inductive, PTL

(* What is published of a version is part of one candidate, whichever jobs of  *)
(* several candidates ran in turn, failed and were repeated.                  *)
THEOREM ReleasesAreOne == ProcessSpec => []OneRelease
<1>1. IInv => OneRelease
  BY DEF IInv, PublicationInv
<1> QED
  BY <1>1, Inductive, PTL

(* latest selects complete versions, but for those published with that tag.   *)
THEOREM LatestIsComplete == ProcessSpec => []LatestIsWhole
<1>1. IInv => LatestIsWhole
  BY DEF IInv, PublicationInv
<1> QED
  BY <1>1, Inductive, PTL
================================================================================
