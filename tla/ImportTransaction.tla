-------------------------- MODULE ImportTransaction --------------------------
(***************************************************************************)
(* The import of native builds into the working tree,                      *)
(* scripts/import-binaries.js: the bundle is verified, every package       *)
(* directory is staged, and then each one is exchanged by two renames,     *)
(* with a rollback when a rename fails.  The file system may refuse any    *)
(* single step, and the process may be killed between two of them.  The    *)
(* content of a directory is the native build it comes from.               *)
(***************************************************************************)
EXTENDS Naturals, FiniteSets

CONSTANTS
    Platforms,      \* the number of platform packages
    Builds,         \* the native builds there are
    Accepted,       \* the builds whose manifest matches native-baseline.json
    Committed,      \* the build a checkout contains
    Declarations,   \* [Builds -> the http3.d.ts that the build comes with]
    MaxFaults,      \* bound: refused file operations and kills of one tree
    MaxRuns         \* bound: imports into one tree

ASSUME PlatformsAssumption == Platforms \in Nat \ {0}
ASSUME BuildsAssumption == Accepted \subseteq Builds /\ Committed \in Builds
ASSUME BoundsAssumption == MaxFaults \in Nat /\ MaxRuns \in Nat

VARIABLES
    live,       \* the package directories of the tree
    staged,     \* transactionRoot/next of the current run
    backup,     \* transactionRoot/backup of the current run
    importing,  \* the run: its step, its target and the bundle
    orphans,    \* what abandoned transaction roots still hold
    before,     \* history: the tree when the run began
    slips,      \* history: the file operations refused to this run
    outcome,    \* how the last run ended
    runs,       \* imports into this tree so far
    faults      \* refused operations and kills so far

treeVars == <<live, staged, backup, importing, orphans, before, slips, outcome, runs>>
importVars == <<treeVars, faults>>

None == "none"
Targets == 1..Platforms + 1
NativeDirectory == Platforms + 1
Bundles == [1..Platforms -> Builds]
Empty == [t \in Targets |-> None]
Idle == [step |-> "idle", at |-> 1, bundle |-> [p \in 1..Platforms |-> Committed]]

ImportTypeOK ==
    /\ {live, staged, backup, before} \subseteq [Targets -> Builds \cup {None}]
    /\ importing.step \in {"idle", "stage", "backup", "install", "restore", "remove", "return", "clean"}
    /\ importing.at \in Targets /\ importing.bundle \in Bundles
    /\ orphans \in [Targets -> SUBSET Builds]
    /\ slips \in 0..MaxFaults /\ faults \in 0..MaxFaults /\ runs \in 0..MaxRuns
    /\ outcome \in {None, "imported", "rejected", "failed", "killed"}

AsCommitted == [t \in Targets |-> Committed]
NoOrphans == [t \in Targets |-> {}]

ImportInit ==
    /\ live = AsCommitted /\ before = AsCommitted
    /\ staged = Empty /\ backup = Empty
    /\ importing = Idle
    /\ orphans = NoOrphans
    /\ slips = 0 /\ outcome = None /\ runs = 0
    /\ faults = 0

\* Another checkout takes the place of the tree.
FreshTree ==
    /\ live' = AsCommitted /\ before' = AsCommitted
    /\ staged' = Empty /\ backup' = Empty
    /\ importing' = Idle
    /\ orphans' = NoOrphans
    /\ slips' = 0 /\ outcome' = None /\ runs' = 0
    /\ faults' = 0

-----------------------------------------------------------------------------
\* External: the file system refuses an operation, or the process dies.
Fault == faults < MaxFaults /\ faults' = faults + 1
Refused == Fault /\ slips' = slips + 1
Works == UNCHANGED <<faults, slips>>

\* The content that the bundle brings to a target: the declarations are
\* those of the first platform.
NewContent(bundle, t) == IF t = NativeDirectory THEN bundle[1] ELSE bundle[t]
Installed(bundle) == [t \in Targets |-> NewContent(bundle, t)]

Verified(bundle) ==
    /\ \A p \in 1..Platforms : bundle[p] \in Accepted
    /\ Cardinality({Declarations[bundle[p]] : p \in 1..Platforms}) = 1

Goto(s, t) == importing' = [importing EXCEPT !.step = s, !.at = t]

\* What stays behind in a transaction root that nobody removes.
Abandon == orphans' = [t \in Targets |-> orphans[t] \cup ({backup[t]} \ {None})]
Finish(result) ==
    /\ Goto("idle", 1)
    /\ outcome' = result
    /\ staged' = Empty /\ backup' = Empty

\* main up to commitImports: a bundle with a flaw changes nothing.
StartImport(bundle) ==
    /\ importing.step = "idle"
    /\ runs < MaxRuns /\ runs' = runs + 1
    /\ importing' = [step |-> IF Verified(bundle) THEN "stage" ELSE "idle", at |-> 1, bundle |-> bundle]
    /\ outcome' = IF Verified(bundle) THEN None ELSE "rejected"
    /\ before' = live
    /\ slips' = 0
    /\ UNCHANGED <<live, staged, backup, orphans, faults>>

\* Staging copies the live directory and lays the new files over it.  It is
\* outside the try: an error leaves the transaction root where it is.
Stage ==
    LET t == importing.at IN
    /\ importing.step = "stage"
    /\ \/ /\ live[t] # None
          /\ staged' = [staged EXCEPT ![t] = NewContent(importing.bundle, t)]
          /\ IF t < NativeDirectory THEN Goto("stage", t + 1) ELSE Goto("backup", 1)
          /\ Works
          /\ UNCHANGED <<backup, outcome>>
       \/ live[t] = None /\ Works /\ Finish("failed")
       \/ Refused /\ Finish("failed")
    /\ UNCHANGED <<live, orphans, before, runs>>

\* Mutants: the first target is not the end of the rollback; no rollback.
RollBackOffByOne(t) == Goto("remove", t - 1)
RollBackForgotten(t) == Goto("clean", 1)

\* The catch of the whole exchange goes through the replaced targets from
\* the last to the first, and the finally removes the transaction root.
RollBackBelow(t) == IF t = 1 THEN Goto("clean", 1) ELSE Goto("remove", t - 1)

BackUp ==
    LET t == importing.at IN
    /\ importing.step = "backup"
    /\ \/ /\ backup' = [backup EXCEPT ![t] = live[t]]
          /\ live' = [live EXCEPT ![t] = None]
          /\ Goto("install", t)
          /\ Works
       \/ Refused /\ RollBackBelow(t) /\ UNCHANGED <<live, backup>>
    /\ UNCHANGED <<staged, orphans, before, outcome, runs>>

\* beforeInstall is a hook of the tests: what it throws is a refusal here.
Install ==
    LET t == importing.at IN
    /\ importing.step = "install"
    /\ \/ /\ live' = [live EXCEPT ![t] = staged[t]]
          /\ staged' = [staged EXCEPT ![t] = None]
          /\ IF t < NativeDirectory
               THEN Goto("backup", t + 1) /\ UNCHANGED outcome
               ELSE Goto("clean", t) /\ outcome' = "imported"
          /\ Works
       \/ Refused /\ Goto("restore", t) /\ UNCHANGED <<live, staged, outcome>>
    /\ UNCHANGED <<backup, orphans, before, runs>>

\* The inner catch: the target that could not be installed goes back first.
Restore ==
    LET t == importing.at IN
    /\ importing.step = "restore"
    /\ \/ /\ live' = [live EXCEPT ![t] = backup[t]]
          /\ backup' = [backup EXCEPT ![t] = None]
          /\ Works
       \/ Refused /\ UNCHANGED <<live, backup>>
    /\ RollBackBelow(t)
    /\ UNCHANGED <<staged, orphans, before, outcome, runs>>

\* One round of the rollback; an error in it ends the rollback.
RemoveReplaced ==
    LET t == importing.at IN
    /\ importing.step = "remove"
    /\ \/ live' = [live EXCEPT ![t] = None] /\ Goto("return", t) /\ Works
       \/ Refused /\ Goto("clean", 1) /\ UNCHANGED live
    /\ UNCHANGED <<staged, backup, orphans, before, outcome, runs>>

ReturnBackup ==
    LET t == importing.at IN
    /\ importing.step = "return"
    /\ \/ /\ live' = [live EXCEPT ![t] = backup[t]]
          /\ backup' = [backup EXCEPT ![t] = None]
          /\ RollBackBelow(t)
          /\ Works
       \/ Refused /\ Goto("clean", 1) /\ UNCHANGED <<live, backup>>
    /\ UNCHANGED <<staged, orphans, before, outcome, runs>>

\* The finally.  It deletes the backups whatever became of the rollback, and
\* when it throws itself the run fails although everything was installed.
Clean ==
    /\ importing.step = "clean"
    /\ \/ /\ Finish(IF outcome = "imported" THEN "imported" ELSE "failed")
          /\ Works
          /\ UNCHANGED orphans
       \/ Refused /\ Abandon /\ Finish("failed")
    /\ UNCHANGED <<live, before, runs>>

\* The process is killed: the tree and the transaction root stay as they are.
KillImport ==
    /\ importing.step # "idle"
    /\ Fault
    /\ Abandon
    /\ Finish("killed")
    /\ UNCHANGED <<live, before, slips, runs>>

-----------------------------------------------------------------------------
Settled == importing.step = "idle"

\* All or nothing (import-binaries.js:34-111, "Replace every imported package
\* directory as one rollback-capable transaction"): a run to which the file
\* system refused at most one operation leaves the tree as it found it or
\* entirely replaced, and a run that reports success has replaced it.
ImportIsAtomic ==
    Settled /\ outcome \in {"imported", "failed"} =>
        LET wanted == Installed(importing.bundle) IN
        /\ outcome = "imported" => live = wanted
        /\ slips < 2 => live \in {before, wanted}

\* No content is lost on the way: while a run is under way and after one that
\* was killed, what the tree held is in the tree, among the backups of the run
\* or in what it left behind, unless the run had already replaced everything
\* or the file system refused it a second operation.
TreeIsKept ==
    slips < 2 =>
        \/ outcome = "imported" \/ live = Installed(importing.bundle)
        \/ \A t \in Targets : before[t] \in {None, live[t], backup[t]} \cup orphans[t]
=============================================================================
