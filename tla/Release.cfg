SPECIFICATION ProcessSpec
CONSTANTS
    b0 = b0
    b1 = b1
    b2 = b2
    c1 = c1
    c2 = c2
    v1 = v1
    v2 = v2
    Platforms = 2
    Builds = {b0, b1, b2}
    Accepted = {b1, b2}
    Committed = b0
    Declarations <- MCDeclarations
    Producer <- MCProducer
    MaxFaults = 2
    MaxRuns = 2
    Commits = {c1, c2}
    MaxCandidates = 2
    Versions = {v1, v2}
    VersionOf <- MCVersionOf
    Attempts = 2
    MaxRegistryFaults = 2
INVARIANTS
    ProcessTypeOK
    ImportIsAtomic
    NothingIsLost
    CandidateIsWhole
    DependenciesFirst
    OneRelease
    LatestIsWhole
PROPERTIES
    RecoveryCompletes
CHECK_DEADLOCK FALSE
