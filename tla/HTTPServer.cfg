SPECIFICATION FairSpec
CONSTANTS
    Clients = {k1, k2, k3}
    LookupOutcomes = {"closed", "opening"}
INVARIANTS
    FailedStartLeavesNothing
    StopIsComplete
    AwaitsEnd
PROPERTIES
    StopResolves
    StartSettles
CHECK_DEADLOCK FALSE
