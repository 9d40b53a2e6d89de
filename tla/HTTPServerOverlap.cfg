SPECIFICATION Spec
CONSTANTS
    Clients = {k1}
    LookupOutcomes = {"closed"}
INVARIANT StopIsFinal
CHECK_DEADLOCK FALSE
