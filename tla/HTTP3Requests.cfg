SPECIFICATION FairSpec
CONSTANTS
    r1 = r1
    r2 = r2
    c1 = c1
    c2 = c2
    Requests = {r1, r2}
    Connections = {c1, c2}
    ConnectionOf <- MCConnectionOf
    MaxChunks = 1
INVARIANTS
    TypeOK
    IndexesAgree
    ErrorComesFirst
PROPERTIES
    GoneResponseEnds
    ImplementsStreamedResponse
CHECK_DEADLOCK FALSE
