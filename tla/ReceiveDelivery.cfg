SPECIFICATION FairSpec
CONSTANTS
    s1 = s1
    s2 = s2
    s3 = s3
    c1 = c1
    c2 = c2
    Ids = {s1, s2, s3}
    Connections = {c1, c2}
    ConnectionOf <- MCConnectionOf
    WebSocketIds = {s2}
    WebTransportIds = {s3}
    MaxChunks = 2
INVARIANTS
    TimeoutEndsReceive
PROPERTIES
    NoStaleCompletion
    ImplementsReceiveCredit
CHECK_DEADLOCK FALSE
