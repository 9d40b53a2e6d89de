SPECIFICATION FairSpec
CONSTANTS
    s1 = s1
    s2 = s2
    w1 = w1
    w2 = w2
    c1 = c1
    Connections = {c1}
    Sessions = {s1, s2}
    Streams = {w1, w2}
    ConnectionOf <- MCConnectionOf
    SessionOf <- MCSessionOf
INVARIANTS
    TypeOK
    SessionIndexesAgree
    MarksAreTrue
    OneSessionAccepted
    StreamEndIsReported
PROPERTY RefusalFreesConnection
CHECK_DEADLOCK FALSE
