SPECIFICATION SocketsSpec
CONSTANTS
    opener = opener
    deliverer = deliverer
    finisher = finisher
    aborter = aborter
    app = app
    Opener = opener
    Deliverer = deliverer
    Finisher = finisher
    Aborter = aborter
    Enders = {finisher, aborter}
    Closers = {app}
    Kinds = {"message", "fragment", "continuation", "ping", "close", "badClose", "badHeader", "partial"}
    MaxFrames = 2
    MaxPending = 1
    MaxSends = 1
    KindsOver <- MCKindsOver
    SendsOver = {"HTTP/2", "HTTP/3"}
    WriteOutcomes = {"resolves", "rejects"}
INVARIANTS
    CleanCloseIsMutual
    CloseIsLastData
    ClosedReleasesTransport
    RegistryFollows
PROPERTIES
    ImplementsLifecycle
    ClosingEnds
    CutIsReported
CHECK_DEADLOCK FALSE
