SPECIFICATION StreamFairSpec
CONSTANTS
    opener = opener
    deliverer = deliverer
    finisher = finisher
    aborter = aborter
    app = app
    Opener = opener
    Deliverer = deliverer
    Finisher = finisher
    Aborter = aborter
    Enders = {finisher, aborter}
    Closers = {app}
    Kinds = {"message"}
    MaxFrames = 1
    MaxPending = 0
    MaxSends = 0
    KindsOver <- MCKindsOver
    SendsOver = {}
    WriteOutcomes = {"resolves", "rejects"}
PROPERTY EveryCutIsReported
CHECK_DEADLOCK FALSE
