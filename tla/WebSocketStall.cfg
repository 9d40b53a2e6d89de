SPECIFICATION StallSpec
CONSTANTS
    opener = opener
    deliverer = deliverer
    e1 = e1
    e2 = e2
    app = app
    Opener = opener
    Deliverer = deliverer
    Enders = {e1}
    Closers = {app}
    Kinds = {"message"}
    MaxFrames = 1
    MaxPending = 1
    MaxSends = 0
    WriteOutcomes = {"resolves"}
PROPERTY UnansweredCloseAborts
CHECK_DEADLOCK FALSE
