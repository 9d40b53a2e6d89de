SPECIFICATION Spec
CONSTANTS
    Wires <- MCWires
    MaxMessageBytes <- MCLimit
INVARIANTS
    TypeOK
    SameHoweverCut
    BufferIsBounded
CHECK_DEADLOCK FALSE
