SPECIFICATION Spec
CONSTANTS
    e1 = e1
    e2 = e2
    e3 = e3
    rm = rm
    p1 = p1
    p2 = p2
    one = one
    other = other
    None = None
    Calls = {e1, e2, e3}
    Removals = {rm}
    Processes = {p1, p2}
    ProcessOf <- MCProcessOf
    ProfileOf <- MCProfileOf
    Installs = {e1, e2}
    ByName = FALSE
INVARIANTS
    PointerIsWhole
    TrustIsKnown
PROPERTY ResultIsUsable
CHECK_DEADLOCK FALSE
