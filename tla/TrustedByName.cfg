SPECIFICATION Spec
CONSTANTS
    e1 = e1
    e2 = e2
    e3 = e3
    rm = rm
    p1 = p1
    p2 = p2
    one = one
    other = other
    None = None
    Calls = {e1, e2}
    Removals = {}
    Processes = {p1}
    ProcessOf <- MCProcessOf
    ProfileOf <- MCProfileOf
    Installs = {e1, e2}
    ByName = TRUE
PROPERTY InstallsAuthority
CHECK_DEADLOCK FALSE
