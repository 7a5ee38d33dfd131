CONSTANTS
    Procs = {p1, p2}
    NoOwner = NoOwner
SPECIFICATION Spec
CHECK_DEADLOCK FALSE
INVARIANT InitNilMeansLoaded
