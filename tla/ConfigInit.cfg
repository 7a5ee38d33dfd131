CONSTANTS
    Procs = {p1, p2, p3}
    NoOwner = NoOwner
SPECIFICATION Spec
\* Each goroutine calls Init once; when all have returned nothing is left to run.
CHECK_DEADLOCK FALSE
INVARIANT TypeOK
INVARIANT AtMostOneLoad
INVARIANT DoneOnlyAfterLoad
PROPERTY AllReturn
