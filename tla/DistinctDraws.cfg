CONSTANTS
    Procs = {p1, p2}
    Gens = {g1, g2, g3, g4}
    NoGen = NoGen
    Ns <- MCNs
    MaxCalls = 2
    MaxTick = 2
SPECIFICATION Spec
\* Each goroutine makes MaxCalls calls and the clock stops at MaxTick.
CHECK_DEADLOCK FALSE
INVARIANT DistinctDraws
