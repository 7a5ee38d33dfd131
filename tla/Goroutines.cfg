CONSTANTS
    Procs = {p1, p2}
    Namespaces = {n1, n2}
    NoOwner = NoOwner
    Gens = {g1, g2}
    NoGen = NoGen
SPECIFICATION Spec
\* Each goroutine makes one GetGenerator call and one SafeRand call; when
\* all have returned nothing is left to run.
CHECK_DEADLOCK FALSE
INVARIANT TypeOK
INVARIANT OneGeneratorPerNamespace
INVARIANT CheckoutDiscipline
PROPERTY AllGetGenerator
PROPERTY RegistryRefined
