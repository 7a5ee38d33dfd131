CONSTANTS
    Heights = {0, 1, 10, 11}
    MaxSearchDepth = 10
    NoDir = NoDir
SPECIFICATION Spec
INVARIANTS
    TypeOK
    ChosenFileIsMostSpecific
