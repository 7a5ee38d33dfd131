CONSTANTS
    UniqFuncs = {"ToUniq2Int64Array", "ToUniq2Int32Array", "ToUniq2Int16Array", "ToUniq2StringArray"}
    VersionComponents = {0, 1, 10}
    StringInts <- SmallStringInts
    NilTuple = NilTuple
    Garbage = Garbage
    NoConfig = NoConfig
SPECIFICATION Spec
VIEW RestView
INVARIANT UniqIsMergeDedupe
