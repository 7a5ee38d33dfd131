CONSTANTS
    UniqFuncs = {"ToUniqInt64Array", "ToUniqInt32Array", "ToUniqInt16Array", "ToUniqStringArray"}
    VersionComponents = {0, 1, 10}
    StringInts <- SmallStringInts
    NilTuple = NilTuple
    Garbage = Garbage
    NoConfig = NoConfig
SPECIFICATION Spec
VIEW RestView
INVARIANT LiftDeterministic
