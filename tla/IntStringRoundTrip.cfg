CONSTANTS
    Bits <- MCBits
    Chars <- MCChars
    MaxLen = 1
    SmallInts <- MCSmallInts
    FloatHalves <- MCFloatHalves
    Funcs = {"ToInt64E"}
    Wrappers = {"format"}
SPECIFICATION Spec
INVARIANT IntStringRoundTrip
