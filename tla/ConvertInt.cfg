CONSTANTS
    Bits <- MCBits
    Chars <- MCChars
    MaxLen = 3
    SmallInts <- MCSmallInts
    FloatHalves <- MCFloatHalves
    Funcs <- MCFuncs
    Wrappers = {"ptr", "ptrptr", "named"}
SPECIFICATION Spec
INVARIANT TypeOK
INVARIANT IndirectionTransparent
INVARIANT UnsignedRejectsNegative
