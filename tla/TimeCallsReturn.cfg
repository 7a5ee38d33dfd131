CONSTANTS
    Bits <- MCBits
    Chars <- MCChars
    MaxLen = 3
    SmallInts <- MCSmallInts
    FloatHalves = {3, 10}
    Scale = 10
    MinutePer = 6
    ZeroSec <- MCZeroSec
    Dates <- MCDates
    Counts <- MCCounts
    Wrappers = {"ptr", "named", "format", "typednil"}
SPECIFICATION FairSpec
PROPERTY TimeCallsReturn
