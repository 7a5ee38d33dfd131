--------------------------- MODULE MCTimeConvert ---------------------------
(***************************************************************************)
(* Bounds for TimeConvert.  int64 has 20 bits, so UnixNano holds about    *)
(* 524 scaled seconds either side of the epoch and 600 seconds overflow   *)
(* it; 524289 is a uint64 past int64's range; 8, 16 and 32 bits become   *)
(* 3, 4 and 5.  The factor 1e3 becomes 10 and 60 becomes 6, so a second  *)
(* is 1000 ns, a minute 6000 and an hour 36000: "5h" fits an int64 and   *)
(* "55h" does not.  Texts are up to three bytes over "5 - s m h": bare   *)
(* counts, counts with a unit, unknown units and several terms.  The     *)
(* zero time is 5000 seconds before the epoch, outside UnixNano's range, *)
(* as year 1 is.                                                         *)
(***************************************************************************)
EXTENDS TimeConvert

MCBits == [k \in IntKinds |->
             CASE k \in {"int8", "uint8"}   -> 3
               [] k \in {"int16", "uint16"} -> 4
               [] k \in {"int32", "uint32"} -> 5
               [] OTHER                     -> 20]

MCChars     == {"5", "-", "s", "m", "h", "t"}
MCSmallInts == {-1, 0, 5, 600, 524289}
MCDates     == <<"d">> :> 1
MCCounts    == {-1, 5, 15, 600}
MCZeroSec   == -5000
=============================================================================
