--------------------------- MODULE MCConvertInt ---------------------------
(***************************************************************************)
(* Bounds for ConvertInt.  Widths are scaled so TLC's integers hold them: *)
(* 8, 16, 32 and 64 bits become 3, 4, 5 and 6, which keeps every          *)
(* narrowing and sign change of the real widths.  Strings of up to four   *)
(* bytes over "0 1 8 - o x" reach every base prefix (octal, 0o, 0x behind *)
(* a sign), an invalid octal digit, overflow of each width and the sign   *)
(* handling; the integers and halves cross every width boundary.          *)
(***************************************************************************)
EXTENDS ConvertInt

MCBits == [k \in IntKinds |->
             CASE k \in {"int8", "uint8"}   -> 3
               [] k \in {"int16", "uint16"} -> 4
               [] k \in {"int32", "uint32"} -> 5
               [] OTHER                     -> 6]

MCChars == {"0", "1", "8", "-", "o", "x"}
MCSmallInts == {-20, -5, -1, 0, 1, 3, 7, 12, 40}
MCFloatHalves == {-9, -1, 0, 3, 25, 200}
MCFuncs == DOMAIN Func
=============================================================================
