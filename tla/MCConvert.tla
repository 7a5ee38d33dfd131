------------------------------ MODULE MCConvert ------------------------------
(***************************************************************************)
(* A sequential caller of the package src/convert, calling one of its     *)
(* functions at a time: a slice lifter (SliceLift), a map lifter          *)
(* (MapLift), a dedupe (Uniq), ToStringE (ConvertString), ToVersionE      *)
(* (Version), a Tuple accessor (Tuple), or it reads a cconfig file       *)
(* through the getters built on convert (FileConfig).  A call of a lifter or a dedupe *)
(* takes several steps and starts only when no other such call is under   *)
(* way; the other functions return in one step, and the caller keeps only *)
(* the result of its latest call, so their state goes back to its initial *)
(* value when another function is called.                                 *)
(*                                                                         *)
(* The bounds of each part:                                                *)
(*  - slices of up to three of four elements, two that coerce (one to the *)
(*    zero value) and two that fail, so a first failure can be told from  *)
(*    a later one and an unfilled slot from a filled one;                 *)
(*  - maps of up to three of four keys: two with string forms of their    *)
(*    own, a third whose string form is that of the first (int 1 and "1" *)
(*    in a map[interface{}]...), and one ToStringE rejects; three values, *)
(*    two that coerce and one that fails;                                 *)
(*  - dedupe over slices of length 3 of three values, one the zero value; *)
(*  - ToStringE with the widths of MCConvertInt (64 bits become 6, 2^63  *)
(*    becomes 32), strings of two bytes over "1 -";                       *)
(*  - ToVersionE on strings of four bytes over "1 0 . - space", with a    *)
(*    12-bit int, and on the renderings of versions over VersionComponents;*)
(*  - tuples of up to three elements over one that coerces to 1, one to 0 *)
(*    and one that fails, with indices from -1 to 3;                      *)
(*  - cconfig documents over two keys in each of the three formats, each  *)
(*    key absent, a scalar or a section of at most one scalar; the        *)
(*    scalars are 0, 20 (past int32's scaled range), -1.5, 20.5 (whose    *)
(*    truncation int32 cannot hold), "020", "t" and true;                 *)
(*  - ToTimeE and ToDurationE with the bounds of MCTimeConvert.           *)
(***************************************************************************)
EXTENDS Integers

CONSTANTS
    UniqFuncs,          \* the dedupe functions called
    VersionComponents,  \* the version numbers of the versions rendered
    StringInts,         \* the integers ToStringE is called on
    NilTuple,           \* a nil *Tuple
    Garbage,            \* a cconfig document that does not parse
    NoConfig            \* a nil cconfig.Configuration

VARIABLES
    slFn, slArg, slAcc, slJ, slPc, slResult,
    mlFn, mlArg, mlLane, mlTodo, mlM, mlPc, mlResult,
    uqFn, uqSlices, uqRet, uqDic, uqSi, uqEi, uqPc,
    sArg, sOut,
    vArg, vOut,
    tT, tOut, tPanicked, tIndex, tCalled,
    fcFmt, fcDoc, fcCfg, fcItem, fcGetter, fcKey, fcLenient, fcOut, fcPc,
    tcFn, tcArg, tcCur, tcPc, tcResult, tcForm, tcUnit, tcCount, tcBack

slVars == <<slFn, slArg, slAcc, slJ, slPc, slResult>>
mlVars == <<mlFn, mlArg, mlLane, mlTodo, mlM, mlPc, mlResult>>
uqVars == <<uqFn, uqSlices, uqRet, uqDic, uqSi, uqEi, uqPc>>
sVars  == <<sArg, sOut>>
vVars  == <<vArg, vOut>>
tVars  == <<tT, tOut, tPanicked, tIndex, tCalled>>
fcVars == <<fcFmt, fcDoc, fcCfg, fcItem, fcGetter, fcKey, fcLenient, fcOut, fcPc>>
tcVars == <<tcFn, tcArg, tcCur, tcPc, tcResult, tcForm, tcUnit, tcCount, tcBack>>

SLElems == {"e0", "e1", "bad1", "bad2"}
MLKeys  == {"k1", "k2", "k1dup", "kbad"}
MLElems == {"e0", "e1", "ebad"}
TElems  == {"e0", "e1", "ebad"}

\* An element that coerces to 0 or 1, or fails.
ElemConv(E) == [e \in E |-> CASE e = "e0" -> [ok |-> TRUE, val |-> 0]
                              [] e = "e1" -> [ok |-> TRUE, val |-> 1]
                              [] OTHER    -> [ok |-> FALSE, val |-> 0]]

MLKeyStr == [k \in MLKeys |->
                CASE k = "k1"    -> [ok |-> TRUE, val |-> "a"]
                  [] k = "k2"    -> [ok |-> TRUE, val |-> "b"]
                  [] k = "k1dup" -> [ok |-> TRUE, val |-> "a"]
                  [] OTHER       -> [ok |-> FALSE, val |-> "a"]]

SLFuncs == {"ToBoolSliceE", "ToStringSliceE", "ToDurationSliceE", "ToInt64SliceE",
            "ToInt32SliceE", "ToInt16SliceE", "ToInt8SliceE", "ToUint64SliceE",
            "ToUint32SliceE", "ToUint16SliceE", "ToUint8SliceE"}

CSBits == [k \in {"int", "int8", "int16", "int32", "int64",
                  "uint", "uint8", "uint16", "uint32", "uint64"} |->
             CASE k \in {"int8", "uint8"}   -> 3
               [] k \in {"int16", "uint16"} -> 4
               [] k \in {"int32", "uint32"} -> 5
               [] OTHER                     -> 6]

\* Integers below 2^63 (32 at the scaled width) and one above it.
SmallStringInts == {-20, -5, -1, 0, 3, 7, 12, 20, 31}
LargeStringInts == SmallStringInts \cup {40}

FCScalars ==
    {[lit |-> "int", n |-> 0], [lit |-> "int", n |-> 20],
     [lit |-> "float", h |-> -3], [lit |-> "float", h |-> 41],
     [lit |-> "string", s |-> <<"0", "2", "0">>], [lit |-> "string", s |-> <<"t">>],
     [lit |-> "bool", b |-> TRUE]}

\* The bounds of MCTimeConvert.
TCBits == [k \in DOMAIN CSBits |-> IF CSBits[k] = 6 THEN 20 ELSE CSBits[k]]

SL == INSTANCE SliceLift WITH Elems <- SLElems, Vals <- {0, 1}, Conv <- ElemConv(SLElems),
        Zero <- 0, MaxLen <- 3, Funcs <- SLFuncs,
        fn <- slFn, arg <- slArg, acc <- slAcc, j <- slJ, pc <- slPc, result <- slResult
ML == INSTANCE MapLift WITH Keys <- MLKeys, Elems <- MLElems, Strs <- {"a", "b"},
        Vals <- {0, 1}, KeyStr <- MLKeyStr, Conv <- ElemConv(MLElems), MaxKeys <- 3,
        Funcs <- {"ToStringMapIntE", "ToStringMapE"},
        fn <- mlFn, arg <- mlArg, lane <- mlLane, todo <- mlTodo, m <- mlM, pc <- mlPc,
        result <- mlResult
UQ == INSTANCE Uniq WITH Elems <- {0, 1, 2}, Zero <- 0, MaxLen <- 3, Funcs <- UniqFuncs,
        fn <- uqFn, slices <- uqSlices, ret <- uqRet, dic <- uqDic, si <- uqSi, ei <- uqEi,
        pc <- uqPc
CS == INSTANCE ConvertString WITH Bits <- CSBits, Chars <- {"1", "-"}, MaxLen <- 2,
        SmallInts <- StringInts, FloatHalves <- {-9, -1, 0, 3, 25}, arg <- sArg, out <- sOut
Ver == INSTANCE Version WITH Chars <- {"1", "0", ".", "-", " "}, MaxLen <- 4,
        Components <- VersionComponents, IntBits <- 12, arg <- vArg, out <- vOut
Tup == INSTANCE Tuple WITH Elems <- TElems, Conv <- ElemConv(TElems), MaxLen <- 3,
        NilTuple <- NilTuple, t <- tT, out <- tOut, panicked <- tPanicked,
        index <- tIndex, called <- tCalled
FC == INSTANCE FileConfig WITH Keys <- {"k1", "k2"}, IntBits <- 6, Int32Bits <- 5,
        Scalars <- FCScalars, fmt <- fcFmt, doc <- fcDoc, cfg <- fcCfg, item <- fcItem,
        getter <- fcGetter, key <- fcKey, lenient <- fcLenient, out <- fcOut, pc <- fcPc
TC == INSTANCE TimeConvert WITH Bits <- TCBits, Chars <- {"5", "-", "s", "m", "h", "t"}, MaxLen <- 3,
        SmallInts <- {-1, 0, 5, 600, 524289}, FloatHalves <- {3, 10}, Scale <- 10,
        MinutePer <- 6, ZeroSec <- -5000, Dates <- [d \in {<<"d">>} |-> 1],
        Counts <- {-1, 5, 15, 600}, Wrappers <- {"ptr", "named", "format", "typednil"},
        fn <- tcFn, arg <- tcArg, cur <- tcCur, pc <- tcPc, result <- tcResult,
        form <- tcForm, unit <- tcUnit, count <- tcCount, back <- tcBack

\* Each part at rest: no lifter or dedupe call under way, no one-step
\* result kept.
SLRest == slPc = "idle"
MLRest == mlPc = "idle"
UQRest == uqPc = "idle"
SRest  == sArg = CS!Nil /\ sOut = CS!ToStringE(CS!Nil)
VRest  == vArg = [kind |-> "nil"] /\ vOut = Ver!ToVersionE([kind |-> "nil"])
TRest  == tT = NilTuple /\ tOut = 0 /\ ~tPanicked /\ tIndex = 0 /\ ~tCalled
FCRest == fcPc = "idle"
TCRest == TC!Idle

Init == SL!Init /\ ML!Init /\ UQ!Init /\ CS!Init /\ Ver!Init /\ Tup!Init /\ FC!Init /\ TC!Init

\* A step of one part while the others are at rest.
SliceStep   == TCRest /\ FCRest /\ MLRest /\ UQRest /\ SRest /\ VRest /\ TRest /\ SL!Next
               /\ UNCHANGED <<mlVars, uqVars, sVars, vVars, tVars, fcVars, tcVars>>
MapStep     == TCRest /\ FCRest /\ SLRest /\ UQRest /\ SRest /\ VRest /\ TRest /\ ML!Next
               /\ UNCHANGED <<slVars, uqVars, sVars, vVars, tVars, fcVars, tcVars>>
UniqStep    == TCRest /\ FCRest /\ SLRest /\ MLRest /\ SRest /\ VRest /\ TRest /\ UQ!Next
               /\ UNCHANGED <<slVars, mlVars, sVars, vVars, tVars, fcVars, tcVars>>
StringCall  == TCRest /\ FCRest /\ SLRest /\ MLRest /\ UQRest /\ VRest /\ TRest /\ CS!Next
               /\ UNCHANGED <<slVars, mlVars, uqVars, vVars, tVars, fcVars, tcVars>>
VersionCall == TCRest /\ FCRest /\ SLRest /\ MLRest /\ UQRest /\ SRest /\ TRest /\ Ver!Next
               /\ UNCHANGED <<slVars, mlVars, uqVars, sVars, tVars, fcVars, tcVars>>
TupleStep   == TCRest /\ FCRest /\ SLRest /\ MLRest /\ UQRest /\ SRest /\ VRest /\ Tup!Next
               /\ UNCHANGED <<slVars, mlVars, uqVars, sVars, vVars, fcVars, tcVars>>
FileConfigStep == TCRest /\ SLRest /\ MLRest /\ UQRest /\ SRest /\ VRest /\ TRest /\ FC!Next
                  /\ UNCHANGED <<slVars, mlVars, uqVars, sVars, vVars, tVars, tcVars>>
TimeStep == SLRest /\ MLRest /\ UQRest /\ SRest /\ VRest /\ TRest /\ FCRest /\ TC!Next
            /\ UNCHANGED <<slVars, mlVars, uqVars, sVars, vVars, tVars, fcVars>>

\* The caller drops what a one-step call returned, or its tuple.
Discard ==
    /\ ~(SRest /\ VRest /\ TRest)
    /\ sArg' = CS!Nil /\ sOut' = CS!ToStringE(CS!Nil)
    /\ vArg' = [kind |-> "nil"] /\ vOut' = Ver!ToVersionE([kind |-> "nil"])
    /\ tT' = NilTuple /\ tOut' = 0 /\ tPanicked' = FALSE /\ tIndex' = 0 /\ tCalled' = FALSE
    /\ UNCHANGED <<slVars, mlVars, uqVars, fcVars, tcVars>>

Next ==
    SliceStep \/ MapStep \/ UniqStep \/ StringCall \/ VersionCall \/ TupleStep \/ FileConfigStep
    \/ TimeStep \/ Discard

Spec == Init /\ [][Next]_<<slVars, mlVars, uqVars, sVars, vVars, tVars, fcVars, tcVars>>

\* The state as far as the future is concerned: a part at rest does not
\* read which function it called last (a call sets fn anew), so two states
\* that differ only there are one.
RestView ==
    <<IF slPc = "idle" THEN "none" ELSE slFn, slArg, slAcc, slJ, slPc, slResult,
      IF mlPc = "idle" THEN "none" ELSE mlFn, mlArg, mlLane, mlTodo, mlM, mlPc, mlResult,
      IF uqPc = "idle" THEN "none" ELSE uqFn, uqSlices, uqRet, uqDic, uqSi, uqEi, uqPc,
      sVars, vVars, tVars, fcVars,
      IF TCRest THEN "none" ELSE <<tcFn, tcForm>>, tcArg, tcCur, tcPc, tcResult, tcUnit,
      tcCount, tcBack>>

-----------------------------------------------------------------------------
\* The type invariants of the slice lifters, the dedupe and ToVersionE (a
\* version number is never negative: the regular expression keeps only
\* digits and dots), and of cconfig's getters.
TypeOK == SL!TypeOK /\ UQ!TypeOK /\ Ver!TypeOK /\ FC!TypeOK /\ TC!TypeOK

\* A slice or array is lifted element by element, all or nothing (SliceLift).
LiftElementwise == SL!LiftElementwise

\* A failing element's own error is returned (SliceLift).
ElementErrorPropagated == SL!ElementErrorPropagated

\* Under every MapKeys order a map is lifted key by key, all or nothing,
\* with no entry from anywhere else (MapLift).
LiftKeywise == ML!LiftKeywise

\* An error of a map lifter names a failing key, or a key whose value
\* failed (MapLift).
ErrorAtFailingEntry == ML!ErrorAtFailingEntry

\* Two calls of a map lifter on the same map return the same map and error
\* (MapLift).
LiftDeterministic == ML!LiftDeterministic

\* ToUniq*Array returns the elements of its slices once each, in the order
\* of their first occurrence (Uniq).
UniqIsMergeDedupe == UQ!UniqIsMergeDedupe

\* ToStringE renders a value, behind pointers, as a defined type or as a
\* Stringer, as the text it stands for (ConvertString).
StringRendersValue == CS!StringRendersValue

\* The rendering of a version parses back to it, in every form of
\* argument (Version).
VersionRoundTrip == Ver!VersionRoundTrip

\* The Tuple accessors never fail (Tuple).
AccessorsNeverFail == Tup!AccessorsNeverFail

\* GetConfigItem returns a configuration exactly for the sections of the
\* document, in YAML as in JSON and TOML (FileConfig).
SectionScoped == FC!SectionScoped

\* GetInt agrees with GetInt64, and GetInt32 is its int32 narrowing, for
\* every value a decoder stores (FileConfig).
IntGettersAgree == FC!IntGettersAgree

\* ToTimeE, ToDurationE, ToBoolE, ToFloat64E and ToFloat32E give a value
\* behind a pointer or of a defined type the result of the plain value
\* (TimeConvert).
ScalarIndirectionTransparent == TC!ScalarIndirectionTransparent

\* ToFloat64E and ToFloat32E of the decimal text of an integer give the
\* integer's float, and ToDurationE of the text of a count that many
\* nanoseconds (TimeConvert).
DecimalTextAgrees == TC!DecimalTextAgrees

\* ToBoolE of nil is false and of a number whether it is non-zero, for
\* every integer and float kind (TimeConvert).
BoolIsNonZero == TC!BoolIsNonZero

\* TimeToSec, TimeToUs and TimeToNs undo SecToTime, UsToTime and NsToTime
\* within UnixNano's range (TimeConvert).
UnitRoundTrip == TC!UnitRoundTrip
=============================================================================
