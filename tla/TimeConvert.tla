----------------------------- MODULE TimeConvert -----------------------------
(***************************************************************************)
(* The scalar coercions of src/convert/converte.go that end in a time, a  *)
(* duration, a bool or a float: ToTimeE, ToDurationE, ToBoolE,            *)
(* ToFloat64E and ToFloat32E, and the unit helpers of                     *)
(* src/convert/time_convert.go.                                           *)
(*                                                                         *)
(* Each coercion runs Indirect, then a type switch, whose reflect default *)
(* reads a defined type's underlying value and calls the function again.  *)
(* ToTimeE has no case for float32 or float64, yet its default sends the *)
(* Float kinds to ToTimeE(vv.Float()), a float64 again: the recursion     *)
(* does not end.  A call is therefore modelled step by step, so that a    *)
(* call that never returns is a behaviour, not an operator TLC cannot     *)
(* evaluate.  As in ConvertInt, a caller makes two calls of one function, *)
(* on a value (lane "plain") and on a wrapped form of it (lane            *)
(* "wrapped"): behind a pointer, as a defined type, as decimal text, or, *)
(* for nil, as a typed nil pointer.                                       *)
(*                                                                         *)
(* Times are nanoseconds since the Unix epoch and durations nanoseconds.  *)
(* Units are scaled: Go's factor 1e3 between ns, us, ms and s is Scale,   *)
(* 60 between s, m and h is MinutePer, and int64 has Bits["int64"] bits,  *)
(* so that UnixNano overflows, as it does outside the years 1678-2262.    *)
(* A bool result is 1 or 0, a float result a number of halves, as the    *)
(* float inputs of ToString are.                                          *)
(***************************************************************************)
EXTENDS ToString

CONSTANTS
    Scale,      \* 1e3 in the code: ns per us, us per ms, ms per s
    MinutePer,  \* 60 in the code: s per m, m per h
    ZeroSec,    \* the Unix second of time.Time{}, January 1 of year 1
    Dates,      \* [date text -> the Unix second time.Parse gives it]
    Counts,     \* the counts the unit helpers are called on
    Wrappers    \* the forms the wrapped lane puts a value in

Second == Scale^3
W      == Bits["int64"]

\* Go's integer / and %, which truncate toward zero.
Quot(a, b) == IF a >= 0 THEN a \div b ELSE -((-a) \div b)
Rem(a, b)  == a - Quot(a, b) * b

\* time.Unix(sec, nsec) as an instant; time.Time{} and IsZero.
Unix(sec, nsec) == sec * Second + nsec
ZeroTime        == Unix(ZeroSec, 0)
IsZero(t)       == t = ZeroTime

\* t.UnixNano(): (sec*1e9 + nsec) in int64 arithmetic, which wraps.
UnixNano(t) == Wrap(t, W, TRUE)

SecToTime(sec) == Unix(sec, 0)
MsToTime(ms)   == Unix(Quot(ms, Scale), 0)

\* Mutant: the sub-second part dropped, as MsToTime does.
UsToTimeWholeSeconds(us) == Unix(Quot(us, Scale^2), 0)

UsToTime(us)   == Unix(Quot(us, Scale^2), Rem(us, Scale^2) * Scale)
NsToTime(nsec) == Unix(Quot(nsec, Second), Rem(nsec, Second))

\* TimeToSec, TimeToMs, TimeToUs, TimeToNs: 0 for the zero time, else
\* t.UnixNano() divided down to the unit.
TimeToUnit(t, per) == IF IsZero(t) THEN 0 ELSE Quot(UnixNano(t), per)

Units == {"s", "ms", "us", "ns"}
ToTimeOf(u, n) ==
    CASE u = "s" -> SecToTime(n) [] u = "ms" -> MsToTime(n)
      [] u = "us" -> UsToTime(n) [] u = "ns" -> NsToTime(n)
NsPerUnit == [s |-> Second, ms |-> Scale^2, us |-> Scale, ns |-> 1]

(***************************************************************************)
(* time.ParseDuration on texts without a fraction: an optional sign, then *)
(* one or more terms, each digits followed by a unit; "0" alone is 0.     *)
(* ("us" and its two-byte spelling with the micro sign are one unit.)   *)
(* Go fails once the sum passes 1<<63, and a positive one past 1<<63-1.   *)
(***************************************************************************)
UnitNs ==
    (<<"n", "s">> :> 1) @@ (<<"u", "s">> :> Scale) @@ (<<"m", "s">> :> Scale^2) @@ (<<"s">> :> Second)
    @@ (<<"m">> :> MinutePer * Second) @@ (<<"h">> :> MinutePer^2 * Second)

IsDigit(c) == \E d \in 1..10 : DigitChars[d] = c

\* The length of the longest prefix of s of digits (digits = TRUE) or of
\* other bytes (digits = FALSE).
RunLen(s, digits) ==
    LET i == SelectInSeq(s, LAMBDA c : IsDigit(c) # digits) IN IF i = 0 THEN Len(s) ELSE i - 1

RECURSIVE DurationTerms(_)
DurationTerms(s) ==
    IF s = <<>> THEN Ok(0)
    ELSE LET nd   == RunLen(s, TRUE)
             rest == SubSeq(s, nd + 1, Len(s))
             nu   == RunLen(rest, FALSE)
             u    == SubSeq(rest, 1, nu)
             tail == DurationTerms(SubSeq(rest, nu + 1, Len(rest)))
             d    == DigitsValue(SubSeq(s, 1, nd), 10) * UnitNs[u] + tail.val
         IN  IF nd = 0 \/ nu = 0 \/ u \notin DOMAIN UnitNs \/ ~tail.ok \/ d > 2^(W - 1)
             THEN Err ELSE Ok(d)

ParseDuration(s) ==
    LET neg  == s # <<>> /\ s[1] = "-"
        body == IF s # <<>> /\ s[1] \in {"-", "+"} THEN Tail(s) ELSE s
        d    == DurationTerms(body)
    IN  CASE body = <<"0">>                  -> Ok(0)
          [] body = <<>> \/ ~d.ok            -> Err
          [] neg                              -> Ok(-d.val)
          [] d.val <= 2^(W - 1) - 1           -> Ok(d.val)
          [] OTHER                            -> Err

\* strings.ContainsAny(s, "nsu" + micro sign + "mh"); the two-byte micro
\* sign, and the unit spelt with it, are left out of the model's bytes.
HasUnit(s) == \E i \in DOMAIN s : s[i] \in {"n", "s", "u", "m", "h"}

\* StringToDateE: parseDateWith tries the layouts in order and returns
\* the first parse that succeeds; which texts parse, and to what, is Dates.
StringToDateE(s) == IF s \in DOMAIN Dates THEN Ok(Unix(Dates[s], 0)) ELSE Err

\* strconv.ParseBool, as 1 (true) or 0 (false).
BoolTexts ==
    [t |-> {<<"1">>, <<"t">>, <<"T">>, <<"t", "r", "u", "e">>, <<"T", "R", "U", "E">>,
            <<"T", "r", "u", "e">>},
     f |-> {<<"0">>, <<"f">>, <<"F">>, <<"f", "a", "l", "s", "e">>,
            <<"F", "A", "L", "S", "E">>, <<"F", "a", "l", "s", "e">>}]
ParseBool(s) ==
    CASE s \in BoolTexts.t -> Ok(1) [] s \in BoolTexts.f -> Ok(0) [] OTHER -> Err

\* strconv.ParseFloat(s, 64) and (s, 32), in halves, on texts of a sign and
\* decimal digits; the model's bytes spell no fraction, exponent, "inf",
\* "nan" or hexadecimal form, and its magnitudes are far below the range.
ParseFloat(s) ==
    LET body == IF s # <<>> /\ s[1] \in {"-", "+"} THEN Tail(s) ELSE s
        n    == DigitsValue(body, 10)
    IN  IF body = <<>> \/ RunLen(body, TRUE) < Len(body) THEN Err
        ELSE Ok(IF s[1] = "-" THEN -2 * n ELSE 2 * n)

\* A time.Time and a time.Duration as dynamic values.
TimeVal(t) == [kind |-> "time", val |-> t]
DurVal(d)  == [kind |-> "duration", val |-> d]

\* reflect's Kind, and the value v.Int(), v.Uint(), v.Float() or
\* v.String() reads; a Duration is an int64.
KindOf(v) ==
    CASE v.kind = "named" -> v.of.kind [] v.kind = "duration" -> "int64" [] OTHER -> v.kind
ReflectValue(v) ==
    CASE v.kind = "named" -> Underlying(v.of)
      [] v.kind = "duration" -> IntVal("int64", v.val)
      [] OTHER -> Underlying(v)

\* float64(h/2) converted to an integer: Go truncates toward zero.
TruncHalf(h) == IF h >= 0 THEN h \div 2 ELSE -((-h) \div 2)

-----------------------------------------------------------------------------
Funcs == {"ToTimeE", "ToDurationE", "ToBoolE", "ToFloat64E", "ToFloat32E"}
Lanes == {"plain", "wrapped"}

\* The type switch cases of each function; every other type goes to the
\* reflect default, which recurses for the kinds listed in KindsRecursed.
\* ToBoolE has no case for int8, int16, uint8 or uint16.
BoolSwitch == {"int", "int32", "int64", "uint", "uint32", "uint64"} \cup FloatKinds

SwitchTypes ==
    [ToTimeE     |-> {"time", "string", "int", "int64", "int32", "uint", "uint64", "uint32"},
     ToDurationE |-> {"duration", "string"} \cup IntKinds \cup FloatKinds,
     ToBoolE     |-> {"bool", "nil", "string"} \cup BoolSwitch,
     ToFloat64E  |-> IntKinds \cup FloatKinds \cup {"string", "bool"},
     ToFloat32E  |-> IntKinds \cup FloatKinds \cup {"string", "bool"}]

\* Mutant: the default of ToTimeE without reflect.Int64.
KindsRecursedNoInt64 ==
    [ToTimeE     |-> {"uint", "uint32", "uint64", "int", "int32", "float64", "float32", "string"},
     ToDurationE |-> IntKinds \cup FloatKinds \cup {"string"},
     ToBoolE     |-> IntKinds \cup FloatKinds \cup {"string"},
     ToFloat64E  |-> IntKinds \cup FloatKinds \cup {"bool", "string"},
     ToFloat32E  |-> IntKinds \cup FloatKinds \cup {"bool", "string"}]

\* Mutant: the default of ToBoolE without reflect.Int8.
KindsRecursedNoInt8 ==
    [ToTimeE     |-> {"uint", "uint32", "uint64", "int", "int32", "int64",
                      "float64", "float32", "string"},
     ToDurationE |-> IntKinds \cup FloatKinds \cup {"string"},
     ToBoolE     |-> (IntKinds \ {"int8"}) \cup FloatKinds \cup {"string"},
     ToFloat64E  |-> IntKinds \cup FloatKinds \cup {"bool", "string"},
     ToFloat32E  |-> IntKinds \cup FloatKinds \cup {"bool", "string"}]

\* ToBoolE's default returns v.Bool() for reflect.Bool; ToFloat64E's and
\* ToFloat32E's call themselves on it.
KindsRecursed ==
    [ToTimeE     |-> {"uint", "uint32", "uint64", "int", "int32", "int64",
                      "float64", "float32", "string"},
     ToDurationE |-> IntKinds \cup FloatKinds \cup {"string"},
     ToBoolE     |-> IntKinds \cup FloatKinds \cup {"string"},
     ToFloat64E  |-> IntKinds \cup FloatKinds \cup {"bool", "string"},
     ToFloat32E  |-> IntKinds \cup FloatKinds \cup {"bool", "string"}]

Wrapped(w, v) ==
    CASE w = "ptr"    -> Ptr(v)
      [] w = "named"  -> Named(v)
      [] w = "format" -> StrVal(FormatInt(v.val))
      [] w = "typednil" -> NilPtr

Applies(w, v) ==
    CASE w = "ptr"    -> v # Nil
      [] w = "named"  -> v.kind \in IntKinds \cup FloatKinds \cup {"bool", "string"}
      [] w = "format" -> v.kind \in IntKinds
      [] w = "typednil" -> v = Nil

Args == Basics \cup {StrVal(d) : d \in DOMAIN Dates}
        \cup {TimeVal(SecToTime(n)) : n \in Counts} \cup {DurVal(n) : n \in Counts}

VARIABLES
    fn,      \* the coercion being called
    arg,     \* [lane -> the argument of that lane's call]
    cur,     \* [lane -> the value the call is working on]
    pc,      \* [lane -> "idle" | "indirect" | "switch" | "done"]
    result,  \* [lane -> the returned value (ns) and error]
    form,    \* the wrapper of the wrapped lane's argument
    unit,    \* the unit helper pair called: "s", "ms", "us", "ns", or "none"
    count,   \* the count it was called on
    back     \* TimeToX(XToTime(count))

vars == <<fn, arg, cur, pc, result, form, unit, count, back>>

Init ==
    /\ fn = "ToTimeE"
    /\ arg = [l \in Lanes |-> Nil] /\ cur = [l \in Lanes |-> Nil]
    /\ pc = [l \in Lanes |-> "idle"] /\ result = [l \in Lanes |-> Err]
    /\ form = "ptr"
    /\ unit = "none" /\ count = 0 /\ back = 0

Idle == (\A l \in Lanes : pc[l] = "idle") /\ unit = "none"

\* The caller calls f on v and then on its wrapped form.
Call(f, v, w) ==
    /\ Idle /\ Applies(w, v)
    /\ fn' = f
    /\ arg' = [plain |-> v, wrapped |-> Wrapped(w, v)]
    /\ cur' = arg'
    /\ pc' = [l \in Lanes |-> "indirect"]
    /\ form' = w
    /\ UNCHANGED <<result, unit, count, back>>

\* The caller turns a count of unit u into a time.Time and back.
UnitCall(u, n) ==
    /\ Idle
    /\ unit' = u /\ count' = n
    /\ back' = TimeToUnit(ToTimeOf(u, n), NsPerUnit[u])
    /\ UNCHANGED <<fn, arg, cur, pc, result, form>>

\* The wrapped call starts once the plain one has returned.
Running(l) == pc[l] \in {"indirect", "switch"} /\ (l = "wrapped" => pc["plain"] = "done")

Return(l, r) ==
    /\ pc' = [pc EXCEPT ![l] = "done"]
    /\ result' = [result EXCEPT ![l] = r]
    /\ UNCHANGED <<fn, arg, cur, form, unit, count, back>>

Recurse(l, v) ==
    /\ cur' = [cur EXCEPT ![l] = v]
    /\ pc' = [pc EXCEPT ![l] = "indirect"]
    /\ UNCHANGED <<fn, arg, result, form, unit, count, back>>

\* Indirect: dereference while the value is a non-nil pointer.
IndirectElem(l) ==
    /\ Running(l) /\ pc[l] = "indirect" /\ cur[l].kind = "ptr"
    /\ cur' = [cur EXCEPT ![l] = cur[l].to]
    /\ UNCHANGED <<fn, arg, pc, result, form, unit, count, back>>

IndirectDone(l) ==
    /\ Running(l) /\ pc[l] = "indirect" /\ cur[l].kind # "ptr"
    /\ pc' = [pc EXCEPT ![l] = "switch"]
    /\ UNCHANGED <<fn, arg, cur, result, form, unit, count, back>>

InCase(l, f, kinds) == Running(l) /\ pc[l] = "switch" /\ fn = f /\ cur[l].kind \in kinds

\* case time.Time: return v; case time.Duration: return s.
Same(l) ==
    /\ InCase(l, "ToTimeE", {"time"}) \/ InCase(l, "ToDurationE", {"duration"})
    /\ Return(l, Ok(cur[l].val))

\* ToTimeE's integer cases: time.Unix(int64(v), 0).
UnixSeconds(l) ==
    /\ InCase(l, "ToTimeE", SwitchTypes["ToTimeE"] \ {"time", "string"})
    /\ Return(l, Ok(SecToTime(Wrap(cur[l].val, W, TRUE))))

\* ToDurationE's number cases: time.Duration(ToInt64(s)), or
\* time.Duration(ToFloat64(s)), which truncates.
Nanoseconds(l) ==
    /\ InCase(l, "ToDurationE", IntKinds \cup FloatKinds)
    /\ Return(l, Ok(IF cur[l].kind \in FloatKinds THEN TruncHalf(cur[l].val)
                    ELSE Wrap(cur[l].val, W, TRUE)))

\* case string: StringToDateE(v).
ParseDate(l) ==
    /\ InCase(l, "ToTimeE", {"string"})
    /\ Return(l, StringToDateE(cur[l].str))

\* Mutant: the text parsed as it is, without "ns" appended.
ParseDurationTextBare(l) ==
    /\ InCase(l, "ToDurationE", {"string"})
    /\ Return(l, ParseDuration(cur[l].str))

\* case string: time.ParseDuration(s), with "ns" appended when s has no
\* unit letter.
ParseDurationText(l) ==
    LET s == cur[l].str IN
    /\ InCase(l, "ToDurationE", {"string"})
    /\ Return(l, ParseDuration(IF HasUnit(s) THEN s ELSE s \o <<"n", "s">>))

\* ToBoolE: case bool returns b, case nil false, and the number cases
\* v != 0.
BoolCases(l) ==
    /\ InCase(l, "ToBoolE", {"bool", "nil"} \cup BoolSwitch)
    /\ Return(l, Ok(CASE cur[l].kind = "bool" -> IF cur[l].b THEN 1 ELSE 0
                      [] cur[l].kind = "nil"  -> 0
                      [] OTHER                -> IF cur[l].val # 0 THEN 1 ELSE 0))

\* ToBoolE, case string: strconv.ParseBool.
ParseBoolText(l) ==
    /\ InCase(l, "ToBoolE", {"string"})
    /\ Return(l, ParseBool(cur[l].str))

FloatFuncs == {"ToFloat64E", "ToFloat32E"}

\* ToFloat64E and ToFloat32E: the number cases cast (exactly, below 2^24),
\* and case bool gives 1 or 0.
FloatCases(l) ==
    /\ \E f \in FloatFuncs : InCase(l, f, IntKinds \cup FloatKinds \cup {"bool"})
    /\ Return(l, Ok(CASE cur[l].kind = "bool"         -> IF cur[l].b THEN 2 ELSE 0
                      [] cur[l].kind \in FloatKinds  -> cur[l].val
                      [] OTHER                        -> 2 * cur[l].val))

\* Mutant: the text read by an unsigned parser, which refuses a sign.
ParseFloatTextUnsigned(l) ==
    /\ \E f \in FloatFuncs : InCase(l, f, {"string"})
    /\ Return(l, IF cur[l].str # <<>> /\ cur[l].str[1] = "-" THEN Err ELSE ParseFloat(cur[l].str))

\* case string: strconv.ParseFloat(s, 64) or (s, 32); on an error 0 and
\* "unable to cast".
ParseFloatText(l) ==
    /\ \E f \in FloatFuncs : InCase(l, f, {"string"})
    /\ Return(l, ParseFloat(cur[l].str))

InDefault(l) == Running(l) /\ pc[l] = "switch" /\ cur[l].kind \notin SwitchTypes[fn]

\* default: the listed reflect kinds call the function again on
\* vv.Uint(), vv.Int(), vv.Float() or vv.String().
ReflectRecurse(l) ==
    /\ InDefault(l) /\ KindOf(cur[l]) \in KindsRecursed[fn]
    /\ Recurse(l, ReflectValue(cur[l]))

\* ToBoolE's default, reflect.Bool: return v.Bool().
ReflectBool(l) ==
    /\ InDefault(l) /\ fn = "ToBoolE" /\ KindOf(cur[l]) = "bool"
    /\ Return(l, Ok(IF cur[l].of.b THEN 1 ELSE 0))

\* default, any other kind (reflect.Invalid for nil): "unable to cast".
Unsupported(l) ==
    /\ InDefault(l) /\ KindOf(cur[l]) \notin KindsRecursed[fn]
    /\ ~(fn = "ToBoolE" /\ KindOf(cur[l]) = "bool")
    /\ Return(l, Err)

Step(l) ==
    \/ IndirectElem(l) \/ IndirectDone(l) \/ Same(l) \/ UnixSeconds(l)
    \/ Nanoseconds(l) \/ ParseDate(l) \/ ParseDurationText(l)
    \/ BoolCases(l) \/ ParseBoolText(l) \/ FloatCases(l) \/ ParseFloatText(l)
    \/ ReflectRecurse(l) \/ ReflectBool(l) \/ Unsupported(l)

\* The caller takes the results; the lanes and the helpers are free again.
Finish ==
    /\ (\A l \in Lanes : pc[l] = "done") \/ unit # "none"
    /\ arg' = [l \in Lanes |-> Nil] /\ cur' = [l \in Lanes |-> Nil]
    /\ pc' = [l \in Lanes |-> "idle"] /\ result' = [l \in Lanes |-> Err]
    /\ unit' = "none" /\ count' = 0 /\ back' = 0
    /\ UNCHANGED <<fn, form>>

Next ==
    \/ Finish
    \/ Idle /\ \E f \in Funcs, v \in Args, w \in Wrappers : Call(f, v, w)
    \/ Idle /\ \E u \in Units, n \in Counts : UnitCall(u, n)
    \/ \E l \in Lanes : Step(l)

Spec == Init /\ [][Next]_vars

\* A goroutine that is running a call keeps running it (Go's scheduler);
\* the caller is not obliged to make another call.
FairSpec == Spec /\ \A l \in Lanes : WF_vars(Step(l))

-----------------------------------------------------------------------------
Done == \A l \in Lanes : pc[l] = "done"

TypeOK ==
    /\ fn \in Funcs /\ form \in Wrappers
    /\ pc \in [Lanes -> {"idle", "indirect", "switch", "done"}]
    /\ result \in [Lanes -> [ok : BOOLEAN, val : Int]]
    /\ unit \in Units \cup {"none"}

\* Spec 3 and 4.1: a value behind a pointer or of a defined type converts
\* to the time, duration, bool or float the plain value converts to.
\* Indirect and the reflect default of each coercion, which lists the
\* kinds it recurses on by hand, must agree with its switch cases for
\* every kind.
ScalarIndirectionTransparent ==
    Done /\ form \in {"ptr", "named"} => result["plain"] = result["wrapped"]

\* Spec 4.2, 4.3 and 8 (coerce_durationE("5") is 5ns): the decimal text
\* of an integer converts to the float the integer converts to, and the
\* text of an int64 count to the duration of that many nanoseconds.  The
\* string cases (ParseFloat, ParseDuration after the "ns" suffix rule)
\* must agree with the number cases.
DecimalTextAgrees ==
    Done /\ fn \in FloatFuncs \cup {"ToDurationE"} /\ form = "format"
    /\ (fn = "ToDurationE" => arg["plain"].val \in RangeOf(W, TRUE))
    => result["wrapped"] = result["plain"]

\* Spec 4.2 and 8: ToBoolE of nil is false, and of a number of any integer
\* or float kind is whether it is non-zero, also for int8, int16, uint8
\* and uint16, which ToBoolE's switch leaves to the reflect default.
BoolIsNonZero ==
    LET v == arg["plain"] IN
    Done /\ fn = "ToBoolE" /\ v.kind \in IntKinds \cup FloatKinds \cup {"nil"}
    => result["plain"] = Ok(IF v.kind = "nil" \/ v.val = 0 THEN 0 ELSE 1)

\* Spec 4.3: TimeToSec(SecToTime(n)) = n, and the same for microseconds
\* and nanoseconds, for every instant UnixNano can represent other than
\* the zero time (which maps to 0).  MsToTime drops the milliseconds and
\* is left out (README, Known divergences).
UnitRoundTrip ==
    LET t == ToTimeOf(unit, count) IN
    unit \in {"s", "us", "ns"} /\ t \in RangeOf(W, TRUE) /\ ~IsZero(t) => back = count

\* Every call of a scalar coercion returns.
TimeCallsReturn == \A l \in Lanes : pc[l] \in {"indirect", "switch"} ~> pc[l] = "done"
=============================================================================
