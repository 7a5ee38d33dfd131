---------------------------- MODULE ConvertInt ----------------------------
(***************************************************************************)
(* The integer coercions of src/convert/converte.go: ToIntE, ToInt8E ..    *)
(* ToInt64E and ToUintE, ToUint8E .. ToUint64E.  Each one runs Indirect,   *)
(* then a type switch: numeric, bool and nil cases cast; the string case  *)
(* strips one leading "0" (unless "0o") and calls itself again, or parses  *)
(* with strconv; the default case reads a defined type's underlying value  *)
(* through reflect and calls itself again, or fails.                       *)
(*                                                                         *)
(* A caller makes two calls of the same function, one after the other: on *)
(* a plain value (lane "plain") and on a wrapped form of it (lane          *)
(* "wrapped"): behind pointers, as a defined type, with a leading zero,    *)
(* as a typed nil pointer, or rendered as decimal text.  The invariants   *)
(* compare the two results, which is how the spec's promises about the    *)
(* same value seen in different forms become checkable.                    *)
(***************************************************************************)
EXTENDS ToString

CONSTANTS
    Funcs,       \* the coercion functions called
    Wrappers     \* the forms the wrapped lane puts a value in

\* The wrapped form of v, for each wrapper that applies to v.
Wrapped(w, v) ==
    CASE w = "ptr"    -> Ptr(v)
      [] w = "ptrptr" -> Ptr(Ptr(v))
      [] w = "named"  -> Named(v)
      [] w = "zeros"  -> StrVal(<<"0">> \o v.str)
      [] w = "nilptr" -> NilPtr
      [] w = "format" -> StrVal(ToStringE(v).str)

Applies(w, v) ==
    CASE w \in {"ptr", "ptrptr"} -> v # Nil
      [] w = "named"  -> v.kind \in IntKinds \cup FloatKinds \cup {"bool", "string"}
      [] w = "zeros"  -> v.kind = "string" /\ v.str # <<>> /\ v.str[1] # "o" /\ Len(v.str) < MaxLen
      [] w = "nilptr" -> v = Nil
      [] w = "format" -> v.kind \in IntKinds

(***************************************************************************)
(* The ten functions differ only in the width they return, its sign, the  *)
(* bitSize they give strconv (0 means IntSize) and whether the signed and *)
(* float cases reject a negative value.                                    *)
(***************************************************************************)
Fn(k, pbits) == [width |-> Bits[k], signed |-> k \in SignedKinds,
                 parseBits |-> pbits, rejectNegative |-> k \in UnsignedKinds]

\* Mutant: the "if s < 0" checks of ToUint16E left out.
ToUint16EWrapping == [Fn("uint16", Bits["uint16"]) EXCEPT !.rejectNegative = FALSE]

\* Mutant: ToUint16E's body copied from ToInt16E.
ToUint16ECopied == Fn("int16", Bits["int"])

ToIntE    == Fn("int",    Bits["int"])
ToInt64E  == Fn("int64",  Bits["int"])
ToInt32E  == Fn("int32",  Bits["int"])
ToInt16E  == Fn("int16",  Bits["int"])
ToInt8E   == Fn("int8",   Bits["int"])
ToUintE   == Fn("uint",   Bits["uint"])
ToUint64E == Fn("uint64", Bits["uint64"])
ToUint32E == Fn("uint32", Bits["uint32"])
ToUint16E == Fn("uint16", Bits["uint16"])
ToUint8E  == Fn("uint8",  Bits["uint8"])

Func == [f \in {"ToIntE", "ToInt64E", "ToInt32E", "ToInt16E", "ToInt8E",
                "ToUintE", "ToUint64E", "ToUint32E", "ToUint16E", "ToUint8E"} |->
            CASE f = "ToIntE"    -> ToIntE    [] f = "ToInt64E"  -> ToInt64E
              [] f = "ToInt32E"  -> ToInt32E  [] f = "ToInt16E"  -> ToInt16E
              [] f = "ToInt8E"   -> ToInt8E   [] f = "ToUintE"   -> ToUintE
              [] f = "ToUint64E" -> ToUint64E [] f = "ToUint32E" -> ToUint32E
              [] f = "ToUint16E" -> ToUint16E [] f = "ToUint8E"  -> ToUint8E]

ASSUME Funcs \subseteq DOMAIN Func

\* The Go result type each function is declared with.
ReturnKind == [f \in DOMAIN Func |->
                 CASE f = "ToIntE" -> "int" [] f = "ToInt64E" -> "int64"
                   [] f = "ToInt32E" -> "int32" [] f = "ToInt16E" -> "int16"
                   [] f = "ToInt8E" -> "int8" [] f = "ToUintE" -> "uint"
                   [] f = "ToUint64E" -> "uint64" [] f = "ToUint32E" -> "uint32"
                   [] f = "ToUint16E" -> "uint16" [] f = "ToUint8E" -> "uint8"]

\* Go truncates a float toward zero when converting it to an integer.
Trunc(h) == IF h >= 0 THEN h \div 2 ELSE -((-h) \div 2)

\* A float whose truncation does not fit the target: the Go spec leaves the
\* result implementation-dependent.
OutOfRange(F, v) ==
    v.kind \in FloatKinds /\ Trunc(v.val) \notin RangeOf(F.width, F.signed)

Lanes == {"plain", "wrapped"}

VARIABLES
    fn,      \* the function being called
    arg,     \* [lane -> the argument of that lane's call]
    cur,     \* [lane -> the value the call is working on]
    pc,      \* [lane -> "idle" | "indirect" | "switch" | "done"]
    result,  \* [lane -> the returned value and error]
    form,    \* the wrapper the caller put the wrapped lane's argument in
    oor      \* what this build returns for an out-of-range float conversion

vars == <<fn, arg, cur, pc, result, form, oor>>

F == Func[fn]

Init ==
    /\ fn \in Funcs
    /\ arg = [l \in Lanes |-> Nil]
    /\ cur = [l \in Lanes |-> Nil]
    /\ pc = [l \in Lanes |-> "idle"]
    /\ result = [l \in Lanes |-> Err]
    /\ form \in Wrappers
    /\ oor = 0

\* The caller calls f on v and then on its wrapped form.
Call(f, v, w) ==
    /\ \A l \in Lanes : pc[l] = "idle"
    /\ Applies(w, v)
    /\ fn' = f
    /\ arg' = [plain |-> v, wrapped |-> Wrapped(w, v)]
    /\ cur' = arg'
    /\ pc' = [l \in Lanes |-> "indirect"]
    /\ result' = [l \in Lanes |-> Err]
    /\ form' = w
    /\ oor' \in IF OutOfRange(Func[f], v) THEN RangeOf(Func[f].width, Func[f].signed) ELSE {0}

\* The wrapped call starts once the plain one has returned.
Running(l) == pc[l] \in {"indirect", "switch"} /\ (l = "wrapped" => pc["plain"] = "done")

Return(l, r) ==
    /\ pc' = [pc EXCEPT ![l] = "done"]
    /\ result' = [result EXCEPT ![l] = r]
    /\ UNCHANGED <<fn, arg, cur, form, oor>>

\* Re-entering the same function on a new value (the recursive calls).
Recurse(l, v) ==
    /\ cur' = [cur EXCEPT ![l] = v]
    /\ pc' = [pc EXCEPT ![l] = "indirect"]
    /\ UNCHANGED <<fn, arg, result, form, oor>>

(***************************************************************************)
(* Indirect: dereference while the value is a non-nil pointer.  A typed   *)
(* nil pointer comes out as itself, not as nil.                           *)
(***************************************************************************)
\* Mutant: an "if" where Indirect has a "for", one dereference only.
IndirectElemOnce(l) ==
    /\ Running(l) /\ pc[l] = "indirect" /\ cur[l].kind = "ptr"
    /\ cur' = [cur EXCEPT ![l] = cur[l].to]
    /\ pc' = [pc EXCEPT ![l] = "switch"]
    /\ UNCHANGED <<fn, arg, result, form, oor>>

IndirectElem(l) ==
    /\ Running(l) /\ pc[l] = "indirect" /\ cur[l].kind = "ptr"
    /\ cur' = [cur EXCEPT ![l] = cur[l].to]
    /\ UNCHANGED <<fn, arg, pc, result, form, oor>>

IndirectDone(l) ==
    /\ Running(l) /\ pc[l] = "indirect" /\ cur[l].kind # "ptr"
    /\ pc' = [pc EXCEPT ![l] = "switch"]
    /\ UNCHANGED <<fn, arg, cur, result, form, oor>>

InSwitch(l) == Running(l) /\ pc[l] = "switch"

\* The cases for integers, floats, bool and nil.
CastNumber(l) ==
    LET v == cur[l] IN
    /\ InSwitch(l)
    /\ v.kind \in IntKinds \cup FloatKinds \cup {"bool", "nil"}
    /\ Return(l,
         CASE v.kind = "nil"  -> Ok(0)
           [] v.kind = "bool" -> Ok(IF v.b THEN 1 ELSE 0)
           [] F.rejectNegative /\ v.kind \notin UnsignedKinds /\ v.val < 0 -> Err
           [] v.kind \in FloatKinds ->
                Ok(IF OutOfRange(F, v) THEN oor ELSE Trunc(v.val))
           [] OTHER -> Ok(Wrap(v.val, F.width, F.signed)))

LeadingZero(s) == s # <<>> /\ s[1] = "0" /\ ~(Len(s) >= 2 /\ s[2] = "o")

\* case string: a leading "0" not followed by "o" is dropped and the
\* function is called again on the rest.
StripLeadingZero(l) ==
    /\ InSwitch(l) /\ cur[l].kind = "string" /\ LeadingZero(cur[l].str)
    /\ Recurse(l, StrVal(Tail(cur[l].str)))

\* case string otherwise: ParseInt(s, 0, 0) narrowed to the width, or
\* ParseUint(s, 0, bitSize).
ParseString(l) ==
    LET s == cur[l].str
        r == IF F.signed THEN ParseInt(s, F.parseBits) ELSE ParseUint(s, F.parseBits)
    IN  /\ InSwitch(l) /\ cur[l].kind = "string" /\ ~LeadingZero(s)
        /\ Return(l, IF r.ok THEN Ok(Wrap(r.val, F.width, F.signed)) ELSE Err)

\* default: a defined type over a basic kind is read through reflect and
\* the function is called again on the result.
ReflectKind(l) ==
    /\ InSwitch(l) /\ cur[l].kind = "named"
    /\ Recurse(l, Underlying(cur[l].of))

\* default: any other kind (a nil pointer, a struct) is an error.
Unsupported(l) ==
    /\ InSwitch(l) /\ cur[l].kind \in {"ptr", "nilptr", "struct"}
    /\ Return(l, Err)

Step(l) ==
    \/ IndirectElem(l) \/ IndirectDone(l)
    \/ CastNumber(l) \/ StripLeadingZero(l) \/ ParseString(l)
    \/ ReflectKind(l) \/ Unsupported(l)

\* The caller takes both results; the lanes are free for the next call.
Finish ==
    /\ \A l \in Lanes : pc[l] = "done"
    /\ arg' = [l \in Lanes |-> Nil]
    /\ cur' = [l \in Lanes |-> Nil]
    /\ pc' = [l \in Lanes |-> "idle"]
    /\ result' = [l \in Lanes |-> Err]
    /\ oor' = 0
    /\ UNCHANGED <<fn, form>>

Next ==
    \/ Finish
    \/ \E f \in Funcs, v \in Basics, w \in Wrappers : Call(f, v, w)
    \/ \E l \in Lanes : Step(l)

Spec == Init /\ [][Next]_vars

-----------------------------------------------------------------------------
Done == \A l \in Lanes : pc[l] = "done"

TypeOK ==
    /\ fn \in Funcs
    /\ pc \in [Lanes -> {"idle", "indirect", "switch", "done"}]
    /\ result \in [Lanes -> [ok : BOOLEAN, val : Int]]
    /\ \A l \in Lanes :
          result[l].ok => result[l].val \in RangeOf(Bits[ReturnKind[fn]], ReturnKind[fn] \in SignedKinds)

\* The value under any pointers and defined-type wrappers.
RECURSIVE Base(_)
Base(v) == CASE v.kind = "ptr" -> Base(v.to) [] v.kind = "named" -> Base(v.of) [] OTHER -> v

\* A negative number, or the decimal text of one.
Negative(v) ==
    LET b == Base(v) IN
    \/ b.kind \in SignedKinds \cup FloatKinds /\ b.val < 0
    \/ /\ b.kind = "string" /\ Len(b.str) >= 2 /\ b.str[1] = "-"
       /\ \A i \in 2..Len(b.str) : b.str[i] \in {DigitChars[d] : d \in 1..10}
       /\ \E i \in 2..Len(b.str) : b.str[i] # "0"

\* Spec 3 and 4.1: a value's kind does not depend on whether it was passed
\* by value, behind one or two pointers, or as a defined type.  Indirect's
\* loop and the reflect default case must bring each form to the result the
\* plain value gets, for every function, including the wrap-around of the
\* width-changing casts and the string recursion.
IndirectionTransparent ==
    Done /\ form \in {"ptr", "ptrptr", "named"} => result["plain"] = result["wrapped"]

\* Spec 4.2 and 8: an unsigned target rejects every negative source value,
\* whether it is a signed integer, a float, decimal text, or one of these
\* behind pointers or a defined type; it never wraps it into range.
UnsignedRejectsNegative ==
    \A l \in Lanes :
        pc[l] = "done" /\ ~F.signed /\ Negative(arg[l]) => ~result[l].ok

\* Spec 8: ToInt64E of the decimal text of an int64 n returns n.
IntStringRoundTrip ==
    Done /\ form = "format" /\ fn = "ToInt64E"
    /\ arg["plain"].val \in RangeOf(Bits["int64"], TRUE)
    => result["wrapped"] = Ok(arg["plain"].val)

\* Spec 4.1 and 4.2: a nil pointer resolves to the null value, and null
\* coerces to zero without an error, as an untyped nil does.
NilPointerIsNull ==
    Done /\ form = "nilptr" => result["wrapped"] = result["plain"]

=============================================================================
