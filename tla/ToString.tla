------------------------------- MODULE ToString -------------------------------
(***************************************************************************)
(* The dynamic values the coercion functions of src/convert take, and     *)
(* ToStringE (src/convert/converte.go) over them.  ToStringE first        *)
(* dereferences pointers until it reaches a value whose type has a String *)
(* or Error method (indirectToStringerOrError), then switches on the      *)
(* type: strings as they are, bools and floats through strconv, signed    *)
(* integers in decimal, every unsigned integer through                    *)
(* strconv.FormatInt(int64(s), 10), nil as "", a Stringer through its     *)
(* String method; a defined type over a basic kind is read through        *)
(* reflect (v.Uint() for the unsigned kinds, a uint64) and converted      *)
(* again; anything else is an error.                                      *)
(***************************************************************************)
EXTENDS Integers, Sequences, Strconv

CONSTANTS
    Bits,        \* [integer kind -> width]; "int" and "uint" have IntSize
    Chars,       \* the bytes string inputs are made of
    MaxLen,      \* the longest string input
    SmallInts,   \* payloads of integer inputs (those in the kind's range)
    FloatHalves  \* payloads of float inputs: h stands for h/2

SignedKinds   == {"int", "int8", "int16", "int32", "int64"}
UnsignedKinds == {"uint", "uint8", "uint16", "uint32", "uint64"}
IntKinds      == SignedKinds \cup UnsignedKinds
FloatKinds    == {"float32", "float64"}

ASSUME /\ Bits \in [IntKinds -> Nat \ {0, 1}]
       /\ Bits["int"] = Bits["int64"] /\ Bits["uint"] = Bits["uint64"]

(***************************************************************************)
(* Dynamic values.  "nilptr" is a typed nil pointer such as a nil *int;  *)
(* "struct" is a value no case handles (the tests use testing.T{});       *)
(* "named" is a value of a defined type such as `type IntT int`.           *)
(***************************************************************************)
IntVal(k, n)  == [kind |-> k, val |-> n]
BoolVal(b)    == [kind |-> "bool", b |-> b]
StrVal(s)     == [kind |-> "string", str |-> s]
Nil           == [kind |-> "nil"]
NilPtr        == [kind |-> "nilptr"]
Opaque        == [kind |-> "struct"]
Named(v)      == [kind |-> "named", of |-> v]
Ptr(v)        == [kind |-> "ptr", to |-> v]

Strings == {StrVal(s) : s \in BoundedSeq(Chars, MaxLen)}
Basics ==
    UNION {{IntVal(k, n) : n \in SmallInts \cap RangeOf(Bits[k], k \in SignedKinds)} : k \in IntKinds}
    \cup {IntVal(k, h) : k \in FloatKinds, h \in FloatHalves}
    \cup {BoolVal(b) : b \in BOOLEAN}
    \cup Strings \cup {Nil, Opaque}

\* reflect's v.Int(), v.Uint(), v.Float(), v.Bool(), v.String().
Underlying(v) ==
    CASE v.kind \in SignedKinds   -> IntVal("int64", v.val)
      [] v.kind \in UnsignedKinds -> IntVal("uint64", v.val)
      [] v.kind \in FloatKinds    -> IntVal("float64", v.val)
      [] OTHER                    -> v


\* A value of a type with a String method, which returns text.
Stringer(text) == [kind |-> "stringer", text |-> text]

\* strconv.FormatBool.
FormatBool(b) == IF b THEN <<"t", "r", "u", "e">> ELSE <<"f", "a", "l", "s", "e">>

\* strconv.FormatFloat(h/2, 'f', -1, 64): the shortest decimal text of a
\* half, "-0.5" and "12.5" for the odd ones.
FormatHalf(h) ==
    IF h % 2 = 0 THEN FormatInt(h \div 2)
    ELSE (IF h < 0 THEN <<"-">> ELSE <<>>) \o FormatInt((IF h < 0 THEN -h ELSE h) \div 2) \o <<".", "5">>

\* Mutant: one dereference only, an "if" for the "for".
IndirectToStringerOnce(v) ==
    IF v.kind = "ptr" /\ v.to.kind # "stringer" THEN v.to ELSE v

\* indirectToStringerOrError: dereference while the value is a non-nil
\* pointer whose type implements neither fmt.Stringer nor error.
RECURSIVE IndirectToStringerOrError(_)
IndirectToStringerOrError(v) ==
    IF v.kind = "ptr" /\ v.to.kind # "stringer" THEN IndirectToStringerOrError(v.to) ELSE v

Text(s) == [ok |-> TRUE, str |-> s]
NoText  == [ok |-> FALSE, str |-> <<>>]

\* ToStringE: the type switch, then the reflect default, which calls
\* ToStringE again on the underlying value of a defined type.
RECURSIVE ToStringE(_)
ToStringE(i) ==
    LET v == IndirectToStringerOrError(i) IN
    CASE v.kind = "string"         -> Text(v.str)
      [] v.kind = "bool"           -> Text(FormatBool(v.b))
      [] v.kind \in FloatKinds     -> Text(FormatHalf(v.val))
      [] v.kind \in SignedKinds    -> Text(FormatInt(v.val))
      [] v.kind \in UnsignedKinds  -> Text(FormatInt(Wrap(v.val, Bits["int64"], TRUE)))
      [] v.kind = "nil"            -> Text(<<>>)
      [] v.kind = "stringer"       -> Text(v.text)
      [] v.kind = "ptr" /\ v.to.kind = "stringer" -> Text(v.to.text)
      [] v.kind = "named"          -> ToStringE(Underlying(v.of))
      [] OTHER                     -> NoText
=============================================================================
