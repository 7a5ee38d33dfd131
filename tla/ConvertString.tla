---------------------------- MODULE ConvertString ----------------------------
(***************************************************************************)
(* Calls of ToStringE (src/convert/converte.go) on every basic value,     *)
(* behind one or two pointers and as a defined type, and on Stringers,    *)
(* compared with the text each value stands for.                          *)
(***************************************************************************)
EXTENDS ToString

\* A value and the forms a caller may pass it in.
Forms(v) ==
    {v}
    \cup (IF v = Nil THEN {} ELSE {Ptr(v), Ptr(Ptr(v))})
    \cup (IF v.kind \in IntKinds \cup FloatKinds \cup {"bool", "string"} THEN {Named(v)} ELSE {})

Args ==
    UNION {Forms(v) : v \in Basics \cup {Stringer(<<"s">>)}}

VARIABLES
    arg,   \* the argument of the last call
    out    \* what ToStringE returned

vars == <<arg, out>>

Init == arg = Nil /\ out = ToStringE(Nil)

\* A caller calls ToStringE.
Call(a) == arg' = a /\ out' = ToStringE(a)

Next == \E a \in Args : Call(a)

Spec == Init /\ [][Next]_vars

-----------------------------------------------------------------------------
\* The text a value stands for, whatever form it is passed in: an integer
\* in decimal, a float as its shortest decimal, "true" or "false", a string
\* as it is, nil as "", a Stringer as its String(); a struct has none.
RECURSIVE Rendering(_)
Rendering(v) ==
    CASE v.kind = "ptr"      -> Rendering(v.to)
      [] v.kind = "named"    -> Rendering(v.of)
      [] v.kind \in IntKinds -> Text(FormatInt(v.val))
      [] v.kind \in FloatKinds -> Text(FormatHalf(v.val))
      [] v.kind = "bool"     -> Text(FormatBool(v.b))
      [] v.kind = "string"   -> Text(v.str)
      [] v.kind = "nil"      -> Text(<<>>)
      [] v.kind = "stringer" -> Text(v.text)
      [] OTHER               -> NoText

\* Spec 4.1 (coerce_stringE): every value renders as the text it stands
\* for: the type switch, the pointer loop that stops at a Stringer, and the
\* reflect default for defined types (which reads unsigned kinds as a
\* uint64) must all agree on it, for every integer width.
StringRendersValue == out = Rendering(arg)
=============================================================================
