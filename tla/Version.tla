------------------------------- MODULE Version -------------------------------
(***************************************************************************)
(* ToVersionE (src/convert/version.go).  A VersionInfo is returned as it  *)
(* is; a string is trimmed, cut down by the regular expression            *)
(* [^\d]* ([\d\.]+) (.* ) to its first run of digits and dots, split   *)
(* at the dots, and the parts turned into ints with the lenient ToIntSlice,      *)
(* whose ToIntSliceE calls ToIntE on each part (strip a leading "0" and   *)
(* recurse, then strconv.ParseInt(s, 0, 0)) and gives an empty slice when *)
(* any part fails.  The first three ints, or 0 for a missing one, are the *)
(* version.  nil and values of other kinds give 0.0.0 and an error; a     *)
(* defined type over string goes through reflect and is parsed as a       *)
(* string.  Pointers are resolved first by Indirect.                      *)
(***************************************************************************)
EXTENDS Strconv

CONSTANTS
    Chars,       \* the bytes of the input strings
    MaxLen,      \* the longest input string
    Components,  \* the version numbers of the VersionInfo values
    IntBits      \* the width of Go's int

DecimalChars == {"0", "1", "2", "3", "4", "5", "6", "7", "8", "9"}

V(major, minor, build) == [Major |-> major, Minor |-> minor, Build |-> build]

StrOf(s)     == [kind |-> "string", str |-> s]
NamedStr(s)  == [kind |-> "named", str |-> s]
VersionOf(v) == [kind |-> "version", v |-> v]
PtrTo(a)     == [kind |-> "ptr", to |-> a]

\* strings.TrimSpace, for the one space character of the alphabet.
TrimSpace(s) ==
    LET keep == {i \in DOMAIN s : s[i] # " "}
    IN  IF keep = {} THEN <<>>
        ELSE SubSeq(s, Min(keep), Max(keep))

\* Mutant: the string split as it is, without the regular expression.
VersionRunIdentity(s) == s

\* ReplaceAllString(s, "${1}") with the pattern above: the greedy
\* [^\d]* runs up to the first digit, and the group is the run of digits
\* and dots from there; with no digit it backs off to the last dot, and
\* the group is that dot alone; with neither there is no match and s is
\* left as it is.
VersionRun(s) ==
    LET digits == {i \in DOMAIN s : s[i] \in DecimalChars}
        dots   == {i \in DOMAIN s : s[i] = "."}
        first  == Min(digits)
        inRun  == {j \in first..Len(s) : \A i \in first..j : s[i] \in DecimalChars \cup {"."}}
    IN  CASE digits # {} -> SubSeq(s, first, Max(inRun))
          [] dots # {}   -> <<".">>
          [] OTHER       -> s

\* strings.Split(s, "."): "" gives one empty part.
SplitDots(s) ==
    FoldLeft(LAMBDA parts, c :
                 IF c = "." THEN Append(parts, <<>>)
                 ELSE [parts EXCEPT ![Len(parts)] = Append(@, c)],
             <<<<>>>>, s)

\* ToIntE of a string: strip a leading "0" (not of "0o") and recurse,
\* otherwise strconv.ParseInt(s, 0, 0).
RECURSIVE ToIntEString(_)
ToIntEString(s) ==
    IF s # <<>> /\ s[1] = "0" /\ ~(Len(s) >= 2 /\ s[2] = "o")
    THEN ToIntEString(Tail(s))
    ELSE ParseInt(s, IntBits)

\* ToIntSlice of a []string: every part through ToIntE, or an empty slice
\* as soon as one fails (the lenient wrapper drops the error).
ToIntSlice(parts) ==
    IF \A k \in DOMAIN parts : ToIntEString(parts[k]).ok
    THEN [k \in DOMAIN parts |-> ToIntEString(parts[k]).val]
    ELSE <<>>

\* Mutant: the length checks one too strict (len(intArray) > 3, ...).
ComponentOffByOne(arr, k) == IF Len(arr) > k THEN arr[k] ELSE 0

\* The cascade len(intArray) >= 3, >= 2, > 0: element k, or 0 when the
\* slice is shorter.
Component(arr, k) == IF Len(arr) >= k THEN arr[k] ELSE 0

ParseVersion(s) ==
    LET arr == ToIntSlice(SplitDots(VersionRun(TrimSpace(s))))
    IN  [ok |-> TRUE, v |-> V(Component(arr, 1), Component(arr, 2), Component(arr, 3))]

\* ToVersionE after Indirect: the type switch and the reflect default.
RECURSIVE ToVersionE(_)
ToVersionE(a) ==
    CASE a.kind = "ptr"     -> ToVersionE(a.to)
      [] a.kind = "version" -> [ok |-> TRUE, v |-> a.v]
      [] a.kind = "string"  -> ParseVersion(a.str)
      [] a.kind = "named"   -> ToVersionE(StrOf(a.str))
      [] OTHER              -> [ok |-> FALSE, v |-> V(0, 0, 0)]

\* VersionInfo.String: fmt.Sprintf("%v.%v.%v", ...).
Render(v) == FormatInt(v.Major) \o <<".">> \o FormatInt(v.Minor) \o <<".">> \o FormatInt(v.Build)

Versions == {V(a, b, c) : a, b, c \in Components}

\* Free-form text around a rendering: leading text without a digit, and
\* trailing text that starts with neither a digit nor a dot, or that is a
\* fourth dot-separated group.
Leads  == {<<>>, <<"v">>, <<" ", "-">>}
Trails == {<<>>, <<"-", "r">>, <<" ">>, <<".", "1">>}

Embedded(v) == {p \o Render(v) \o q : p \in Leads, q \in Trails}

\* The inputs: short strings, the rendering of each version with free-form
\* text around it, plain, behind a pointer or as a defined string type,
\* the VersionInfo values, nil and a value of another kind.
Args ==
    LET strs == BoundedSeq(Chars, MaxLen) \cup UNION {Embedded(v) : v \in Versions}
    IN  {StrOf(s) : s \in strs}
        \cup {NamedStr(Render(v)) : v \in Versions}
        \cup {PtrTo(StrOf(Render(v))) : v \in Versions}
        \cup {VersionOf(v) : v \in Versions}
        \cup {[kind |-> "nil"], [kind |-> "other"]}

VARIABLES
    arg,   \* the argument of the last call
    out    \* what ToVersionE returned

vars == <<arg, out>>

Init == arg = [kind |-> "nil"] /\ out = ToVersionE(arg)

\* A caller calls ToVersionE.
Call(a) == arg' = a /\ out' = ToVersionE(a)

Next == \E a \in Args : Call(a)

Spec == Init /\ [][Next]_vars

-----------------------------------------------------------------------------
\* The regular expression keeps only digits and dots, so no version number
\* is negative, whatever sign the text carries.
TypeOK ==
    /\ out.ok \in BOOLEAN
    /\ out.v \in [Major : Nat, Minor : Nat, Build : Nat]
    /\ ~out.ok => out.v = V(0, 0, 0)

\* Spec 2 and 4.5: a version whose components are all non-zero is found
\* in free-form text: its rendering "major.minor.build", with leading text
\* and trailing text around it, parses back to it, whether it is passed
\* as a string, behind a pointer, as a defined string type or as the
\* VersionInfo itself.  A zero component is left out: ToIntE("0") fails
\* and empties the whole slice (version.go:32), the divergence that
\* int_string_round_trip shows at its root.
VersionRoundTrip ==
    \A v \in Versions :
        /\ 0 \notin {v.Major, v.Minor, v.Build}
        /\ arg \in {StrOf(s) : s \in Embedded(v)}
                 \cup {NamedStr(Render(v)), PtrTo(StrOf(Render(v))), VersionOf(v)}
        => out = [ok |-> TRUE, v |-> v]
=============================================================================
