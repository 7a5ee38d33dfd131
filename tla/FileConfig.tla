------------------------------ MODULE FileConfig ------------------------------
(***************************************************************************)
(* cconfig.FileConfig (src/cconfig/file.go): a configuration decoded from *)
(* a YAML, JSON or TOML document into map[string]interface{}, read back  *)
(* by typed getters that switch on the dynamic type the decoder stored    *)
(* and hand strings to the convert package.                               *)
(*                                                                         *)
(* The decoders are third-party; a document is written as literals, and   *)
(* Decode gives the Go value each decoder stores for a literal:           *)
(*  - yaml.v2: int, float64, string, bool, and map[interface{}]interface{}*)
(*    for a nested mapping;                                               *)
(*  - jsoniter with UseNumber: a json.Number holding the number's text,   *)
(*    string, bool, map[string]interface{};                               *)
(*  - BurntSushi/toml: int64, float64, string, bool, map[string]...       *)
(* Floats are halves (h stands for h/2); widths are scaled as in the      *)
(* convert models (int and int64 IntBits bits, int32 Int32Bits bits).    *)
(***************************************************************************)
EXTENDS Strconv

CONSTANTS
    Keys,       \* the keys of a document
    Scalars,    \* the scalar literals a document may hold
    IntBits,    \* the width of Go's int and int64
    Int32Bits,  \* the width of int32
    Garbage,    \* a document that does not parse
    NoConfig    \* a nil Configuration

IntLit(n)   == [lit |-> "int", n |-> n]
FloatLit(h) == [lit |-> "float", h |-> h]
StrLit(s)   == [lit |-> "string", s |-> s]
BoolLit(b)  == [lit |-> "bool", b |-> b]

\* A document: each key absent, a scalar, or a section holding at most
\* one scalar.
Sections == {<<>>} \cup UNION {[{k} -> Scalars] : k \in Keys}
Docs == UNION {[D -> Scalars \cup {[lit |-> "section", items |-> s] : s \in Sections}]
                  : D \in SUBSET Keys} \cup {Garbage}

Formats == {"yaml", "json", "toml"}

\* The text of h/2 as a number literal: "2.5", "-1.5", ...
FloatText(h) == (IF h < 0 THEN <<"-">> ELSE <<>>)
                \o FormatInt(IF h < 0 THEN (-h) \div 2 ELSE h \div 2)
                \o (IF h % 2 = 1 THEN <<".", "5">> ELSE <<".", "0">>)

\* The Go value a decoder stores for a literal.
RECURSIVE Decode(_, _)
Decode(f, l) ==
    CASE l.lit = "int"     -> CASE f = "yaml" -> [kind |-> "int", val |-> l.n]
                                [] f = "json" -> [kind |-> "number", text |-> FormatInt(l.n)]
                                [] OTHER      -> [kind |-> "int64", val |-> l.n]
      [] l.lit = "float"   -> IF f = "json" THEN [kind |-> "number", text |-> FloatText(l.h)]
                              ELSE [kind |-> "float64", h |-> l.h]
      [] l.lit = "string"  -> [kind |-> "string", s |-> l.s]
      [] l.lit = "bool"    -> [kind |-> "bool", b |-> l.b]
      [] OTHER             -> [kind |-> IF f = "yaml" THEN "imap" ELSE "smap",
                               items |-> [k \in DOMAIN l.items |-> Decode(f, l.items[k])]]

DecodeDoc(f, d) == [k \in DOMAIN d |-> Decode(f, d[k])]

\* convert.ToIntE / ToInt64E / ToInt32E of a string: strip a leading "0"
\* (not of "0o") and recurse, then strconv.ParseInt(s, 0, 0).
RECURSIVE ToIntEString(_)
ToIntEString(s) ==
    IF s # <<>> /\ s[1] = "0" /\ ~(Len(s) >= 2 /\ s[2] = "o")
    THEN ToIntEString(Tail(s))
    ELSE ParseInt(s, IntBits)

\* strconv.ParseBool.
TrueTexts  == {<<"1">>, <<"t">>, <<"T">>, <<"t","r","u","e">>, <<"T","R","U","E">>, <<"T","r","u","e">>}
FalseTexts == {<<"0">>, <<"f">>, <<"F">>, <<"f","a","l","s","e">>, <<"F","A","L","S","E">>, <<"F","a","l","s","e">>}
ParseBool(s) == IF s \in TrueTexts \cup FalseTexts THEN [ok |-> TRUE, val |-> s \in TrueTexts]
                ELSE [ok |-> FALSE, val |-> FALSE]

\* strconv.ParseFloat(s, 64), in halves, for the texts the documents hold:
\* an optional '-', decimal digits, and an optional ".0" or ".5".
ParseFloat(s) ==
    LET neg  == s # <<>> /\ s[1] = "-"
        body == IF neg THEN Tail(s) ELSE s
        cut  == Len(body) >= 2 /\ body[Len(body) - 1] = "."
        ds   == IF cut THEN SubSeq(body, 1, Len(body) - 2) ELSE body
        frac == IF cut /\ body[Len(body)] = "5" THEN 1 ELSE 0
        h    == 2 * DigitsValue(ds, 10) + frac
    IN  IF /\ ds # <<>> /\ \A i \in DOMAIN ds : DigitValue(ds[i]) \in 0..9
           /\ cut => body[Len(body)] \in {"0", "5"}
        THEN [ok |-> TRUE, val |-> IF neg THEN -h ELSE h] ELSE [ok |-> FALSE, val |-> 0]

\* Go truncates a float toward zero when converting it to an integer.
Trunc(h) == IF h >= 0 THEN h \div 2 ELSE -((-h) \div 2)

IntOk(n)    == [ok |-> TRUE, val |-> [kind |-> "int", n |-> n]]
AsInt(r)    == [ok |-> r.ok, val |-> [kind |-> "int", n |-> r.val]]
AsBool(r)   == [ok |-> r.ok, val |-> [kind |-> "bool", b |-> r.val]]
AsFloat(r)  == [ok |-> r.ok, val |-> [kind |-> "float", h |-> r.val]]
IntErr      == AsInt(Err)
Missing     == [kind |-> "nil"]

\* fc.data[key]: the nil interface for a missing key.
Lookup(data, k) == IF k \in DOMAIN data THEN data[k] ELSE Missing

\* GetInt: the int, int32 and int64 assertions, json.Number's Int64 (which
\* is strconv.ParseInt(text, 10, 64); the texts a decoder stores have no
\* base prefix, so base 0 reads them alike) returned as int(tmp), err,
\* float64 truncated, a string through convert.ToIntE, else an error.
GetIntOf(v) ==
    CASE v.kind \in {"int", "int32", "int64"} -> IntOk(v.val)
      [] v.kind = "number"  -> AsInt(ParseInt(v.text, IntBits))
      [] v.kind = "float64" -> IntOk(Trunc(v.h))
      [] v.kind = "string"  -> AsInt(ToIntEString(v.s))
      [] OTHER              -> IntErr

\* GetInt64: the same cases in another order, with convert.ToInt64E.
GetInt64Of(v) ==
    CASE v.kind \in {"int64", "int32", "int"} -> IntOk(v.val)
      [] v.kind = "number"  -> AsInt(ParseInt(v.text, IntBits))
      [] v.kind = "float64" -> IntOk(Trunc(v.h))
      [] v.kind = "string"  -> AsInt(ToIntEString(v.s))
      [] OTHER              -> IntErr

\* A float64 whose truncation int32 cannot hold: Go leaves int32(v) to
\* the implementation.
BigFloat(v) == v.kind = "float64" /\ Trunc(v.h) \notin RangeOf(Int32Bits, TRUE)

\* Mutant: ToInt32E's string case parsing with bitSize 32.
GetInt32Parse32(v, oor) ==
    LET n(r) == [ok |-> r.ok, val |-> Wrap(r.val, Int32Bits, TRUE)] IN
    CASE v.kind \in {"int32", "int", "int64"} -> IntOk(Wrap(v.val, Int32Bits, TRUE))
      [] v.kind = "number"  -> AsInt(n(ParseInt(v.text, IntBits)))
      [] v.kind = "float64" -> IntOk(IF BigFloat(v) THEN oor ELSE Trunc(v.h))
      [] v.kind = "string"  ->
             LET RECURSIVE Strip(_)
                 Strip(s) == IF s # <<>> /\ s[1] = "0" /\ ~(Len(s) >= 2 /\ s[2] = "o")
                             THEN Strip(Tail(s)) ELSE s
             IN  AsInt(n(ParseInt(Strip(v.s), Int32Bits)))
      [] OTHER              -> IntErr

\* GetInt32: int32(v) of each integer kind, int32(tmp), err of the
\* number's Int64, int32 of a float64 (oor when out of range), and
\* convert.ToInt32E of a string, which parses 64 bits and narrows.
GetInt32Of(v, oor) ==
    LET n(r) == [ok |-> r.ok, val |-> Wrap(r.val, Int32Bits, TRUE)] IN
    CASE v.kind \in {"int32", "int", "int64"} -> IntOk(Wrap(v.val, Int32Bits, TRUE))
      [] v.kind = "number"  -> AsInt(n(ParseInt(v.text, IntBits)))
      [] v.kind = "float64" -> IntOk(IF BigFloat(v) THEN oor ELSE Trunc(v.h))
      [] v.kind = "string"  -> AsInt(n(ToIntEString(v.s)))
      [] OTHER              -> IntErr

\* GetBool: a bool, a string or a number's text through ParseBool.
GetBoolOf(v) ==
    CASE v.kind = "bool"   -> AsBool([ok |-> TRUE, val |-> v.b])
      [] v.kind = "string" -> AsBool(ParseBool(v.s))
      [] v.kind = "number" -> AsBool(ParseBool(v.text))
      [] OTHER             -> AsBool([ok |-> FALSE, val |-> FALSE])

\* GetFloat64: a float64, a number's Float64, a string through ToFloat64E;
\* there is no integer case.
GetFloat64Of(v) ==
    CASE v.kind = "float64" -> AsFloat([ok |-> TRUE, val |-> v.h])
      [] v.kind = "number"  -> AsFloat(ParseFloat(v.text))
      [] v.kind = "string"  -> AsFloat(ParseFloat(v.s))
      [] OTHER              -> AsFloat(Err)

GetStringOf(v) ==
    IF v.kind = "string" THEN [ok |-> TRUE, val |-> [kind |-> "string", s |-> v.s]]
    ELSE [ok |-> FALSE, val |-> [kind |-> "string", s |-> <<>>]]

Getters == {"GetInt", "GetInt32", "GetInt64", "GetBool", "GetFloat64", "GetString"}

\* What getter g returns for v, oor being this build's int32 of a big float.
Get(g, v, oor) ==
    CASE g = "GetInt"     -> GetIntOf(v)
      [] g = "GetInt32"   -> GetInt32Of(v, oor)
      [] g = "GetInt64"   -> GetInt64Of(v)
      [] g = "GetBool"    -> GetBoolOf(v)
      [] g = "GetFloat64" -> GetFloat64Of(v)
      [] OTHER            -> GetStringOf(v)

\* The defaultVal a caller passes to the ...WithDefault getters.
Default(g) ==
    CASE g \in {"GetInt", "GetInt32", "GetInt64"} -> [kind |-> "int", n |-> 7]
      [] g = "GetBool"    -> [kind |-> "bool", b |-> TRUE]
      [] g = "GetFloat64" -> [kind |-> "float", h |-> 7]
      [] OTHER            -> [kind |-> "string", s |-> <<"d">>]

VARIABLES
    fmt,      \* the format of the document loaded
    doc,      \* the document written, or Garbage
    cfg,      \* the Configuration held: its data, or NoConfig
    item,     \* the item GetConfigItem descended into, or "none"
    getter,   \* the getter called last, or "none"
    key,      \* the key it was called with
    lenient,  \* whether it was the ...WithDefault form
    out,      \* what it returned
    pc        \* "idle", "loaded" or "nil"

vars == <<fmt, doc, cfg, item, getter, key, lenient, out, pc>>

None == [ok |-> FALSE, val |-> Missing]

Init ==
    /\ fmt = "json" /\ doc = Garbage /\ cfg = NoConfig /\ item = "none"
    /\ getter = "none" /\ key = "none" /\ lenient = FALSE /\ out = None
    /\ pc = "idle"

\* GetFileConfigFrom{Yaml,Json,Toml}{String,Stream}, and GetFileConfig of
\* one ".json" file: a read or open error (readOk false) or a document
\* that does not decode gives nil, err; otherwise &FileConfig{data}.
Load(f, d, readOk) ==
    /\ pc = "idle"
    /\ fmt' = f /\ doc' = d
    /\ IF readOk /\ d # Garbage
       THEN cfg' = DecodeDoc(f, d) /\ pc' = "loaded"
       ELSE cfg' = NoConfig /\ pc' = "nil"
    /\ UNCHANGED <<item, getter, key, lenient, out>>

\* GetConfigItem(c, item): a sub-configuration when data[item] is a
\* map[string]interface{}, nil otherwise.  The caller now holds the new
\* configuration and no getter result of it.
GetConfigItem(it) ==
    /\ pc = "loaded" /\ item = "none"
    /\ LET v == Lookup(cfg, it) IN
       IF v.kind = "smap" THEN cfg' = v.items /\ pc' = "loaded"
       ELSE cfg' = NoConfig /\ pc' = "nil"
    /\ item' = it
    /\ getter' = "none" /\ key' = "none" /\ lenient' = FALSE /\ out' = None
    /\ UNCHANGED <<fmt, doc>>

\* A getter, or its ...WithDefault form, which returns defaultVal when the
\* getter errs.  oor is this build's int32 of a float it cannot hold.
Call(g, k, l) ==
    /\ pc = "loaded"
    /\ \E oor \in RangeOf(Int32Bits, TRUE) :
          LET v == Lookup(cfg, k)
              r == Get(g, v, oor)
          IN  /\ (g = "GetInt32" /\ BigFloat(v)) \/ oor = 0
              /\ out' = IF l THEN [ok |-> TRUE, val |-> IF r.ok THEN r.val ELSE Default(g)]
                        ELSE r
    /\ getter' = g /\ key' = k /\ lenient' = l
    /\ UNCHANGED <<fmt, doc, cfg, item, pc>>

\* The caller drops the configuration.
Drop ==
    /\ pc # "idle"
    /\ fmt' = "json" /\ doc' = Garbage /\ cfg' = NoConfig /\ item' = "none"
    /\ getter' = "none" /\ key' = "none" /\ lenient' = FALSE /\ out' = None
    /\ pc' = "idle"

Next ==
    \/ pc = "idle" /\ \E f \in Formats, d \in Docs, r \in BOOLEAN : Load(f, d, r)
    \/ \E it \in Keys : GetConfigItem(it)
    \/ \E g \in Getters, k \in Keys, l \in BOOLEAN : Call(g, k, l)
    \/ Drop

Spec == Init /\ [][Next]_vars

-----------------------------------------------------------------------------
TypeOK ==
    /\ pc \in {"idle", "loaded", "nil"}
    /\ pc = "loaded" <=> cfg # NoConfig
    /\ item \in Keys \cup {"none"}
    /\ out.ok \in BOOLEAN
    /\ lenient => out.ok

\* The section of the document at item, if it is one.
IsSection(it) == doc # Garbage /\ it \in DOMAIN doc /\ doc[it].lit = "section"

\* GetConfigItem returns a configuration exactly for the items that are
\* sections of the document, whatever the format it was written in.
SectionScoped ==
    item # "none" /\ pc # "idle" => (cfg # NoConfig <=> IsSection(item))

\* GetInt and GetInt32 agree with GetInt64 on every value of every format
\* (Go's int is 64 bits wide): the same error, GetInt the same number, and
\* GetInt32 its int32 narrowing, except for a float int32 cannot hold.
IntGettersAgree ==
    pc = "loaded" /\ ~lenient /\ getter \in {"GetInt", "GetInt32"} =>
        LET v == Lookup(cfg, key)
            r == GetInt64Of(v)
        IN  /\ out.ok = r.ok
            /\ getter = "GetInt" => out.val.n = r.val.n
            /\ getter = "GetInt32" /\ ~BigFloat(v) => out.val.n = Wrap(r.val.n, Int32Bits, TRUE)
=============================================================================
