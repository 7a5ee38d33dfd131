------------------------------ MODULE Strconv ------------------------------
(***************************************************************************)
(* The part of Go's strconv package that the coercion engine calls:       *)
(* ParseUint and ParseInt with base 0 (the base is chosen by a 0b/0o/0x   *)
(* or bare-0 prefix), FormatInt, and the two's-complement narrowing that  *)
(* a Go integer conversion such as int8(v) performs.                      *)
(*                                                                         *)
(* A string is a sequence of one-character strings.  Syntax and range     *)
(* errors are not told apart: every caller in src/convert returns "0,    *)
(* err" for both.  Widths are parameters, so a model can scale 64 bits   *)
(* down to what TLC's integers hold while keeping the wrap-around.        *)
(***************************************************************************)
EXTENDS Integers, Sequences, SequencesExt

Ok(n) == [ok |-> TRUE, val |-> n]
Err   == [ok |-> FALSE, val |-> 0]

\* The byte values strconv gives digits: '0'..'9' are 0..9, 'a'..'z' are 10..35.
DigitChars == <<"0","1","2","3","4","5","6","7","8","9",
                "a","b","c","d","e","f","g","h","i","j","k","l","m",
                "n","o","p","q","r","s","t","u","v","w","x","y","z">>

\* The value of one byte as a digit, or -1 when it is neither digit nor letter.
DigitValue(c) ==
    IF \E i \in DOMAIN DigitChars : DigitChars[i] = c
    THEN (CHOOSE i \in DOMAIN DigitChars : DigitChars[i] = c) - 1
    ELSE -1

\* Base 0: a leading "0b", "0o" or "0x" (only when at least 3 bytes long)
\* selects base 2, 8 or 16 and is dropped; any other leading "0" means
\* octal and only the "0" is dropped; otherwise base 10.
PrefixBase(s) ==
    IF Len(s) > 0 /\ s[1] = "0"
    THEN IF Len(s) >= 3 /\ s[2] \in {"b", "o", "x"}
         THEN CASE s[2] = "b" -> 2 [] s[2] = "o" -> 8 [] s[2] = "x" -> 16
         ELSE 8
    ELSE 10

PrefixLen(s) ==
    IF Len(s) > 0 /\ s[1] = "0"
    THEN IF Len(s) >= 3 /\ s[2] \in {"b", "o", "x"} THEN 2 ELSE 1
    ELSE 0

\* The digits after the prefix, read in the prefix's base.
Digits(s) == SubSeq(s, PrefixLen(s) + 1, Len(s))

DigitsValue(ds, base) == FoldLeft(LAMBDA acc, c : acc * base + DigitValue(c), 0, ds)

\* strconv.ParseUint(s, 0, bitSize): every digit below the base and the
\* value at most 2^bitSize - 1; "" is a syntax error, but a bare "0"
\* (octal prefix, no digits) is 0.
ParseUint(s, bitSize) ==
    LET base == PrefixBase(s)
        ds   == Digits(s)
        n    == DigitsValue(ds, base)
    IN  IF /\ s # <<>>
           /\ \A i \in DOMAIN ds : DigitValue(ds[i]) \in 0..(base - 1)
           /\ n <= 2^bitSize - 1
        THEN Ok(n) ELSE Err

\* strconv.ParseInt(s, 0, bitSize): an optional '+' or '-', then ParseUint
\* of the rest, then the signed range check -2^(b-1) .. 2^(b-1)-1.
ParseInt(s, bitSize) ==
    LET neg  == s # <<>> /\ s[1] = "-"
        body == IF s # <<>> /\ s[1] \in {"+", "-"} THEN Tail(s) ELSE s
        un   == ParseUint(body, bitSize)
        half == 2^(bitSize - 1)
    IN  IF /\ s # <<>>
           /\ un.ok
           /\ ~neg => un.val < half
           /\ neg => un.val <= half
        THEN Ok(IF neg THEN -un.val ELSE un.val) ELSE Err

\* A Go conversion to a width-bit integer type: keep the low bits and, for
\* a signed type, read the top bit as the sign.
Wrap(n, width, signed) ==
    LET m == n % (2^width)
    IN  IF signed /\ m >= 2^(width - 1) THEN m - 2^width ELSE m

\* The range of a width-bit integer type.
RangeOf(width, signed) ==
    IF signed THEN -(2^(width - 1))..(2^(width - 1) - 1) ELSE 0..(2^width - 1)

RECURSIVE DecimalDigits(_)
DecimalDigits(n) ==
    IF n < 10 THEN <<DigitChars[n + 1]>>
    ELSE DecimalDigits(n \div 10) \o <<DigitChars[(n % 10) + 1]>>

\* strconv.FormatInt(n, 10): decimal digits, '-' for a negative number.
FormatInt(n) == IF n < 0 THEN <<"-">> \o DecimalDigits(-n) ELSE DecimalDigits(n)

=============================================================================
