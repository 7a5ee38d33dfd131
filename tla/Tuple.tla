-------------------------------- MODULE Tuple --------------------------------
(***************************************************************************)
(* Tuple (src/convert/tupe.go): NewTuple keeps its arguments; Get returns *)
(* nil for a nil tuple or an index at or past the end, and elements[index] *)
(* otherwise, which panics for a negative index; GetInt and the other     *)
(* accessors pass what Get returned to a lenient coercion, which gives    *)
(* the zero value for nil or a failure.  Elements are model values, and   *)
(* Conv gives what the coercion makes of one.                             *)
(***************************************************************************)
EXTENDS Integers, Sequences, SequencesExt

CONSTANTS
    Elems,    \* element values of unknown type
    Conv,     \* [Elems -> [ok, val]]: what ToInt returns for an element
    MaxLen,   \* the longest tuple
    NilTuple  \* a nil *Tuple

VARIABLES
    t,         \* the *Tuple: NilTuple or its elements
    out,       \* what the last accessor returned
    panicked,  \* whether it panicked instead
    index,     \* the index it was given
    called     \* whether an accessor was called since NewTuple

vars == <<t, out, panicked, index, called>>

Init == t = NilTuple /\ out = 0 /\ panicked = FALSE /\ index = 0 /\ called = FALSE

\* NewTuple(elements...): a tuple of the given values.
NewTuple(es) == t' = es /\ out' = 0 /\ panicked' = FALSE /\ index' = 0 /\ called' = FALSE

\* Get(index): nil when t == nil || len(t.elements) <= index; otherwise
\* t.elements[index], and Go's bounds check panics for index < 0.
Get(i) ==
    CASE t = NilTuple \/ Len(t) <= i -> [is |-> "nil"]
      [] i < 0                       -> [is |-> "panic"]
      [] OTHER                       -> [is |-> "elem", e |-> t[i + 1]]

\* GetInt(index): ToInt(t.Get(index)); ToInt(nil) and a failed coercion
\* give 0.
GetInt(i) ==
    /\ LET g == Get(i) IN
       /\ panicked' = (g.is = "panic")
       /\ out' = IF g.is = "elem" /\ Conv[g.e].ok THEN Conv[g.e].val ELSE 0
    /\ index' = i /\ called' = TRUE
    /\ UNCHANGED t

Next ==
    \/ \E es \in BoundedSeq(Elems, MaxLen) : NewTuple(es)
    \/ \E i \in -1..MaxLen : GetInt(i)

Spec == Init /\ [][Next]_vars

-----------------------------------------------------------------------------
\* Spec 2 (Tuple): the positional accessors coerce with a default on an
\* out-of-range index or a failed conversion and never error out.
AccessorsNeverFail == ~panicked

=============================================================================
