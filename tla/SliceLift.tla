------------------------------ MODULE SliceLift ------------------------------
(***************************************************************************)
(* The slice lifters of src/convert/converte.go: ToSliceE, ToBoolSliceE,  *)
(* ToStringSliceE, ToIntSliceE, ToDurationSliceE and To{Int,Uint}NSliceE. *)
(* Each resolves pointers, returns a value already of the target slice    *)
(* type as it is, rejects nil, and walks any other slice (or array) with *)
(* reflect, coercing element j with its element function and returning   *)
(* at the first failure.  What the element function computes does not    *)
(* take part: an element is a model value and Conv gives its result (an  *)
(* error is told apart by the element that caused it).                    *)
(***************************************************************************)
EXTENDS Naturals, Sequences, SequencesExt

CONSTANTS
    Elems,    \* element values of unknown type
    Vals,     \* values of the target element type
    Conv,     \* [Elems -> [ok, val]]: what the element function returns
    Zero,     \* the zero value of the target element type
    MaxLen,   \* the longest argument slice
    Funcs     \* the functions the caller calls

ASSUME Zero \in Vals /\ Conv \in [Elems -> [ok : BOOLEAN, val : Vals]]

(***************************************************************************)
(* How the functions differ: a case for the target slice type (native), *)
(* whether arrays are walked, whether elements are coerced, whether a     *)
(* string is split into fields, whether any other value becomes a one-    *)
(* element slice, and whether an element's error is replaced by the      *)
(* lifter's own.                                                          *)
(***************************************************************************)
Row(native, array, convert, fields, singleton, ownErr) ==
    [native |-> native, array |-> array, convert |-> convert,
     fields |-> fields, singleton |-> singleton, ownErr |-> ownErr]

Lifter    == Row(TRUE, TRUE, TRUE, FALSE, FALSE, FALSE)

\* Mutant: ToInt64SliceE returning its own error, as ToIntSliceE does.
ToInt64SliceEOwnErr == Row(TRUE, TRUE, TRUE, FALSE, FALSE, TRUE)

ToSliceE         == Row(FALSE, FALSE, FALSE, FALSE, FALSE, FALSE)
ToBoolSliceE     == Lifter
ToStringSliceE   == Row(TRUE, TRUE, TRUE, TRUE, TRUE, FALSE)
ToIntSliceE      == Row(TRUE, TRUE, TRUE, FALSE, FALSE, TRUE)
ToDurationSliceE == Lifter
ToInt64SliceE    == Lifter
ToInt32SliceE    == Lifter
ToInt16SliceE    == Lifter
ToInt8SliceE     == Lifter
ToUint64SliceE   == Lifter
ToUint32SliceE   == Lifter
ToUint16SliceE   == Lifter
ToUint8SliceE    == Lifter

Func == [f \in {"ToSliceE", "ToBoolSliceE", "ToStringSliceE", "ToIntSliceE",
                "ToDurationSliceE", "ToInt64SliceE", "ToInt32SliceE",
                "ToInt16SliceE", "ToInt8SliceE", "ToUint64SliceE",
                "ToUint32SliceE", "ToUint16SliceE", "ToUint8SliceE"} |->
            CASE f = "ToSliceE"         -> ToSliceE
              [] f = "ToBoolSliceE"     -> ToBoolSliceE
              [] f = "ToStringSliceE"   -> ToStringSliceE
              [] f = "ToIntSliceE"      -> ToIntSliceE
              [] f = "ToDurationSliceE" -> ToDurationSliceE
              [] f = "ToInt64SliceE"    -> ToInt64SliceE
              [] f = "ToInt32SliceE"    -> ToInt32SliceE
              [] f = "ToInt16SliceE"    -> ToInt16SliceE
              [] f = "ToInt8SliceE"     -> ToInt8SliceE
              [] f = "ToUint64SliceE"   -> ToUint64SliceE
              [] f = "ToUint32SliceE"   -> ToUint32SliceE
              [] f = "ToUint16SliceE"   -> ToUint16SliceE
              [] f = "ToUint8SliceE"    -> ToUint8SliceE]

ASSUME Funcs \subseteq DOMAIN Func

\* The arguments, after Indirect: nil, a slice already of the target type,
\* a slice or an array of other values, a string (as its whitespace-
\* separated fields), or one scalar.
Args ==
    {[kind |-> "nil"]}
    \cup {[kind |-> "native", items |-> s] : s \in BoundedSeq(Vals, MaxLen)}
    \cup {[kind |-> k, items |-> s] : k \in {"slice", "array"}, s \in BoundedSeq(Elems, MaxLen)}
    \cup {[kind |-> "string", items |-> s] : s \in BoundedSeq(Vals, MaxLen)}
    \cup {[kind |-> "scalar", items |-> <<e>>] : e \in Elems}

Ok(s)   == [ok |-> TRUE, seq |-> s, err |-> "none"]
Fail(e) == [ok |-> FALSE, seq |-> <<>>, err |-> e]

VARIABLES
    fn,      \* the function called
    arg,     \* its argument
    acc,     \* the slice a being filled
    j,       \* the loop index
    pc,      \* "idle", "switch", "loop" or "done"
    result   \* what the call returned

vars == <<fn, arg, acc, j, pc, result>>

F == Func[fn]

Init ==
    /\ fn \in Funcs
    /\ arg = [kind |-> "nil"]
    /\ acc = <<>>
    /\ j = 1
    /\ pc = "idle"
    /\ result = Fail("none")

Call(f, a) ==
    /\ pc = "idle"
    /\ fn' = f /\ arg' = a /\ pc' = "switch"
    /\ UNCHANGED <<acc, j, result>>

Return(r) == pc' = "done" /\ result' = r

\* Mutant: make([]T, 0, s.Len()), a slice with capacity but no length.
MakeSliceCapOnly(n) == <<>>

\* make([]T, n): n zero values.
MakeSlice(n) == [k \in 1..n |-> Zero]

\* The reflect path: a slice, an array where the function takes arrays,
\* and for ToSliceE, which has no case of its own, a native slice too.
Walked(a) ==
    \/ a.kind = "slice"
    \/ a.kind = "array" /\ F.array
    \/ a.kind = "native" /\ ~F.native

\* The type switch and the reflect kind switch before the loop:
\* a = make([]T, s.Len()) starts as zero values.
Switch ==
    /\ pc = "switch"
    /\ CASE arg.kind = "native" /\ F.native -> Return(Ok(arg.items)) /\ UNCHANGED acc
         [] arg.kind = "nil"                -> Return(Fail("own")) /\ UNCHANGED acc
         [] arg.kind = "string" /\ F.fields -> Return(Ok(arg.items)) /\ UNCHANGED acc
         [] Walked(arg) ->
              /\ acc' = MakeSlice(Len(arg.items))
              /\ pc' = "loop"
              /\ UNCHANGED result
         [] arg.kind = "scalar" /\ F.singleton ->
              /\ Return(IF Conv[arg.items[1]].ok THEN Ok(<<Conv[arg.items[1]].val>>)
                        ELSE Fail(arg.items[1]))
              /\ UNCHANGED acc
         [] OTHER -> Return(Fail("own")) /\ UNCHANGED acc
    /\ UNCHANGED <<fn, arg, j>>

\* One iteration: val, err := ToXE(s.Index(j)); on error return an empty
\* slice and the error; otherwise a[j] = val.
LoopElem ==
    LET item == arg.items[j]
        c    == IF F.convert THEN Conv[item] ELSE [ok |-> TRUE, val |-> item]
    IN  /\ pc = "loop" /\ j <= Len(arg.items)
        /\ IF c.ok
           THEN acc' = [acc EXCEPT ![j] = c.val] /\ j' = j + 1 /\ UNCHANGED <<pc, result>>
           ELSE Return(Fail(IF F.ownErr THEN "own" ELSE item)) /\ UNCHANGED <<acc, j>>
        /\ UNCHANGED <<fn, arg>>

\* Mutant: the loop condition j < s.Len() - 1.
LoopEndEarly ==
    /\ pc = "loop" /\ j >= Len(arg.items)
    /\ Return(Ok(acc))
    /\ UNCHANGED <<fn, arg, acc, j>>

\* The loop is over: return a.
LoopEnd ==
    /\ pc = "loop" /\ j > Len(arg.items)
    /\ Return(Ok(acc))
    /\ UNCHANGED <<fn, arg, acc, j>>

\* The caller takes the result and may call again.
Finish ==
    /\ pc = "done"
    /\ arg' = [kind |-> "nil"] /\ acc' = <<>> /\ j' = 1 /\ pc' = "idle"
    /\ result' = Fail("none")
    /\ UNCHANGED fn

Next ==
    \/ pc = "idle" /\ \E f \in Funcs, a \in Args : Call(f, a)
    \/ Switch \/ LoopElem \/ LoopEnd \/ Finish

Spec == Init /\ [][Next]_vars

-----------------------------------------------------------------------------
TypeOK ==
    /\ fn \in Funcs
    /\ pc \in {"idle", "switch", "loop", "done"}
    /\ result.err \in Elems \cup {"own", "none"}
    /\ result.ok => result.err = "none"
    /\ pc = "loop" => Len(acc) = Len(arg.items) /\ j \in 1..(Len(acc) + 1)

\* The element function a lifter applies (ToSliceE applies none).
Expected(e) == IF fn = "ToSliceE" THEN [ok |-> TRUE, val |-> e] ELSE Conv[e]

\* Spec 4.3 (coerce_slice_of, coerce_interface_slice): a slice or an array
\* is lifted element by element: the lift succeeds exactly when every
\* element coerces, then holds the coerced elements in order, and
\* otherwise returns nothing of what was built.
LiftElementwise ==
    pc = "done" /\ arg.kind \in {"slice", "array"} =>
        /\ result.ok <=> \A k \in DOMAIN arg.items : Expected(arg.items[k]).ok
        /\ result.ok => result.seq = [k \in DOMAIN arg.items |-> Expected(arg.items[k]).val]
        /\ ~result.ok => result.seq = <<>>

\* Spec 4.3: the first element failure aborts the lift "with that
\* element's error".
ElementErrorPropagated ==
    pc = "done" /\ arg.kind \in {"slice", "array"} /\ ~result.ok =>
        result.err = arg.items[SelectInSeq(arg.items, LAMBDA e : ~Expected(e).ok)]
=============================================================================
