-------------------------------- MODULE Uniq --------------------------------
(***************************************************************************)
(* src/convert/slice_uniq.go: ToUniq<T>Array removes duplicates from one  *)
(* slice, ToUniq2<T>Array merges two slices and removes duplicates.  Both *)
(* loop over the slices in order with a set dic of what has been seen and *)
(* append an element the first time it is met.  The element type does    *)
(* not take part (int64, int32, int16 and string behave alike), so the    *)
(* eight functions are two rows: how many slices they take and how many   *)
(* zero values the result slice starts with (make(..., n, cap)).  A      *)
(* make whose length exceeds its capacity panics (makeslice: cap out of  *)
(* range), so the two-slice row panics unless its slices hold at least   *)
(* nine elements between them.                                            *)
(***************************************************************************)
EXTENDS Naturals, Sequences, SequencesExt

CONSTANTS
    Elems,    \* the element values
    Zero,     \* the zero value of the element type
    MaxLen,   \* the longest input slice
    Funcs     \* the functions the caller calls

ASSUME Zero \in Elems /\ MaxLen \in Nat

Row(nslices, pad) == [nslices |-> nslices, pad |-> pad]

ToUniq2Int64Array  == Row(2, 9)
ToUniqInt64Array   == Row(1, 0)
ToUniq2Int32Array  == Row(2, 9)
ToUniqInt32Array   == Row(1, 0)
ToUniq2Int16Array  == Row(2, 9)
ToUniqInt16Array   == Row(1, 0)
ToUniq2StringArray == Row(2, 9)
ToUniqStringArray  == Row(1, 0)

Func == [f \in {"ToUniq2Int64Array", "ToUniqInt64Array", "ToUniq2Int32Array",
                "ToUniqInt32Array", "ToUniq2Int16Array", "ToUniqInt16Array",
                "ToUniq2StringArray", "ToUniqStringArray"} |->
            CASE f = "ToUniq2Int64Array"  -> ToUniq2Int64Array
              [] f = "ToUniqInt64Array"   -> ToUniqInt64Array
              [] f = "ToUniq2Int32Array"  -> ToUniq2Int32Array
              [] f = "ToUniqInt32Array"   -> ToUniqInt32Array
              [] f = "ToUniq2Int16Array"  -> ToUniq2Int16Array
              [] f = "ToUniqInt16Array"   -> ToUniqInt16Array
              [] f = "ToUniq2StringArray" -> ToUniq2StringArray
              [] f = "ToUniqStringArray"  -> ToUniqStringArray]

ASSUME Funcs \subseteq DOMAIN Func

Slices == BoundedSeq(Elems, MaxLen)

VARIABLES
    fn,      \* the function called
    slices,  \* its arguments, in order
    ret,     \* the result slice being built
    dic,     \* the set of elements already appended
    si,      \* the index of the slice the loop is in
    ei,      \* the index of the element the loop is at
    pc       \* "idle", "loop", "done" or "panic"

vars == <<fn, slices, ret, dic, si, ei, pc>>

Init ==
    /\ fn \in Funcs
    /\ slices = <<>>
    /\ ret = <<>>
    /\ dic = {}
    /\ si = 1
    /\ ei = 1
    /\ pc = "idle"

\* The total length of the arguments, the capacity make is given.
TotalLen(args) == Len(FlattenSeq(args))

\* The call: all slices empty returns an empty slice at once; otherwise
\* make(..., pad, total) panics when pad exceeds the total length, and
\* else ret starts as pad zero values and dic as empty.
Call(f, args) ==
    /\ pc = "idle"
    /\ Len(args) = Func[f].nslices
    /\ fn' = f
    /\ slices' = args
    /\ CASE \A k \in DOMAIN args : args[k] = <<>> ->
              ret' = <<>> /\ pc' = "done"
      [] Func[f].pad > TotalLen(args) ->
              ret' = <<>> /\ pc' = "panic"
      [] OTHER ->
              ret' = [k \in 1..Func[f].pad |-> Zero] /\ pc' = "loop"
    /\ dic' = {}
    /\ si' = 1
    /\ ei' = 1

\* Mutant: dic[ele] = struct{}{} left out.
VisitNoInsert ==
    LET ele == slices[si][ei] IN
    /\ pc = "loop" /\ si <= Len(slices) /\ ei <= Len(slices[si])
    /\ IF ele \notin dic THEN ret' = Append(ret, ele) ELSE UNCHANGED ret
    /\ ei' = ei + 1
    /\ UNCHANGED <<fn, slices, si, pc, dic>>

\* Mutant: the dic lookup left out, every element appended.
VisitNoLookup ==
    /\ pc = "loop" /\ si <= Len(slices) /\ ei <= Len(slices[si])
    /\ ret' = Append(ret, slices[si][ei])
    /\ dic' = dic \cup {slices[si][ei]}
    /\ ei' = ei + 1
    /\ UNCHANGED <<fn, slices, si, pc>>

\* One iteration: an element not in dic is added to dic and appended.
Visit ==
    LET ele == slices[si][ei] IN
    /\ pc = "loop" /\ si <= Len(slices) /\ ei <= Len(slices[si])
    /\ IF ele \notin dic
       THEN dic' = dic \cup {ele} /\ ret' = Append(ret, ele)
       ELSE UNCHANGED <<dic, ret>>
    /\ ei' = ei + 1
    /\ UNCHANGED <<fn, slices, si, pc>>

\* The inner loop is over: on to the next slice.
NextSlice ==
    /\ pc = "loop" /\ si <= Len(slices) /\ ei > Len(slices[si])
    /\ si' = si + 1
    /\ ei' = 1
    /\ UNCHANGED <<fn, slices, ret, dic, pc>>

\* The outer loop is over: return ret.
Return ==
    /\ pc = "loop" /\ si > Len(slices)
    /\ pc' = "done"
    /\ UNCHANGED <<fn, slices, ret, dic, si, ei>>

\* The caller takes the result, or recovers the panic, and may call again.
Finish ==
    /\ pc \in {"done", "panic"}
    /\ pc' = "idle"
    /\ slices' = <<>> /\ ret' = <<>> /\ dic' = {} /\ si' = 1 /\ ei' = 1
    /\ UNCHANGED fn

Next ==
    \/ pc = "idle" /\ \E f \in Funcs, args \in BoundedSeq(Slices, 2) :
           Len(args) \in {1, 2} /\ Call(f, args)
    \/ Visit \/ NextSlice \/ Return \/ Finish

Spec == Init /\ [][Next]_vars

-----------------------------------------------------------------------------
TypeOK ==
    /\ fn \in Funcs
    /\ pc \in {"idle", "loop", "done", "panic"}
    /\ ret \in Seq(Elems)
    /\ dic \subseteq Elems
    /\ pc \in {"loop", "done"} /\ ret # <<>> =>
           dic = ToSet(SubSeq(ret, Func[fn].pad + 1, Len(ret)))

\* The reference: r holds each element of s once, and in the order of the
\* elements' first occurrences in s.
FirstIndex(s, e) == SelectInSeq(s, LAMBDA x : x = e)

IsMergeDedupe(r, s) ==
    /\ IsInjective(r)
    /\ ToSet(r) = ToSet(s)
    /\ \A i, j \in DOMAIN r : i < j => FirstIndex(s, r[i]) < FirstIndex(s, r[j])

\* Spec merge_dedupe and the functions' comments ("merge 2 ... slice into
\* one and remove duplicate element"): the returned slice is the
\* concatenation of the arguments without duplicates, first occurrences
\* kept in order: every call returns, and returns that slice.
UniqIsMergeDedupe ==
    pc \in {"done", "panic"} => pc = "done" /\ IsMergeDedupe(ret, FlattenSeq(slices))
=============================================================================
