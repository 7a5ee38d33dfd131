------------------------------- MODULE MapLift -------------------------------
(***************************************************************************)
(* The map lifters of src/convert/converte.go: ToStringMapStringE,        *)
(* ToStringMapStringSliceE, ToStringMapBoolE, ToStringMapE,               *)
(* ToStringMapIntE and ToStringMapInt64E.  Each resolves pointers and,    *)
(* for a map, ranges over value.MapKeys(), whose order Go leaves random:  *)
(* the key goes through ToStringE, the value through the element function *)
(* (ToStringMapE keeps it as it is), and the pair is put in m; the first  *)
(* failure returns m as filled so far with that error.  A string is       *)
(* decoded as JSON into m; anything else is an error.                     *)
(*                                                                         *)
(* Keys and values are model values: KeyStr gives what ToStringE returns  *)
(* for a key, Conv what the element function returns for a value.  An    *)
(* error is told apart by the key it arose at and by its side.            *)
(*                                                                         *)
(* The caller calls the same function on the same argument twice (lanes  *)
(* 1 and 2), each call with an order of its own, so a property can ask    *)
(* whether the result depends on the order.                               *)
(***************************************************************************)
EXTENDS Naturals, FiniteSets, TLC

CONSTANTS
    Keys,     \* keys of the source map, of unknown type
    Elems,    \* values of the source map, of unknown type
    Strs,     \* strings
    Vals,     \* values of the target element type
    KeyStr,   \* [Keys -> [ok, val]]: what ToStringE returns for a key
    Conv,     \* [Elems -> [ok, val]]: what the element function returns
    MaxKeys,  \* the most entries of a source map
    Funcs     \* the functions the caller calls

ASSUME /\ KeyStr \in [Keys -> [ok : BOOLEAN, val : Strs]]
       /\ Conv \in [Elems -> [ok : BOOLEAN, val : Vals]]

\* Whether the function coerces values: ToStringMapE does not.
Converts == [f \in {"ToStringMapStringE", "ToStringMapStringSliceE",
                    "ToStringMapBoolE", "ToStringMapE", "ToStringMapIntE",
                    "ToStringMapInt64E"} |-> f # "ToStringMapE"]

ASSUME Funcs \subseteq DOMAIN Converts

\* Maps with at most MaxKeys entries, as functions from a set of keys.
MapsOf(K, V) == UNION {[D -> V] : D \in {D \in SUBSET K : Cardinality(D) <= MaxKeys}}

\* The arguments, after Indirect: nil, a map, a string holding JSON (valid
\* or not, decoded into a map of the target type), or a scalar.
Args ==
    {[kind |-> "nil"], [kind |-> "scalar"]}
    \cup {[kind |-> "map", items |-> s] : s \in MapsOf(Keys, Elems)}
    \cup {[kind |-> "json", valid |-> v, items |-> s] : v \in BOOLEAN, s \in MapsOf(Strs, Vals)}

Lanes == {1, 2}

None == [ok |-> FALSE, map |-> <<>>, err |-> "none"]

VARIABLES
    fn,      \* the function called
    arg,     \* its argument
    lane,    \* the call under way: 1, then 2
    todo,    \* the keys of MapKeys not yet visited by the range loop
    m,       \* the map m being filled
    pc,      \* "idle", "switch", "loop" or "done"
    result   \* [lane -> what the call returned]

vars == <<fn, arg, lane, todo, m, pc, result>>

Init ==
    /\ fn \in Funcs
    /\ arg = [kind |-> "nil"]
    /\ lane = 1
    /\ todo = {}
    /\ m = <<>>
    /\ pc = "idle"
    /\ result = [l \in Lanes |-> None]

Call(f, a) ==
    /\ pc = "idle"
    /\ fn' = f /\ arg' = a /\ pc' = "switch"
    /\ UNCHANGED <<lane, todo, m, result>>

\* The call on lane returns (mm, e); e = "none" is a nil error.
Return(mm, e) ==
    /\ result' = [result EXCEPT ![lane] = [ok |-> e = "none", map |-> mm, err |-> e]]
    /\ pc' = "done"

\* var m = map[...]{}; the reflect kind check, then the type switch.
Switch ==
    /\ pc = "switch"
    /\ CASE arg.kind = "map" ->
              todo' = DOMAIN arg.items /\ m' = <<>> /\ pc' = "loop" /\ UNCHANGED result
         [] arg.kind = "json" ->
              /\ IF arg.valid THEN Return(arg.items, "none") ELSE Return(<<>>, "json")
              /\ UNCHANGED <<todo, m>>
         [] OTHER -> Return(<<>>, "cast") /\ UNCHANGED <<todo, m>>
    /\ UNCHANGED <<fn, arg, lane>>

\* Mutant: the value's error not checked, its zero value stored.
VisitIgnoresValueErr(k) ==
    LET ks == KeyStr[k]
        c  == IF Converts[fn] THEN Conv[arg.items[k]] ELSE [ok |-> TRUE, val |-> arg.items[k]]
    IN  /\ pc = "loop" /\ k \in todo
        /\ IF ~ks.ok
           THEN Return(m, <<"key", k>>) /\ UNCHANGED <<todo, m>>
           ELSE m' = (ks.val :> c.val) @@ m /\ todo' = todo \ {k} /\ UNCHANGED <<pc, result>>
        /\ UNCHANGED <<fn, arg, lane>>

\* Mutant: the value converted and checked before the key.
VisitValueFirst(k) ==
    LET ks == KeyStr[k]
        c  == IF Converts[fn] THEN Conv[arg.items[k]] ELSE [ok |-> TRUE, val |-> arg.items[k]]
    IN  /\ pc = "loop" /\ k \in todo
        /\ CASE ~c.ok  -> Return(m, <<"val", k>>) /\ UNCHANGED <<todo, m>>
             [] ~ks.ok -> Return(m, <<"key", k>>) /\ UNCHANGED <<todo, m>>
             [] OTHER  -> /\ m' = (ks.val :> c.val) @@ m
                          /\ todo' = todo \ {k}
                          /\ UNCHANGED <<pc, result>>
        /\ UNCHANGED <<fn, arg, lane>>

\* One iteration for the key k MapKeys put next: sKey, err :=
\* ToStringE(key); then iVal, err := the element function of the value;
\* on an error return m, err; otherwise m[sKey] = iVal.
Visit(k) ==
    LET ks == KeyStr[k]
        c  == IF Converts[fn] THEN Conv[arg.items[k]] ELSE [ok |-> TRUE, val |-> arg.items[k]]
    IN  /\ pc = "loop" /\ k \in todo
        /\ CASE ~ks.ok -> Return(m, <<"key", k>>) /\ UNCHANGED <<todo, m>>
             [] ~c.ok  -> Return(m, <<"val", k>>) /\ UNCHANGED <<todo, m>>
             [] OTHER  -> /\ m' = (ks.val :> c.val) @@ m
                          /\ todo' = todo \ {k}
                          /\ UNCHANGED <<pc, result>>
        /\ UNCHANGED <<fn, arg, lane>>

\* The range loop is over: return m, nil.
LoopEnd ==
    /\ pc = "loop" /\ todo = {}
    /\ Return(m, "none")
    /\ UNCHANGED <<fn, arg, lane, todo, m>>

\* The caller takes the result: after lane 1 it calls again with the same
\* function and argument on lane 2; after lane 2 it starts afresh.
Finish ==
    /\ pc = "done"
    /\ IF lane = 1
       THEN lane' = 2 /\ pc' = "switch" /\ UNCHANGED <<arg, result>>
       ELSE /\ lane' = 1 /\ pc' = "idle" /\ arg' = [kind |-> "nil"]
            /\ result' = [l \in Lanes |-> None]
    /\ todo' = {} /\ m' = <<>>
    /\ UNCHANGED fn

Next ==
    \/ pc = "idle" /\ \E f \in Funcs, a \in Args : Call(f, a)
    \/ Switch \/ (\E k \in Keys : Visit(k)) \/ LoopEnd \/ Finish

Spec == Init /\ [][Next]_vars

-----------------------------------------------------------------------------
TypeOK ==
    /\ fn \in Funcs
    /\ lane \in Lanes
    /\ pc \in {"idle", "switch", "loop", "done"}
    /\ todo \subseteq Keys
    /\ pc = "loop" => todo \subseteq DOMAIN arg.items
    /\ \A l \in Lanes : result[l].ok => result[l].err = "none"

\* What the function makes of the value at key k of the source map.
Expected(k) ==
    IF Converts[fn] THEN Conv[arg.items[k]] ELSE [ok |-> TRUE, val |-> arg.items[k]]

\* The keys of the source map whose key and value both coerce.
Good == {k \in DOMAIN arg.items : KeyStr[k].ok /\ Expected(k).ok}

\* Spec 4.4 (coerce_map_of): a map is lifted key by key.  The lift
\* succeeds exactly when every key coerces to a string and every value
\* through the element function, and then holds, under each key's string,
\* the coerced value of a key with that string; whatever the order, no
\* entry of the returned map, complete or not, comes from anywhere else.
LiftKeywise ==
    pc = "done" /\ arg.kind = "map" =>
        LET r == result[lane] IN
        /\ r.ok <=> Good = DOMAIN arg.items
        /\ r.ok => DOMAIN r.map = {KeyStr[k].val : k \in DOMAIN arg.items}
        /\ \A s \in DOMAIN r.map :
               \E k \in Good : KeyStr[k].val = s /\ r.map[s] = Expected(k).val

\* Spec 4.5: errors are reported at the point of failure: an error names
\* a key whose string form failed, or a key whose string form succeeded
\* and whose value failed.
ErrorAtFailingEntry ==
    pc = "done" /\ arg.kind = "map" =>
        LET e == result[lane].err IN
        /\ e # "none" => e \in {"key", "val"} \X DOMAIN arg.items
        /\ e # "none" /\ e[1] = "key" => ~KeyStr[e[2]].ok
        /\ e # "none" /\ e[1] = "val" => e[2] \in DOMAIN arg.items \ Good /\ KeyStr[e[2]].ok

\* Spec 1 and 4.5: coercion is a single deterministic matrix, and a
\* lenient wrapper (ToStringMapInt, ...) returns a default on failure:
\* two calls on the same map return the same map and the same error.
LiftDeterministic ==
    pc = "done" /\ lane = 2 /\ arg.kind = "map" => result[1] = result[2]
=============================================================================
