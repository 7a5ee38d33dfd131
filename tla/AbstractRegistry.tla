-------------------------- MODULE AbstractRegistry --------------------------
(***************************************************************************)
(* What uid.GetGenerator promises (src/uid/uid.go): each call, in one     *)
(* atomic step, returns the generator of its namespace, creating and      *)
(* registering one when the namespace has none yet.  Every call returns.  *)
(***************************************************************************)
EXTENDS Naturals

CONSTANTS
    Procs,       \* the goroutines that call GetGenerator
    Namespaces   \* the namespaces they ask for

VARIABLES
    gmap,     \* [namespace -> its generator, 0 for none]
    want,     \* [goroutine -> the namespace it asked for]
    got,      \* [goroutine -> the generator returned, 0 before the call returns]
    created   \* how many generators exist

Init ==
    /\ gmap = [n \in Namespaces |-> 0]
    /\ want \in [Procs -> Namespaces]
    /\ got = [p \in Procs |-> 0]
    /\ created = 0

\* The whole call of goroutine p as one step.
GetOrCreate(p) ==
    LET n == want[p] IN
    /\ got[p] = 0
    /\ IF gmap[n] # 0
       THEN got' = [got EXCEPT ![p] = gmap[n]] /\ UNCHANGED <<gmap, created>>
       ELSE /\ created' = created + 1
            /\ gmap' = [gmap EXCEPT ![n] = created + 1]
            /\ got' = [got EXCEPT ![p] = created + 1]
    /\ UNCHANGED want

Next == \E p \in Procs : GetOrCreate(p)

Spec == Init /\ [][Next]_<<gmap, want, got, created>>
             /\ \A p \in Procs : WF_<<gmap, want, got, created>>(GetOrCreate(p))
=============================================================================
