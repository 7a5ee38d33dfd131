-------------------------- MODULE GeneratorRegistry --------------------------
(***************************************************************************)
(* uid.GetGenerator (src/uid/uid.go): goroutines ask for the generator of *)
(* a namespace.  generatorMap is a sync.Map, each of whose Load and Store *)
(* is atomic; a miss takes the package mutex, loads again, and only then  *)
(* creates a generator and stores it.  A generator is known by the number *)
(* it was created with; 0 in gmap means the namespace has none yet.       *)
(***************************************************************************)
EXTENDS Naturals

CONSTANTS
    Procs,       \* the goroutines that call GetGenerator
    Namespaces,  \* the namespaces they ask for
    NoOwner      \* the owner of an unlocked mutex

ASSUME NoOwner \notin Procs

VARIABLES
    gmap,     \* generatorMap: [namespace -> generator, 0 for none]
    lock,     \* the goroutine holding lock, or NoOwner
    pc,       \* [goroutine -> where it is in GetGenerator]
    want,     \* [goroutine -> the namespace it asked for]
    got,      \* [goroutine -> the generator it holds, 0 for none yet]
    created   \* how many generators have been created

vars == <<gmap, lock, pc, want, got, created>>

Init ==
    /\ gmap = [n \in Namespaces |-> 0]
    /\ lock = NoOwner
    /\ pc = [p \in Procs |-> "load"]
    /\ want \in [Procs -> Namespaces]
    /\ got = [p \in Procs |-> 0]
    /\ created = 0

\* Mutant: the type assertion generator.(Generator) yields nil.
FirstLoadAssertFails(p) ==
    /\ pc[p] = "load"
    /\ IF gmap[want[p]] # 0
       THEN pc' = [pc EXCEPT ![p] = "ret"]
       ELSE pc' = [pc EXCEPT ![p] = "lock"]
    /\ UNCHANGED <<gmap, lock, want, got, created>>

\* generator, ok := generatorMap.Load(key); if ok { return }
FirstLoad(p) ==
    /\ pc[p] = "load"
    /\ IF gmap[want[p]] # 0
       THEN got' = [got EXCEPT ![p] = gmap[want[p]]] /\ pc' = [pc EXCEPT ![p] = "ret"]
       ELSE pc' = [pc EXCEPT ![p] = "lock"] /\ UNCHANGED got
    /\ UNCHANGED <<gmap, lock, want, created>>

\* lock.Lock()
Lock(p) ==
    /\ pc[p] = "lock" /\ lock = NoOwner
    /\ lock' = p
    /\ pc' = [pc EXCEPT ![p] = "reload"]
    /\ UNCHANGED <<gmap, want, got, created>>

\* Mutant: no second Load under the lock.
ReloadSkipped(p) ==
    /\ pc[p] = "reload"
    /\ pc' = [pc EXCEPT ![p] = "store"]
    /\ UNCHANGED <<gmap, lock, want, got, created>>

\* Mutant: the generator built before the second Load, and dropped when
\* that Load finds one.
ReloadBuildsFirst(p) ==
    /\ pc[p] = "reload"
    /\ IF gmap[want[p]] # 0
       THEN /\ got' = [got EXCEPT ![p] = gmap[want[p]]] /\ pc' = [pc EXCEPT ![p] = "unlock"]
            /\ created' = created + 1
       ELSE pc' = [pc EXCEPT ![p] = "store"] /\ UNCHANGED <<got, created>>
    /\ UNCHANGED <<gmap, lock, want>>

\* Under the lock: generator, ok = generatorMap.Load(key); if ok { return }
Reload(p) ==
    /\ pc[p] = "reload"
    /\ IF gmap[want[p]] # 0
       THEN got' = [got EXCEPT ![p] = gmap[want[p]]] /\ pc' = [pc EXCEPT ![p] = "unlock"]
       ELSE pc' = [pc EXCEPT ![p] = "store"] /\ UNCHANGED got
    /\ UNCHANGED <<gmap, lock, want, created>>

\* Mutant: the new generator returned but not stored in generatorMap.
StoreForgetsMap(p) ==
    /\ pc[p] = "store"
    /\ created' = created + 1
    /\ got' = [got EXCEPT ![p] = created + 1]
    /\ pc' = [pc EXCEPT ![p] = "unlock"]
    /\ UNCHANGED <<gmap, lock, want>>

\* A new IDGenerator (or MockIDGenerator under CI), then
\* generatorMap.Store(key, ig) and return ig.
Store(p) ==
    /\ pc[p] = "store"
    /\ created' = created + 1
    /\ gmap' = [gmap EXCEPT ![want[p]] = created + 1]
    /\ got' = [got EXCEPT ![p] = created + 1]
    /\ pc' = [pc EXCEPT ![p] = "unlock"]
    /\ UNCHANGED <<lock, want>>

\* Mutant: the defer of lock.Unlock() forgotten.
UnlockForgotten(p) ==
    /\ pc[p] = "unlock"
    /\ pc' = [pc EXCEPT ![p] = "ret"]
    /\ UNCHANGED <<gmap, lock, want, got, created>>

\* The deferred lock.Unlock().
Unlock(p) ==
    /\ pc[p] = "unlock"
    /\ lock' = NoOwner
    /\ pc' = [pc EXCEPT ![p] = "ret"]
    /\ UNCHANGED <<gmap, want, got, created>>

Step(p) == FirstLoad(p) \/ Lock(p) \/ Reload(p) \/ Store(p) \/ Unlock(p)

Next == \E p \in Procs : Step(p)

\* Runnable goroutines are scheduled; each takes the lock at most once.
Spec == Init /\ [][Next]_vars /\ \A p \in Procs : WF_vars(Step(p))

-----------------------------------------------------------------------------
TypeOK ==
    /\ gmap \in [Namespaces -> 0..created]
    /\ lock \in Procs \cup {NoOwner}
    /\ lock # NoOwner => pc[lock] \in {"reload", "store", "unlock"}
    /\ pc \in [Procs -> {"load", "lock", "reload", "store", "unlock", "ret"}]
    /\ got \in [Procs -> 0..created]

\* The registry hands out one generator per namespace: two goroutines that
\* asked for the same namespace hold the same generator, and it is the one
\* generatorMap keeps, whichever of the two Loads each one returned from.
OneGeneratorPerNamespace ==
    \A p, q \in Procs :
        /\ got[p] # 0 /\ got[q] # 0 /\ want[p] = want[q] => got[p] = got[q]
        /\ got[p] # 0 => gmap[want[p]] = got[p]

\* Every call of GetGenerator returns a generator.
AllGetGenerator == \A p \in Procs : <>(pc[p] = "ret" /\ got[p] # 0)

\* GetGenerator implements the atomic get-or-create of AbstractRegistry:
\* each call takes effect at the Load that finds the generator or at the
\* Store that registers a new one, every other step is a stutter, and
\* every call returns.  The mapping is the identity on the shared state.
Registry == INSTANCE AbstractRegistry

RegistryRefined == Registry!Spec
=============================================================================
