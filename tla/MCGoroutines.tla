---------------------------- MODULE MCGoroutines ----------------------------
(***************************************************************************)
(* The two pieces of process-wide state that goroutines share: uid's      *)
(* generatorMap (GeneratorRegistry) and utils' randPool (SafeRand).  Each *)
(* goroutine asks GetGenerator for the generator of its namespace and,    *)
(* once it has it, makes SafeRand calls; the goroutines interleave freely, *)
(* and the pool's collections and the clock move between any two steps.   *)
(* The variables of the two modules are distinct, so both are instantiated *)
(* as they are.                                                            *)
(***************************************************************************)
EXTENDS Integers

CONSTANTS Procs, Namespaces, NoOwner, Gens, NoGen

VARIABLES gmap, lock, pc, want, got, created,
          status, seed, pos, held, rpc, call, calls, out, now

GR == INSTANCE GeneratorRegistry
SR == INSTANCE SafeRand WITH Ns <- {-1, 2}, MaxCalls <- 1, MaxTick <- 1

regVars  == <<gmap, lock, pc, want, got, created>>
randVars == <<status, seed, pos, held, rpc, call, calls, out, now>>
allVars  == <<regVars, randVars>>

Init == GR!Init /\ SR!Init

\* A goroutine's step in GetGenerator, or, after it returned, in a
\* SafeRand call.
RegistryStep(p) == GR!Step(p) /\ UNCHANGED randVars
RandStep(p)     == pc[p] = "ret" /\ SR!RandStep(p) /\ UNCHANGED regVars

Next ==
    \/ \E p \in Procs : RegistryStep(p) \/ RandStep(p)
    \/ (SR!Collect \/ SR!Tick) /\ UNCHANGED regVars

\* Every runnable goroutine is scheduled (Go's scheduler); collections and
\* clock ticks need not happen.
Spec == Init /\ [][Next]_allVars
        /\ \A p \in Procs : WF_allVars(RegistryStep(p)) /\ WF_allVars(RandStep(p))

-----------------------------------------------------------------------------
TypeOK == GR!TypeOK /\ SR!TypeOK

\* One generator per namespace, the one in generatorMap (GeneratorRegistry).
OneGeneratorPerNamespace == GR!OneGeneratorPerNamespace

\* Every GetGenerator call returns a generator (GeneratorRegistry).
AllGetGenerator == GR!AllGetGenerator

\* GetGenerator implements an atomic get-or-create (AbstractRegistry).
RegistryRefined == GR!RegistryRefined

\* A pooled *rand.Rand is used by one goroutine at a time and goes back to
\* the pool when the call ends, by a return or a panic (SafeRand).
CheckoutDiscipline == SR!CheckoutDiscipline
=============================================================================
