------------------------------ MODULE SafeRand ------------------------------
(***************************************************************************)
(* The random helpers of src/utils/safe_rand.go.  Every SafeRand* function *)
(* takes a *rand.Rand from the sync.Pool randPool, defers its Put, and    *)
(* draws from it.  The pool's New seeds a fresh source with               *)
(* time.Now().UnixNano().                                                  *)
(*                                                                         *)
(* A generator is a model value.  Its stream is a function of its seed,   *)
(* so the k-th draw of a generator is <<seed, k>>: two generators with    *)
(* the same seed draw the same values.  sync.Pool may hand out any pooled *)
(* item or call New instead, and drops pooled items at a garbage          *)
(* collection; both are free choices here.  The clock advances by ticks   *)
(* of its resolution, so goroutines may read the same UnixNano.           *)
(***************************************************************************)
EXTENDS Naturals, Sequences, FiniteSets, Functions

CONSTANTS
    Procs,     \* the goroutines calling SafeRand* functions
    Gens,      \* the *rand.Rand objects New can make
    NoGen,     \* what a goroutine holds between calls
    Ns,        \* the arguments n of Intn and Perm
    MaxCalls,  \* the calls each goroutine makes
    MaxTick    \* the last clock reading

\* New can always make a generator, as the real one can: there are as many
\* as there are calls.
ASSUME NoGen \notin Gens /\ Cardinality(Gens) >= Cardinality(Procs) * MaxCalls

\* SafeRandFloat64 stands for the functions without an argument; Intn for
\* Int63n, Int31n and Intn, which panic when n <= 0; Perm for Perm and
\* Shuffle, which panic when n < 0.
Funcs == {"Float64", "Intn", "Perm"}
Calls == {[f |-> "Float64", n |-> 0]} \cup {[f |-> f, n |-> n] : f \in {"Intn", "Perm"}, n \in Ns}

Panics(c) == (c.f = "Intn" /\ c.n <= 0) \/ (c.f = "Perm" /\ c.n < 0)

VARIABLES
    status,  \* [generator -> "unmade" | "pooled" | "held" | "dropped"]
    seed,    \* [generator -> the UnixNano New seeded it with]
    pos,     \* [generator -> how many values it has drawn]
    held,    \* [goroutine -> the generator it took, or NoGen]
    rpc,     \* [goroutine -> "get" | "use" | "put"]
    call,    \* [goroutine -> the function and argument of its call]
    calls,   \* [goroutine -> how many calls it has finished]
    out,     \* the values drawn, in order
    now      \* the clock, in ticks of its resolution

rvars == <<status, seed, pos, held, rpc, call, calls, out, now>>

Init ==
    /\ status = [g \in Gens |-> "unmade"]
    /\ seed = [g \in Gens |-> 0] /\ pos = [g \in Gens |-> 0]
    /\ held = [p \in Procs |-> NoGen] /\ rpc = [p \in Procs |-> "get"]
    /\ call = [p \in Procs |-> [f |-> "Float64", n |-> 0]]
    /\ calls = [p \in Procs |-> 0] /\ out = <<>> /\ now = 0

Take(p, g, c) ==
    /\ held' = [held EXCEPT ![p] = g] /\ rpc' = [rpc EXCEPT ![p] = "use"]
    /\ call' = [call EXCEPT ![p] = c]

\* Mutant: a pooled generator handed out but left in the pool.
GetNoRemove(p) ==
    /\ rpc[p] = "get" /\ calls[p] < MaxCalls
    /\ \E c \in Calls, g \in Gens : status[g] = "pooled" /\ Take(p, g, c)
    /\ UNCHANGED <<status, seed, pos, calls, out, now>>

\* randPool.Get().(*rand.Rand): a pooled generator, taken out of the pool.
Get(p) ==
    /\ rpc[p] = "get" /\ calls[p] < MaxCalls
    /\ \E c \in Calls, g \in Gens :
          /\ status[g] = "pooled" /\ Take(p, g, c)
          /\ status' = [status EXCEPT ![g] = "held"]
    /\ UNCHANGED <<seed, pos, calls, out, now>>

\* randPool.Get() calling New: rand.New(rand.NewSource(time.Now().UnixNano())).
GetNew(p) ==
    /\ rpc[p] = "get" /\ calls[p] < MaxCalls
    /\ \E g \in Gens : status[g] = "unmade"
    /\ LET g == CHOOSE g \in Gens : status[g] = "unmade" IN
       /\ \E c \in Calls : Take(p, g, c)
       /\ status' = [status EXCEPT ![g] = "held"] /\ seed' = [seed EXCEPT ![g] = now]
    /\ UNCHANGED <<pos, calls, out, now>>

\* r.Float64(), r.Intn(n), r.Perm(n), ...: the next value of the stream.
Draw(p) ==
    LET g == held[p] IN
    /\ rpc[p] = "use" /\ ~Panics(call[p])
    /\ pos' = [pos EXCEPT ![g] = pos[g] + 1]
    /\ out' = Append(out, <<seed[g], pos[g] + 1>>)
    /\ rpc' = [rpc EXCEPT ![p] = "put"]
    /\ UNCHANGED <<status, seed, held, call, calls, now>>

\* Mutant: Put called after the draw rather than deferred, so a panic
\* leaves the generator out of the pool.
PanicNoPut(p) ==
    /\ rpc[p] = "use" /\ Panics(call[p])
    /\ held' = [held EXCEPT ![p] = NoGen] /\ rpc' = [rpc EXCEPT ![p] = "get"]
    /\ calls' = [calls EXCEPT ![p] = calls[p] + 1]
    /\ UNCHANGED <<status, seed, pos, call, out, now>>

\* r.Intn(n) with n <= 0, or r.Perm(n) with n < 0, panics before drawing;
\* the deferred Put runs as the panic unwinds.
Panic(p) ==
    /\ rpc[p] = "use" /\ Panics(call[p])
    /\ rpc' = [rpc EXCEPT ![p] = "put"]
    /\ UNCHANGED <<status, seed, pos, held, call, calls, out, now>>

\* The deferred randPool.Put(r); the call returns (or its panic reaches a
\* recover of the caller's).
Put(p) ==
    /\ rpc[p] = "put"
    /\ status' = [status EXCEPT ![held[p]] = "pooled"]
    /\ held' = [held EXCEPT ![p] = NoGen] /\ rpc' = [rpc EXCEPT ![p] = "get"]
    /\ calls' = [calls EXCEPT ![p] = calls[p] + 1]
    /\ UNCHANGED <<seed, pos, call, out, now>>

\* A garbage collection clears a pooled generator.
Collect ==
    /\ \E g \in Gens : status[g] = "pooled" /\ status' = [status EXCEPT ![g] = "dropped"]
    /\ UNCHANGED <<seed, pos, held, rpc, call, calls, out, now>>

\* The clock moves on by one tick of its resolution.
Tick ==
    /\ now < MaxTick /\ now' = now + 1
    /\ UNCHANGED <<status, seed, pos, held, rpc, call, calls, out>>

RandStep(p) == Get(p) \/ GetNew(p) \/ Draw(p) \/ Panic(p) \/ Put(p)

Next == (\E p \in Procs : RandStep(p)) \/ Collect \/ Tick

Spec == Init /\ [][Next]_rvars /\ \A p \in Procs : WF_rvars(RandStep(p))

-----------------------------------------------------------------------------
TypeOK ==
    /\ status \in [Gens -> {"unmade", "pooled", "held", "dropped"}]
    /\ held \in [Procs -> Gens \cup {NoGen}]
    /\ rpc \in [Procs -> {"get", "use", "put"}]
    /\ call \in [Procs -> Calls] /\ calls \in [Procs -> 0..MaxCalls]
    /\ now \in 0..MaxTick

\* Spec 5 (acquire before use, return even on panic): a *rand.Rand, which
\* is not safe for concurrent use, is in the hands of at most one
\* goroutine, is held exactly while a call has it, and is never in the
\* pool while a call uses it, whichever way the call ends.
CheckoutDiscipline ==
    /\ \A p, q \in Procs : p # q /\ held[p] # NoGen => held[p] # held[q]
    /\ \A g \in Gens : status[g] = "held" <=> \E p \in Procs : held[p] = g

\* Spec 5 and TestSafeRandFloat64: concurrent calls never draw the same
\* value twice, which needs every generator New makes to have a seed of
\* its own.
DistinctDraws == IsInjective(out)
=============================================================================
