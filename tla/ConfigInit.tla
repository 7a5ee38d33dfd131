----------------------------- MODULE ConfigInit -----------------------------
(***************************************************************************)
(* config.Init (src/config/config.go): goroutines that each call Init     *)
(* once.  Init is a double-checked once: an atomic load of done, the      *)
(* mutex m, a second load under m, then a deferred atomic store of done   *)
(* and a deferred unlock, which Go runs in that order (last in, first     *)
(* out) whatever the body returned.  The body looks for the config file   *)
(* (FindConfDir, GetConfigYmlFile: ConfigPath checks how the file is      *)
(* chosen; here only whether one is found) and calls LoadFile, which      *)
(* reads it into viper and then, when the caller passed structs, into     *)
(* the first of them.  The file system may answer differently at each     *)
(* look, so every step that touches it may succeed or fail.               *)
(***************************************************************************)
EXTENDS Naturals, FiniteSets

CONSTANTS
    Procs,     \* the goroutines that call Init
    NoOwner    \* the owner of an unlocked mutex

ASSUME NoOwner \notin Procs

VARIABLES
    done,          \* the package variable done (0 or 1)
    m,             \* the goroutine that holds the mutex m, or NoOwner
    pc,            \* [goroutine -> where it is in Init]
    ret,           \* [goroutine -> what its Init returns: "none", "nil" or "err"]
    withStructs,   \* [goroutine -> whether it passed configuredStructs]
    vipeLoaded,    \* vipe.ReadInConfig has succeeded
    structsLoaded, \* a caller's struct has been filled by configor
    loads          \* how many times LoadFile has been entered

vars == <<done, m, pc, ret, withStructs, vipeLoaded, structsLoaded, loads>>

PCs == {"start", "lock", "check", "find", "read", "structs",
        "deferStore", "deferUnlock", "ret"}

Init ==
    /\ done = 0
    /\ m = NoOwner
    /\ pc = [p \in Procs |-> "start"]
    /\ ret = [p \in Procs |-> "none"]
    /\ withStructs \in [Procs -> BOOLEAN]
    /\ vipeLoaded = FALSE
    /\ structsLoaded = FALSE
    /\ loads = 0

\* The body returns r; the deferred calls run next.
BodyReturns(p, r) ==
    /\ pc' = [pc EXCEPT ![p] = "deferStore"]
    /\ ret' = [ret EXCEPT ![p] = r]

\* if atomic.LoadUint32(&done) != 0 { return nil }
FastCheck(p) ==
    /\ pc[p] = "start"
    /\ IF done # 0
       THEN /\ pc' = [pc EXCEPT ![p] = "ret"]
            /\ ret' = [ret EXCEPT ![p] = "nil"]
       ELSE /\ pc' = [pc EXCEPT ![p] = "lock"]
            /\ UNCHANGED ret
    /\ UNCHANGED <<done, m, withStructs, vipeLoaded, structsLoaded, loads>>

\* m.Lock(): blocks while another goroutine holds m.
Lock(p) ==
    /\ pc[p] = "lock" /\ m = NoOwner
    /\ m' = p
    /\ pc' = [pc EXCEPT ![p] = "check"]
    /\ UNCHANGED <<done, ret, withStructs, vipeLoaded, structsLoaded, loads>>

\* Mutant: done stored at once, not deferred to the end of Init.
CheckStoresEarly(p) ==
    /\ pc[p] = "check"
    /\ IF done # 0
       THEN /\ pc' = [pc EXCEPT ![p] = "deferUnlock"]
            /\ ret' = [ret EXCEPT ![p] = "nil"]
            /\ UNCHANGED done
       ELSE /\ pc' = [pc EXCEPT ![p] = "find"]
            /\ done' = 1
            /\ UNCHANGED ret
    /\ UNCHANGED <<m, withStructs, vipeLoaded, structsLoaded, loads>>

\* Mutant: the check under the lock left out.
CheckSkipped(p) ==
    /\ pc[p] = "check"
    /\ pc' = [pc EXCEPT ![p] = "find"]
    /\ UNCHANGED <<done, m, ret, withStructs, vipeLoaded, structsLoaded, loads>>

\* Mutant: the early return under the lock without the deferred unlock.
CheckKeepsLock(p) ==
    /\ pc[p] = "check"
    /\ IF done # 0
       THEN /\ pc' = [pc EXCEPT ![p] = "ret"]
            /\ ret' = [ret EXCEPT ![p] = "nil"]
       ELSE /\ pc' = [pc EXCEPT ![p] = "find"]
            /\ UNCHANGED ret
    /\ UNCHANGED <<done, m, withStructs, vipeLoaded, structsLoaded, loads>>

\* Under m: if atomic.LoadUint32(&done) != 0 { return nil }.  The deferred
\* store is registered only after this check, so this return skips it.
Check(p) ==
    /\ pc[p] = "check"
    /\ IF done # 0
       THEN /\ pc' = [pc EXCEPT ![p] = "deferUnlock"]
            /\ ret' = [ret EXCEPT ![p] = "nil"]
       ELSE /\ pc' = [pc EXCEPT ![p] = "find"]
            /\ UNCHANGED ret
    /\ UNCHANGED <<done, m, withStructs, vipeLoaded, structsLoaded, loads>>

\* GetConfigYmlFile(FindConfDir(FolderCnf)): no file is an error returned
\* as it is; otherwise LoadFile starts.
Find(p) ==
    /\ pc[p] = "find"
    /\ \/ BodyReturns(p, "err") /\ UNCHANGED loads
       \/ pc' = [pc EXCEPT ![p] = "read"] /\ loads' = loads + 1 /\ UNCHANGED ret
    /\ UNCHANGED <<done, m, withStructs, vipeLoaded, structsLoaded>>

\* LoadFile: vipe.ReadInConfig(); on success, without structs, return nil.
ReadInConfig(p) ==
    /\ pc[p] = "read"
    /\ \/ BodyReturns(p, "err") /\ UNCHANGED vipeLoaded
       \/ /\ vipeLoaded' = TRUE
          /\ IF withStructs[p] THEN pc' = [pc EXCEPT ![p] = "structs"] /\ UNCHANGED ret
                              ELSE BodyReturns(p, "nil")
    /\ UNCHANGED <<done, m, withStructs, structsLoaded, loads>>

\* LoadFile: configor's Load into configuredStructs[0].
LoadStructs(p) ==
    /\ pc[p] = "structs"
    /\ \/ BodyReturns(p, "err") /\ UNCHANGED structsLoaded
       \/ BodyReturns(p, "nil") /\ structsLoaded' = TRUE
    /\ UNCHANGED <<done, m, withStructs, vipeLoaded, loads>>

\* defer atomic.StoreUint32(&done, 1): runs whatever the body returned.
DeferStore(p) ==
    /\ pc[p] = "deferStore"
    /\ done' = 1
    /\ pc' = [pc EXCEPT ![p] = "deferUnlock"]
    /\ UNCHANGED <<m, ret, withStructs, vipeLoaded, structsLoaded, loads>>

\* Mutant: the defer m.Unlock() left out.
DeferUnlockMissing(p) ==
    /\ pc[p] = "deferUnlock"
    /\ pc' = [pc EXCEPT ![p] = "ret"]
    /\ UNCHANGED <<done, m, ret, withStructs, vipeLoaded, structsLoaded, loads>>

\* defer m.Unlock(), then Init returns.
DeferUnlock(p) ==
    /\ pc[p] = "deferUnlock"
    /\ m' = NoOwner
    /\ pc' = [pc EXCEPT ![p] = "ret"]
    /\ UNCHANGED <<done, ret, withStructs, vipeLoaded, structsLoaded, loads>>

Step(p) ==
    \/ FastCheck(p) \/ Lock(p) \/ Check(p) \/ Find(p) \/ ReadInConfig(p)
    \/ LoadStructs(p) \/ DeferStore(p) \/ DeferUnlock(p)

Next == \E p \in Procs : Step(p)

\* Every goroutine that is not blocked on m keeps running (the Go
\* scheduler), and m is handed over when free; each goroutine takes m at
\* most once, so weak fairness is enough for Lock as well.
Spec == Init /\ [][Next]_vars /\ \A p \in Procs : WF_vars(Step(p))

-----------------------------------------------------------------------------
TypeOK ==
    /\ done \in {0, 1}
    /\ m \in Procs \cup {NoOwner}
    /\ pc \in [Procs -> PCs]
    /\ m # NoOwner => pc[m] \in PCs \ {"start", "lock", "ret"}
    /\ ret \in [Procs -> {"none", "nil", "err"}]
    /\ loads \in 0..Cardinality(Procs)

\* The two loads of done and the mutex make Init load the config file at
\* most once, however the callers interleave and whatever the first one
\* returned.
AtMostOneLoad == loads <= 1

\* done is set only by the deferred store, so no caller can see done (and
\* return nil at once, or read vipe) while another is still finding or
\* loading the file.
DoneOnlyAfterLoad ==
    done = 1 => \A p \in Procs : pc[p] \notin {"find", "read", "structs"}

\* Every call of Init returns: no caller waits on m for ever.
AllReturn == \A p \in Procs : <>(pc[p] = "ret")

\* Go's convention for error results, and IsInitDone's name: an Init that
\* returns nil has loaded the configuration into vipe.
InitNilMeansLoaded ==
    \A p \in Procs : ret[p] = "nil" => vipeLoaded
=============================================================================
