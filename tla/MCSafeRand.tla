----------------------------- MODULE MCSafeRand -----------------------------
(***************************************************************************)
(* Bounds for SafeRand: two goroutines of two calls each, four            *)
(* generators, one for each call, so New runs after every collection, and    *)
(* the arguments -1, 0 and 2, so that Intn and Perm both panic and draw.   *)
(***************************************************************************)
EXTENDS SafeRand

MCNs == {-1, 0, 2}
=============================================================================
