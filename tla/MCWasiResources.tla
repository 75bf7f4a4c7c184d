-------------------------- MODULE MCWasiResources --------------------------
(* Small instances of WasiResources: a host that may use any free index     *)
(* next, and the symmetry of names and indices that follows.                *)
EXTENDS WasiResources, TLC

AnyFree(F) == F
Symmetric == Permutations(Names) \cup Permutations(Handles)
=============================================================================
