---------------------------- MODULE MCMmapStore ----------------------------
(* A finite instance of MmapStore, whose callers are alike.                *)
EXTENDS MmapStore, TLC

Symmetry == Permutations(Callers)
=============================================================================
