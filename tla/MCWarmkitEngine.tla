-------------------------- MODULE MCWarmkitEngine --------------------------
(* Finite instances of WarmkitEngine.                                      *)
EXTENDS WarmkitEngine, TLC

(* Handlers of one kind run the same code and no property names one.       *)
Symmetry == Permutations(Requests) \cup Permutations(Resetters)
=============================================================================
