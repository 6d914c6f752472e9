--------------------------- MODULE MCCoordinator ---------------------------
(* Finite instances of Coordinator.                                        *)
EXTENDS Coordinator, TLC

(* Two steps below the full ratio: the loop is entered, repeated and left. *)
TwoSteps == <<1, 2>>
OneStep == <<1>>

(* For runs without temporal properties.                                   *)
Symmetry == Permutations(Ramps) \cup Permutations(Completers)
            \cup Permutations(Instances) \cup Permutations(Ids)
=============================================================================
