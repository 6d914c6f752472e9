--------------------------- MODULE MCMirrorProxy ---------------------------
EXTENDS MirrorProxy, TLC

CONSTANTS i1, i2

(* A warmup of i2 and, after its promotion, one of i1.                     *)
Swap == << [active |-> i1, mirror |-> i2], [active |-> i2, mirror |-> i1] >>

StartsTwoOne == i1 :> 2 @@ i2 :> 1
=============================================================================
