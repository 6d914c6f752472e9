----------------------------- MODULE ConfigFeed -----------------------------
(***************************************************************************)
(* What a watcher of the mirror config promises its observer: it shows     *)
(* published versions only, never goes back, may skip versions, and, as    *)
(* long as the observer listens, ends with the latest.                     *)
(***************************************************************************)
EXTENDS Naturals

VARIABLES
  latest,  \* number of the last config published, 0 before the first
  seen,    \* number of the config the observer acts on
  open     \* whether the observer still listens

vars == <<latest, seen, open>>

Init == latest = 0 /\ seen = 0 /\ open = TRUE

Publish == latest' = latest + 1 /\ UNCHANGED <<seen, open>>

Deliver ==
  /\ \E v \in seen + 1 .. latest : seen' = v
  /\ UNCHANGED <<latest, open>>

(* Seeing again what one has seen is not a step; closing loses the promise.*)
Close == open' = FALSE /\ UNCHANGED <<latest, seen>>

Next == Publish \/ Deliver \/ Close

Safety == Init /\ [][Next]_vars
Spec == Safety /\ WF_vars(open /\ Deliver)
=============================================================================
