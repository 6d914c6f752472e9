--------------------------- MODULE WarmupSession ---------------------------
(***************************************************************************)
(* What the coordinator promises a client that runs one warmup session     *)
(* after another: a session mirrors to the instance it was created for     *)
(* while traffic stays where it was asked to stay, then holds, and then    *)
(* that instance is promoted: routing to it and the end of mirroring are   *)
(* one step.                                                               *)
(***************************************************************************)
CONSTANTS Ids, Instances, None

VARIABLES
  phase,   \* of each session: none, running, holding or completed
  plan,    \* the instances each session was created with, or None
  mirror,  \* the session that traffic is mirrored for, or None
  active   \* the instance that traffic is routed to, or None

vars == <<phase, plan, mirror, active>>

Open == {id \in Ids : phase[id] \in {"running", "holding"}}

Init ==
  /\ phase = [id \in Ids |-> "none"]
  /\ plan = [id \in Ids |-> None]
  /\ mirror = None
  /\ active = None

Start(id) ==
  /\ Open = {}
  /\ phase[id] = "none"
  /\ phase' = [phase EXCEPT ![id] = "running"]
  /\ \E p \in [target : Instances, active : Instances] :
        plan' = [plan EXCEPT ![id] = p]
  /\ UNCHANGED <<mirror, active>>

Mirror(id) ==
  /\ phase[id] = "running"
  /\ mirror' = id
  /\ active' = plan[id].active
  /\ UNCHANGED <<phase, plan>>

Hold(id) ==
  /\ phase[id] = "running"
  /\ mirror = id
  /\ phase' = [phase EXCEPT ![id] = "holding"]
  /\ UNCHANGED <<plan, mirror, active>>

Promote(id) ==
  /\ phase[id] = "holding"
  /\ phase' = [phase EXCEPT ![id] = "completed"]
  /\ mirror' = None
  /\ active' = plan[id].target
  /\ UNCHANGED plan

(* Between sessions the client routes as it likes.                         *)
Route ==
  /\ Open = {}
  /\ mirror' = None
  /\ active' \in Instances
  /\ UNCHANGED <<phase, plan>>

Next == (\E id \in Ids : Start(id) \/ Mirror(id) \/ Hold(id) \/ Promote(id)) \/ Route

Spec == Init /\ [][Next]_vars
=============================================================================
