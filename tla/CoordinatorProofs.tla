------------------------- MODULE CoordinatorProofs -------------------------
(***************************************************************************)
(* Theorems about Coordinator, for any sets of sessions, instances and     *)
(* requests and any ramp steps: its types for every client, the rise of    *)
(* the ratio for every client whose own configs name no session, and what  *)
(* it promises a client that keeps to the benchmark's protocol, with and   *)
(* without ZooKeeper faults.                                               *)
(***************************************************************************)
EXTENDS Coordinator, SequenceTheorems, TLAPS

USE RatiosAssumption

(* Where each kind of goroutine can be, and what it writes.                *)
RampPoints == {"idle", "write", "create", "next", "check", "hold", "finish", "done"}
ClientPoints == {"idle", "write", "create", "ok", "error"}

Kinds ==
  /\ \A r \in Ramps :
       /\ pc[r] \in RampPoints
       /\ IF pc[r] = "idle" THEN out[r] = NoConfig /\ step[r] = First
          ELSE /\ out[r].enabled /\ out[r].session \in Ids
               /\ out[r].target \in Instances /\ out[r].active \in Instances
  /\ \A c \in Completers \cup Putters : pc[c] \in ClientPoints
  /\ \A c \in Completers : pc[c] # "idle" => out[c].session \in Ids

TypeInv == TypeOK /\ Kinds

-----------------------------------------------------------------------------
(* Every writer is of exactly one kind.                                    *)
LEMMA WriterKinds ==
  /\ \A r \in Ramps : r \in Writers /\ r \notin Completers /\ r \notin Putters
  /\ \A c \in Completers : c \in Writers /\ c \notin Ramps /\ c \notin Putters
  /\ \A p \in Putters : p \in Writers /\ p \notin Ramps /\ p \notin Completers
  /\ \A w \in Writers : w \in Ramps \/ w \in Completers \/ w \in Putters
BY WritersAssumption DEF Writers

(* The numbers of the ramp's writes differ.                                *)
LEMMA StepNumbers ==
  /\ Len(Steps) \in Nat /\ First \in First .. Last /\ Hold \in First .. Last
  /\ Last \in First .. Last /\ First # Hold /\ First # Last /\ Hold # Last
  /\ \A n \in First .. Last : n < Len(Steps) => n + 1 \in First .. Last /\ n + 1 # First
                                                 /\ n + 1 # Hold /\ n + 1 # Last
  /\ \A n \in 1 .. Len(Steps) : Steps[n] \in 0 .. Full
<1>1. Len(Steps) \in Nat /\ \A n \in 1 .. Len(Steps) : Steps[n] \in 0 .. Full
  BY LenProperties
<1> QED
  BY <1>1 DEF First, Hold, Last

(* Changing the ratio of one writer's config changes nothing else.         *)
LEMMA RatioChanges ==
  ASSUME TypeOK, NEW r \in Writers, NEW x \in 0 .. Full, out' = [out EXCEPT ![r].ratio = x]
  PROVE  /\ out' \in [Writers -> MirrorConfig]
         /\ out'[r].ratio = x /\ out'[r].enabled = out[r].enabled
         /\ out'[r].target = out[r].target /\ out'[r].active = out[r].active
         /\ out'[r].session = out[r].session
         /\ \A w \in Writers : w # r => out'[w] = out[w]
BY DEF TypeOK, MirrorConfig

(* The ratio of the ramp's writes, by their number.                        *)
RatioAt(n) == IF n = First THEN 0 ELSE IF n <= Len(Steps) THEN Steps[n] ELSE Full

(* The ramp between two writes: it goes on to another write, or to the     *)
(* hold loop.                                                              *)
RampMoves(r, point, n, x) ==
  /\ pc[r] \in {"next", "check", "hold"}
  /\ pc' = [pc EXCEPT ![r] = point]
  /\ step' = [step EXCEPT ![r] = n]
  /\ out' = [out EXCEPT ![r].ratio = x]
  /\ point = "write" => n # First /\ x = RatioAt(n)
  /\ x = Full \/ (pc[r] # "hold" /\ n = step[r] + 1 /\ n <= Len(Steps) /\ x = Steps[n])
  /\ UNCHANGED <<sessions, config, ready, promoted>>

(* From the hold on, every write has the full ratio.                       *)
LEMMA Ratios ==
  RatioAt(Hold) = Full /\ RatioAt(Last) = Full /\ \A n \in 1 .. Len(Steps) : RatioAt(n) = Steps[n]
BY StepNumbers DEF RatioAt, First, Hold, Last

(* Each of the ramp's actions but its writes and its end is such a move.   *)
LEMMA RampMoved ==
  ASSUME TypeInv, NEW r \in Ramps, RampNext(r) \/ RampCheck(r) \/ HoldMore(r) \/ HoldEnds(r)
  PROVE  \E point \in {"write", "hold"}, n \in First .. Last, x \in 0 .. Full :
            RampMoves(r, point, n, x)
<1>1. step[r] \in First .. Last /\ Full \in 0 .. Full /\ step = [step EXCEPT ![r] = step[r]]
  BY DEF TypeInv, TypeOK
<1>2. CASE pc[r] \in {"next", "check"} /\ NextStep(r)
           /\ UNCHANGED <<sessions, config, ready, promoted>>
  <2>1. CASE step[r] < Len(Steps)
    <3>1. step[r] + 1 \in 1 .. Len(Steps)
      BY <1>1, <2>1, StepNumbers DEF First, Last
    <3>2. RampMoves(r, "write", step[r] + 1, Steps[step[r] + 1])
      BY <1>1, <1>2, <2>1, <3>1, StepNumbers, Ratios DEF NextStep, WriteNext, RampMoves
    <3> QED
      BY <1>1, <2>1, <3>1, <3>2, StepNumbers
  <2>2. CASE ~(step[r] < Len(Steps))
    <3>1. RampMoves(r, "hold", step[r], Full)
      BY <1>1, <1>2, <2>2 DEF NextStep, RampMoves
    <3> QED
      BY <1>1, <3>1
  <2> QED
    BY <2>1, <2>2
<1>3. CASE HoldMore(r)
  <2>1. RampMoves(r, "write", Hold, Full)
    BY <1>3, StepNumbers, Ratios DEF HoldMore, WriteNext, RampMoves
  <2> QED
    BY <1>1, <2>1, StepNumbers
<1>4. CASE HoldEnds(r)
  <2>1. RampMoves(r, "write", Last, Full)
    BY <1>4, StepNumbers, Ratios DEF HoldEnds, WriteNext, RampMoves
  <2> QED
    BY <1>1, <2>1, StepNumbers
<1>5. CASE RampCheck(r) /\ ~NextStep(r)
  <2>1. RampMoves(r, "hold", step[r], Full)
    BY <1>1, <1>5 DEF RampCheck, RampMoves
  <2> QED
    BY <1>1, <2>1
<1> QED
  BY <1>2, <1>3, <1>4, <1>5 DEF RampNext, RampCheck

(* A write goes on to Create, or it is over and has taken effect or not.   *)
PointsAfter(w) == IF w \in Ramps THEN {"next", "check", "hold", "finish"} ELSE {"ok", "error"}

PointFits(w, point) ==
  /\ point = "next" => step[w] = First
  /\ point = "check" => step[w] \notin {First, Hold, Last}
  /\ point = "finish" => step[w] = Last

GoesOnToCreate(w) ==
  /\ pc[w] = "write" /\ config = None
  /\ pc' = [pc EXCEPT ![w] = "create"]
  /\ UNCHANGED <<sessions, config, ready, out, step, promoted>>

WriteEnds(w, point) ==
  /\ Writing(w)
  /\ pc' = [pc EXCEPT ![w] = point]
  /\ PointFits(w, point)
  /\ \/ /\ config' = out[w]
        /\ promoted' = IF w \in Completers THEN promoted \cup {out[w].session} ELSE promoted
     \/ /\ ZkFaults \/ (pc[w] = "create" /\ config # None)
        /\ point # "ok"
        /\ UNCHANGED <<config, promoted>>
  /\ UNCHANGED <<sessions, ready, out, step>>

(* Each action of a write is one of the two.                               *)
LEMMA WriteMoves ==
  ASSUME NEW w \in Writers, WriteMirrorConfig(w)
  PROVE  GoesOnToCreate(w) \/ \E point \in PointsAfter(w) : WriteEnds(w, point)
<1>1. CASE ExistsNot(w)
  BY <1>1 DEF ExistsNot, GoesOnToCreate
<1>2. ASSUME NEW ok \in BOOLEAN, AfterWrite(w, ok)
      PROVE  \E point \in PointsAfter(w) :
                pc' = [pc EXCEPT ![w] = point] /\ PointFits(w, point) /\ (~ok => point # "ok")
  BY <1>2 DEF AfterWrite, PointsAfter, PointFits
<1>3. CASE Set(w) \/ Create(w)
  <2>1. PICK ok \in BOOLEAN : AfterWrite(w, ok)
    BY <1>3 DEF Set, Create, Written
  <2> QED
    BY <1>2, <1>3, <2>1 DEF Set, Create, Written, WriteEnds, Writing
<1>4. CASE WriteFails(w)
  BY <1>2, <1>4 DEF WriteFails, WriteEnds
<1> QED
  BY <1>1, <1>3, <1>4 DEF WriteMirrorConfig

-----------------------------------------------------------------------------
(* The initial state has its types.                                        *)
LEMMA TypeInit == Init => TypeInv
<1> SUFFICES ASSUME Init PROVE TypeInv
  OBVIOUS
<1>1. NoConfig \in MirrorConfig /\ First \in First .. Last
  BY StepNumbers DEF NoConfig, MirrorConfig
<1>2. TypeOK
  BY <1>1 DEF Init, TypeOK
<1>3. Kinds
  BY WriterKinds DEF Init, Kinds, RampPoints, ClientPoints, NoConfig
<1> QED
  BY <1>2, <1>3 DEF TypeInv

(* A write, whoever's it is.                                               *)
LEMMA TypeWrite ==
  ASSUME TypeInv, NEW w \in Writers, WriteMirrorConfig(w)
  PROVE  TypeInv'
<1> USE DEF TypeInv, TypeOK
<1>1. CASE GoesOnToCreate(w)
  <2>1. TypeOK'
    BY <1>1 DEF GoesOnToCreate
  <2>2. Kinds'
    BY <1>1, WriterKinds DEF GoesOnToCreate, Kinds, RampPoints, ClientPoints
  <2> QED
    BY <2>1, <2>2
<1>2. ASSUME NEW point \in PointsAfter(w), WriteEnds(w, point)
      PROVE  TypeInv'
  <2>1. point \in {"next", "check", "hold", "finish", "ok", "error"}
    BY DEF PointsAfter
  <2>2. config' \in MirrorConfig \cup {None} /\ promoted' \subseteq Ids
    BY <1>2, WriterKinds DEF WriteEnds, Writing, Kinds
  <2>3. TypeOK'
    BY <1>2, <2>1, <2>2 DEF WriteEnds
  <2>4. Kinds'
    BY <1>2, WriterKinds DEF WriteEnds, Writing, PointsAfter, Kinds, RampPoints, ClientPoints
  <2> QED
    BY <2>3, <2>4
<1> QED
  BY <1>1, <1>2, WriteMoves

(* A ramp between two writes.                                              *)
LEMMA TypeRamp ==
  ASSUME TypeInv, NEW r \in Ramps, NEW point \in {"write", "hold"}, NEW n \in First .. Last,
         NEW x \in 0 .. Full, RampMoves(r, point, n, x)
  PROVE  TypeInv'
<1> USE DEF TypeInv
<1>1. /\ out' \in [Writers -> MirrorConfig]
      /\ out'[r].enabled = out[r].enabled /\ out'[r].session = out[r].session
      /\ out'[r].target = out[r].target /\ out'[r].active = out[r].active
      /\ \A w \in Writers : w # r => out'[w] = out[w]
  BY RatioChanges, WriterKinds DEF RampMoves
<1>2. TypeOK'
  BY <1>1 DEF TypeOK, RampMoves
<1>3. \A w \in Writers : w # r => pc'[w] = pc[w] /\ step'[w] = step[w]
  BY WriterKinds DEF RampMoves, TypeOK
<1>4. pc'[r] = point /\ pc[r] # "idle"
  BY WriterKinds DEF RampMoves, TypeOK
<1>5. Kinds'
  <2>1. pc[r] # "idle" /\ out[r].enabled /\ out[r].session \in Ids
        /\ out[r].target \in Instances /\ out[r].active \in Instances
    BY <1>4 DEF Kinds
  <2>2. \A w \in Ramps : w # r => pc'[w] = pc[w] /\ step'[w] = step[w] /\ out'[w] = out[w]
    BY <1>1, <1>3, WriterKinds
  <2>3. \A c \in Completers \cup Putters : pc'[c] = pc[c] /\ out'[c] = out[c]
    BY <1>1, <1>3, WriterKinds
  <2>4. pc'[r] \in RampPoints /\ pc'[r] # "idle"
    BY <1>4 DEF RampPoints
  <2>5. out'[r].enabled /\ out'[r].session \in Ids
        /\ out'[r].target \in Instances /\ out'[r].active \in Instances
    BY <1>1, <2>1
  <2> QED
    BY <2>2, <2>3, <2>4, <2>5 DEF Kinds
<1> QED
  BY <1>2, <1>5

(* Setting the status of a session changes nothing else, nor does setting  *)
(* it along with the active instance.                                      *)
LEMMA SessionChanges ==
  ASSUME TypeOK, NEW id \in Ids, Exists(id), NEW st \in {"running", "holding", "completed"},
         \/ sessions' = [sessions EXCEPT ![id].status = st]
         \/ sessions' = [sessions EXCEPT ![id].active = sessions[id].target, ![id].status = st]
  PROVE  /\ sessions' \in [Ids -> Session \cup {None}]
         /\ sessions'[id] \in Session /\ sessions'[id].status = st
         /\ sessions'[id].target = sessions[id].target
         /\ \A other \in Ids : other # id => sessions'[other] = sessions[other]
         /\ sessions' = [sessions EXCEPT ![id].status = st]
              => sessions'[id].active = sessions[id].active
         /\ sessions' = [sessions EXCEPT ![id].active = sessions[id].target, ![id].status = st]
              => sessions'[id].active = sessions[id].target
<1>1. sessions[id] \in Session
  BY DEF TypeOK, Exists
<1>2. ASSUME sessions' = [sessions EXCEPT ![id].status = st]
      PROVE  /\ sessions'[id] = [status |-> st, target |-> sessions[id].target,
                                 active |-> sessions[id].active]
             /\ sessions' \in [Ids -> Session \cup {None}]
             /\ \A other \in Ids : other # id => sessions'[other] = sessions[other]
  BY <1>1, <1>2 DEF TypeOK, Session
<1>3. ASSUME sessions' = [sessions EXCEPT ![id].active = sessions[id].target, ![id].status = st]
      PROVE  /\ sessions'[id] = [status |-> st, target |-> sessions[id].target,
                                 active |-> sessions[id].target]
             /\ sessions' \in [Ids -> Session \cup {None}]
             /\ \A other \in Ids : other # id => sessions'[other] = sessions[other]
  BY <1>1, <1>3 DEF TypeOK, Session
<1>4. sessions[id].target \in Instances /\ sessions[id].active \in Instances
  BY <1>1 DEF Session
<1> QED
  BY <1>2, <1>3, <1>4 DEF Session

(* A session created or deleted, or whose status is set.                   *)
LEMMA TypeSession ==
  ASSUME TypeInv,
         \/ \E r \in Ramps, id \in Ids, target, active \in Instances :
               CreateSession(r, id, target, active)
         \/ \E r \in Ramps : Finish(r)
         \/ \E c \in Completers, id \in Ids : CompleteSession(c, id)
         \/ \E id \in Ids : DeleteSession(id)
  PROVE  TypeInv'
<1> USE DEF TypeInv
<1>1. ASSUME NEW r \in Ramps, NEW id \in Ids, NEW target \in Instances, NEW active \in Instances,
             CreateSession(r, id, target, active)
      PROVE  TypeInv'
  <2> DEFINE cfg == [enabled |-> TRUE, ratio |-> 0, target |-> target, active |-> active,
                     session |-> id]
  <2>1. /\ cfg \in MirrorConfig
        /\ [status |-> "running", target |-> target, active |-> active] \in Session
    BY DEF MirrorConfig, Session
  <2>2. TypeOK'
    BY <1>1, <2>1, WriterKinds DEF CreateSession, TypeOK
  <2>3. Kinds'
    BY <1>1, WriterKinds DEF CreateSession, TypeOK, Kinds, RampPoints
  <2> QED
    BY <2>2, <2>3
<1>2. ASSUME NEW r \in Ramps, Finish(r)
      PROVE  TypeInv'
  <2>1. sessions' \in [Ids -> Session \cup {None}]
    BY <1>2, SessionChanges DEF Finish, TypeOK, Kinds
  <2>2. TypeOK'
    BY <1>2, <2>1 DEF Finish, TypeOK
  <2>3. Kinds'
    BY <1>2, WriterKinds DEF Finish, TypeOK, Kinds, RampPoints
  <2> QED
    BY <2>2, <2>3
<1>3. ASSUME NEW c \in Completers, NEW id \in Ids, CompleteSession(c, id)
      PROVE  TypeInv'
  <2>1. sessions[id] \in Session /\ Promotion(id) \in MirrorConfig /\ Promotion(id).session = id
    BY <1>3 DEF CompleteSession, TypeOK, Exists, Session, Promotion, MirrorConfig
  <2>2. sessions' \in [Ids -> Session \cup {None}]
    BY <1>3, <2>1 DEF CompleteSession, TypeOK, Session
  <2>3. TypeOK'
    BY <1>3, <2>1, <2>2, WriterKinds DEF CompleteSession, TypeOK
  <2>4. Kinds'
    <3>1. pc' \in {[pc EXCEPT ![c] = "ok"], [pc EXCEPT ![c] = "write"]}
          /\ out' = [out EXCEPT ![c] = Promotion(id)] /\ step' = step
      BY <1>3 DEF CompleteSession
    <3>2. \A w \in Writers : w # c => pc'[w] = pc[w] /\ out'[w] = out[w]
      BY <3>1 DEF TypeOK
    <3>3. pc'[c] \in ClientPoints /\ out'[c].session \in Ids
      BY <2>1, <3>1, WriterKinds DEF TypeOK, ClientPoints
    <3> QED
      BY <3>1, <3>2, <3>3, WriterKinds DEF Kinds
  <2> QED
    BY <2>3, <2>4
<1>4. ASSUME NEW id \in Ids, DeleteSession(id)
      PROVE  TypeInv'
  BY <1>4 DEF DeleteSession, TypeOK, Kinds
<1> QED
  BY <1>1, <1>2, <1>3, <1>4

(* Every step preserves the types, for every client.                       *)
LEMMA TypeStep == TypeInv /\ [Next]_vars => TypeInv'
<1> SUFFICES ASSUME TypeInv, [Next]_vars PROVE TypeInv'
  OBVIOUS
<1>1. ASSUME NEW w \in Writers, WriteMirrorConfig(w) PROVE TypeInv'
  BY <1>1, TypeWrite
<1>2. ASSUME NEW r \in Ramps, RampNext(r) \/ RampCheck(r) \/ HoldMore(r) \/ HoldEnds(r)
      PROVE  TypeInv'
  BY <1>2, RampMoved, TypeRamp
<1>3. ASSUME NEW p \in Putters, NEW cfg \in MirrorConfig, SetMirrorConfig(p, cfg)
      PROVE  TypeInv'
  <2>1. TypeOK'
    BY <1>3, WriterKinds DEF SetMirrorConfig, TypeInv, TypeOK
  <2>2. Kinds'
    BY <1>3, WriterKinds DEF SetMirrorConfig, TypeInv, TypeOK, Kinds, ClientPoints
  <2> QED
    BY <2>1, <2>2 DEF TypeInv
<1>4. CASE (\E i \in Instances : BecomeReady(i) \/ BecomeUnready(i)) \/ UNCHANGED vars
  BY <1>4 DEF BecomeReady, BecomeUnready, vars, TypeInv, TypeOK, Kinds
<1> QED
  BY <1>1, <1>2, <1>3, <1>4, TypeSession, WriterKinds DEF Next, Ramp

(* Sessions, configs and goroutines keep their types, whatever the client  *)
(* asks for and whatever fails.                                            *)
THEOREM TypeCorrect == Spec => []TypeOK
<1>1. Spec => []TypeInv
  BY TypeInit, TypeStep, PTL DEF Spec
<1> QED
  BY <1>1, PTL DEF TypeInv

-----------------------------------------------------------------------------
(* What clients PUT: configs of no session, and under the protocol also    *)
(* with an active instance.                                                *)
PlainPuts == \A p \in Putters : pc[p] # "idle" => out[p].session = None

RoutesPut ==
  \A p \in Putters : pc[p] # "idle" => out[p].session = None /\ out[p].active \in Instances

LEMMA RoutesArePlain == RoutesPut => PlainPuts
BY DEF RoutesPut, PlainPuts

(* Nobody but its request changes what is PUT.                             *)
LEMMA PutsStay ==
  ASSUME TypeInv, NEW p \in Putters,
         \/ \E w \in Writers : WriteMirrorConfig(w)
         \/ \E r \in Ramps : \/ Ramp(r)
                             \/ \E id \in Ids, target, active \in Instances :
                                   CreateSession(r, id, target, active)
         \/ \E c \in Completers, id \in Ids : CompleteSession(c, id)
         \/ \E q \in Putters \ {p}, cfg \in MirrorConfig : SetMirrorConfig(q, cfg)
         \/ UNCHANGED <<pc, out>>
  PROVE  pc'[p] # "idle" => pc[p] # "idle" /\ out'[p] = out[p]
<1>0. TypeOK /\ p \in Writers /\ p \notin Ramps /\ p \notin Completers
  BY WriterKinds DEF TypeInv
<1>1. ASSUME NEW w \in Writers, WriteMirrorConfig(w)
      PROVE  pc'[p] # "idle" => pc[p] # "idle" /\ out'[p] = out[p]
  BY <1>0, <1>1, WriteMoves DEF GoesOnToCreate, WriteEnds, Writing, TypeOK
<1>2. ASSUME NEW r \in Ramps, RampNext(r) \/ RampCheck(r) \/ HoldMore(r) \/ HoldEnds(r)
      PROVE  pc'[p] # "idle" => pc[p] # "idle" /\ out'[p] = out[p]
  <2>1. PICK point \in {"write", "hold"}, n \in First .. Last, x \in 0 .. Full :
           RampMoves(r, point, n, x)
    BY <1>2, RampMoved
  <2>2. \A v \in Writers : v # r => pc'[v] = pc[v] /\ out'[v] = out[v]
    BY <1>0, <2>1, RatioChanges, WriterKinds DEF RampMoves, TypeOK
  <2> QED
    BY <1>0, <2>2
<1>3. ASSUME NEW r \in Ramps,
             Finish(r) \/ \E id \in Ids, target, active \in Instances :
                             CreateSession(r, id, target, active)
      PROVE  pc'[p] # "idle" => pc[p] # "idle" /\ out'[p] = out[p]
  BY <1>0, <1>3, WriterKinds DEF Finish, CreateSession, TypeOK
<1>4. ASSUME NEW c \in Completers, NEW id \in Ids, CompleteSession(c, id)
      PROVE  pc'[p] # "idle" => pc[p] # "idle" /\ out'[p] = out[p]
  BY <1>0, <1>4, WriterKinds DEF CompleteSession, TypeOK
<1>5. ASSUME NEW q \in Putters \ {p}, NEW cfg \in MirrorConfig, SetMirrorConfig(q, cfg)
      PROVE  pc'[p] # "idle" => pc[p] # "idle" /\ out'[p] = out[p]
  BY <1>0, <1>5, WriterKinds DEF SetMirrorConfig, TypeOK
<1> QED
  BY <1>1, <1>2, <1>3, <1>4, <1>5, WriterKinds DEF Ramp

LEMMA RoutesInit == Init => RoutesPut
BY WriterKinds DEF Init, RoutesPut

LEMMA RoutesStep == OneAtATime /\ TypeInv /\ RoutesPut /\ [Next]_vars => RoutesPut'
<1> SUFFICES ASSUME OneAtATime, TypeInv, RoutesPut, [Next]_vars, NEW p \in Putters,
                    pc'[p] # "idle"
             PROVE  out'[p].session = None /\ out'[p].active \in Instances
  BY DEF RoutesPut
<1>1. CASE \E cfg \in MirrorConfig : SetMirrorConfig(p, cfg)
  BY <1>1, WriterKinds DEF SetMirrorConfig, MayPut, TypeInv, TypeOK
<1>2. CASE ~\E cfg \in MirrorConfig : SetMirrorConfig(p, cfg)
  <2>1. pc[p] # "idle" /\ out'[p] = out[p]
    BY <1>2, PutsStay, WriterKinds DEF Next, DeleteSession, BecomeReady, BecomeUnready, vars
  <2> QED
    BY <2>1 DEF RoutesPut
<1> QED
  BY <1>1, <1>2

-----------------------------------------------------------------------------
(* What holds for every client of plain PUTs, failing calls and deletions  *)
(* included, as long as no two sessions are created in the same            *)
(* millisecond.                                                            *)
Started(r) == pc[r] # "idle"
Underway(r) == pc[r] \notin {"idle", "done"}
HasRamp(id) == \E r \in Ramps : Started(r) /\ out[r].session = id

(* Every session belongs to one ramp, also when it is deleted, and no      *)
(* promotion mirrors.                                                      *)
Owned ==
  /\ \A q, r \in Ramps : Started(q) /\ Started(r) /\ out[q].session = out[r].session => q = r
  /\ \A id \in Ids : Exists(id) \/ id \in promoted => HasRamp(id)
  /\ \A c \in Completers : pc[c] # "idle" =>
       /\ HasRamp(out[c].session)
       /\ ~out[c].enabled /\ out[c].ratio = 0 /\ out[c].active = out[c].target
  /\ config # None /\ config.session \in Ids => HasRamp(config.session)

(* A step that begins no session, no ramp and no completion.               *)
GoesOn ==
  /\ \A r \in Ramps : (Started(r)' <=> Started(r)) /\ out'[r].session = out[r].session
  /\ \A id \in Ids : Exists(id)' => Exists(id)
  /\ \A c \in Completers : pc'[c] # "idle" => pc[c] # "idle" /\ out'[c] = out[c]
  /\ config' = config \/ \E w \in Writers : pc[w] # "idle" /\ config' = out[w]
  /\ \/ promoted' = promoted
     \/ \E c \in Completers : pc[c] # "idle" /\ promoted' = promoted \cup {out[c].session}

(* All steps but two are of that kind.                                     *)
LEMMA Begins ==
  ASSUME TypeInv, [Next]_vars
  PROVE  \/ GoesOn
         \/ \E r \in Ramps, id \in Ids, target, active \in Instances :
               CreateSession(r, id, target, active)
         \/ \E c \in Completers, id \in Ids : CompleteSession(c, id)
<1>0. TypeOK /\ Kinds /\ pc \in [Writers -> RampPoints \cup ClientPoints]
  BY DEF TypeInv, TypeOK, RampPoints, ClientPoints
<1>1. ASSUME NEW w \in Writers, WriteMirrorConfig(w) PROVE GoesOn
  <2>1. ASSUME NEW point \in PointsAfter(w) \cup {"create"},
               pc' = [pc EXCEPT ![w] = point], Writing(w), UNCHANGED <<sessions, out>>
        PROVE  /\ \A r \in Ramps : (Started(r)' <=> Started(r)) /\ out'[r].session = out[r].session
               /\ \A id \in Ids : Exists(id)' => Exists(id)
               /\ \A c \in Completers : pc'[c] # "idle" => pc[c] # "idle" /\ out'[c] = out[c]
               /\ pc[w] # "idle"
    BY <1>0, <2>1, WriterKinds DEF PointsAfter, Writing, Started, Exists
  <2>2. CASE GoesOnToCreate(w)
    BY <2>1, <2>2 DEF GoesOnToCreate, GoesOn, Writing
  <2>3. ASSUME NEW point \in PointsAfter(w), WriteEnds(w, point) PROVE GoesOn
    BY <2>1, <2>3 DEF WriteEnds, GoesOn
  <2> QED
    BY <1>1, <2>2, <2>3, WriteMoves
<1>2. ASSUME NEW r \in Ramps, RampNext(r) \/ RampCheck(r) \/ HoldMore(r) \/ HoldEnds(r)
      PROVE  GoesOn
  <2>1. PICK point \in {"write", "hold"}, n \in First .. Last, x \in 0 .. Full :
           RampMoves(r, point, n, x)
    BY <1>2, RampMoved
  <2>2. out'[r].session = out[r].session /\ \A w \in Writers : w # r => out'[w] = out[w]
    BY <1>0, <2>1, RatioChanges, WriterKinds DEF RampMoves
  <2>3. /\ pc[r] # "idle" /\ pc'[r] # "idle" /\ \A w \in Writers : w # r => pc'[w] = pc[w]
        /\ UNCHANGED <<sessions, config, promoted>>
    BY <1>0, <2>1, WriterKinds DEF RampMoves
  <2> QED
    BY <2>2, <2>3, WriterKinds DEF GoesOn, Started, Exists
<1>3. ASSUME NEW r \in Ramps, Finish(r) PROVE GoesOn
  <2>1. /\ pc[r] # "idle" /\ pc'[r] # "idle" /\ \A w \in Writers : w # r => pc'[w] = pc[w]
        /\ UNCHANGED <<out, config, promoted>>
    BY <1>0, <1>3, WriterKinds DEF Finish
  <2>2. \A id \in Ids : Exists(id)' => Exists(id)
    BY <1>0, <1>3 DEF Finish, Exists, TypeOK
  <2> QED
    BY <2>1, <2>2, WriterKinds DEF GoesOn, Started
<1>4. ASSUME NEW p \in Putters, NEW cfg \in MirrorConfig, SetMirrorConfig(p, cfg)
      PROVE  GoesOn
  <2>1. /\ \A w \in Writers : w # p => pc'[w] = pc[w] /\ out'[w] = out[w]
        /\ UNCHANGED <<sessions, config, promoted>>
    BY <1>0, <1>4, WriterKinds DEF SetMirrorConfig, TypeOK
  <2> QED
    BY <2>1, WriterKinds DEF GoesOn, Started, Exists
<1>5. CASE \/ \E id \in Ids : DeleteSession(id)
           \/ \E i \in Instances : BecomeReady(i) \/ BecomeUnready(i)
           \/ UNCHANGED vars
  <2>1. UNCHANGED <<pc, out, config, promoted>> /\ \A id \in Ids : Exists(id)' => Exists(id)
    BY <1>0, <1>5 DEF DeleteSession, BecomeReady, BecomeUnready, vars, Exists, TypeOK
  <2> QED
    BY <2>1 DEF GoesOn, Started
<1> QED
  BY <1>1, <1>2, <1>3, <1>4, <1>5, WriterKinds DEF Next, Ramp

(* Who owns a session stays so where nothing begins.                       *)
LEMMA OwnedGoesOn == ASSUME TypeInv, PlainPuts, Owned, GoesOn PROVE Owned'
<1>1. \A id : HasRamp(id)' <=> HasRamp(id)
  BY DEF GoesOn, HasRamp, Started
<1>2. \A w \in Writers : pc[w] # "idle" /\ out[w].session \in Ids => HasRamp(out[w].session)
  BY WriterKinds, WritersAssumption DEF TypeInv, Kinds, PlainPuts, Owned, HasRamp, Started
<1>3. config' # None /\ config'.session \in Ids => HasRamp(config'.session)
  BY <1>2 DEF Owned, GoesOn
<1>4. \A id \in Ids : Exists(id)' \/ id \in promoted' => HasRamp(id)
  BY DEF Owned, GoesOn
<1>5. \A c \in Completers : pc'[c] # "idle" =>
        /\ HasRamp(out'[c].session)
        /\ ~out'[c].enabled /\ out'[c].ratio = 0 /\ out'[c].active = out'[c].target
  BY DEF Owned, GoesOn
<1>6. \A q, r \in Ramps : Started(q)' /\ Started(r)' /\ out'[q].session = out'[r].session => q = r
  BY DEF Owned, GoesOn
<1> QED
  BY <1>1, <1>3, <1>4, <1>5, <1>6 DEF Owned

(* A new session's id is of nobody yet.                                    *)
LEMMA CreateSessionOwned ==
  ASSUME ~SameMs, TypeInv, Owned, NEW r \in Ramps, NEW id \in Ids, NEW target \in Instances,
         NEW active \in Instances, CreateSession(r, id, target, active)
  PROVE  /\ Owned' /\ ~HasRamp(id) /\ UNCHANGED <<config, step, promoted>>
         /\ ~Started(r) /\ pc'[r] = "write" /\ out'[r].session = id /\ out'[r].ratio = 0
         /\ \A w \in Writers : w # r => pc'[w] = pc[w] /\ out'[w] = out[w]
         /\ \A other \in Ids : other # id => sessions'[other] = sessions[other]
         /\ Status(id)' = "running"
<1>0. TypeOK /\ r \in Writers
  BY WriterKinds DEF TypeInv
<1>1. /\ ~HasRamp(id) /\ ~Started(r) /\ UNCHANGED <<config, step, promoted>>
  BY DEF CreateSession, HasRamp, Started
<1>2. /\ pc'[r] = "write" /\ out'[r].session = id /\ out'[r].ratio = 0
      /\ \A w \in Writers : w # r => pc'[w] = pc[w] /\ out'[w] = out[w]
  BY <1>0 DEF CreateSession, TypeOK
<1>3. /\ \A other \in Ids : other # id => sessions'[other] = sessions[other]
      /\ sessions'[id] = [status |-> "running", target |-> target, active |-> active]
  BY <1>0 DEF CreateSession, TypeOK
<1>4. Status(id)' = "running"
  <2>1. sessions'[id] \in Session
    BY <1>3 DEF Session
  <2> QED
    BY <1>3, <2>1, NoneAssumption DEF Status, Exists
<1>5. \A other : HasRamp(other) \/ other = id => HasRamp(other)'
  BY <1>1, <1>2, WriterKinds DEF HasRamp, Started
<1>6. \A q, s \in Ramps : Started(q)' /\ Started(s)' /\ out'[q].session = out'[s].session => q = s
  BY <1>1, <1>2, WriterKinds DEF Owned, HasRamp, Started
<1>7. \A other \in Ids : Exists(other)' \/ other \in promoted' => HasRamp(other)'
  BY <1>1, <1>3, <1>5 DEF Owned, Exists
<1>8. \A c \in Completers : pc'[c] = pc[c] /\ out'[c] = out[c]
  BY <1>2, WriterKinds
<1>9. Owned'
  BY <1>1, <1>5, <1>6, <1>7, <1>8 DEF Owned
<1> QED
  BY <1>1, <1>2, <1>3, <1>4, <1>9

(* A completion takes up a session that exists, and turns mirroring off.   *)
LEMMA CompleteSessionOwned ==
  ASSUME TypeInv, Owned, NEW c \in Completers, NEW id \in Ids, CompleteSession(c, id)
  PROVE  /\ Owned' /\ HasRamp(id) /\ UNCHANGED <<config, step, promoted>>
         /\ pc[c] = "idle" /\ pc'[c] # "idle" /\ out'[c].session = id
         /\ \A w \in Writers : w # c => pc'[w] = pc[w] /\ out'[w] = out[w]
         /\ \A other \in Ids : other # id => sessions'[other] = sessions[other]
<1>0. TypeOK /\ c \in Writers /\ Exists(id)
  BY WriterKinds DEF TypeInv, CompleteSession
<1>1. out' = [out EXCEPT ![c] = Promotion(id)] /\ UNCHANGED <<config, step, promoted>>
      /\ pc[c] = "idle"
  BY DEF CompleteSession
<1>2. /\ out'[c] = Promotion(id)
      /\ pc'[c] # "idle" /\ \A w \in Writers : w # c => pc'[w] = pc[w] /\ out'[w] = out[w]
  BY <1>0, <1>1 DEF CompleteSession, TypeOK
<1>3. \A other \in Ids : other # id => sessions'[other] = sessions[other]
  BY <1>0 DEF CompleteSession, TypeOK
<1>4. /\ out'[c].session = id /\ ~out'[c].enabled /\ out'[c].ratio = 0
      /\ out'[c].active = out'[c].target
  BY <1>2 DEF Promotion
<1>5. \A r \in Ramps : pc'[r] = pc[r] /\ out'[r] = out[r]
  BY <1>2, WriterKinds
<1>6. HasRamp(id) /\ \A other : HasRamp(other)' <=> HasRamp(other)
  BY <1>0, <1>5 DEF Owned, HasRamp, Started
<1>7. \A q, r \in Ramps : Started(q)' /\ Started(r)' /\ out'[q].session = out'[r].session => q = r
  BY <1>5 DEF Owned, Started
<1>8. \A other \in Ids : Exists(other)' \/ other \in promoted' => HasRamp(other)'
  BY <1>1, <1>3, <1>6 DEF Owned, Exists
<1>9. \A d \in Completers : pc'[d] # "idle" =>
        /\ HasRamp(out[d].session)'
        /\ ~out'[d].enabled /\ out'[d].ratio = 0 /\ out'[d].active = out'[d].target
  BY <1>2, <1>4, <1>6, WriterKinds DEF Owned
<1>10. Owned'
  BY <1>1, <1>6, <1>7, <1>8, <1>9 DEF Owned
<1> QED
  BY <1>1, <1>2, <1>3, <1>4, <1>6, <1>10

(* Owned is inductive with the types.                                      *)
LEMMA OwnedInit == Init => Owned
<1> SUFFICES ASSUME Init PROVE Owned
  OBVIOUS
<1>1. \A w \in Writers : pc[w] = "idle"
  BY DEF Init
<1>2. /\ \A id \in Ids : ~Exists(id)
      /\ promoted = {} /\ config = None
  BY DEF Init, Exists
<1> QED
  BY <1>1, <1>2, WriterKinds DEF Owned, Started

LEMMA OwnedStep == ~SameMs /\ TypeInv /\ PlainPuts /\ Owned /\ [Next]_vars => Owned'
<1> SUFFICES ASSUME ~SameMs, TypeInv, PlainPuts, Owned, [Next]_vars PROVE Owned'
  OBVIOUS
<1>1. CASE GoesOn
  BY <1>1, OwnedGoesOn
<1>2. ASSUME NEW r \in Ramps, NEW id \in Ids, NEW target \in Instances, NEW active \in Instances,
             CreateSession(r, id, target, active)
      PROVE  Owned'
  BY <1>2, CreateSessionOwned
<1>3. ASSUME NEW c \in Completers, NEW id \in Ids, CompleteSession(c, id)
      PROVE  Owned'
  BY <1>3, CompleteSessionOwned
<1> QED
  BY <1>1, <1>2, <1>3, Begins

-----------------------------------------------------------------------------
(* The steps of DWSS_COORD_RAMP_STEPS are read as they are; RatioRises     *)
(* needs them in ascending order.                                          *)
Ascending == \A m, n \in 1 .. Len(Steps) : m <= n => Steps[m] <= Steps[n]

(* What a ramp has to write is not below what the config of its session    *)
(* shows, and it is the ratio of its step.                                 *)
ClimbsOn(r) ==
  Started(r) =>
    /\ config # None /\ config.session = out[r].session => config.ratio <= out[r].ratio
    /\ pc[r] \in {"write", "create", "check"} => out[r].ratio = RatioAt(step[r])
    /\ pc[r] = "next" => step[r] = First /\ out[r].ratio = 0
    /\ pc[r] = "check" => step[r] \in 1 .. Len(Steps)

Climbing == \A r \in Ramps : ClimbsOn(r)

(* A ramp that is left alone, or ended, climbs on.                         *)
LEMMA LeftAlone ==
  ASSUME NEW r \in Ramps, ClimbsOn(r), UNCHANGED <<config, step>>, out'[r] = out[r],
         pc'[r] \in {pc[r], "finish", "done"}, pc[r] = "idle" => pc'[r] = "idle"
  PROVE  ClimbsOn(r)'
BY DEF ClimbsOn, Started, RatioAt

(* The next write of a ramp is not below its last one.                     *)
LEMMA RampRises ==
  ASSUME Ascending, TypeInv, NEW r \in Ramps, ClimbsOn(r), NEW point \in {"write", "hold"},
         NEW n \in First .. Last, NEW x \in 0 .. Full, RampMoves(r, point, n, x)
  PROVE  out[r].ratio <= x /\ out[r].ratio \in Nat
<1>1. Started(r)
  BY DEF RampMoves, Started
<1>2. out[r].ratio \in 0 .. Full
  BY WriterKinds DEF TypeInv, TypeOK, MirrorConfig
<1>3. CASE x = Full
  BY <1>2, <1>3
<1>4. CASE pc[r] = "next"
  BY <1>1, <1>2, <1>4 DEF ClimbsOn
<1>5. CASE pc[r] = "check" /\ n = step[r] + 1 /\ n <= Len(Steps) /\ x = Steps[n]
  <2>1. step[r] \in 1 .. Len(Steps) /\ out[r].ratio = Steps[step[r]]
    BY <1>1, <1>5, Ratios DEF ClimbsOn
  <2>2. n \in 1 .. Len(Steps) /\ step[r] <= n
    <3>1. Len(Steps) \in Nat
      BY StepNumbers
    <3> QED
      BY <1>5, <2>1, <3>1
  <2>3. Steps[step[r]] <= Steps[n]
    BY <2>1, <2>2 DEF Ascending
  <2> QED
    BY <1>2, <1>5, <2>1, <2>3
<1> QED
  BY <1>2, <1>3, <1>4, <1>5 DEF RampMoves

(* What a write leaves behind for the ramps.                               *)
LEMMA WriteClimbs ==
  ASSUME TypeInv, PlainPuts, Owned, Climbing, NEW w \in Writers, WriteMirrorConfig(w)
  PROVE  Climbing'
<1>0. TypeOK /\ Kinds
  BY DEF TypeInv
<1>1. CASE GoesOnToCreate(w)
  <2>1. /\ pc'[w] = "create" /\ pc[w] = "write" /\ \A r \in Ramps : r # w => pc'[r] = pc[r]
        /\ UNCHANGED <<config, step, out>>
    BY <1>0, <1>1, WriterKinds DEF GoesOnToCreate, TypeOK
  <2> QED
    BY <2>1 DEF Climbing, ClimbsOn, Started, RatioAt
<1>2. ASSUME NEW point \in PointsAfter(w), WriteEnds(w, point), NEW r \in Ramps, Started(r)'
      PROVE  ClimbsOn(r)'
  <2>1. /\ pc'[w] = point /\ Writing(w) /\ \A v \in Writers : v # w => pc'[v] = pc[v]
        /\ config' \in {config, out[w]} /\ UNCHANGED <<step, out>>
    BY <1>0, <1>2 DEF WriteEnds, TypeOK
  <2>2. Started(r) /\ r \in Writers
    BY <1>2, <2>1, WriterKinds DEF Writing, Started
  <2>3. config' # None /\ config'.session = out[r].session => config'.ratio <= out[r].ratio
    <3>1. CASE config' = config
      BY <2>2, <3>1 DEF Climbing, ClimbsOn
    <3>2. CASE config' = out[w] /\ w \in Ramps /\ out[w].session = out[r].session
      <4>1. w = r
        BY <2>1, <2>2, <3>2 DEF Owned, Started, Writing
      <4>2. out[r].ratio \in Nat
        BY <1>0, <2>2 DEF TypeOK, MirrorConfig
      <4> QED
        BY <3>2, <4>1, <4>2
    <3>3. CASE config' = out[w] /\ w \in Completers
      <4>1. out[w].ratio = 0 /\ out[r].ratio \in Nat
        BY <1>0, <2>1, <2>2, <3>3 DEF Owned, Writing, TypeOK, MirrorConfig
      <4> QED
        BY <3>3, <4>1
    <3>4. CASE config' = out[w] /\ w \in Putters
      BY <1>0, <2>1, <2>2, <3>4, WritersAssumption DEF Kinds, PlainPuts, Started, Writing
    <3> QED
      BY <2>1, <3>1, <3>2, <3>3, <3>4, WriterKinds
  <2>4. CASE w # r
    BY <2>1, <2>2, <2>3, <2>4 DEF Climbing, ClimbsOn, RatioAt
  <2>5. CASE w = r
    <3>1. out[r].ratio = RatioAt(step[r]) /\ PointFits(r, point) /\ point \in PointsAfter(r)
      BY <1>2, <2>1, <2>2, <2>5 DEF Climbing, ClimbsOn, WriteEnds, Writing
    <3>2. point = "check" => step[r] \in 1 .. Len(Steps)
      <4>1. Len(Steps) \in Nat /\ step[r] \in First .. Last
        BY <1>0, StepNumbers DEF TypeOK
      <4>2. point = "check" => step[r] # First /\ step[r] # Hold /\ step[r] # Last
        BY <3>1 DEF PointFits
      <4> QED
        BY <4>1, <4>2 DEF First, Hold, Last
    <3>3. point = "next" => step[r] = First /\ out[r].ratio = 0
      BY <3>1 DEF PointFits, RatioAt
    <3>4. point \notin {"write", "create"}
      BY DEF PointsAfter
    <3> QED
      BY <2>1, <2>3, <2>5, <3>1, <3>2, <3>3, <3>4 DEF ClimbsOn, RatioAt
  <2> QED
    BY <2>4, <2>5
<1>3. ASSUME NEW point \in PointsAfter(w), WriteEnds(w, point) PROVE Climbing'
  BY <1>2, <1>3 DEF Climbing, ClimbsOn
<1> QED
  BY <1>1, <1>3, WriteMoves

(* Climbing is inductive with the types and Owned.                         *)
LEMMA ClimbingStep ==
  ~SameMs /\ Ascending /\ TypeInv /\ PlainPuts /\ Owned /\ Climbing /\ [Next]_vars => Climbing'
<1> SUFFICES ASSUME ~SameMs, Ascending, TypeInv, PlainPuts, Owned, Climbing, [Next]_vars
             PROVE  Climbing'
  OBVIOUS
<1>0. TypeOK /\ Kinds
  BY DEF TypeInv
<1>1. ASSUME NEW r \in Ramps, RampNext(r) \/ RampCheck(r) \/ HoldMore(r) \/ HoldEnds(r)
      PROVE  Climbing'
  <2>1. PICK point \in {"write", "hold"}, n \in First .. Last, x \in 0 .. Full :
           RampMoves(r, point, n, x)
    BY <1>1, RampMoved
  <2>2. ClimbsOn(r) /\ out[r].ratio <= x /\ out[r].ratio \in Nat
    BY <2>1, RampRises DEF Climbing
  <2>3. /\ out'[r].ratio = x /\ out'[r].session = out[r].session
        /\ \A q \in Ramps : q # r => out'[q] = out[q]
    BY <1>0, <2>1, RatioChanges, WriterKinds DEF RampMoves
  <2>4. /\ Started(r) /\ pc'[r] = point /\ step'[r] = n /\ config' = config
        /\ \A q \in Ramps : q # r => pc'[q] = pc[q] /\ step'[q] = step[q]
        /\ point = "write" => x = RatioAt(n)
    BY <1>0, <2>1, WriterKinds DEF RampMoves, TypeOK, Started
  <2>5. config # None => config.ratio \in Nat
    BY <1>0 DEF TypeOK, MirrorConfig
  <2>6. config' # None /\ config'.session = out'[r].session => config'.ratio <= out'[r].ratio
    BY <2>2, <2>3, <2>4, <2>5 DEF ClimbsOn
  <2>7. ClimbsOn(r)'
    BY <2>3, <2>4, <2>6 DEF ClimbsOn, RatioAt
  <2>8. \A q \in Ramps : q # r => ClimbsOn(q)'
    BY <2>3, <2>4 DEF Climbing, ClimbsOn, Started, RatioAt
  <2> QED
    BY <2>7, <2>8 DEF Climbing
<1>2. ASSUME NEW r \in Ramps, NEW id \in Ids, NEW target \in Instances, NEW active \in Instances,
             CreateSession(r, id, target, active)
      PROVE  Climbing'
  <2>1. /\ pc'[r] = "write" /\ out'[r].ratio = 0 /\ out'[r].session = id /\ ~HasRamp(id)
        /\ UNCHANGED <<config, step>> /\ ~Started(r)
        /\ \A q \in Ramps : q # r => pc'[q] = pc[q] /\ out'[q] = out[q]
    BY <1>2, CreateSessionOwned, WriterKinds
  <2>2. step[r] = First /\ RatioAt(First) = 0
    BY <1>0, <2>1 DEF Kinds, Started, RatioAt
  <2>3. config # None => config.session # id
    BY <2>1 DEF Owned
  <2>4. ClimbsOn(r)'
    BY <2>1, <2>2, <2>3 DEF ClimbsOn, RatioAt
  <2> QED
    BY <2>1, <2>4, LeftAlone DEF Climbing
<1>3. ASSUME UNCHANGED <<config, step>>,
             \A r \in Ramps : /\ out'[r] = out[r] /\ pc'[r] \in {pc[r], "finish", "done"}
                              /\ pc[r] = "idle" => pc'[r] = "idle"
      PROVE  Climbing'
  BY <1>3, LeftAlone DEF Climbing
<1>4. ASSUME NEW r \in Ramps, Finish(r) PROVE Climbing'
  BY <1>0, <1>3, <1>4, WriterKinds DEF Finish, TypeOK
<1>5. ASSUME NEW c \in Completers, NEW id \in Ids, CompleteSession(c, id) PROVE Climbing'
  BY <1>3, <1>5, CompleteSessionOwned, WriterKinds
<1>6. ASSUME NEW p \in Putters, NEW cfg \in MirrorConfig, SetMirrorConfig(p, cfg)
      PROVE  Climbing'
  BY <1>0, <1>3, <1>6, WriterKinds DEF SetMirrorConfig, TypeOK
<1>7. CASE \/ \E id \in Ids : DeleteSession(id)
           \/ \E i \in Instances : BecomeReady(i) \/ BecomeUnready(i)
           \/ UNCHANGED vars
  BY <1>3, <1>7 DEF DeleteSession, BecomeReady, BecomeUnready, vars
<1> QED
  BY <1>1, <1>2, <1>4, <1>5, <1>6, <1>7, WriteClimbs, WriterKinds DEF Next, Ramp

(* Whoever writes over a session's config mirrors no less.                 *)
Rises ==
  (/\ config # None /\ config' # None
   /\ config.session \in Ids /\ config'.session = config.session
   /\ config'.enabled) => config'.ratio >= config.ratio

LEMMA ClimbingRises ==
  ASSUME TypeInv, PlainPuts, Owned, Climbing,
         config' = config \/ \E w \in Writers : pc[w] # "idle" /\ config' = out[w]
  PROVE  Rises
<1> SUFFICES ASSUME config # None, config.session \in Ids, config'.session = config.session,
                    config'.enabled
             PROVE  config'.ratio >= config.ratio
  BY DEF Rises
<1>1. config.ratio \in Nat
  BY DEF TypeInv, TypeOK, MirrorConfig
<1>2. ASSUME NEW w \in Writers, pc[w] # "idle", config' = out[w]
      PROVE  config'.ratio >= config.ratio
  <2>1. w \notin Completers
    BY <1>2 DEF Owned
  <2>2. w \notin Putters
    BY <1>2, WritersAssumption DEF PlainPuts
  <2>3. w \in Ramps /\ out[w].ratio \in Nat
    BY <1>2, <2>1, <2>2, WriterKinds DEF TypeInv, TypeOK, MirrorConfig
  <2> QED
    BY <1>1, <1>2, <2>3 DEF Climbing, ClimbsOn, Started
<1> QED
  BY <1>1, <1>2

(* Within a session the mirrored share only grows (main.go:166-226),       *)
(* provided the configured steps do and nobody PUTs a config under a       *)
(* session's id: for every such client, whatever fails.                    *)
THEOREM ShareGrows == ASSUME ~SameMs, Ascending PROVE Spec /\ []PlainPuts => RatioRises
<1>1. Init => Climbing
  BY WriterKinds DEF Init, Climbing, ClimbsOn, Started
<1>2. TypeInv /\ PlainPuts /\ Owned /\ Climbing /\ [Next]_vars => Climbing'
  BY ClimbingStep
<1>3. TypeInv /\ PlainPuts /\ Owned /\ [Next]_vars => Owned'
  BY OwnedStep
<1>4. TypeInv /\ PlainPuts /\ Owned /\ Climbing /\ [Next]_vars => [Rises]_vars
  <2>1. ASSUME TypeInv, PlainPuts, Owned, Climbing, [Next]_vars PROVE Rises
    <3>1. config' = config \/ \E w \in Writers : pc[w] # "idle" /\ config' = out[w]
      BY <2>1, Begins, CreateSessionOwned, CompleteSessionOwned DEF GoesOn
    <3> QED
      BY <2>1, <3>1, ClimbingRises
  <2> QED
    BY <2>1
<1> QED
  BY TypeInit, TypeStep, OwnedInit, <1>1, <1>2, <1>3, <1>4, PTL DEF Spec, RatioRises, Rises

(* The benchmark's protocol PUTs no other configs.                         *)
LEMMA PutsArePlain == ASSUME OneAtATime PROVE Spec => []PlainPuts
<1>1. TypeInv /\ RoutesPut /\ [Next]_vars => RoutesPut'
  BY RoutesStep
<1> QED
  BY TypeInit, TypeStep, RoutesInit, <1>1, RoutesArePlain, PTL DEF Spec

(* So it is under that protocol.                                           *)
THEOREM ShareGrowsByProtocol ==
  ASSUME OneAtATime, ~SameMs, Ascending PROVE Spec => RatioRises
BY ShareGrows, PutsArePlain, PTL

-----------------------------------------------------------------------------
(* What is left of the promises when ZooKeeper fails, to a client that     *)
(* completes a session only when it has seen it hold.  A ramp under way    *)
(* has a session nobody completes, so no ramp writes over a promotion.     *)
RampSettled(r) ==
  Underway(r) =>
    /\ Status(out[r].session) \notin {"holding", "completed"}
    /\ out[r].session \notin promoted
    /\ \A c \in Completers : pc[c] # "idle" => out[c].session # out[r].session

Answers == \A c \in Completers : pc[c] = "ok" => out[c].session \in promoted

Settled == (\A r \in Ramps : RampSettled(r)) /\ Answers /\ PromotionFinal

(* Where no session, no completion and no config changes, neither does it. *)
LEMMA SettledStays ==
  ASSUME Settled, UNCHANGED <<config, promoted>>,
         \A r \in Ramps : Underway(r)' => Underway(r),
         \A r \in Ramps : Underway(r)' =>
            out'[r].session = out[r].session /\ Status(out[r].session)' = Status(out[r].session),
         \A c \in Completers : pc'[c] # "idle" => pc[c] # "idle" /\ out'[c] = out[c],
         \A c \in Completers : pc'[c] = "ok" => pc[c] = "ok"
  PROVE  Settled'
<1>1. \A r \in Ramps : RampSettled(r)'
  <2> SUFFICES ASSUME NEW r \in Ramps, Underway(r)' PROVE RampSettled(r)'
    BY DEF RampSettled
  <2>1. RampSettled(r) /\ Underway(r) /\ out'[r].session = out[r].session
    BY DEF Settled
  <2>2. Status(out[r].session)' = Status(out[r].session)
    OBVIOUS
  <2> QED
    BY <2>1, <2>2 DEF RampSettled
<1>2. Answers' /\ PromotionFinal'
  BY DEF Settled, Answers, PromotionFinal
<1> QED
  BY <1>1, <1>2 DEF Settled

(* A write: a completion's promotes a session without a ramp under way,    *)
(* and is answered with success only if it took effect.                    *)
LEMMA SettledWrite ==
  ASSUME TypeInv, PlainPuts, Owned, Settled, NEW w \in Writers, WriteMirrorConfig(w)
  PROVE  Settled'
<1>0. TypeOK /\ Kinds
  BY DEF TypeInv
<1>1. CASE GoesOnToCreate(w)
  <2>1. /\ pc[w] = "write" /\ pc'[w] = "create" /\ \A v \in Writers : v # w => pc'[v] = pc[v]
        /\ UNCHANGED <<config, promoted, out, sessions>>
    BY <1>0, <1>1 DEF GoesOnToCreate, TypeOK
  <2> QED
    BY <2>1, SettledStays, WriterKinds DEF Underway, Status, Exists
<1>2. ASSUME NEW point \in PointsAfter(w), WriteEnds(w, point) PROVE Settled'
  <2>1. /\ pc'[w] = point /\ pc[w] # "idle" /\ \A v \in Writers : v # w => pc'[v] = pc[v]
        /\ UNCHANGED <<out, sessions>>
    BY <1>0, <1>2 DEF WriteEnds, TypeOK, Writing
  <2>2. w \in Ramps => Underway(w)
    BY <1>2 DEF WriteEnds, Writing, Underway
  <2>3. \/ /\ config' = out[w]
           /\ promoted' = IF w \in Completers THEN promoted \cup {out[w].session} ELSE promoted
        \/ point # "ok" /\ UNCHANGED <<config, promoted>>
    BY <1>2 DEF WriteEnds
  <2>4. \A r \in Ramps : RampSettled(r)'
    <3> SUFFICES ASSUME NEW r \in Ramps, Underway(r)' PROVE RampSettled(r)'
      BY DEF RampSettled
    <3>1. Underway(r)
      BY <2>1, <2>2, WriterKinds DEF Underway
    <3>2. \A c \in Completers : pc'[c] # "idle" => out'[c].session # out'[r].session
      BY <2>1, <3>1, WriterKinds DEF Settled, RampSettled
    <3>3. out[r].session \notin promoted'
      BY <2>1, <2>3, <3>1 DEF Settled, RampSettled
    <3>4. Status(out[r].session)' = Status(out[r].session)
      BY <2>1 DEF Status, Exists
    <3> QED
      BY <2>1, <3>1, <3>2, <3>3, <3>4 DEF Settled, RampSettled
  <2>5. Answers'
    <3> SUFFICES ASSUME NEW c \in Completers, pc'[c] = "ok" PROVE out'[c].session \in promoted'
      BY DEF Answers
    <3>1. CASE c = w
      BY <2>1, <2>3, <3>1
    <3>2. CASE c # w
      BY <2>1, <2>3, <3>2, WriterKinds DEF Settled, Answers
    <3> QED
      BY <3>1, <3>2
  <2>6. PromotionFinal'
    <3>1. CASE UNCHANGED <<config, promoted>>
      BY <3>1 DEF Settled, PromotionFinal
    <3>2. CASE config' = out[w] /\ w \in Ramps /\ promoted' = promoted
      BY <2>2, <3>2 DEF Settled, RampSettled, PromotionFinal
    <3>3. CASE config' = out[w] /\ w \in Completers
      BY <2>1, <3>3 DEF Owned, PromotionFinal
    <3>4. CASE config' = out[w] /\ w \in Putters /\ promoted' = promoted
      BY <1>0, <2>1, <3>4, WritersAssumption DEF PlainPuts, TypeOK, PromotionFinal
    <3> QED
      BY <2>3, <3>1, <3>2, <3>3, <3>4, WriterKinds
  <2> QED
    BY <2>4, <2>5, <2>6 DEF Settled
<1> QED
  BY <1>1, <1>2, WriteMoves

(* A ramp that ends sets the status of its own session only.               *)
LEMMA SettledFinish ==
  ASSUME TypeInv, Owned, Settled, NEW r \in Ramps, Finish(r)
  PROVE  Settled'
<1>0. TypeOK /\ Kinds
  BY DEF TypeInv
<1>1. /\ pc[r] = "finish" /\ pc'[r] = "done" /\ \A v \in Writers : v # r => pc'[v] = pc[v]
      /\ UNCHANGED <<config, promoted, out>>
  BY <1>0, WriterKinds DEF Finish, TypeOK
<1>2. \A q \in Ramps : Underway(q)' => q # r /\ Underway(q) /\ Started(q) /\ Started(r)
  BY <1>1, WriterKinds DEF Underway, Started
<1>3. \A q \in Ramps : Underway(q)' => out[q].session # out[r].session /\ out[q].session \in Ids
  BY <1>0, <1>2 DEF Owned, Kinds, Started
<1>4. \A id \in Ids : id # out[r].session => Status(id)' = Status(id)
  BY <1>0 DEF Finish, TypeOK, Status, Exists
<1> QED
  BY <1>1, <1>2, <1>3, <1>4, SettledStays, WriterKinds

(* Nor does anything change for the sessions by a PUT before its write.    *)
LEMMA SettledRoute ==
  ASSUME TypeInv, Settled, NEW p \in Putters, NEW cfg, SetMirrorConfig(p, cfg)
  PROVE  Settled'
<1>1. /\ \A w \in Writers : w # p => pc'[w] = pc[w] /\ out'[w] = out[w]
      /\ UNCHANGED <<sessions, config, promoted>>
  BY WriterKinds DEF SetMirrorConfig, TypeInv, TypeOK
<1> QED
  BY <1>1, SettledStays, WriterKinds DEF Underway, Status, Exists

(* Whatever a ramp does.                                                   *)
LEMMA SettledRamp ==
  ASSUME TypeInv, PlainPuts, Owned, Settled, NEW r \in Ramps, Ramp(r)
  PROVE  Settled'
<1>1. CASE RampNext(r) \/ RampCheck(r) \/ HoldMore(r) \/ HoldEnds(r)
  <2>0. TypeOK
    BY DEF TypeInv
  <2>1. PICK point \in {"write", "hold"}, n \in First .. Last, x \in 0 .. Full :
           RampMoves(r, point, n, x)
    BY <1>1, RampMoved
  <2>2. out'[r].session = out[r].session /\ \A w \in Writers : w # r => out'[w] = out[w]
    BY <2>0, <2>1, RatioChanges, WriterKinds DEF RampMoves
  <2>3. /\ Underway(r) /\ \A w \in Writers : w # r => pc'[w] = pc[w]
        /\ UNCHANGED <<sessions, config, promoted>>
    BY <2>0, <2>1, WriterKinds DEF RampMoves, TypeOK, Underway
  <2> QED
    BY <2>2, <2>3, SettledStays, WriterKinds DEF Underway, Status, Exists
<1> QED
  BY <1>1, SettledWrite, SettledFinish, WriterKinds DEF Ramp

(* The new session is of a ramp of its own, and of no completion.          *)
LEMMA SettledCreate ==
  ASSUME ~SameMs, TypeInv, Owned, Settled, NEW r \in Ramps, NEW id \in Ids,
         NEW target \in Instances, NEW active \in Instances, CreateSession(r, id, target, active)
  PROVE  Settled'
<1>1. /\ ~HasRamp(id) /\ UNCHANGED <<config, promoted>> /\ out'[r].session = id
      /\ \A w \in Writers : w # r => pc'[w] = pc[w] /\ out'[w] = out[w]
      /\ \A other \in Ids : other # id => sessions'[other] = sessions[other]
      /\ Status(id)' = "running"
  BY CreateSessionOwned
<1>2. \A c \in Completers : /\ pc'[c] = pc[c] /\ out'[c] = out[c]
                            /\ pc[c] # "idle" => out[c].session # id
  BY <1>1, WriterKinds DEF Owned
<1>3. RampSettled(r)'
  BY <1>1, <1>2 DEF RampSettled, Owned
<1>4. ASSUME NEW q \in Ramps, q # r PROVE RampSettled(q)'
  <2> SUFFICES ASSUME Underway(q)' PROVE RampSettled(q)'
    BY DEF RampSettled
  <2>1. /\ Underway(q) /\ Started(q) /\ out'[q] = out[q] /\ out[q].session \in Ids
        /\ out[q].session # id
    BY <1>1, <1>4, WriterKinds DEF Underway, Started, HasRamp, TypeInv, Kinds
  <2>2. Status(out[q].session)' = Status(out[q].session)
    BY <1>1, <2>1 DEF Status, Exists
  <2> QED
    BY <1>1, <1>2, <2>1, <2>2 DEF Settled, RampSettled
<1>5. Answers' /\ PromotionFinal'
  BY <1>1, <1>2 DEF Settled, Answers, PromotionFinal
<1> QED
  BY <1>3, <1>4, <1>5 DEF Settled

(* A session that holds has no ramp under way, nor has it once completed.  *)
LEMMA SettledComplete ==
  ASSUME TypeInv, Owned, Settled, NEW c \in Completers, NEW id \in Ids,
         Status(id) = "holding", CompleteSession(c, id)
  PROVE  Settled'
<1>1. /\ UNCHANGED <<config, promoted>> /\ out'[c].session = id
      /\ \A w \in Writers : w # c => pc'[w] = pc[w] /\ out'[w] = out[w]
      /\ \A other \in Ids : other # id => sessions'[other] = sessions[other]
  BY CompleteSessionOwned
<1>2. pc'[c] = "write"
  BY WriterKinds DEF CompleteSession, TypeInv, TypeOK
<1>3. ASSUME NEW r \in Ramps PROVE RampSettled(r)'
  <2> SUFFICES ASSUME Underway(r)' PROVE RampSettled(r)'
    BY DEF RampSettled
  <2>1. Underway(r) /\ out'[r] = out[r] /\ out[r].session \in Ids
    BY <1>1, WriterKinds DEF Underway, TypeInv, Kinds
  <2>2. out[r].session # id
    BY <2>1 DEF Settled, RampSettled
  <2>3. Status(out[r].session)' = Status(out[r].session)
    BY <1>1, <2>1, <2>2 DEF Status, Exists
  <2>4. \A d \in Completers : pc'[d] # "idle" => out'[d].session # out[r].session
    BY <1>1, <2>1, <2>2, WriterKinds DEF Settled, RampSettled
  <2> QED
    BY <1>1, <2>1, <2>3, <2>4 DEF Settled, RampSettled
<1>4. Answers' /\ PromotionFinal'
  BY <1>1, <1>2, WriterKinds DEF Settled, Answers, PromotionFinal
<1> QED
  BY <1>3, <1>4 DEF Settled

(* Settled is inductive with the types and Owned.                          *)
LEMMA SettledInit == Init => Settled
<1> SUFFICES ASSUME Init PROVE Settled
  OBVIOUS
<1>1. \A w \in Writers : pc[w] = "idle"
  BY DEF Init
<1> QED
  BY <1>1, WriterKinds DEF Init, Settled, RampSettled, Underway, Answers, PromotionFinal

LEMMA SettledStep ==
  OneAtATime /\ ~SameMs /\ TypeInv /\ PlainPuts /\ Owned /\ Settled /\ [Next]_vars => Settled'
<1> SUFFICES ASSUME OneAtATime, ~SameMs, TypeInv, PlainPuts, Owned, Settled, [Next]_vars
             PROVE  Settled'
  OBVIOUS
<1>1. ASSUME NEW c \in Completers, NEW id \in Ids, CompleteSession(c, id) PROVE Settled'
  <2>1. Status(id) = "holding"
    BY <1>1 DEF CompleteSession, MayComplete
  <2> QED
    BY <1>1, <2>1, SettledComplete
<1>2. CASE (\E i \in Instances : BecomeReady(i) \/ BecomeUnready(i)) \/ UNCHANGED vars
  <2>1. UNCHANGED <<sessions, config, pc, out, promoted>>
    BY <1>2 DEF BecomeReady, BecomeUnready, vars
  <2> QED
    BY <2>1, SettledStays DEF Underway, Status, Exists
<1>3. ASSUME NEW id \in Ids, DeleteSession(id) PROVE Settled'
  BY <1>3 DEF DeleteSession
<1> QED
  BY <1>1, <1>2, <1>3, SettledRamp, SettledWrite, SettledRoute, SettledCreate, WriterKinds
  DEF Next

LEMMA SettledAlways == ASSUME OneAtATime, ~SameMs PROVE Spec => []Settled
<1>1. TypeInv /\ PlainPuts /\ Owned /\ [Next]_vars => Owned'
  BY OwnedStep
<1>2. TypeInv /\ PlainPuts /\ Owned /\ Settled /\ [Next]_vars => Settled'
  BY SettledStep
<1> QED
  BY TypeInit, TypeStep, PutsArePlain, OwnedInit, SettledInit, <1>1, <1>2, PTL DEF Spec

(* A promotion that was written is not undone by any write of its session  *)
(* (main.go:166-283), also if ZooKeeper calls fail or lose their answers.  *)
THEOREM PromotionLasts == ASSUME OneAtATime, ~SameMs PROVE Spec => []PromotionFinal
BY SettledAlways, PTL DEF Settled

(* A completion answered with success has its promotion written            *)
(* (main.go:260-283), for such a client.                                   *)
THEOREM AnsweredTruly == ASSUME OneAtATime, ~SameMs PROVE Spec => []AnsweredIsPromoted
<1>1. Settled => AnsweredIsPromoted
  BY DEF Settled, Answers, AnsweredIsPromoted
<1> QED
  BY SettledAlways, <1>1, PTL

-----------------------------------------------------------------------------
(* The benchmark's protocol: one request at a time, no two sessions in the *)
(* same millisecond, and a ZooKeeper that answers.                         *)
ByProtocol == OneAtATime /\ ~SameMs /\ ~ZkFaults

FirstWrite(r) == Writing(r) /\ step[r] = First
Clients == Completers \cup Putters
Promoting(id) == \E c \in Completers : Writing(c) /\ out[c].session = id

(* Every session has one ramp, which runs exactly as long as its status    *)
(* says so.                                                                *)
SessionOf(r) ==
  LET id == out[r].session
  IN  /\ Exists(id)
      /\ sessions[id].target = out[r].target
      /\ Status(id) # "completed" => sessions[id].active = out[r].active
      /\ Underway(r) <=> Status(id) = "running"

RampsOwn ==
  /\ \A r \in Ramps : Started(r) => SessionOf(r)
  /\ \A q, r \in Ramps : Started(q) /\ Started(r) /\ out[q].session = out[r].session => q = r
  /\ \A id \in Ids : Exists(id) => \E r \in Ramps : Started(r) /\ out[r].session = id

(* One session at a time is open, none while a client's request writes, so *)
(* that one goroutine at a time writes.                                    *)
OneByOne ==
  /\ \A id, other \in Open : id = other
  /\ \A c, d \in Clients : Writing(c) /\ Writing(d) => c = d
  /\ \A c \in Clients : Writing(c) => Open = {}
  /\ \A w \in Writers : pc[w] = "create" => config = None

(* A completed session is promoted or about to be.                         *)
PromotesOnce ==
  /\ \A c \in Completers : Writing(c) =>
       /\ Status(out[c].session) = "completed" /\ out[c].session \notin promoted
       /\ out[c] = Promotion(out[c].session)
  /\ \A id \in Ids : Status(id) = "completed" <=> (id \in promoted \/ Promoting(id))
  /\ \A id \in promoted : config # None /\ config.session = id =>
       ~config.enabled /\ config.active = sessions[id].target

(* From its first write on, the config is a running ramp's, but for the    *)
(* ratio; and no config is of a session yet to be created.                 *)
Mirrored(r) ==
  /\ config # None
  /\ config.enabled /\ config.session = out[r].session
  /\ config.target = out[r].target /\ config.active = out[r].active

RampsMirror ==
  /\ \A r \in Ramps : Underway(r) =>
       IF FirstWrite(r) THEN config # None => config.session # out[r].session ELSE Mirrored(r)
  /\ \A r \in Ramps : Writing(r) /\ step[r] \in {Hold, Last} => out[r].ratio = Full
  /\ \A r \in Ramps : pc[r] = "finish" => config = out[r] /\ config.ratio = Full
  /\ config # None /\ config.session \in Ids =>
       \E r \in Ramps : Started(r) /\ out[r].session = config.session

IInv == TypeInv /\ RoutesPut /\ RampsOwn /\ OneByOne /\ PromotesOnce /\ RampsMirror /\ HoldingMirrors

-----------------------------------------------------------------------------
(* While a ramp runs its session is the open one, no other ramp runs and   *)
(* no client writes.                                                       *)
LEMMA RampAlone ==
  ASSUME IInv, NEW r \in Ramps, Underway(r)
  PROVE  /\ out[r].session \in Ids /\ Status(out[r].session) = "running"
         /\ \A id \in Open : id = out[r].session
         /\ \A q \in Ramps : Underway(q) => q = r
         /\ \A c \in Clients : ~Writing(c)
<1> USE DEF IInv, RampsOwn, OneByOne
<1>1. \A q \in Ramps : Underway(q) =>
        Started(q) /\ out[q].session \in Ids /\ Status(out[q].session) = "running"
  BY DEF TypeInv, Kinds, Underway, Started, SessionOf
<1>2. \A q \in Ramps : Underway(q) => out[q].session \in Open
  BY <1>1 DEF Open
<1>3. \A id \in Open : id = out[r].session
  BY <1>2
<1>4. \A q \in Ramps : Underway(q) => q = r
  BY <1>1, <1>2, <1>3
<1> QED
  BY <1>1, <1>2, <1>3, <1>4

(* One writer at a time.                                                   *)
LEMMA OneWriter ==
  ASSUME IInv, NEW v \in Writers, NEW w \in Writers, Writing(v), Writing(w)
  PROVE  v = w
<1>1. v \in Ramps => Underway(v)
  BY DEF Writing, Underway
<1>2. w \in Ramps => Underway(w)
  BY DEF Writing, Underway
<1> QED
  BY <1>1, <1>2, RampAlone, WriterKinds DEF IInv, OneByOne, Clients

(* The initial state satisfies the inductive invariant.                    *)
LEMMA InitInv == Init => IInv
<1> SUFFICES ASSUME Init PROVE IInv
  OBVIOUS
<1>1. \A w \in Writers : ~Writing(w) /\ pc[w] = "idle"
  BY DEF Init, Writing
<1>2. \A id \in Ids : ~Exists(id) /\ Status(id) = "none"
  BY DEF Init, Exists, Status
<1>3. Open = {}
  BY <1>2 DEF Open
<1>4. \A r \in Ramps : ~Started(r) /\ ~Underway(r)
  BY <1>1, WriterKinds DEF Started, Underway
<1>5. RampsOwn /\ OneByOne /\ HoldingMirrors
  BY <1>1, <1>2, <1>3, <1>4, WriterKinds DEF RampsOwn, OneByOne, HoldingMirrors, Clients
<1>6. PromotesOnce /\ RampsMirror
  BY <1>1, <1>2, <1>4, WriterKinds DEF Init, PromotesOnce, Promoting, RampsMirror
<1> QED
  BY <1>5, <1>6, TypeInit, RoutesInit DEF IInv

(* Without faults a write that ends has taken effect.                      *)
LEMMA WriteTakesEffect ==
  ASSUME ByProtocol, IInv, NEW w \in Writers, NEW point, WriteEnds(w, point)
  PROVE  /\ config' = out[w]
         /\ promoted' = IF w \in Completers THEN promoted \cup {out[w].session} ELSE promoted
BY DEF ByProtocol, IInv, OneByOne, WriteEnds

(* A write that goes on to Create.                                         *)
LEMMA CreateKeeps ==
  ASSUME IInv, NEW w \in Writers, GoesOnToCreate(w)
  PROVE  TypeInv' /\ RoutesPut' => IInv'
<1> USE DEF GoesOnToCreate
<1>2. pc[w] = "write" /\ pc'[w] = "create" /\ \A v \in Writers : v # w => pc'[v] = pc[v]
  BY DEF IInv, TypeInv, TypeOK
<1>3. \A v \in Writers : Writing(v)' = Writing(v)
  BY <1>2 DEF Writing
<1>4. \A r \in Ramps : /\ Started(r)' = Started(r) /\ Underway(r)' = Underway(r)
                       /\ FirstWrite(r)' = FirstWrite(r)
                       /\ SessionOf(r)' = SessionOf(r) /\ Mirrored(r)' = Mirrored(r)
  BY <1>2, <1>3, WriterKinds
  DEF Started, Underway, FirstWrite, SessionOf, Mirrored, Exists, Status
<1>5. RampsOwn'
  BY <1>4 DEF IInv, RampsOwn, Exists
<1>6. OneByOne'
  BY <1>2, <1>3, WriterKinds DEF IInv, OneByOne, Clients, Open, Status, Exists
<1>7. PromotesOnce'
  BY <1>3, WriterKinds DEF IInv, PromotesOnce, Promoting, Promotion, Status, Exists
<1>8. RampsMirror'
  BY <1>2, <1>3, <1>4, WriterKinds DEF IInv, RampsMirror
<1>9. HoldingMirrors'
  BY DEF IInv, HoldingMirrors, Status, Exists
<1> QED
  BY <1>5, <1>6, <1>7, <1>8, <1>9 DEF IInv

(* A write of a ramp that ends: the config is the ramp's.                  *)
LEMMA RampWriteKeeps ==
  ASSUME ByProtocol, IInv, NEW r \in Ramps, NEW point \in PointsAfter(r), WriteEnds(r, point)
  PROVE  TypeInv' /\ RoutesPut' => IInv'
<1>1. r \in Writers /\ config' = out[r] /\ promoted' = promoted /\ out[r] # None
  BY WriteTakesEffect, WriterKinds, NoneAssumption DEF IInv, TypeInv, TypeOK
<1> USE DEF WriteEnds
<1>2. /\ point \in {"next", "check", "hold", "finish"} /\ pc'[r] = point
      /\ \A v \in Writers : v # r => pc'[v] = pc[v]
  BY <1>1 DEF PointsAfter, IInv, TypeInv, TypeOK
<1>3. Writing(r) /\ Underway(r) /\ Started(r)
  BY DEF Writing, Underway, Started
<1>4. \A v \in Writers : ~Writing(v)'
  BY <1>1, <1>2, <1>3, OneWriter DEF Writing
<1>5. \A q \in Ramps : /\ Started(q)' = Started(q) /\ Underway(q)' = Underway(q)
                       /\ SessionOf(q)' = SessionOf(q)
  BY <1>2, <1>3, WriterKinds DEF Started, Underway, SessionOf, Exists, Status
<1>6. RampsOwn'
  BY <1>5 DEF IInv, RampsOwn, Exists
<1>7. OneByOne'
  <2>1. \A v \in Writers : pc'[v] # "create"
    BY <1>4 DEF Writing
  <2> QED
    BY <2>1, <1>4, WriterKinds DEF IInv, OneByOne, Clients, Open, Status, Exists
<1>8. /\ out[r].session \in Ids /\ Status(out[r].session) = "running"
      /\ \A id \in Open : id = out[r].session
      /\ \A q \in Ramps : Underway(q) => q = r
      /\ \A c \in Clients : ~Writing(c)
  BY <1>3, RampAlone
<1>9. PromotesOnce'
  <2>1. \A id \in Ids : ~Promoting(id) /\ ~Promoting(id)'
    BY <1>4, <1>8, WriterKinds DEF Promoting, Clients
  <2>2. \A id \in promoted : id \in Ids /\ Status(id) = "completed"
    BY DEF IInv, TypeInv, TypeOK, PromotesOnce
  <2> QED
    BY <1>1, <1>4, <1>8, <2>1, <2>2, WriterKinds DEF IInv, PromotesOnce, Status, Exists
<1>10. RampsMirror'
  <2>1. Mirrored(r)' /\ ~FirstWrite(r)'
    BY <1>1, <1>3, <1>4 DEF Mirrored, FirstWrite, IInv, TypeInv, Kinds, Started
  <2>2. \A q \in Ramps : Underway(q)' =>
          IF FirstWrite(q)' THEN config' # None => config'.session # out'[q].session
                            ELSE Mirrored(q)'
    BY <1>5, <1>8, <2>1
  <2>3. \A q \in Ramps : pc'[q] = "finish" => config' = out'[q] /\ config'.ratio = Full
    <3>1. \A q \in Ramps : pc'[q] = "finish" => q = r
      BY <1>5, <1>8 DEF Underway
    <3>2. pc'[r] = "finish" => out[r].ratio = Full
      BY <1>2, <1>3 DEF IInv, RampsMirror, PointFits
    <3> QED
      BY <1>1, <3>1, <3>2
  <2> QED
    BY <1>1, <1>3, <1>4, <1>5, <2>2, <2>3, WriterKinds DEF RampsMirror
<1>11. HoldingMirrors'
  BY <1>8 DEF IInv, HoldingMirrors, Open, Status, Exists
<1> QED
  BY <1>6, <1>7, <1>9, <1>10, <1>11 DEF IInv

(* A write of a client's request that ends: nothing is open meanwhile.     *)
LEMMA ClientWriteKeeps ==
  ASSUME ByProtocol, IInv, NEW c \in Clients, NEW point \in PointsAfter(c), WriteEnds(c, point)
  PROVE  TypeInv' /\ RoutesPut' => IInv'
<1>1. /\ c \in Writers /\ c \notin Ramps /\ config' = out[c] /\ out[c] # None
      /\ promoted' = IF c \in Completers THEN promoted \cup {out[c].session} ELSE promoted
  BY WriteTakesEffect, WriterKinds, NoneAssumption DEF IInv, TypeInv, TypeOK, Clients
<1> USE DEF WriteEnds
<1>2. /\ point \in {"ok", "error"} /\ pc'[c] = point
      /\ \A v \in Writers : v # c => pc'[v] = pc[v]
  BY <1>1 DEF PointsAfter, IInv, TypeInv, TypeOK
<1>3. Writing(c) /\ \A v \in Writers : ~Writing(v)'
  BY <1>1, <1>2, OneWriter DEF Writing
<1>4. Open = {} /\ \A q \in Ramps : ~Underway(q)
  BY <1>3, RampAlone DEF IInv, OneByOne
<1>5. \A q \in Ramps : /\ Started(q)' = Started(q) /\ Underway(q)' = Underway(q)
                       /\ SessionOf(q)' = SessionOf(q)
  BY <1>1, <1>2, WriterKinds DEF Started, Underway, SessionOf, Exists, Status
<1>6. RampsOwn'
  BY <1>5 DEF IInv, RampsOwn, Exists
<1>7. OneByOne'
  <2>1. \A v \in Writers : pc'[v] # "create"
    BY <1>3 DEF Writing
  <2> QED
    BY <2>1, <1>3, WriterKinds DEF IInv, OneByOne, Clients, Open, Status, Exists
<1>8. c \in Putters => out[c].session = None /\ None \notin Ids /\ \A id \in Ids : ~Promoting(id)
  BY <1>1, <1>3, OneWriter, WriterKinds, WritersAssumption DEF IInv, RoutesPut, Promoting, Writing
<1>9. c \in Completers =>
        /\ out[c].session \in Ids /\ Status(out[c].session) = "completed"
        /\ ~out[c].enabled /\ out[c].active = sessions[out[c].session].target
        /\ \A id \in Ids : Promoting(id) <=> id = out[c].session
  <2> SUFFICES ASSUME c \in Completers
               PROVE  /\ out[c].session \in Ids /\ Status(out[c].session) = "completed"
                      /\ ~out[c].enabled /\ out[c].active = sessions[out[c].session].target
                      /\ \A id \in Ids : Promoting(id) <=> id = out[c].session
    OBVIOUS
  <2>1. out[c].session \in Ids
    BY <1>3 DEF IInv, TypeInv, Kinds, Writing
  <2>2. Status(out[c].session) = "completed" /\ out[c] = Promotion(out[c].session)
    BY <1>3 DEF IInv, PromotesOnce
  <2>3. \A d \in Completers : Writing(d) => d = c
    BY <1>3, OneWriter, WriterKinds
  <2> QED
    BY <1>3, <2>1, <2>2, <2>3 DEF Promotion, Promoting
<1>10. PromotesOnce'
  <2>1. \A id \in Ids : ~Promoting(id)'
    BY <1>3, WriterKinds DEF Promoting
  <2>2. \A id \in Ids : Status(id)' = Status(id)
    BY DEF Status, Exists
  <2>3. promoted \subseteq Ids
    BY DEF IInv, TypeInv, TypeOK
  <2>4. \A id \in Ids : Status(id) = "completed" <=> id \in promoted'
    BY <1>1, <1>8, <1>9, WriterKinds DEF IInv, PromotesOnce, Clients
  <2>5. \A id \in promoted' : config' # None /\ config'.session = id =>
          ~config'.enabled /\ config'.active = sessions'[id].target
    BY <1>1, <1>8, <1>9, <2>3 DEF Clients
  <2> QED
    BY <1>3, <2>1, <2>2, <2>4, <2>5, WriterKinds DEF PromotesOnce
<1>11. RampsMirror'
  <2>1. config'.session \in Ids =>
          \E r \in Ramps : Started(r) /\ out[r].session = config'.session
    BY <1>1, <1>8, <1>9 DEF IInv, RampsOwn, Clients, Status
  <2> QED
    BY <1>3, <1>4, <1>5, <2>1, WriterKinds DEF RampsMirror, Underway
<1>12. HoldingMirrors'
  BY <1>4 DEF HoldingMirrors, Open, Status, Exists
<1> QED
  BY <1>6, <1>7, <1>10, <1>11, <1>12 DEF IInv

(* A ramp between two writes: only its next config changes.                *)
LEMMA RampMoveKeeps ==
  ASSUME IInv, NEW r \in Ramps, NEW point \in {"write", "hold"}, NEW n \in First .. Last,
         NEW x \in 0 .. Full, RampMoves(r, point, n, x)
  PROVE  TypeInv' /\ RoutesPut' => IInv'
<1>1. /\ out'[r].ratio = x
      /\ out'[r].enabled = out[r].enabled /\ out'[r].session = out[r].session
      /\ out'[r].target = out[r].target /\ out'[r].active = out[r].active
      /\ \A v \in Writers : v # r => out'[v] = out[v]
  BY RatioChanges, WriterKinds DEF RampMoves, IInv, TypeInv
<1> USE DEF RampMoves
<1>2. /\ pc'[r] = point /\ step'[r] = n /\ pc[r] \in {"next", "check", "hold"}
      /\ \A v \in Writers : v # r => pc'[v] = pc[v]
      /\ \A q \in Ramps : q # r => step'[q] = step[q]
  BY WriterKinds DEF IInv, TypeInv, TypeOK
<1>3. Underway(r) /\ Started(r) /\ ~FirstWrite(r)
  BY <1>2 DEF Underway, Started, FirstWrite, Writing
<1>4. /\ out[r].session \in Ids /\ Status(out[r].session) = "running"
      /\ \A id \in Open : id = out[r].session
      /\ \A q \in Ramps : Underway(q) => q = r
      /\ \A c \in Clients : ~Writing(c)
  BY <1>3, RampAlone
<1>5. \A q \in Ramps : /\ Started(q)' = Started(q) /\ Underway(q)' = Underway(q)
                       /\ out'[q].session = out[q].session /\ SessionOf(q)' = SessionOf(q)
  <2>1. ASSUME NEW q \in Ramps
        PROVE  /\ Started(q)' = Started(q) /\ Underway(q)' = Underway(q)
               /\ out'[q].session = out[q].session /\ out'[q].target = out[q].target
               /\ out'[q].active = out[q].active
    BY <1>1, <1>2, WriterKinds DEF Started, Underway
  <2> QED
    BY <2>1 DEF SessionOf, Exists, Status
<1>6. \A c \in Clients : ~Writing(c)' /\ c \in Writers /\ c # r
  BY <1>2, <1>4, WriterKinds DEF Writing, Clients
<1>7. RampsOwn'
  BY <1>5 DEF IInv, RampsOwn, Exists
<1>8. OneByOne'
  <2>1. \A v \in Writers : pc'[v] = "create" => pc[v] = "create"
    BY <1>2
  <2> QED
    BY <1>6, <2>1 DEF IInv, OneByOne, Open, Status, Exists
<1>9. PromotesOnce'
  <2>1. \A id \in Ids : ~Promoting(id) /\ ~Promoting(id)'
    BY <1>4, <1>6 DEF Promoting, Clients
  <2> QED
    BY <1>6, <2>1 DEF IInv, PromotesOnce, Status, Exists, Clients
<1>10. RampsMirror'
  <2>1. Mirrored(r)' /\ ~FirstWrite(r)'
    <3>1. Mirrored(r)
      BY <1>3 DEF IInv, RampsMirror
    <3>2. point = "write" => n # First
      OBVIOUS
    <3> QED
      BY <1>1, <1>2, <3>1, <3>2 DEF Mirrored, FirstWrite, Writing
  <2>2. \A q \in Ramps : Underway(q)' => q = r
    BY <1>4, <1>5
  <2>3. \A q \in Ramps : Writing(q)' => Underway(q)'
    BY DEF Writing, Underway
  <2>4. Writing(r)' /\ step'[r] \in {Hold, Last} => out'[r].ratio = Full
    BY <1>1, <1>2, Ratios DEF Writing
  <2>5. \A q \in Ramps : pc'[q] # "finish"
    BY <1>2, <2>2 DEF Underway
  <2>6. config # None /\ config.session \in Ids =>
          \E q \in Ramps : Started(q)' /\ out'[q].session = config.session
    BY <1>5 DEF IInv, RampsMirror
  <2> QED
    BY <2>1, <2>2, <2>3, <2>4, <2>5, <2>6 DEF RampsMirror
<1>11. HoldingMirrors'
  BY DEF IInv, HoldingMirrors, Status, Exists
<1> QED
  BY <1>7, <1>8, <1>9, <1>10, <1>11 DEF IInv

(* The end of a ramp: its session holds, with the config of the last write.*)
LEMMA FinishKeeps ==
  ASSUME IInv, NEW r \in Ramps, Finish(r)
  PROVE  TypeInv' /\ RoutesPut' => IInv'
<1>1. Underway(r) /\ Started(r) /\ pc[r] = "finish"
  BY DEF Finish, Underway, Started
<1> PICK id \in Ids : id = out[r].session
  BY <1>1, RampAlone
<1>2. /\ Status(id) = "running"
      /\ \A jd \in Open : jd = id
      /\ \A q \in Ramps : Underway(q) => q = r
      /\ \A c \in Clients : ~Writing(c)
  BY <1>1, RampAlone
<1>3. /\ Exists(id) /\ sessions[id].target = out[r].target /\ sessions[id].active = out[r].active
  BY <1>1, <1>2 DEF IInv, RampsOwn, SessionOf
<1>4. /\ sessions'[id] \in Session /\ sessions'[id].status = "holding"
      /\ sessions'[id].target = sessions[id].target /\ sessions'[id].active = sessions[id].active
      /\ \A jd \in Ids : jd # id => sessions'[jd] = sessions[jd]
  BY <1>2, <1>3, SessionChanges DEF Finish, IInv, TypeInv
<1>5. /\ pc'[r] = "done" /\ \A v \in Writers : v # r => pc'[v] = pc[v]
      /\ UNCHANGED <<config, ready, out, step, promoted>>
  BY WriterKinds DEF Finish, IInv, TypeInv, TypeOK
<1>6. /\ Exists(id)' /\ Status(id)' = "holding"
      /\ \A jd \in Ids : jd # id => Exists(jd)' = Exists(jd) /\ Status(jd)' = Status(jd)
  BY <1>4, NoneAssumption DEF Exists, Status
<1>7. \A q \in Ramps : Started(q)' = Started(q) /\ (Underway(q)' <=> Underway(q) /\ q # r)
  BY <1>1, <1>5, WriterKinds DEF Started, Underway
<1>8. \A v \in Writers : ~Writing(v)'
  <2>1. \A q \in Ramps : Writing(q)' => Underway(q)'
    BY DEF Writing, Underway
  <2> QED
    BY <1>2, <1>5, <1>7, <2>1, WriterKinds DEF Writing, Clients
<1>9. RampsOwn'
  <2>1. \A q \in Ramps : Started(q) /\ q # r => out[q].session \in Ids /\ out[q].session # id
    BY <1>1 DEF IInv, RampsOwn, TypeInv, Kinds, Started
  <2>2. \A q \in Ramps : Started(q) /\ q # r => SessionOf(q)'
    BY <1>4, <1>5, <1>6, <1>7, <2>1 DEF SessionOf, IInv, RampsOwn
  <2>3. SessionOf(r)'
    BY <1>3, <1>4, <1>5, <1>6, <1>7 DEF SessionOf
  <2>4. \A jd \in Ids : Exists(jd)' => Exists(jd)
    BY <1>3, <1>6
  <2> QED
    BY <1>5, <1>7, <2>2, <2>3, <2>4 DEF IInv, RampsOwn
<1>10. OneByOne'
  <2>1. \A jd \in Open' : jd = id
    BY <1>2, <1>6 DEF Open
  <2>2. \A v \in Writers : pc'[v] # "create"
    BY <1>8 DEF Writing
  <2> QED
    BY <1>8, <2>1, <2>2, WriterKinds DEF OneByOne, Clients
<1>11. PromotesOnce'
  <2>1. \A jd \in Ids : ~Promoting(jd) /\ ~Promoting(jd)'
    BY <1>2, <1>8, WriterKinds DEF Promoting, Clients
  <2>2. \A jd \in Ids : Status(jd)' = "completed" <=> Status(jd) = "completed"
    BY <1>2, <1>6
  <2>3. \A jd \in promoted : jd \in Ids /\ jd # id
    BY <1>2 DEF IInv, TypeInv, TypeOK, PromotesOnce
  <2> QED
    BY <1>4, <1>5, <1>8, <2>1, <2>2, <2>3, WriterKinds DEF IInv, PromotesOnce
<1>12. RampsMirror'
  BY <1>2, <1>5, <1>7, <1>8, WriterKinds DEF IInv, RampsMirror, Underway, Writing
<1>13. HoldingMirrors'
  <2>1. config = out[r] /\ config.ratio = Full /\ out[r] \in MirrorConfig /\ out[r].enabled
    BY <1>1, WriterKinds DEF IInv, RampsMirror, TypeInv, TypeOK, Kinds
  <2>2. config = [enabled |-> TRUE, ratio |-> Full, target |-> sessions[id].target,
                  active |-> sessions[id].active, session |-> id]
    BY <1>3, <2>1 DEF MirrorConfig
  <2>3. \A jd \in Ids : jd # id => Status(jd)' # "holding"
    BY <1>2, <1>6 DEF Open
  <2> QED
    BY <1>4, <1>5, <2>2, <2>3 DEF HoldingMirrors
<1> QED
  BY <1>9, <1>10, <1>11, <1>12, <1>13 DEF IInv

(* A session created: nothing was open, and its id is new.                 *)
LEMMA CreateSessionKeeps ==
  ASSUME ByProtocol, IInv, NEW r \in Ramps, NEW id \in Ids, NEW target \in Instances,
         NEW active \in Instances, CreateSession(r, id, target, active)
  PROVE  TypeInv' /\ RoutesPut' => IInv'
<1>1. Open = {} /\ (\A c \in Clients : ~Writing(c)) /\ \A q \in Ramps : ~Underway(q)
  <2>1. Open = {} /\ \A c \in Clients : ~Writing(c)
    BY DEF CreateSession, MayStart, ClientIdle, ByProtocol, Clients
  <2>2. \A q \in Ramps : Underway(q) => out[q].session \in Open
    BY RampAlone DEF Open
  <2> QED
    BY <2>1, <2>2
<1>2. /\ \A q \in Ramps : Started(q) => out[q].session # id
      /\ ~Exists(id) /\ id \notin promoted
      /\ config # None => config.session # id
  <2>1. \A q \in Ramps : Started(q) => out[q].session # id
    BY DEF CreateSession, ByProtocol, Started
  <2> QED
    BY <2>1 DEF IInv, RampsOwn, PromotesOnce, RampsMirror, Status
<1>3. /\ sessions'[id] = [status |-> "running", target |-> target, active |-> active]
      /\ sessions'[id] # None
      /\ \A jd \in Ids : jd # id => sessions'[jd] = sessions[jd]
  BY NoneAssumption DEF CreateSession, Session, IInv, TypeInv, TypeOK
<1>4. /\ pc[r] = "idle" /\ pc'[r] = "write" /\ step[r] = First
      /\ out'[r] = [enabled |-> TRUE, ratio |-> 0, target |-> target, active |-> active,
                    session |-> id]
      /\ \A v \in Writers : v # r => pc'[v] = pc[v] /\ out'[v] = out[v]
      /\ UNCHANGED <<config, ready, step, promoted>>
  BY WriterKinds DEF CreateSession, IInv, TypeInv, TypeOK, Kinds
<1>5. /\ Exists(id)' /\ Status(id)' = "running"
      /\ \A jd \in Ids : jd # id => Exists(jd)' = Exists(jd) /\ Status(jd)' = Status(jd)
  BY <1>3 DEF Exists, Status
<1>6. /\ Started(r)' /\ Underway(r)' /\ FirstWrite(r)'
      /\ \A q \in Ramps : q # r => Started(q)' = Started(q) /\ ~Underway(q)'
  BY <1>1, <1>4, WriterKinds DEF Started, Underway, FirstWrite, Writing
<1>7. \A v \in Writers : (Writing(v)' <=> v = r) /\ pc'[v] # "create"
  <2>1. \A q \in Ramps : Writing(q)' => Underway(q)'
    BY DEF Writing, Underway
  <2> QED
    BY <1>1, <1>4, <1>6, <2>1, WriterKinds DEF Writing, Clients
<1>8. RampsOwn'
  <2>1. ASSUME NEW q \in Ramps, q # r, Started(q)
        PROVE  SessionOf(q)' /\ out'[q].session # id
    <3>1. SessionOf(q) /\ out[q].session \in Ids /\ out[q].session # id
      BY <1>2, <2>1 DEF IInv, RampsOwn, TypeInv, Kinds, Started
    <3> QED
      BY <1>1, <1>3, <1>4, <1>5, <1>6, <2>1, <3>1, WriterKinds DEF SessionOf
  <2>2. SessionOf(r)'
    BY <1>3, <1>4, <1>5, <1>6 DEF SessionOf
  <2>3. \A q \in Ramps : Started(q)' => SessionOf(q)'
    BY <1>6, <2>1, <2>2
  <2>4. \A q, s \in Ramps : Started(q)' /\ Started(s)' /\ out'[q].session = out'[s].session => q = s
    BY <1>4, <1>6, <2>1, WriterKinds DEF IInv, RampsOwn
  <2>5. \A jd \in Ids : Exists(jd)' => \E q \in Ramps : Started(q)' /\ out'[q].session = jd
    <3>1. ASSUME NEW jd \in Ids, jd # id, Exists(jd)'
          PROVE  \E q \in Ramps : Started(q)' /\ out'[q].session = jd
      <4>1. PICK q \in Ramps : Started(q) /\ out[q].session = jd
        BY <1>5, <3>1 DEF IInv, RampsOwn
      <4>2. q # r
        BY <1>4, <4>1 DEF Started
      <4> QED
        BY <1>4, <1>6, <4>1, <4>2, WriterKinds
    <3> QED
      BY <1>4, <1>6, <3>1
  <2> QED
    BY <2>3, <2>4, <2>5 DEF RampsOwn
<1>9. OneByOne'
  <2>1. \A jd \in Open' : jd = id
    BY <1>1, <1>5 DEF Open
  <2> QED
    BY <1>7, <2>1, WriterKinds DEF OneByOne, Clients
<1>10. PromotesOnce'
  <2>1. \A jd \in Ids : ~Promoting(jd) /\ ~Promoting(jd)'
    BY <1>1, <1>7, WriterKinds DEF Promoting, Clients
  <2>2. \A jd \in Ids : Status(jd)' = "completed" <=> Status(jd) = "completed"
    BY <1>2, <1>5 DEF Status
  <2>3. promoted \subseteq Ids
    BY DEF IInv, TypeInv, TypeOK
  <2> QED
    BY <1>2, <1>3, <1>4, <1>7, <2>1, <2>2, <2>3, WriterKinds DEF IInv, PromotesOnce
<1>11. RampsMirror'
  <2>1. \A q \in Ramps : Underway(q)' => q = r
    BY <1>6
  <2>2. config # None => config.session # out'[r].session
    BY <1>2, <1>4
  <2>3. \A q \in Ramps : Writing(q)' /\ step'[q] \in {Hold, Last} => out'[q].ratio = Full
    BY <1>4, <1>7, StepNumbers, WriterKinds
  <2>4. \A q \in Ramps : pc'[q] # "finish"
    BY <1>4, <1>6 DEF Underway
  <2>5. config # None /\ config.session \in Ids =>
          \E q \in Ramps : Started(q)' /\ out'[q].session = config.session
    <3>1. ASSUME config # None, config.session \in Ids
          PROVE  \E q \in Ramps : Started(q)' /\ out'[q].session = config.session
      <4>1. PICK q \in Ramps : Started(q) /\ out[q].session = config.session
        BY <3>1 DEF IInv, RampsMirror
      <4>2. q # r
        BY <1>4, <4>1 DEF Started
      <4> QED
        BY <1>4, <1>6, <4>1, <4>2, WriterKinds
    <3> QED
      BY <3>1
  <2> QED
    BY <1>4, <1>6, <2>1, <2>2, <2>3, <2>4, <2>5 DEF RampsMirror
<1>12. HoldingMirrors'
  BY <1>1, <1>5 DEF HoldingMirrors, Open
<1> QED
  BY <1>8, <1>9, <1>10, <1>11, <1>12 DEF IInv

(* A session completed: it was holding, and is about to be promoted.       *)
LEMMA CompleteSessionKeeps ==
  ASSUME ByProtocol, IInv, NEW c \in Completers, NEW id \in Ids, CompleteSession(c, id)
  PROVE  TypeInv' /\ RoutesPut' => IInv'
<1>1. Status(id) = "holding" /\ id \in Open /\ \A d \in Clients : ~Writing(d)
  BY DEF CompleteSession, MayComplete, ClientIdle, ByProtocol, Clients, Open
<1>2. /\ \A jd \in Open : jd = id
      /\ \A q \in Ramps : ~Underway(q)
  <2>1. \A q \in Ramps : Underway(q) => Status(out[q].session) = "running" /\ id = out[q].session
    BY <1>1, RampAlone
  <2> QED
    BY <1>1, <2>1 DEF IInv, OneByOne
<1>3. Exists(id) /\ id \notin promoted
  BY <1>1 DEF Status, IInv, PromotesOnce
<1>4. /\ sessions'[id] \in Session /\ sessions'[id].status = "completed"
      /\ sessions'[id].target = sessions[id].target
      /\ \A jd \in Ids : jd # id => sessions'[jd] = sessions[jd]
  BY <1>1, <1>3, SessionChanges DEF CompleteSession, IInv, TypeInv
<1>5. /\ pc[c] = "idle" /\ pc'[c] = "write" /\ out'[c] = Promotion(id)
      /\ \A v \in Writers : v # c => pc'[v] = pc[v] /\ out'[v] = out[v]
      /\ UNCHANGED <<config, ready, step, promoted>>
  BY <1>1, WriterKinds DEF CompleteSession, IInv, TypeInv, TypeOK
<1>6. /\ Exists(id)' /\ Status(id)' = "completed"
      /\ \A jd \in Ids : jd # id => Exists(jd)' = Exists(jd) /\ Status(jd)' = Status(jd)
  BY <1>4, NoneAssumption DEF Exists, Status
<1>7. \A q \in Ramps : /\ Started(q)' = Started(q) /\ ~Underway(q)' /\ out'[q] = out[q]
                       /\ pc'[q] = pc[q]
  BY <1>2, <1>5, WriterKinds DEF Started, Underway
<1>8. \A v \in Writers : (Writing(v)' <=> v = c) /\ pc'[v] # "create"
  <2>1. \A q \in Ramps : Writing(q) => Underway(q)
    BY DEF Writing, Underway
  <2> QED
    BY <1>1, <1>2, <1>5, <2>1, WriterKinds DEF Writing, Clients
<1>9. RampsOwn'
  <2>1. ASSUME NEW q \in Ramps, Started(q)
        PROVE  SessionOf(q)'
    <3>1. SessionOf(q) /\ out[q].session \in Ids
      BY <2>1 DEF IInv, RampsOwn, TypeInv, Kinds, Started
    <3>2. CASE out[q].session = id
      BY <1>4, <1>6, <1>7, <3>1, <3>2 DEF SessionOf
    <3>3. CASE out[q].session # id
      BY <1>1, <1>2, <1>4, <1>6, <1>7, <3>1, <3>3 DEF SessionOf
    <3> QED
      BY <3>2, <3>3
  <2>2. \A jd \in Ids : Exists(jd)' => Exists(jd)
    BY <1>3, <1>6
  <2> QED
    BY <1>7, <2>1, <2>2 DEF IInv, RampsOwn
<1>10. Open' = {}
  BY <1>2, <1>6 DEF Open
<1>11. OneByOne'
  BY <1>8, <1>10, WriterKinds DEF OneByOne, Clients
<1>12. PromotesOnce'
  <2>1. Promotion(id)' = Promotion(id) /\ Promotion(id).session = id
    BY <1>4 DEF Promotion
  <2>2. \A jd \in Ids : ~Promoting(jd) /\ (Promoting(jd)' <=> jd = id)
    BY <1>1, <1>5, <1>8, <2>1, WriterKinds DEF Promoting, Clients
  <2>3. \A jd \in Ids : Status(jd)' = "completed" <=> jd \in promoted' \/ Promoting(jd)'
    BY <1>5, <1>6, <2>2 DEF IInv, PromotesOnce
  <2>4. promoted \subseteq Ids
    BY DEF IInv, TypeInv, TypeOK
  <2>5. \A d \in Completers : Writing(d)' =>
          /\ Status(out[d].session)' = "completed" /\ out'[d].session \notin promoted
          /\ out'[d] = Promotion(out[d].session)'
    BY <1>3, <1>5, <1>6, <1>8, <2>1, WriterKinds
  <2> QED
    BY <1>3, <1>4, <1>5, <2>3, <2>4, <2>5 DEF IInv, PromotesOnce
<1>13. RampsMirror'
  BY <1>5, <1>7, <1>8, WriterKinds DEF IInv, RampsMirror, Underway
<1>14. HoldingMirrors'
  BY <1>10 DEF HoldingMirrors, Open
<1> QED
  BY <1>9, <1>11, <1>12, <1>13, <1>14 DEF IInv

(* A request to set the config: nothing is open.                           *)
LEMMA SetMirrorConfigKeeps ==
  ASSUME ByProtocol, IInv, NEW p \in Putters, NEW cfg \in MirrorConfig, SetMirrorConfig(p, cfg)
  PROVE  TypeInv' /\ RoutesPut' => IInv'
<1>1. Open = {} /\ (\A d \in Clients : ~Writing(d)) /\ \A q \in Ramps : ~Underway(q)
  <2>1. Open = {} /\ \A d \in Clients : ~Writing(d)
    BY DEF SetMirrorConfig, MayPut, MayStart, ClientIdle, ByProtocol, Clients
  <2>2. \A q \in Ramps : Underway(q) => out[q].session \in Open
    BY RampAlone DEF Open
  <2> QED
    BY <2>1, <2>2
<1>2. /\ pc'[p] = "write" /\ \A v \in Writers : v # p => pc'[v] = pc[v] /\ out'[v] = out[v]
      /\ UNCHANGED <<sessions, config, ready, step, promoted>>
  BY WriterKinds DEF SetMirrorConfig, IInv, TypeInv, TypeOK
<1>3. \A jd \in Ids : Exists(jd)' = Exists(jd) /\ Status(jd)' = Status(jd)
  BY <1>2 DEF Exists, Status
<1>4. \A q \in Ramps : /\ Started(q)' = Started(q) /\ ~Underway(q)' /\ out'[q] = out[q]
                       /\ pc'[q] = pc[q]
  BY <1>1, <1>2, WriterKinds DEF Started, Underway
<1>5. \A v \in Writers : (Writing(v)' <=> v = p) /\ pc'[v] # "create"
  <2>1. \A q \in Ramps : Writing(q) => Underway(q)
    BY DEF Writing, Underway
  <2> QED
    BY <1>1, <1>2, <2>1, WriterKinds DEF Writing, Clients
<1>6. RampsOwn'
  <2>1. \A q \in Ramps : Started(q) => SessionOf(q)' = SessionOf(q)
    BY <1>1, <1>2, <1>4 DEF SessionOf, Exists, Status
  <2> QED
    BY <1>3, <1>4, <2>1 DEF IInv, RampsOwn
<1>7. OneByOne'
  BY <1>1, <1>3, <1>5, WriterKinds DEF OneByOne, Clients, Open
<1>8. PromotesOnce'
  <2>1. \A jd \in Ids : ~Promoting(jd) /\ ~Promoting(jd)'
    BY <1>1, <1>5, WriterKinds DEF Promoting, Clients
  <2> QED
    BY <1>2, <1>3, <1>5, <2>1, WriterKinds DEF IInv, PromotesOnce
<1>9. RampsMirror'
  BY <1>2, <1>4, <1>5, WriterKinds DEF IInv, RampsMirror, Underway
<1>10. HoldingMirrors'
  BY <1>2, <1>3 DEF IInv, HoldingMirrors
<1> QED
  BY <1>6, <1>7, <1>8, <1>9, <1>10 DEF IInv

(* Under the protocol every step preserves the inductive invariant.        *)
LEMMA StepInv == ByProtocol /\ IInv /\ [Next]_vars => IInv'
<1> SUFFICES ASSUME ByProtocol, IInv, [Next]_vars PROVE IInv'
  OBVIOUS
<1>0. TypeInv' /\ RoutesPut'
  BY TypeStep, RoutesStep DEF IInv, ByProtocol
<1>1. ASSUME NEW w \in Writers, WriteMirrorConfig(w) PROVE IInv'
  <2>1. CASE GoesOnToCreate(w)
    BY <1>0, <2>1, CreateKeeps
  <2>2. ASSUME NEW point \in PointsAfter(w), WriteEnds(w, point) PROVE IInv'
    BY <1>0, <2>2, RampWriteKeeps, ClientWriteKeeps, WriterKinds DEF Clients
  <2> QED
    BY <1>1, <2>1, <2>2, WriteMoves
<1>2. ASSUME NEW r \in Ramps, RampNext(r) \/ RampCheck(r) \/ HoldMore(r) \/ HoldEnds(r)
      PROVE  IInv'
  <2>1. PICK point \in {"write", "hold"}, n \in First .. Last, x \in 0 .. Full :
           RampMoves(r, point, n, x)
    BY <1>2, RampMoved DEF IInv
  <2> QED
    BY <1>0, <2>1, RampMoveKeeps
<1>3. ASSUME NEW r \in Ramps, Finish(r) PROVE IInv'
  BY <1>0, <1>3, FinishKeeps
<1>4. ASSUME NEW r \in Ramps, NEW id \in Ids, NEW target \in Instances, NEW active \in Instances,
             CreateSession(r, id, target, active)
      PROVE  IInv'
  BY <1>0, <1>4, CreateSessionKeeps
<1>5. ASSUME NEW c \in Completers, NEW id \in Ids, CompleteSession(c, id) PROVE IInv'
  BY <1>0, <1>5, CompleteSessionKeeps
<1>6. ASSUME NEW p \in Putters, NEW cfg \in MirrorConfig, SetMirrorConfig(p, cfg)
      PROVE  IInv'
  BY <1>0, <1>6, SetMirrorConfigKeeps
<1>7. ASSUME NEW id \in Ids, DeleteSession(id) PROVE IInv'
  BY <1>7 DEF DeleteSession, ByProtocol
<1>8. CASE (\E i \in Instances : BecomeReady(i) \/ BecomeUnready(i)) \/ UNCHANGED vars
  <2>1. UNCHANGED <<sessions, config, pc, out, step, promoted>>
    BY <1>8 DEF BecomeReady, BecomeUnready, vars
  <2>2. RampsOwn'
    BY <2>1 DEF IInv, RampsOwn, SessionOf, Started, Underway, Status, Exists
  <2>3. OneByOne' /\ PromotesOnce'
    BY <2>1 DEF IInv, OneByOne, PromotesOnce, Promoting, Promotion, Open, Writing, Status, Exists
  <2>4. RampsMirror' /\ HoldingMirrors'
    BY <2>1 DEF IInv, RampsMirror, HoldingMirrors, Underway, Started, FirstWrite, Mirrored,
      Writing, Status, Exists
  <2> QED
    BY <1>0, <2>2, <2>3, <2>4 DEF IInv
<1> QED
  BY <1>1, <1>2, <1>3, <1>4, <1>5, <1>6, <1>7, <1>8, WriterKinds DEF Next, Ramp

(* The inductive invariant holds of every state reached by the protocol.   *)
LEMMA Invariance == ASSUME ByProtocol PROVE Spec => []IInv
<1>1. IInv /\ [Next]_vars => IInv'
  BY StepInv
<1> QED
  BY InitInv, <1>1, PTL DEF Spec

-----------------------------------------------------------------------------
(* A completed session whose promotion is over is promoted.                *)
LEMMA PromotedSticks == IInv => PromotionSticks
<1> SUFFICES ASSUME IInv, NEW id \in Ids, Status(id) = "completed", ClientIdle,
                    config # None, config.session = id
             PROVE  ~config.enabled /\ config.active = sessions[id].target
  BY DEF PromotionSticks
<1>1. id \in promoted
  BY DEF IInv, PromotesOnce, Promoting, ClientIdle
<1> QED
  BY <1>1 DEF IInv, PromotesOnce

(* Nobody undoes a promotion that was answered (main.go:253-292).          *)
THEOREM PromotionStays == ASSUME ByProtocol PROVE Spec => []PromotionSticks
BY Invariance, PromotedSticks, PTL

(* Status holding is the truth about ZooKeeper (main.go:208-226).          *)
THEOREM HoldingIsTrue == ASSUME ByProtocol PROVE Spec => []HoldingMirrors
BY Invariance, PTL DEF IInv

-----------------------------------------------------------------------------
(* The refinement of WarmupSession.  The plan of a session is what its     *)
(* ramp, which there is one of, was started with.                          *)
PlansKnown ==
  /\ \A r \in Ramps : out[r].session \in Ids => Started(r)
  /\ \A id \in Ids : (\A r \in Ramps : out[r].session # id) => PlanOf(id) = None
  /\ \A r \in Ramps : Started(r) =>
       PlanOf(out[r].session) = [target |-> out[r].target, active |-> out[r].active]

(* That follows from the inductive invariant.                              *)
LEMMA PlansAreKnown == IInv => PlansKnown
<1> SUFFICES ASSUME IInv PROVE PlansKnown
  OBVIOUS
<1>1. \A r \in Ramps : out[r].session \in Ids => Started(r)
  BY WritersAssumption DEF IInv, TypeInv, Kinds, Started, NoConfig
<1>2. ASSUME NEW id \in Ids, \A r \in Ramps : out[r].session # id
      PROVE  PlanOf(id) = None
  <2>1. RampOf(id) = {}
    BY <1>2 DEF RampOf
  <2> QED
    BY <2>1 DEF PlanOf
<1>3. ASSUME NEW r \in Ramps, Started(r)
      PROVE  PlanOf(out[r].session) = [target |-> out[r].target, active |-> out[r].active]
  <2>1. out[r].session \in Ids
    BY <1>3 DEF IInv, TypeInv, Kinds, Started
  <2>2. RampOf(out[r].session) = {r}
    BY <1>1, <1>3, <2>1 DEF RampOf, IInv, RampsOwn
  <2>3. (CHOOSE q \in {r} : TRUE) = r
    OBVIOUS
  <2> QED
    BY <2>2, <2>3 DEF PlanOf
<1> QED
  BY <1>1, <1>2, <1>3 DEF PlansKnown

(* A plan does not change while its ramp's target and active instance do   *)
(* not.                                                                    *)
LEMMA PlanStays ==
  ASSUME PlansKnown, PlansKnown', NEW id \in Ids,
         \A r \in Ramps : out'[r].session = id <=> out[r].session = id,
         \A r \in Ramps : out[r].session = id =>
            out'[r].target = out[r].target /\ out'[r].active = out[r].active
  PROVE  PlanOf(id)' = PlanOf(id)
<1>1. CASE \A r \in Ramps : out[r].session # id
  BY <1>1 DEF PlansKnown
<1>2. ASSUME NEW r \in Ramps, out[r].session = id PROVE PlanOf(id)' = PlanOf(id)
  <2>1. Started(r) /\ Started(r)' /\ out'[r].session = id
    BY <1>2 DEF PlansKnown
  <2>2. PlanOf(id) = [target |-> out[r].target, active |-> out[r].active]
    BY <1>2, <2>1 DEF PlansKnown
  <2>3. PlanOf(id)' = [target |-> out'[r].target, active |-> out'[r].active]
    BY <2>1 DEF PlansKnown
  <2> QED
    BY <1>2, <2>2, <2>3
<1> QED
  BY <1>1, <1>2

(* What a step leaves alone of the session a client sees.                  *)
LEMMA SameView ==
  ASSUME PlansKnown, PlansKnown', UNCHANGED config,
         \A r \in Ramps : /\ out'[r].session = out[r].session /\ out'[r].target = out[r].target
                          /\ out'[r].active = out[r].active,
         \A id \in Ids : PhaseOf(id)' = PhaseOf(id)
  PROVE  UNCHANGED Warmup!vars
<1>1. \A id \in Ids : PlanOf(id)' = PlanOf(id)
  BY PlanStays
<1>2. UNCHANGED <<Mirroring, Routed>>
  BY DEF Mirroring, Routed
<1> QED
  BY <1>1, <1>2 DEF Warmup!vars

(* A write that takes effect is a Mirror, a Promote or a Route.            *)
LEMMA WriteRefines ==
  ASSUME ByProtocol, IInv, PlansKnown, NEW w \in Writers, NEW point, WriteEnds(w, point)
  PROVE  Warmup!Next
<1> USE DEF Warmup!Next
<1>1. /\ config' = out[w] /\ out[w] # None /\ out[w] \in MirrorConfig
      /\ promoted' = IF w \in Completers THEN promoted \cup {out[w].session} ELSE promoted
  BY WriteTakesEffect, NoneAssumption DEF IInv, TypeInv, TypeOK
<1>2. Writing(w) /\ pc[w] # "idle" /\ UNCHANGED <<sessions, out>>
  BY DEF WriteEnds, Writing
<1>3. \A id \in Ids : PlanOf(id)' = PlanOf(id)
  BY <1>2 DEF PlanOf, RampOf
<1>4. \A id \in Ids : (id \in promoted' <=> id \in promoted) => PhaseOf(id)' = PhaseOf(id)
  BY <1>2 DEF PhaseOf, Status, Exists
<1>5. Routed' = out[w].active /\ Mirroring' = IF out[w].enabled THEN out[w].session ELSE None
  BY <1>1 DEF Routed, Mirroring
<1>6. CASE w \in Ramps
  <2>1. PICK id \in Ids : id = out[w].session
    BY <1>2, <1>6 DEF IInv, TypeInv, Kinds
  <2>2. Status(id) = "running" /\ out[w].enabled /\ Started(w)
    <3>1. Underway(w) /\ Started(w)
      BY <1>2 DEF Underway, Writing, Started
    <3>2. out[w].enabled
      BY <1>2, <1>6 DEF IInv, TypeInv, Kinds
    <3> QED
      BY <1>6, <2>1, <3>1, <3>2, RampAlone
  <2>3. PhaseOf(id) = "running" /\ PlanOf(id).active = out[w].active
    <3>1. PlanOf(id) = [target |-> out[w].target, active |-> out[w].active]
      BY <1>6, <2>1, <2>2 DEF PlansKnown
    <3> QED
      BY <2>2, <3>1 DEF PhaseOf
  <2>4. \A jd \in Ids : PhaseOf(jd)' = PhaseOf(jd)
    BY <1>1, <1>4, <1>6, WriterKinds
  <2>5. Mirroring' = id
    BY <1>5, <2>1, <2>2
  <2> QED
    BY <1>3, <1>5, <2>3, <2>4, <2>5 DEF Warmup!Mirror
<1>7. CASE w \in Completers
  <2>1. PICK id \in Ids : id = out[w].session
    BY <1>2, <1>7 DEF IInv, TypeInv, Kinds
  <2>2. Status(id) = "completed" /\ id \notin promoted /\ out[w] = Promotion(id)
    BY <1>2, <1>7, <2>1 DEF IInv, PromotesOnce
  <2>3. PICK r \in Ramps : Started(r) /\ out[r].session = id
    <3>1. Exists(id)
      BY <2>2 DEF Status
    <3> QED
      BY <3>1 DEF IInv, RampsOwn
  <2>4. PlanOf(id).target = out[r].target /\ out[r].target = sessions[id].target
    <3>1. PlanOf(id) = [target |-> out[r].target, active |-> out[r].active]
      BY <2>3 DEF PlansKnown
    <3>2. out[r].target = sessions[id].target
      BY <2>3 DEF IInv, RampsOwn, SessionOf
    <3> QED
      BY <3>1, <3>2
  <2>5. Routed' = PlanOf(id).target /\ Mirroring' = None
    BY <1>5, <2>2, <2>4 DEF Promotion
  <2>6. PhaseOf(id) = "holding"
    BY <2>2 DEF PhaseOf
  <2>7. PhaseOf(id)' = "completed"
    <3>1. Status(id)' = "completed" /\ id \in promoted'
      BY <1>1, <1>2, <1>7, <2>1, <2>2 DEF Status, Exists
    <3> QED
      BY <3>1 DEF PhaseOf
  <2>8. \A jd \in Ids : jd # id => PhaseOf(jd)' = PhaseOf(jd)
    BY <1>1, <1>4, <1>7, <2>1
  <2> QED
    BY <1>3, <2>5, <2>6, <2>7, <2>8 DEF Warmup!Promote
<1>8. CASE w \in Putters
  <2>1. out[w].session = None /\ out[w].active \in Instances
    BY <1>2, <1>8 DEF IInv, RoutesPut
  <2>2. Open = {} /\ \A id \in Ids : ~Promoting(id)
    BY <1>2, <1>8, OneWriter, WriterKinds DEF IInv, OneByOne, Clients, Promoting
  <2>3. \A id \in Ids : PhaseOf(id) \notin {"running", "holding"}
    BY <2>2 DEF PhaseOf, Open, IInv, PromotesOnce
  <2>4. \A jd \in Ids : PhaseOf(jd)' = PhaseOf(jd)
    BY <1>1, <1>4, <1>8, WriterKinds
  <2>5. Warmup!Route
    BY <1>3, <1>5, <2>1, <2>3, <2>4 DEF Warmup!Route, Warmup!Open
  <2> QED
    BY <2>5
<1> QED
  BY <1>6, <1>7, <1>8, WriterKinds

(* A session created is a Start: every earlier one is promoted.            *)
LEMMA CreateRefines ==
  ASSUME ByProtocol, IInv, PlansKnown, PlansKnown', NEW r \in Ramps, NEW id \in Ids,
         NEW target \in Instances, NEW active \in Instances,
         CreateSession(r, id, target, active)
  PROVE  Warmup!Start(id)
<1>1. Open = {} /\ \A c \in Clients : ~Writing(c)
  BY DEF CreateSession, MayStart, ClientIdle, ByProtocol, Clients
<1>2. ~Exists(id) /\ pc[r] = "idle"
  BY DEF CreateSession, ByProtocol, IInv, RampsOwn, Started
<1>3. /\ sessions'[id] = [status |-> "running", target |-> target, active |-> active]
      /\ sessions'[id] # None
      /\ \A jd \in Ids : jd # id => sessions'[jd] = sessions[jd]
  BY NoneAssumption DEF CreateSession, Session, IInv, TypeInv, TypeOK
<1>4. /\ out'[r].target = target /\ out'[r].active = active /\ out'[r].session = id
      /\ pc'[r] = "write" /\ UNCHANGED <<config, promoted>>
      /\ \A q \in Ramps : q # r => out'[q] = out[q]
  BY WriterKinds DEF CreateSession, IInv, TypeInv, TypeOK
<1>5. PhaseOf(id) = "none" /\ PhaseOf(id)' = "running"
  BY <1>2, <1>3 DEF PhaseOf, Status, Exists
<1>6. \A jd \in Ids : jd # id => PhaseOf(jd)' = PhaseOf(jd)
  BY <1>3, <1>4 DEF PhaseOf, Status, Exists
<1>7. \A jd \in Ids : PhaseOf(jd) \notin {"running", "holding"}
  BY <1>1 DEF PhaseOf, Open, IInv, PromotesOnce, Promoting, Clients
<1>8. PlanOf(id)' = [target |-> target, active |-> active]
  <2>1. Started(r)'
    BY <1>4 DEF Started
  <2> QED
    BY <1>4, <2>1 DEF PlansKnown
<1>9. ASSUME NEW jd \in Ids, jd # id PROVE PlanOf(jd)' = PlanOf(jd)
  <2>1. out[r].session # jd
    BY <1>2 DEF PlansKnown, Started
  <2> QED
    BY <1>4, <1>9, <2>1, PlanStays
<1>10. UNCHANGED <<Mirroring, Routed>>
  BY <1>4 DEF Mirroring, Routed
<1> QED
  BY <1>5, <1>6, <1>7, <1>8, <1>9, <1>10 DEF Warmup!Start, Warmup!Open

(* The end of a ramp is a Hold.                                            *)
LEMMA FinishRefines ==
  ASSUME IInv, NEW r \in Ramps, Finish(r)
  PROVE  \E id \in Ids : Warmup!Hold(id)
<1>1. Underway(r) /\ Started(r) /\ pc[r] = "finish"
  BY DEF Finish, Underway, Started
<1> PICK id \in Ids : id = out[r].session
  BY <1>1, RampAlone
<1>2. Status(id) = "running" /\ Exists(id)
  BY <1>1, RampAlone DEF Status
<1>3. /\ sessions'[id] # None /\ sessions'[id].status = "holding"
      /\ \A jd \in Ids : jd # id => sessions'[jd] = sessions[jd]
  <2>1. /\ sessions'[id] \in Session /\ sessions'[id].status = "holding"
        /\ \A jd \in Ids : jd # id => sessions'[jd] = sessions[jd]
    BY <1>2, SessionChanges DEF Finish, IInv, TypeInv
  <2> QED
    BY <2>1, NoneAssumption
<1>4. UNCHANGED <<config, out, promoted>>
  BY DEF Finish
<1>5. PhaseOf(id) = "running" /\ PhaseOf(id)' = "holding"
  BY <1>2, <1>3 DEF PhaseOf, Status, Exists
<1>6. \A jd \in Ids : jd # id => PhaseOf(jd)' = PhaseOf(jd)
  BY <1>3, <1>4 DEF PhaseOf, Status, Exists
<1>7. \A jd \in Ids : PlanOf(jd)' = PlanOf(jd)
  BY <1>4 DEF PlanOf, RampOf
<1>8. Mirroring = id /\ UNCHANGED <<Mirroring, Routed>>
  <2>1. config = out[r] /\ config # None /\ config.enabled
    BY <1>1, NoneAssumption, WriterKinds DEF IInv, RampsMirror, TypeInv, TypeOK, Kinds
  <2> QED
    BY <1>4, <2>1 DEF Mirroring, Routed
<1> QED
  BY <1>5, <1>6, <1>7, <1>8 DEF Warmup!Hold

(* A session completed: it goes on holding until the promotion is written. *)
LEMMA CompleteRefines ==
  ASSUME ByProtocol, IInv, PlansKnown, PlansKnown', NEW c \in Completers, NEW id \in Ids,
         CompleteSession(c, id)
  PROVE  UNCHANGED Warmup!vars
<1>1. Status(id) = "holding" /\ Exists(id) /\ id \notin promoted
  BY DEF CompleteSession, MayComplete, ByProtocol, Status, IInv, PromotesOnce
<1>2. /\ sessions'[id] # None /\ sessions'[id].status = "completed"
      /\ \A jd \in Ids : jd # id => sessions'[jd] = sessions[jd]
  BY <1>1, SessionChanges, NoneAssumption DEF CompleteSession, IInv, TypeInv
<1>3. UNCHANGED <<config, promoted>> /\ \A r \in Ramps : out'[r] = out[r]
  BY WriterKinds DEF CompleteSession, IInv, TypeInv, TypeOK
<1>4. PhaseOf(id)' = PhaseOf(id)
  BY <1>1, <1>2, <1>3 DEF PhaseOf, Status, Exists
<1>5. \A jd \in Ids : jd # id => PhaseOf(jd)' = PhaseOf(jd)
  BY <1>2, <1>3 DEF PhaseOf, Status, Exists
<1> QED
  BY <1>3, <1>4, <1>5, SameView

(* Every step maps to a step of WarmupSession or to a stutter.             *)
LEMMA StepRefines ==
  ASSUME ByProtocol, IInv, PlansKnown, PlansKnown', [Next]_vars
  PROVE  [Warmup!Next]_(Warmup!vars)
<1>0. TypeOK /\ TypeInv
  BY DEF IInv, TypeInv
<1>1. ASSUME NEW w \in Writers, WriteMirrorConfig(w) PROVE [Warmup!Next]_(Warmup!vars)
  <2>1. CASE GoesOnToCreate(w)
    <3>1. UNCHANGED <<config, out>> /\ \A id \in Ids : PhaseOf(id)' = PhaseOf(id)
      BY <2>1 DEF GoesOnToCreate, PhaseOf, Status, Exists
    <3> QED
      BY <3>1, SameView
  <2> QED
    BY <1>1, <2>1, WriteMoves, WriteRefines
<1>2. ASSUME NEW r \in Ramps, RampNext(r) \/ RampCheck(r) \/ HoldMore(r) \/ HoldEnds(r)
      PROVE  [Warmup!Next]_(Warmup!vars)
  <2>1. PICK point \in {"write", "hold"}, n \in First .. Last, x \in 0 .. Full :
           RampMoves(r, point, n, x)
    BY <1>0, <1>2, RampMoved
  <2>2. \A q \in Ramps : /\ out'[q].session = out[q].session /\ out'[q].target = out[q].target
                         /\ out'[q].active = out[q].active
    BY <1>0, <2>1, RatioChanges, WriterKinds DEF RampMoves
  <2>3. UNCHANGED config /\ \A id \in Ids : PhaseOf(id)' = PhaseOf(id)
    BY <2>1 DEF RampMoves, PhaseOf, Status, Exists
  <2> QED
    BY <2>2, <2>3, SameView
<1>3. ASSUME NEW r \in Ramps, Finish(r) PROVE [Warmup!Next]_(Warmup!vars)
  BY <1>3, FinishRefines DEF Warmup!Next
<1>4. ASSUME NEW r \in Ramps, NEW id \in Ids, NEW target \in Instances, NEW active \in Instances,
             CreateSession(r, id, target, active)
      PROVE  [Warmup!Next]_(Warmup!vars)
  BY <1>4, CreateRefines DEF Warmup!Next
<1>5. ASSUME NEW c \in Completers, NEW id \in Ids, CompleteSession(c, id)
      PROVE  [Warmup!Next]_(Warmup!vars)
  BY <1>5, CompleteRefines
<1>6. ASSUME NEW id \in Ids, DeleteSession(id) PROVE [Warmup!Next]_(Warmup!vars)
  BY <1>6 DEF DeleteSession, ByProtocol
<1>7. ASSUME UNCHANGED <<config, sessions, promoted>>, \A r \in Ramps : out'[r] = out[r]
      PROVE  [Warmup!Next]_(Warmup!vars)
  <2>1. \A id \in Ids : PhaseOf(id)' = PhaseOf(id)
    BY <1>7 DEF PhaseOf, Status, Exists
  <2> QED
    BY <1>7, <2>1, SameView
<1>8. ASSUME NEW p \in Putters, NEW cfg \in MirrorConfig, SetMirrorConfig(p, cfg)
      PROVE  [Warmup!Next]_(Warmup!vars)
  BY <1>0, <1>7, <1>8, WriterKinds DEF SetMirrorConfig, TypeOK
<1>9. CASE (\E i \in Instances : BecomeReady(i) \/ BecomeUnready(i)) \/ UNCHANGED vars
  BY <1>7, <1>9 DEF BecomeReady, BecomeUnready, vars
<1> QED
  BY <1>1, <1>2, <1>3, <1>4, <1>5, <1>6, <1>8, <1>9, WriterKinds DEF Next, Ramp

(* Before the first session nothing is mirrored or routed.                 *)
LEMMA InitRefines == Init => Warmup!Init
<1> SUFFICES ASSUME Init PROVE Warmup!Init
  OBVIOUS
<1>1. \A id \in Ids : Status(id) = "none" /\ PhaseOf(id) = "none"
  BY DEF Init, PhaseOf, Status, Exists
<1>2. \A id \in Ids : RampOf(id) = {}
  BY WriterKinds, WritersAssumption DEF Init, RampOf, NoConfig
<1>3. \A id \in Ids : PlanOf(id) = None
  BY <1>2 DEF PlanOf
<1>4. Mirroring = None /\ Routed = None
  BY DEF Init, Mirroring, Routed
<1> QED
  BY <1>1, <1>3, <1>4 DEF Warmup!Init

(* From states of the inductive invariant on, every step maps.             *)
LEMMA InvRefines ==
  ByProtocol /\ IInv /\ IInv' /\ [Next]_vars => [Warmup!Next]_(Warmup!vars)
<1>1. IInv => PlansKnown
  BY PlansAreKnown
<1>2. IInv' => PlansKnown'
  BY PlansAreKnown, PTL
<1> QED
  BY <1>1, <1>2, StepRefines

(* For a client of this protocol the coordinator implements WarmupSession: *)
(* a session mirrors to the instance it was created for, holds, and then   *)
(* routing to it and the end of mirroring are one step.                    *)
THEOREM Refinement == ASSUME ByProtocol PROVE Spec => ImplementsSession
<1>1. IInv /\ IInv' /\ [Next]_vars => [Warmup!Next]_(Warmup!vars)
  BY InvRefines
<1> QED
  BY Invariance, InitRefines, <1>1, PTL DEF Spec, ImplementsSession, Warmup!Spec
=============================================================================
