-------------------------- MODULE BenchmarkProofs --------------------------
(***************************************************************************)
(* Theorems about the benchmark against the whole system, for any          *)
(* scenarios, any numbers of runs, sessions, handlers, mirrored requests   *)
(* and restarts of the coordinator, and with ZooKeeper errors anywhere.    *)
(***************************************************************************)
EXTENDS Benchmark, CoordinatorProofs

USE PartsAssumption, CountsAssumption

-----------------------------------------------------------------------------
(* The client sends load while it polls or waits for its end only, and it  *)
(* runs a scenario only while a valid run is missing.                      *)
Driven ==
  /\ load => at \in {"poll", "load"}
  /\ at \notin {"done", "failed"} => valid < MaxRuns
  /\ flying + serving <= MaxShadows
  /\ at = "putting" => mine \in Putters
  /\ at = "completing" => mine \in Completers
  /\ at \in {"poll", "load"} => sid \in Ids

(* Between the check and the probe nothing changes the index behind the    *)
(* measurement's back.                                                     *)
Checked ==
  at = "probe" =>
    IF Name = "s0-control" THEN quiet => cold /\ flying + serving = 0 ELSE ~cold

(* The coordinator has one thing to do at a time: a ramp only of the       *)
(* session that is polled for, a promotion or a baseline only while the    *)
(* client waits for its answer.  A client that failed may leave any one    *)
(* behind.                                                                 *)
Underways == {r \in Ramps : pc[r] \notin {"idle", "done"}}

OneRamp ==
  \A r \in Underways :
    /\ at \in {"poll", "failed"} /\ out[r].session = sid /\ Status(sid) \in {"running", "none"}
    /\ \A q \in Underways : q = r

OneAnswer ==
  \A c \in Completers \cup Putters :
    /\ Writing(c) => c = mine /\ at \in {"putting", "completing", "failed"}
    /\ pc[c] # "idle" => ~out[c].enabled

OneOpen == \A id \in Open : id = sid /\ at \in {"poll", "load", "failed"}

Seen == at = "load" => Status(sid) \in {"holding", "none"}

Ended == at = "completing" /\ pc[mine] = "ok" => ~Mirrors(config)

InOrder == OneRamp /\ OneAnswer /\ OneOpen /\ Seen /\ Ended /\ ProbesUnmirrored

TypeAll == TypeInv /\ TypeOKAll /\ Driven


-----------------------------------------------------------------------------
(* Its parts.                                                              *)
Points == {"reset", "warmup", "baseline", "putting", "start", "poll", "load", "completing",
           "waitready", "check", "probe", "done", "failed"}
States == {"Registered", "Warming", "Ready", "Active", "Failed"}

ClientTypes ==
  /\ at \in Points
  /\ scenario \in 1 .. Len(Scenarios) /\ attempt \in 1 .. 2 * MaxRuns /\ valid \in 0 .. MaxRuns
  /\ sid \in Ids \cup {None} /\ mine \in Completers \cup Putters \cup {None}
  /\ load \in BOOLEAN

InstanceTypes ==
  /\ state \in States /\ published \in BOOLEAN
  /\ count \in 0 .. ReadyAfter /\ cold \in BOOLEAN
  /\ {inbox, fetched} \subseteq MirrorConfig \cup {None}
  /\ loop \in {"timed", "untimed", "failing", "ended"}

MirroredTypes ==
  routed \in MirrorConfig \cup {None} /\ flying \in 0 .. MaxShadows /\ serving \in 0 .. MaxShadows

(* They are the types.                                                     *)
LEMMA TypeParts == TypeOKAll <=> TypeOK /\ ClientTypes /\ InstanceTypes /\ MirroredTypes
BY DEF TypeOKAll, ClientTypes, InstanceTypes, MirroredTypes, Points, States

(* A handler or an id chosen among the unused ones is one of them.         *)
LEMMA Chosen ==
  /\ \A S : Unused(S) # {} => Free(S) \in S /\ pc[Free(S)] = "idle"
  /\ UnusedIds # {} => NewId \in Ids /\ \A r \in Ramps : out[r].session # NewId
<1>1. ASSUME NEW S, Unused(S) # {} PROVE Free(S) \in S /\ pc[Free(S)] = "idle"
  <2>1. Free(S) \in Unused(S)
    BY <1>1 DEF Free
  <2> QED
    BY <2>1 DEF Unused
<1>2. ASSUME UnusedIds # {} PROVE NewId \in Ids /\ \A r \in Ramps : out[r].session # NewId
  <2>1. NewId \in UnusedIds
    BY <1>2 DEF NewId
  <2> QED
    BY <2>1 DEF UnusedIds
<1> QED
  BY <1>1, <1>2

(* The record of the warmed instance changes.                              *)
RecordMoves ==
  /\ ready' \in {ready \cup {Warm}, ready \ {Warm}}
  /\ UNCHANGED <<sessions, config, pc, out, step, promoted>>

(* But for what the coordinator does itself, a step of the whole system is *)
(* to it such a change, a restart, or nothing.                             *)
LEMMA RecordAlone ==
  ASSUME [NextAll]_all, ~BaselineMirror, ~StartSession, ~Complete, ~Coordinates
  PROVE  RecordMoves \/ CoordinatorRestarts \/ UNCHANGED vars
<1>1. CASE RecordChanges
  BY <1>1 DEF RecordChanges, BecomeReady, BecomeUnready, RecordMoves
<1>2. CASE Client
  BY <1>2 DEF Client, ResetWarmup, PostWarmup, Answered, WaitSessionHolding, LoadEnds, WaitReady,
              Check, Probe, ProbeFails, Fail
<1>3. CASE FetchConfig \/ HandleConfig \/ Timeout \/ TimeoutFails \/ ShadowArrives \/ ShadowCounted
  BY <1>3 DEF FetchConfig, HandleConfig, Timeout, TimeoutFails, ShadowArrives, ShadowCounted
<1>4. CASE Proxy \/ UNCHANGED all
  BY <1>4 DEF Proxy, SeeConfig, SendShadow, ShadowLost, Work, all
<1> QED
  BY <1>1, <1>2, <1>3, <1>4 DEF NextAll, Instance

(* The benchmark's baseline is a config that turns mirroring off.          *)
LEMMA BaselineIsPlain ==
  /\ Baseline \in MirrorConfig /\ Baseline.session = None /\ Baseline.active = Active
  /\ ~Baseline.enabled /\ Baseline.ratio = 0
<1>1. NoConfig \in MirrorConfig /\ ~NoConfig.enabled /\ NoConfig.ratio = 0
      /\ NoConfig.session = None
  BY RatiosAssumption DEF NoConfig, MirrorConfig
<1>2. Active \in Instances \cup {None}
  BY PartsAssumption
<1> QED
  BY <1>1, <1>2 DEF Baseline, MirrorConfig

(* What a step of the whole system is to the coordinator: one of its own,  *)
(* a change of that record, a restart, or nothing.                         *)
LEMMA CoordinatorMoves ==
  ASSUME TypeAll, [NextAll]_all
  PROVE  Next \/ RecordMoves \/ CoordinatorRestarts \/ UNCHANGED vars
<1>1. CASE BaselineMirror
  <2>1. Free(Putters) \in Putters
    BY <1>1, Chosen DEF BaselineMirror
  <2>2. SetMirrorConfig(Free(Putters), Baseline)
    BY <1>1 DEF BaselineMirror
  <2> QED
    BY <2>1, <2>2, BaselineIsPlain DEF Next
<1>2. CASE StartSession
  <2>1. Free(Ramps) \in Ramps /\ NewId \in Ids
    BY <1>2, Chosen DEF StartSession
  <2>2. CreateSession(Free(Ramps), NewId, Warm, Active)
    BY <1>2 DEF StartSession
  <2> QED
    BY <2>1, <2>2 DEF Next
<1>3. CASE Complete
  <2>1. Free(Completers) \in Completers /\ sid \in Ids
    BY <1>3, Chosen DEF Complete, TypeAll, Driven
  <2>2. CompleteSession(Free(Completers), sid)
    BY <1>3 DEF Complete
  <2> QED
    BY <2>1, <2>2 DEF Next
<1>4. CASE Coordinates
  BY <1>4 DEF Coordinates, Next
<1> QED
  BY <1>1, <1>2, <1>3, <1>4, RecordAlone

-----------------------------------------------------------------------------
(* The coordinator keeps its types, also over a restart.                   *)
LEMMA TypeCoordinator ==
  ASSUME TypeAll, [NextAll]_all
  PROVE  TypeInv'
<1> USE DEF TypeInv, TypeOK
<1>0. TypeInv
  BY DEF TypeAll
<1>1. CASE Next \/ UNCHANGED vars
  BY <1>0, <1>1, TypeStep
<1>2. CASE RecordMoves
  BY <1>0, <1>2, PartsAssumption DEF RecordMoves, Kinds
<1>3. CASE CoordinatorRestarts
  <2>1. \A w \in Writers : pc'[w] = IF pc[w] \in {"idle", "ok"} THEN pc[w]
                                    ELSE IF w \in Ramps THEN "done" ELSE "error"
    BY <1>3 DEF CoordinatorRestarts
  <2>2. TypeOK'
    BY <1>0, <1>3, <2>1 DEF CoordinatorRestarts
  <2>3. Kinds'
    BY <1>0, <1>3, <2>1, WriterKinds DEF CoordinatorRestarts, Kinds, RampPoints, ClientPoints
  <2> QED
    BY <2>2, <2>3
<1> QED
  BY <1>1, <1>2, <1>3, CoordinatorMoves

(* After an attempt the client is back at the reset with a run still       *)
(* missing, or at its end.                                                 *)
LEMMA AttemptEnds ==
  ASSUME ClientTypes, NEW v \in 0 .. MaxRuns, NextAttempt(v) \/ EndScenario(v)
  PROVE  /\ at' \in {"reset", "done", "failed"}
         /\ scenario' \in 1 .. Len(Scenarios) /\ attempt' \in 1 .. 2 * MaxRuns
         /\ valid' \in 0 .. MaxRuns
         /\ at' = "reset" => valid' < MaxRuns
<1> USE DEF ClientTypes
<1>1. Len(Scenarios) \in Nat
  BY LenProperties
<1>2. CASE EndScenario(v)
  BY <1>1, <1>2 DEF EndScenario
<1>3. CASE NextAttempt(v) /\ attempt < 2 * MaxRuns /\ v < MaxRuns
  BY <1>1, <1>3 DEF NextAttempt
<1> QED
  BY <1>2, <1>3 DEF NextAttempt

(* The client's part of Driven.                                            *)
ClientDriven ==
  /\ load => at \in {"poll", "load"}
  /\ at \notin {"done", "failed"} => valid < MaxRuns
  /\ at = "putting" => mine \in Putters
  /\ at = "completing" => mine \in Completers
  /\ at \in {"poll", "load"} => sid \in Ids

(* The client keeps its types.                                             *)
LEMMA TypeClient ==
  ASSUME ClientTypes, ClientDriven, Client
  PROVE  ClientTypes' /\ ClientDriven'
<1> USE DEF ClientTypes, ClientDriven, Points
<1>1. CASE Check
  <2>1. load = FALSE
    BY <1>1 DEF Check
  <2>2. CASE ValidPreProbe /\ at' = "probe" /\ UNCHANGED <<scenario, attempt, valid>>
    BY <1>1, <2>2 DEF Check
  <2>3. CASE NextAttempt(valid)
    BY <1>1, <2>1, <2>3, AttemptEnds DEF Check
  <2> QED
    BY <1>1, <2>2, <2>3 DEF Check
<1>2. CASE Probe \/ ProbeFails
  <2>0. at = "probe"
    BY <1>2 DEF Probe, ProbeFails
  <2>1. valid \in 0 .. MaxRuns /\ valid + 1 \in 0 .. MaxRuns
    BY <2>0
  <2>2. \E v \in 0 .. MaxRuns : NextAttempt(v) \/ EndScenario(v)
    BY <1>2, <2>1 DEF Probe, ProbeFails
  <2>3. UNCHANGED <<sid, mine, load>> /\ ~load
    <3>1. ~load
      BY <2>0, Zenon
    <3>2. UNCHANGED <<sid, mine, load>>
      BY <1>2, Zenon DEF Probe, ProbeFails
    <3> QED
      BY <3>1, <3>2, Zenon
  <2>4. ~load'
    BY <2>3, Zenon
  <2> QED
    BY <2>1, <2>2, <2>3, <2>4, AttemptEnds
<1>3. CASE StartSession
  <2>1. NewId \in Ids
    BY <1>3, Chosen DEF StartSession
  <2> QED
    BY <1>3, <2>1 DEF StartSession
<1>4. CASE BaselineMirror
  <2>1. Free(Putters) \in Putters
    BY <1>4, Chosen DEF BaselineMirror
  <2> QED
    BY <1>4, <2>1 DEF BaselineMirror
<1>5. CASE Complete
  <2>1. Free(Completers) \in Completers
    BY <1>5, Chosen DEF Complete
  <2> QED
    BY <1>5, <2>1 DEF Complete
<1>6. CASE ResetWarmup \/ PostWarmup \/ Answered("putting", "start") \/ WaitSessionHolding
           \/ LoadEnds \/ Answered("completing", "waitready") \/ WaitReady \/ Fail
  <2>1. CASE ResetWarmup
    BY <2>1, Zenon DEF ResetWarmup, Move
  <2>2. CASE PostWarmup
    BY <2>2, Zenon DEF PostWarmup, Move
  <2>3. CASE Answered("putting", "start")
    BY <2>3, Zenon DEF Answered, Move
  <2>4. CASE Answered("completing", "waitready")
    BY <2>4, Zenon DEF Answered, Move
  <2>5. CASE WaitSessionHolding
    BY <2>5, Zenon DEF WaitSessionHolding, Move
  <2>6. CASE LoadEnds
    BY <2>6, Zenon DEF LoadEnds
  <2>7. CASE WaitReady
    BY <2>7, Zenon DEF WaitReady, Move
  <2>8. CASE Fail
    BY <2>8, Zenon DEF Fail
  <2> QED
    BY <1>6, <2>1, <2>2, <2>3, <2>4, <2>5, <2>6, <2>7, <2>8
<1> QED
  BY <1>1, <1>2, <1>3, <1>4, <1>5, <1>6 DEF Client


(* The FSM and what it publishes keep their types.                         *)
LEMMA SetStateKeeps ==
  ASSUME InstanceTypes, NEW to \in States, SetState(to)
  PROVE  state' \in States /\ published' \in BOOLEAN
BY Zenon DEF SetState, InstanceTypes

(* The instance and the mirrored requests keep their types.                *)
LEMMA TypeInstance ==
  ASSUME TypeAll, [NextAll]_all
  PROVE  InstanceTypes' /\ MirroredTypes' /\ flying' + serving' <= MaxShadows
<1> USE DEF InstanceTypes, MirroredTypes
<1>0. /\ InstanceTypes /\ MirroredTypes /\ flying + serving <= MaxShadows
      /\ config \in MirrorConfig \cup {None}
      /\ ReadyAfter \in Nat /\ MaxShadows \in Nat
  BY TypeParts DEF TypeAll, TypeOK, Driven
<1>1. ASSUME UNCHANGED <<state, count, inbox, fetched, loop, published, mirrored>>,
             cold' \in {cold, FALSE}
      PROVE  InstanceTypes' /\ MirroredTypes' /\ flying' + serving' <= MaxShadows
  <2>1. UNCHANGED <<routed, flying, serving>>
    BY <1>1 DEF mirrored
  <2>2. cold' \in BOOLEAN
    BY <1>0, <1>1, Zenon
  <2> QED
    BY <1>0, <1>1, <2>1, <2>2
<1>2. CASE Client
  <2>1. CASE ResetWarmup
    <3>1. state' = "Registered" /\ count' = 0 /\ cold' = TRUE
          /\ UNCHANGED <<inbox, fetched, loop, published, routed, flying, serving>>
      BY <2>1 DEF ResetWarmup, mirrored
    <3> QED
      BY <1>0, <3>1 DEF States
  <2>2. CASE PostWarmup
    BY <1>1, <2>2 DEF PostWarmup, vars
  <2>3. CASE BaselineMirror
    BY <1>1, <2>3 DEF BaselineMirror, SetMirrorConfig, instance
  <2>4. CASE Answered("putting", "start") \/ Answered("completing", "waitready")
    BY <1>1, <2>4 DEF Answered, vars, instance
  <2>5. CASE StartSession
    BY <1>1, <2>5 DEF StartSession, CreateSession, instance
  <2>6. CASE WaitSessionHolding \/ LoadEnds \/ WaitReady \/ Fail
    BY <1>1, <2>6 DEF WaitSessionHolding, LoadEnds, WaitReady, Fail, vars, instance
  <2>7. CASE Complete
    BY <1>1, <2>7 DEF Complete, CompleteSession, instance
  <2>8. CASE Check \/ Probe \/ ProbeFails
    BY <1>1, <2>8 DEF Check, Probe, ProbeFails, vars, instance
  <2> QED
    BY <1>2, <2>1, <2>2, <2>3, <2>4, <2>5, <2>6, <2>7, <2>8 DEF Client
<1>3. CASE FetchConfig
  BY <1>0, <1>3 DEF FetchConfig, mirrored
<1>4. CASE HandleConfig
  <2>1. Handled(inbox) \in States
    BY <1>0 DEF Handled, States
  <2>2. SetState(Handled(inbox))
    BY <1>4 DEF HandleConfig
  <2> QED
    BY <1>0, <1>4, <2>1, <2>2, SetStateKeeps DEF HandleConfig, mirrored
<1>5. CASE Timeout \/ TimeoutFails
  <2>1. CASE Timeout
    BY <1>0, <2>1 DEF Timeout, mirrored
  <2>2. CASE TimeoutFails
    <3>1. SetState("Failed") /\ loop' = "ended"
      BY <2>2 DEF TimeoutFails
    <3> QED
      BY <1>0, <2>2, <3>1, SetStateKeeps DEF TimeoutFails, mirrored, States
  <2> QED
    BY <1>5, <2>1, <2>2
<1>6. CASE ShadowArrives
  <2>1. SetState(IF state = "Registered" THEN "Warming" ELSE state) /\ cold' = FALSE
    BY <1>6 DEF ShadowArrives
  <2>2. /\ flying' \in 0 .. MaxShadows /\ serving' \in 0 .. MaxShadows
        /\ flying' + serving' <= MaxShadows
    BY <1>0, <1>6 DEF ShadowArrives
  <2>3. cold' \in BOOLEAN
    BY <2>1, Zenon
  <2> QED
    BY <1>0, <1>6, <2>1, <2>2, <2>3, SetStateKeeps DEF ShadowArrives, States
<1>7. CASE ShadowCounted
  <2>1. SetState(IF count' >= ReadyAfter /\ state = "Warming" THEN "Ready" ELSE state)
    BY <1>7 DEF ShadowCounted
  <2>2. /\ count' \in 0 .. ReadyAfter /\ serving' \in 0 .. MaxShadows
        /\ flying + serving' <= MaxShadows
    BY <1>0, <1>7 DEF ShadowCounted
  <2> QED
    BY <1>0, <1>7, <2>1, <2>2, SetStateKeeps DEF ShadowCounted, States
<1>8. CASE Proxy
  <2>1. CASE SeeConfig \/ SendShadow \/ ShadowLost
    <3>1. UNCHANGED <<state, count, cold, inbox, fetched, loop, published>>
      BY <2>1 DEF SeeConfig, SendShadow, ShadowLost, instance
    <3>2. MirroredTypes' /\ flying' + serving' <= MaxShadows
      BY <1>0, <2>1 DEF SeeConfig, SendShadow, ShadowLost
    <3> QED
      BY <1>0, <3>1, <3>2
  <2>2. CASE Work
    BY <1>1, <2>2 DEF Work, vars
  <2> QED
    BY <1>8, <2>1, <2>2 DEF Proxy
<1>9. CASE Coordinates \/ RecordChanges
  BY <1>1, <1>9 DEF Coordinates, RecordChanges, instance
<1>10. CASE CoordinatorRestarts \/ UNCHANGED all
  BY <1>1, <1>10 DEF CoordinatorRestarts, all, instance
<1> QED
  BY <1>2, <1>3, <1>4, <1>5, <1>6, <1>7, <1>8, <1>9, <1>10 DEF NextAll, Instance


-----------------------------------------------------------------------------
(* The initial state has its types.                                        *)
LEMMA TypeAllInit == InitAll => TypeAll
<1> SUFFICES ASSUME InitAll PROVE TypeAll
  OBVIOUS
<1>1. TypeInv
  BY TypeInit DEF InitAll
<1>2. ClientTypes
  <2>1. Len(Scenarios) \in Nat /\ 1 \in 1 .. Len(Scenarios) /\ 1 \in 1 .. 2 * MaxRuns
    BY LenProperties
  <2>2. load \in BOOLEAN
    BY Zenon DEF InitAll
  <2> QED
    BY <2>1, <2>2 DEF InitAll, ClientTypes, Points
<1>3. InstanceTypes /\ MirroredTypes
  <2>1. cold \in BOOLEAN /\ published \in BOOLEAN
    BY Zenon DEF InitAll
  <2> QED
    BY <2>1, CountsAssumption DEF InitAll, InstanceTypes, MirroredTypes, States
<1>4. Driven
  <2>1. ~load
    BY Zenon DEF InitAll
  <2> QED
    BY <2>1 DEF InitAll, Driven
<1> QED
  BY <1>1, <1>2, <1>3, <1>4, TypeParts DEF TypeAll, TypeInv

(* Every step preserves the types.                                         *)
LEMMA TypeAllStep == TypeAll /\ [NextAll]_all => TypeAll'
<1> SUFFICES ASSUME TypeAll, [NextAll]_all PROVE TypeAll'
  OBVIOUS
<1>1. TypeInv'
  BY TypeCoordinator
<1>2. InstanceTypes' /\ MirroredTypes' /\ flying' + serving' <= MaxShadows
  BY TypeInstance
<1>3. ClientTypes /\ ClientDriven
  BY TypeParts DEF TypeAll, Driven, ClientDriven
<1>4. ClientTypes' /\ ClientDriven'
  <2>1. CASE Client
    BY <1>3, <2>1, TypeClient
  <2>2. CASE ~Client
    <3>1. UNCHANGED client
      BY <2>2 DEF NextAll, all, Instance, FetchConfig, HandleConfig, Timeout, TimeoutFails,
                  ShadowArrives, ShadowCounted, RecordChanges, Proxy, SeeConfig, SendShadow,
                  ShadowLost, Work, Coordinates, CoordinatorRestarts
    <3>2. UNCHANGED <<at, scenario, attempt, valid, sid, mine, load>>
      BY <3>1 DEF client
    <3> QED
      BY <1>3, <3>2, Zenon DEF ClientTypes, ClientDriven
  <2> QED
    BY <2>1, <2>2
<1>5. Driven'
  BY <1>2, <1>4 DEF Driven, ClientDriven
<1>6. TypeOKAll'
  BY <1>1, <1>2, <1>4, TypeParts, PTL DEF TypeInv
<1> QED
  BY <1>1, <1>5, <1>6 DEF TypeAll

(* The client, the instance, the proxy and the coordinator keep their      *)
(* types, and the counters their bounds, whatever fails and restarts.      *)
THEOREM SystemTypes == SpecAll => []TypeOKAll
<1>1. SpecAll => []TypeAll
  BY TypeAllInit, TypeAllStep, PTL DEF SpecAll
<1> QED
  BY <1>1, PTL DEF TypeAll


-----------------------------------------------------------------------------
(* What was true at the check is still so at the probe: whatever else goes *)
(* on builds the index only, and while no load is sent nothing does but a  *)
(* mirrored request that was under way at the check already.               *)
LEMMA CheckedStep ==
  ASSUME TypeAll, Checked, [NextAll]_all
  PROVE  Checked'
<1> USE DEF Checked
<1>0. ClientTypes /\ Driven /\ MirroredTypes
  BY TypeParts DEF TypeAll
<1>1. ASSUME UNCHANGED <<at, scenario, quiet, flying, serving>>, cold' = cold
      PROVE  Checked'
  BY <1>1 DEF Name
<1>2. ASSUME UNCHANGED <<at, scenario, quiet>>, ~cold',
             at = "probe" /\ Name = "s0-control" => flying + serving # 0
      PROVE  Checked'
  BY <1>2 DEF Name
<1>3. CASE Client
  <2>1. CASE Check
    <3>1. CASE ValidPreProbe /\ at' = "probe" /\ UNCHANGED <<scenario, attempt, valid>>
      <4>1. UNCHANGED <<cold, flying, serving>> /\ quiet' = (flying + serving = 0)
        BY <2>1 DEF Check, instance, mirrored
      <4>2. CASE Name = "s0-control"
        <5>1. cold /\ (quiet' => flying + serving = 0)
          BY <3>1, <4>1, <4>2 DEF ValidPreProbe
        <5> QED
          BY <3>1, <4>1, <4>2, <5>1 DEF Name
      <4>3. CASE Name # "s0-control"
        <5>1. ~cold
          BY <3>1, <4>3 DEF ValidPreProbe
        <5> QED
          BY <3>1, <4>1, <4>3, <5>1 DEF Name
      <4> QED
        BY <4>2, <4>3
    <3>2. CASE NextAttempt(valid)
      BY <1>0, <3>2, AttemptEnds DEF ClientTypes
    <3> QED
      BY <2>1, <3>1, <3>2 DEF Check
  <2>2. CASE Probe \/ ProbeFails
    <3>1. valid \in 0 .. MaxRuns /\ valid + 1 \in 0 .. MaxRuns
      <4>1. at = "probe"
        BY <2>2 DEF Probe, ProbeFails
      <4>2. valid < MaxRuns
        BY <1>0, <4>1 DEF Driven
      <4> QED
        BY <1>0, <4>2 DEF ClientTypes
    <3>2. at' # "probe"
      BY <1>0, <2>2, <3>1, AttemptEnds DEF Probe, ProbeFails
    <3> QED
      BY <3>2
  <2>3. CASE LoadEnds
    BY <1>0, <2>3 DEF LoadEnds, Driven
  <2>4. CASE ~(Check \/ Probe \/ ProbeFails \/ LoadEnds)
    BY <1>3, <2>4 DEF Client, ResetWarmup, PostWarmup, BaselineMirror, Answered, StartSession,
                      WaitSessionHolding, Complete, WaitReady, Fail, Move
  <2> QED
    BY <2>1, <2>2, <2>3, <2>4
<1>4. CASE FetchConfig \/ HandleConfig \/ Timeout \/ TimeoutFails \/ RecordChanges \/ SeeConfig
           \/ Coordinates \/ CoordinatorRestarts \/ UNCHANGED all
  <2>1. UNCHANGED <<at, scenario, quiet, flying, serving>> /\ cold' = cold
    BY <1>4 DEF FetchConfig, HandleConfig, Timeout, TimeoutFails, RecordChanges, SeeConfig,
                Coordinates, CoordinatorRestarts, all, client, instance, mirrored, history
  <2> QED
    BY <1>1, <2>1
<1>5. CASE ShadowArrives
  <2>1. UNCHANGED <<at, scenario, quiet>> /\ ~cold' /\ flying + serving # 0
    BY <1>0, <1>5 DEF ShadowArrives, MirroredTypes, client, history
  <2> QED
    BY <1>2, <2>1
<1>6. CASE ShadowCounted
  <2>1. UNCHANGED <<at, scenario, quiet, cold>> /\ flying + serving # 0
    BY <1>0, <1>6 DEF ShadowCounted, MirroredTypes, client, history
  <2> QED
    BY <2>1 DEF Name
<1>7. CASE ShadowLost
  <2>1. UNCHANGED <<at, scenario, quiet, cold>> /\ flying + serving # 0
    BY <1>0, <1>7 DEF ShadowLost, MirroredTypes, client, history, instance
  <2> QED
    BY <2>1 DEF Name
<1>8. CASE SendShadow \/ Work
  <2>1. at # "probe" /\ UNCHANGED at
    BY <1>0, <1>8 DEF SendShadow, Work, Driven, client
  <2> QED
    BY <2>1
<1> QED
  BY <1>3, <1>4, <1>5, <1>6, <1>7, <1>8 DEF NextAll, Instance, Proxy

(* What a valid run measured is what its scenario is meant to measure,     *)
(* although the state was read some steps before the probe.                *)
THEOREM ProbesMeasure == SpecAll => []ProbedAsIntended
<1>1. InitAll => Checked /\ ProbedAsIntended
  BY DEF InitAll, Checked, ProbedAsIntended
<1>2. TypeAll /\ Checked /\ ProbedAsIntended /\ [NextAll]_all => Checked' /\ ProbedAsIntended'
  <2> SUFFICES ASSUME TypeAll, Checked, ProbedAsIntended, [NextAll]_all
               PROVE  ProbedAsIntended'
    BY CheckedStep
  <2>1. CASE Probe
    <3>1. record'.scenario = Name /\ record'.quiet = quiet /\ record'.cold = cold
      BY <2>1 DEF Probe
    <3>2. at = "probe"
      BY <2>1 DEF Probe
    <3> QED
      BY <3>1, <3>2 DEF Checked, ProbedAsIntended
  <2>2. CASE ~Probe
    <3>1. record' \in {record, None}
      BY <2>2 DEF NextAll, all, history, Client, ResetWarmup, PostWarmup, BaselineMirror, Answered,
                  StartSession, WaitSessionHolding, LoadEnds, Complete, WaitReady, Check,
                  ProbeFails, Fail, Instance, FetchConfig, HandleConfig, Timeout, TimeoutFails,
                  ShadowArrives, ShadowCounted, RecordChanges, Proxy, SeeConfig, SendShadow,
                  ShadowLost, Work, Coordinates, CoordinatorRestarts
    <3> QED
      BY <3>1 DEF ProbedAsIntended
  <2> QED
    BY <2>1, <2>2
<1> QED
  BY <1>1, <1>2, TypeAllInit, TypeAllStep, PTL DEF SpecAll


-----------------------------------------------------------------------------
(* The client moves on when it has its answer, sees its session hold or    *)
(* has none.                                                               *)
Between == {"reset", "warmup", "waitready", "check", "probe"}

Advances ==
  \/ at' = at \/ at' = "failed"
  \/ at \in Between /\ at' \in Between \cup {"baseline", "done"}
  \/ at = "putting" /\ at' = "start" /\ pc[mine] = "ok"
  \/ at = "poll" /\ at' = "load" /\ Status(sid) = "holding"
  \/ at = "completing" /\ at' = "waitready" /\ pc[mine] = "ok"

(* The coordinator is left alone meanwhile.                                *)
LEMMA InOrderAdvance ==
  ASSUME InOrder, Advances, UNCHANGED <<sessions, config, pc, out, sid, mine>>
  PROVE  InOrder'
<1> USE DEF InOrder, Advances, Between
<1>1. /\ Underways' = Underways /\ Open' = Open /\ Status(sid)' = Status(sid)
      /\ \A c \in Completers \cup Putters : Writing(c)' = Writing(c)
  BY DEF Underways, Open, Status, Exists, Writing
<1>2. OneRamp'
  BY <1>1 DEF OneRamp
<1>3. OneAnswer'
  <2>1. ASSUME NEW c \in Completers \cup Putters, Writing(c)
        PROVE  c = mine /\ at' \in {"putting", "completing", "failed"}
    <3>1. c = mine /\ at \in {"putting", "completing", "failed"} /\ pc[c] # "ok"
      BY <2>1 DEF OneAnswer, Writing
    <3> QED
      BY <3>1
  <2> QED
    BY <1>1, <2>1 DEF OneAnswer
<1>4. OneOpen'
  BY <1>1 DEF OneOpen
<1>5. Seen'
  BY <1>1 DEF Seen
<1>6. Ended' /\ ProbesUnmirrored'
  BY DEF Ended, ProbesUnmirrored, Mirrors
<1> QED
  BY <1>2, <1>3, <1>4, <1>5, <1>6

(* A write of one of the client's requests is answered with success only   *)
(* when it has taken effect.                                               *)
LEMMA OkIsWritten ==
  ASSUME TypeInv, NEW c \in Completers \cup Putters, WriteMirrorConfig(c), pc'[c] = "ok"
  PROVE  config' = out[c]
<1>1. c \in Writers /\ c \notin Ramps /\ pc \in [Writers -> {"idle", "write", "create", "next",
         "check", "hold", "finish", "done", "ok", "error"}]
  BY WriterKinds DEF TypeInv, TypeOK
<1>2. ~ExistsNot(c)
  BY <1>1 DEF ExistsNot
<1>3. ~WriteFails(c)
  BY <1>1 DEF WriteFails, AfterWrite
<1> QED
  BY <1>2, <1>3 DEF WriteMirrorConfig, Set, Create, Written

(* One of the client's requests writes.                                    *)
LEMMA InOrderAnswer ==
  ASSUME TypeAll, InOrder, NEW c \in Completers \cup Putters, WriteMirrorConfig(c),
         UNCHANGED client
  PROVE  InOrder'
<1> USE DEF InOrder
<1>1. UNCHANGED <<at, sid, mine, sessions, out>>
  BY DEF client, WriteMirrorConfig, Set, ExistsNot, Create, WriteFails, Written
<1>2. c \in Writers /\ c \notin Ramps /\ Writing(c) /\ TypeInv
  BY WriterKinds DEF TypeAll, WriteMirrorConfig, Set, ExistsNot, Create, WriteFails, Writing
<1>3. c = mine /\ at \in {"putting", "completing", "failed"} /\ ~out[c].enabled
  BY <1>2 DEF OneAnswer, Writing
<1>4. \A w \in Writers : w # c => pc'[w] = pc[w]
  BY <1>2, WriteMoves DEF GoesOnToCreate, WriteEnds, TypeInv, TypeOK
<1>5. Underways' = Underways /\ Open' = Open /\ Status(sid)' = Status(sid)
  BY <1>1, <1>2, <1>4, WriterKinds DEF Underways, Open, Status, Exists
<1>6. OneRamp' /\ OneOpen' /\ Seen'
  BY <1>1, <1>5 DEF OneRamp, OneOpen, Seen
<1>7. OneAnswer'
  BY <1>1, <1>2, <1>3, <1>4, WriterKinds DEF OneAnswer, Writing
<1>8. Ended'
  <2>1. ASSUME pc'[c] = "ok" PROVE ~Mirrors(config')
    <3>1. config' = out[c]
      BY <1>2, <2>1, OkIsWritten
    <3> QED
      BY <1>3, <3>1 DEF Mirrors
  <2> QED
    BY <1>1, <1>3, <2>1 DEF Ended, Mirrors
<1>9. ProbesUnmirrored'
  BY <1>1, <1>3 DEF ProbesUnmirrored
<1> QED
  BY <1>6, <1>7, <1>8, <1>9

(* The ramp of the session that is polled for goes on or ends.             *)
LEMMA InOrderRamp ==
  ASSUME TypeAll, InOrder, NEW r \in Ramps, Ramp(r), UNCHANGED client
  PROVE  InOrder'
<1> USE DEF InOrder
<1>0. UNCHANGED <<at, sid, mine>> /\ r \in Writers /\ TypeInv
  BY WriterKinds DEF client, TypeAll
<1>1. pc[r] \notin {"idle", "done"} /\ r \in Underways
  BY DEF Ramp, WriteMirrorConfig, Set, ExistsNot, Create, WriteFails, Writing, RampNext, RampCheck,
         HoldMore, HoldEnds, Finish, Underways
<1>2. /\ at \in {"poll", "failed"} /\ out[r].session = sid /\ Status(sid) \in {"running", "none"}
      /\ \A q \in Underways : q = r
  BY <1>1 DEF OneRamp
<1>3. sid \in Ids
  BY <1>0, <1>1, <1>2 DEF TypeInv, Kinds
<1>4. \A w \in Writers : w # r => pc'[w] = pc[w] /\ out'[w] = out[w]
  <2>1. CASE WriteMirrorConfig(r)
    BY <1>0, <2>1, WriteMoves DEF GoesOnToCreate, WriteEnds, TypeInv, TypeOK
  <2>2. CASE Finish(r)
    BY <1>0, <2>2 DEF Finish, TypeInv, TypeOK
  <2>3. CASE RampNext(r) \/ RampCheck(r) \/ HoldMore(r) \/ HoldEnds(r)
    BY <1>0, <2>3, RampMoved DEF RampMoves, TypeInv, TypeOK
  <2> QED
    BY <2>1, <2>2, <2>3 DEF Ramp
<1>5. out'[r].session = sid
  <2>1. CASE WriteMirrorConfig(r) \/ Finish(r)
    BY <1>2, <2>1 DEF WriteMirrorConfig, Set, ExistsNot, Create, WriteFails, Written, Finish
  <2>2. CASE RampNext(r) \/ RampCheck(r) \/ HoldMore(r) \/ HoldEnds(r)
    BY <1>0, <1>2, <2>2, RampMoved, RatioChanges DEF RampMoves, TypeInv
  <2> QED
    BY <2>1, <2>2 DEF Ramp
<1>6. \A q \in Underways' : q = r
  BY <1>2, <1>4, WriterKinds DEF Underways
<1>7. OneAnswer'
  BY <1>0, <1>4, WriterKinds DEF OneAnswer, Writing
<1>8. Seen' /\ Ended' /\ ProbesUnmirrored'
  BY <1>0, <1>2 DEF Seen, Ended, ProbesUnmirrored
<1>9. OneRamp' /\ OneOpen'
  <2>1. CASE Finish(r)
    <3>1. Underways' = {}
      BY <1>0, <1>6, <2>1 DEF Finish, Underways, TypeInv, TypeOK
    <3>2. \A id \in Ids : id # sid => Status(id)' = Status(id)
      BY <1>2, <2>1 DEF Finish, Status, Exists
    <3>3. OneRamp'
      BY <3>1 DEF OneRamp
    <3>4. OneOpen'
      BY <1>0, <1>2, <3>2 DEF OneOpen, Open
    <3> QED
      BY <3>3, <3>4
  <2>2. CASE ~Finish(r)
    <3>1. UNCHANGED sessions
      BY <2>2 DEF Ramp, WriteMirrorConfig, Set, ExistsNot, Create, WriteFails, Written, RampNext,
                  RampCheck, HoldMore, HoldEnds
    <3>2. Open' = Open /\ Status(sid)' = Status(sid)
      BY <1>0, <3>1 DEF Open, Status, Exists
    <3> QED
      BY <1>0, <1>2, <1>5, <1>6, <3>2 DEF OneRamp, OneOpen
  <2> QED
    BY <2>1, <2>2
<1> QED
  BY <1>7, <1>8, <1>9


(* The client turns mirroring off before a session.                        *)
LEMMA InOrderBaseline ==
  ASSUME TypeAll, InOrder, BaselineMirror
  PROVE  InOrder'
<1> USE DEF InOrder
<1> PICK p \in Putters : p = Free(Putters)
  BY Chosen DEF BaselineMirror
<1>2. /\ at = "baseline" /\ at' = "putting" /\ mine' = p /\ UNCHANGED <<sid, sessions, config>>
      /\ pc' = [pc EXCEPT ![p] = "write"]
      /\ out' = [out EXCEPT ![p] = Baseline]
  BY DEF BaselineMirror, SetMirrorConfig
<1>3. /\ p \in Writers /\ p \notin Ramps /\ ~out'[p].enabled /\ pc'[p] = "write"
      /\ \A w \in Writers : w # p => pc'[w] = pc[w] /\ out'[w] = out[w]
  BY <1>2, WriterKinds, BaselineIsPlain DEF TypeAll, TypeInv, TypeOK
<1>4. Underways = {} /\ Open = {} /\ \A c \in Completers \cup Putters : ~Writing(c)
  BY <1>2 DEF OneRamp, OneOpen, OneAnswer
<1>5. Underways' = {} /\ Open' = {}
  BY <1>2, <1>3, <1>4, WriterKinds DEF Underways, Open, Status, Exists
<1>6. OneAnswer'
  BY <1>2, <1>3, <1>4, WriterKinds DEF OneAnswer, Writing
<1> QED
  BY <1>2, <1>5, <1>6 DEF OneRamp, OneOpen, Seen, Ended, ProbesUnmirrored

(* It starts a session, none being open and no ramp under way.             *)
LEMMA InOrderStart ==
  ASSUME TypeAll, InOrder, StartSession
  PROVE  InOrder'
<1> USE DEF InOrder
<1> PICK r \in Ramps, id \in Ids : r = Free(Ramps) /\ id = NewId
  BY Chosen DEF StartSession
<1>2. /\ at = "start" /\ at' = "poll" /\ sid' = id /\ UNCHANGED <<mine, config>>
      /\ sessions' = [sessions EXCEPT ![id] = [status |-> "running", target |-> Warm,
                                               active |-> Active]]
      /\ pc' = [pc EXCEPT ![r] = "write"]
      /\ out' = [out EXCEPT ![r] = [enabled |-> TRUE, ratio |-> 0, target |-> Warm,
                                    active |-> Active, session |-> id]]
  BY DEF StartSession, CreateSession
<1>3. /\ r \in Writers /\ r \notin Completers \cup Putters /\ out'[r].session = id
      /\ \A w \in Writers : w # r => pc'[w] = pc[w] /\ out'[w] = out[w]
  BY <1>2, WriterKinds DEF TypeAll, TypeInv, TypeOK
<1>4. Underways = {} /\ Open = {} /\ \A c \in Completers \cup Putters : ~Writing(c)
  BY <1>2 DEF OneRamp, OneOpen, OneAnswer
<1>5. \A q \in Underways' : q = r
  BY <1>3, <1>4, WriterKinds DEF Underways
<1>6. /\ sessions'[id].status = "running"
      /\ \A other \in Ids : other # id => sessions'[other] = sessions[other]
  BY <1>2 DEF TypeAll, TypeInv, TypeOK
<1>7. Status(id)' \in {"running", "none"} /\ \A other \in Open' : other = id
  BY <1>4, <1>6 DEF Open, Status, Exists
<1>8. OneRamp'
  <2>1. Status(sid)' \in {"running", "none"}
    BY <1>2, <1>7 DEF Status, Exists
  <2> QED
    BY <1>2, <1>3, <1>5, <2>1 DEF OneRamp
<1>9. OneAnswer'
  BY <1>3, <1>4, WriterKinds DEF OneAnswer, Writing
<1> QED
  BY <1>2, <1>7, <1>8, <1>9 DEF OneOpen, Seen, Ended, ProbesUnmirrored

(* A session that still exists when the load is over is the one it saw.    *)
LEMMA SeenHolding ==
  ASSUME TypeAll, InOrder, at = "load", Exists(sid)
  PROVE  Status(sid) = "holding"
<1>1. Status(sid) \in {"holding", "none"}
  BY DEF InOrder, Seen
<1>2. sessions[sid] \in Session
  BY DEF Exists, TypeAll, TypeInv, TypeOK, Driven
<1> QED
  BY <1>1, <1>2 DEF Status, Session

(* It completes the session it saw hold.                                   *)
LEMMA InOrderComplete ==
  ASSUME TypeAll, InOrder, Complete
  PROVE  InOrder'
<1> USE DEF InOrder
<1> PICK c \in Completers : c = Free(Completers)
  BY Chosen DEF Complete
<1>1. sid \in Ids /\ TypeOK
  BY DEF Complete, TypeAll, Driven, TypeInv
<1>2. /\ at = "load" /\ at' = "completing" /\ mine' = c /\ UNCHANGED <<sid, config>>
      /\ CompleteSession(c, sid)
  <2>1. CompleteSession(c, sid)
    BY DEF Complete
  <2>2. UNCHANGED config
    BY <2>1 DEF CompleteSession
  <2> QED
    BY <2>1, <2>2 DEF Complete
<1>3. Status(sid) = "holding" /\ Exists(sid)
  BY <1>2, SeenHolding DEF CompleteSession
<1>4. /\ out' = [out EXCEPT ![c] = Promotion(sid)] /\ pc' = [pc EXCEPT ![c] = "write"]
      /\ sessions' = [sessions EXCEPT ![sid].active = sessions[sid].target,
                                      ![sid].status = "completed"]
  BY <1>2, <1>3 DEF CompleteSession
<1>5. /\ c \in Writers /\ c \notin Ramps /\ ~out'[c].enabled /\ pc'[c] = "write"
      /\ \A w \in Writers : w # c => pc'[w] = pc[w] /\ out'[w] = out[w]
  BY <1>1, <1>4, WriterKinds DEF TypeOK, Promotion
<1>6. /\ Underways = {} /\ \A id \in Open : id = sid
      /\ \A d \in Completers \cup Putters : ~Writing(d)
  BY <1>2 DEF OneRamp, OneOpen, OneAnswer
<1>7. /\ sessions'[sid].status = "completed"
      /\ \A other \in Ids : other # sid => sessions'[other] = sessions[other]
  BY <1>1, <1>3, <1>4, SessionChanges
<1>8. Underways' = {} /\ Open' = {}
  BY <1>5, <1>6, <1>7, WriterKinds DEF Underways, Open, Status, Exists
<1>9. OneAnswer'
  BY <1>1, <1>2, <1>5, <1>6, WriterKinds DEF OneAnswer, Writing
<1> QED
  BY <1>2, <1>5, <1>8, <1>9 DEF OneRamp, OneOpen, Seen, Ended, ProbesUnmirrored

(* A restart of the coordinator ends all that is under way and forgets the *)
(* sessions; it takes no config back.                                      *)
LEMMA InOrderRestart ==
  ASSUME TypeAll, InOrder, CoordinatorRestarts
  PROVE  InOrder'
<1> USE DEF InOrder
<1>1. /\ UNCHANGED <<at, sid, mine, config, out>>
      /\ sessions' = [id \in Ids |-> None]
      /\ \A w \in Writers : pc'[w] = IF pc[w] \in {"idle", "ok"} THEN pc[w]
                                     ELSE IF w \in Ramps THEN "done" ELSE "error"
  BY DEF CoordinatorRestarts, client
<1>2. \A id \in Ids : Status(id)' = "none"
  BY <1>1 DEF Status, Exists
<1>3. Underways' = {} /\ Open' = {}
  BY <1>1, <1>2, WriterKinds DEF Underways, Open, TypeAll, TypeInv, Kinds, RampPoints
<1>4. OneAnswer'
  BY <1>1, WriterKinds DEF OneAnswer, Writing
<1>5. Seen'
  <2>1. at = "load" => sid \in Ids
    BY DEF TypeAll, Driven
  <2> QED
    BY <1>1, <1>2, <2>1 DEF Seen, Status, Exists
<1>6. Ended'
  <2>1. at = "completing" => mine \in Completers
    BY DEF TypeAll, Driven
  <2> QED
    BY <1>1, <2>1, WriterKinds DEF Ended, Mirrors
<1> QED
  BY <1>1, <1>3, <1>4, <1>5, <1>6 DEF OneRamp, OneOpen, ProbesUnmirrored, Mirrors

(* Every step keeps the order.                                             *)
LEMMA InOrderStep ==
  ASSUME TypeAll, InOrder, [NextAll]_all
  PROVE  InOrder'
<1>0. ClientTypes /\ Driven
  BY TypeParts DEF TypeAll
<1>1. CASE Coordinates
  <2>1. UNCHANGED client
    BY <1>1 DEF Coordinates
  <2> QED
    BY <1>1, <2>1, InOrderRamp, InOrderAnswer DEF Coordinates
<1>2. CASE Instance \/ Proxy \/ UNCHANGED all
  <2>1. UNCHANGED <<sessions, config, pc, out, client>>
    BY <1>2 DEF Instance, FetchConfig, HandleConfig, Timeout, TimeoutFails, ShadowArrives,
                ShadowCounted, RecordChanges, BecomeReady, BecomeUnready, Proxy, SeeConfig,
                SendShadow, ShadowLost, Work, all, vars
  <2> QED
    BY <2>1, InOrderAdvance DEF client, Advances
<1>3. CASE Check \/ Probe \/ ProbeFails
  <2>1. /\ UNCHANGED <<sessions, config, pc, out, sid, mine>>
        /\ at \in {"check", "probe"} /\ valid \in 0 .. MaxRuns /\ valid + 1 \in 0 .. MaxRuns
    <3>1. UNCHANGED <<sessions, config, pc, out, sid, mine>> /\ at \in {"check", "probe"}
      BY <1>3 DEF Check, Probe, ProbeFails, vars
    <3>2. valid < MaxRuns
      BY <1>0, <3>1 DEF Driven
    <3> QED
      BY <1>0, <3>1, <3>2 DEF ClientTypes
  <2>2. at' = "probe" \/ \E v \in 0 .. MaxRuns : NextAttempt(v) \/ EndScenario(v)
    BY <1>3, <2>1 DEF Check, Probe, ProbeFails
  <2>3. Advances
    BY <1>0, <2>1, <2>2, AttemptEnds DEF Advances, Between
  <2> QED
    BY <2>1, <2>3, InOrderAdvance
<1>4. CASE ResetWarmup \/ PostWarmup \/ Answered("putting", "start") \/ WaitSessionHolding
           \/ LoadEnds \/ Answered("completing", "waitready") \/ WaitReady \/ Fail
  <2>1. UNCHANGED <<sessions, config, pc, out, sid, mine>>
    BY <1>4 DEF ResetWarmup, PostWarmup, Answered, WaitSessionHolding, LoadEnds, WaitReady, Fail,
                Move, vars
  <2>2. Advances
    BY <1>4 DEF ResetWarmup, PostWarmup, Answered, WaitSessionHolding, LoadEnds, WaitReady, Fail,
                Move, Advances, Between
  <2> QED
    BY <2>1, <2>2, InOrderAdvance
<1> QED
  BY <1>1, <1>2, <1>3, <1>4, InOrderBaseline, InOrderStart, InOrderComplete, InOrderRestart
  DEF NextAll, Client

(* The benchmark PUTs its baseline only, under no session's id.            *)
LEMMA PlainStep ==
  ASSUME TypeAll, PlainPuts, [NextAll]_all
  PROVE  PlainPuts'
<1> SUFFICES ASSUME NEW p \in Putters, pc'[p] # "idle" PROVE out'[p].session = None
  BY DEF PlainPuts
<1>0. TypeInv
  BY DEF TypeAll
<1>1. ASSUME pc[p] # "idle", out'[p] = out[p] PROVE out'[p].session = None
  BY <1>1 DEF PlainPuts
<1>2. CASE BaselineMirror
  <2>1. /\ Free(Putters) \in Putters /\ SetMirrorConfig(Free(Putters), Baseline)
        /\ Baseline \in MirrorConfig /\ Baseline.session = None
    BY <1>2, Chosen, BaselineIsPlain DEF BaselineMirror
  <2>2. CASE p = Free(Putters)
    BY <1>0, <2>1, <2>2, WriterKinds DEF SetMirrorConfig, TypeInv, TypeOK
  <2>3. CASE p # Free(Putters)
    BY <1>0, <1>1, <2>1, <2>3, PutsStay
  <2> QED
    BY <2>2, <2>3
<1>3. CASE StartSession
  <2>1. /\ Free(Ramps) \in Ramps /\ NewId \in Ids
        /\ CreateSession(Free(Ramps), NewId, Warm, Active)
    BY <1>3, Chosen DEF StartSession
  <2> QED
    BY <1>0, <1>1, <2>1, PutsStay, PartsAssumption
<1>4. CASE Complete
  <2>1. /\ Free(Completers) \in Completers /\ sid \in Ids
        /\ CompleteSession(Free(Completers), sid)
    BY <1>4, Chosen DEF Complete, TypeAll, Driven
  <2> QED
    BY <1>0, <1>1, <2>1, PutsStay
<1>5. CASE Coordinates
  BY <1>0, <1>1, <1>5, PutsStay, WriterKinds DEF Coordinates
<1>6. CASE CoordinatorRestarts
  BY <1>1, <1>6, WriterKinds DEF CoordinatorRestarts
<1>7. CASE RecordMoves \/ UNCHANGED vars
  BY <1>1, <1>7 DEF RecordMoves, vars
<1> QED
  BY <1>2, <1>3, <1>4, <1>5, <1>6, <1>7, RecordAlone

(* The order holds in every state.                                         *)
LEMMA Order == SpecAll => [](TypeAll /\ PlainPuts /\ InOrder)
<1>1. InitAll => InOrder
  <2> SUFFICES ASSUME InitAll PROVE InOrder
    OBVIOUS
  <2>1. /\ \A w \in Writers : pc[w] = "idle"
        /\ \A id \in Ids : Status(id) = "none"
        /\ config = None /\ at = "reset"
    BY DEF InitAll, Init, Status, Exists
  <2>2. /\ Underways = {} /\ Open = {}
        /\ \A c \in Completers \cup Putters : ~Writing(c) /\ pc[c] = "idle"
    BY <2>1, WriterKinds DEF Underways, Open, Writing
  <2> QED
    BY <2>1, <2>2 DEF InOrder, OneRamp, OneAnswer, OneOpen, Seen, Ended, ProbesUnmirrored, Mirrors
<1>2. TypeAll /\ InOrder /\ [NextAll]_all => InOrder'
  BY InOrderStep
<1>3. InitAll => PlainPuts
  BY RoutesInit, RoutesArePlain DEF InitAll
<1>4. TypeAll /\ PlainPuts /\ [NextAll]_all => PlainPuts'
  BY PlainStep
<1> QED
  BY <1>1, <1>2, <1>3, <1>4, TypeAllInit, TypeAllStep, PTL DEF SpecAll

(* No mirroring goes on while the client resets, checks and probes: no     *)
(* ramp of an earlier session, no promotion and no late write turns it on  *)
(* again, whatever fails and however often the coordinator restarts.       *)
THEOREM MeasuresUnmirrored == SpecAll => []ProbesUnmirrored
BY Order, PTL DEF InOrder


-----------------------------------------------------------------------------
(* What CoordinatorProofs shows of a coordinator whose ZooKeeper fails     *)
(* holds for the benchmark over restarts too: they begin nothing.          *)
LEMMA RestartsBeginNothing ==
  ASSUME TypeInv, CoordinatorRestarts \/ RecordMoves
  PROVE  GoesOn
<1>1. CASE RecordMoves
  BY <1>1 DEF RecordMoves, GoesOn, Started, Exists
<1>2. CASE CoordinatorRestarts
  <2>1. /\ \A w \in Writers : pc'[w] = "idle" <=> pc[w] = "idle"
        /\ \A id \in Ids : ~Exists(id)'
        /\ UNCHANGED <<out, config, promoted>>
    BY <1>2 DEF CoordinatorRestarts, Exists
  <2> QED
    BY <2>1, WriterKinds DEF GoesOn, Started
<1> QED
  BY <1>1, <1>2

LEMMA OwnedAll ==
  ~SameMs /\ TypeAll /\ PlainPuts /\ Owned /\ [NextAll]_all => Owned'
<1> SUFFICES ASSUME ~SameMs, TypeAll, PlainPuts, Owned, [NextAll]_all PROVE Owned'
  OBVIOUS
<1>0. TypeInv
  BY DEF TypeAll
<1>1. CASE Next \/ UNCHANGED vars
  BY <1>0, <1>1, OwnedStep
<1>2. CASE CoordinatorRestarts \/ RecordMoves
  BY <1>0, <1>2, RestartsBeginNothing, OwnedGoesOn
<1> QED
  BY <1>1, <1>2, CoordinatorMoves

LEMMA ClimbingAll ==
  ~SameMs /\ Ascending /\ TypeAll /\ PlainPuts /\ Owned /\ Climbing /\ [NextAll]_all
    => Climbing'
<1> SUFFICES ASSUME ~SameMs, Ascending, TypeAll, PlainPuts, Owned, Climbing, [NextAll]_all
             PROVE  Climbing'
  OBVIOUS
<1>0. TypeInv
  BY DEF TypeAll
<1>1. CASE Next \/ UNCHANGED vars
  BY <1>0, <1>1, ClimbingStep
<1>2. CASE CoordinatorRestarts \/ RecordMoves
  <2>1. UNCHANGED <<config, step, out>>
    BY <1>2 DEF CoordinatorRestarts, RecordMoves
  <2>2. \A r \in Ramps : pc'[r] \in {pc[r], "done"} /\ (pc[r] = "idle" => pc'[r] = "idle")
    BY <1>2, WriterKinds DEF CoordinatorRestarts, RecordMoves
  <2> QED
    BY <2>1, <2>2, LeftAlone DEF Climbing
<1> QED
  BY <1>1, <1>2, CoordinatorMoves

(* Nobody writes a config over a session's that mirrors less of it, over   *)
(* the faults, the retries and the restarts of a whole benchmark.          *)
THEOREM SharesGrow == ASSUME ~SameMs, Ascending PROVE SpecAll => RatioRises
<1>1. InitAll => Owned /\ Climbing
  <2>1. Init => Climbing
    BY WriterKinds DEF Init, Climbing, ClimbsOn, Started
  <2> QED
    BY <2>1, OwnedInit DEF InitAll
<1>2. TypeAll /\ PlainPuts /\ Owned /\ [NextAll]_all => Owned'
  BY OwnedAll
<1>3. TypeAll /\ PlainPuts /\ Owned /\ Climbing /\ [NextAll]_all => Climbing'
  BY ClimbingAll
<1>4. TypeAll /\ PlainPuts /\ Owned /\ Climbing /\ [NextAll]_all => [Rises]_vars
  <2>1. ASSUME TypeAll, PlainPuts, Owned, Climbing, [NextAll]_all PROVE Rises
    <3>0. TypeInv
      BY <2>1 DEF TypeAll
    <3>1. CASE Next \/ UNCHANGED vars
      <4>1. config' = config \/ \E w \in Writers : pc[w] # "idle" /\ config' = out[w]
        BY <2>1, <3>0, <3>1, Begins, CreateSessionOwned, CompleteSessionOwned DEF GoesOn
      <4> QED
        BY <2>1, <3>0, <4>1, ClimbingRises
    <3>2. CASE CoordinatorRestarts \/ RecordMoves
      <4>1. config' = config
        BY <3>2 DEF CoordinatorRestarts, RecordMoves
      <4> QED
        BY <2>1, <3>0, <4>1, ClimbingRises
    <3> QED
      BY <2>1, <3>1, <3>2, CoordinatorMoves
  <2> QED
    BY <2>1
<1> QED
  BY <1>1, <1>2, <1>3, <1>4, Order, PTL DEF SpecAll, RatioRises, Rises

(* The benchmark completes only what it has seen hold, and a session that  *)
(* was lost in a restart is answered as not found.                         *)
LEMMA SettledAll ==
  ~SameMs /\ TypeAll /\ PlainPuts /\ InOrder /\ Owned /\ Settled /\ [NextAll]_all => Settled'
<1> SUFFICES ASSUME ~SameMs, TypeAll, PlainPuts, InOrder, Owned, Settled, [NextAll]_all
             PROVE  Settled'
  OBVIOUS
<1>0. TypeInv
  BY DEF TypeAll
<1>1. CASE BaselineMirror
  <2>1. Free(Putters) \in Putters /\ SetMirrorConfig(Free(Putters), Baseline)
    BY <1>1, Chosen DEF BaselineMirror
  <2> QED
    BY <1>0, <2>1, SettledRoute
<1>2. CASE StartSession
  <2>1. /\ Free(Ramps) \in Ramps /\ NewId \in Ids
        /\ CreateSession(Free(Ramps), NewId, Warm, Active)
    BY <1>2, Chosen DEF StartSession
  <2> QED
    BY <1>0, <2>1, SettledCreate
<1>3. CASE Complete
  <2>1. /\ Free(Completers) \in Completers /\ at = "load" /\ sid \in Ids
        /\ CompleteSession(Free(Completers), sid)
    BY <1>3, Chosen DEF Complete, TypeAll, Driven
  <2>2. Status(sid) = "holding"
    BY <2>1, SeenHolding DEF CompleteSession
  <2> QED
    BY <1>0, <2>1, <2>2, SettledComplete
<1>4. CASE Coordinates
  BY <1>0, <1>4, SettledRamp, SettledWrite, WriterKinds DEF Coordinates
<1>5. CASE CoordinatorRestarts
  <2>1. /\ UNCHANGED <<config, promoted, out>>
        /\ \A r \in Ramps : ~Underway(r)'
        /\ \A c \in Completers : /\ pc'[c] # "idle" => pc[c] # "idle"
                                 /\ pc'[c] = "ok" => pc[c] = "ok"
    BY <1>0, <1>5, WriterKinds DEF CoordinatorRestarts, Underway, TypeInv, Kinds, RampPoints
  <2> QED
    BY <2>1, SettledStays
<1>6. CASE RecordMoves \/ UNCHANGED vars
  <2>1. UNCHANGED <<sessions, config, pc, out, promoted>>
    BY <1>6 DEF RecordMoves, vars
  <2> QED
    BY <2>1, SettledStays DEF Underway, Status, Exists
<1> QED
  BY <1>1, <1>2, <1>3, <1>4, <1>5, <1>6, RecordAlone

LEMMA SettledThroughout == ASSUME ~SameMs PROVE SpecAll => []Settled
<1>1. InitAll => Owned /\ Settled
  BY OwnedInit, SettledInit DEF InitAll
<1>2. TypeAll /\ PlainPuts /\ Owned /\ [NextAll]_all => Owned'
  BY OwnedAll
<1>3. TypeAll /\ PlainPuts /\ InOrder /\ Owned /\ Settled /\ [NextAll]_all => Settled'
  BY SettledAll
<1> QED
  BY <1>1, <1>2, <1>3, Order, PTL DEF SpecAll

(* The promotion of the benchmark's session is not undone by what an       *)
(* earlier request, a ramp or a restart has left behind (main.go:166-283). *)
THEOREM PromotionsLast == ASSUME ~SameMs PROVE SpecAll => []PromotionFinal
BY SettledThroughout, PTL DEF Settled

(* CompleteSession's answer can be believed (coord/client.go:137): nothing *)
(* but a promotion that was written is answered with success.              *)
THEOREM AnswersTruly == ASSUME ~SameMs PROVE SpecAll => []AnsweredIsPromoted
<1>1. Settled => AnsweredIsPromoted
  BY DEF Settled, Answers, AnsweredIsPromoted
<1> QED
  BY SettledThroughout, <1>1, PTL

-----------------------------------------------------------------------------
(* What the coordinator does of itself is the same for every client.       *)
LEMMA SameWrite ==
  ASSUME NEW w, WriteMirrorConfig(w)
  PROVE  Protocol!WriteMirrorConfig(w)
<1>1. First = Protocol!First /\ Hold = Protocol!Hold /\ Last = Protocol!Last
  BY DEF First, Hold, Last, Protocol!First, Protocol!Hold, Protocol!Last
<1>2. ASSUME NEW ok PROVE AfterWrite(w, ok) <=> Protocol!AfterWrite(w, ok)
  BY <1>1 DEF AfterWrite, Protocol!AfterWrite
<1>3. Written(w) => Protocol!Written(w)
  BY <1>2 DEF Written, Protocol!Written
<1>4. CASE Set(w)
  BY <1>3, <1>4 DEF Set, Protocol!WriteMirrorConfig, Protocol!Set
<1>5. CASE ExistsNot(w)
  BY <1>5 DEF ExistsNot, Protocol!WriteMirrorConfig, Protocol!ExistsNot
<1>6. CASE Create(w)
  BY <1>3, <1>6 DEF Create, Protocol!WriteMirrorConfig, Protocol!Create
<1>7. CASE WriteFails(w)
  BY <1>2, <1>7 DEF WriteFails, Writing, Protocol!WriteMirrorConfig, Protocol!WriteFails,
                    Protocol!Writing
<1> QED
  BY <1>4, <1>5, <1>6, <1>7 DEF WriteMirrorConfig

(* So is a ramp between its writes and at its end.                         *)
LEMMA SameRamp ==
  ASSUME NEW r, Ramp(r)
  PROVE  Protocol!Ramp(r)
<1>1. First = Protocol!First /\ Hold = Protocol!Hold /\ Last = Protocol!Last
  BY DEF First, Hold, Last, Protocol!First, Protocol!Hold, Protocol!Last
<1>2. ASSUME NEW n, NEW x PROVE WriteNext(r, n, x) <=> Protocol!WriteNext(r, n, x)
  BY DEF WriteNext, Protocol!WriteNext
<1>3. NextStep(r) => Protocol!NextStep(r)
  BY <1>2 DEF NextStep, Protocol!NextStep
<1>4. ASSUME NEW i PROVE (SeesReady(i) <=> Protocol!SeesReady(i))
                         /\ (MissesReady(i) <=> Protocol!MissesReady(i))
  BY DEF SeesReady, MissesReady, Protocol!SeesReady, Protocol!MissesReady
<1>5. CASE WriteMirrorConfig(r)
  BY <1>5, SameWrite DEF Protocol!Ramp
<1>6. CASE RampNext(r)
  BY <1>3, <1>6 DEF RampNext, Protocol!Ramp, Protocol!RampNext
<1>7. CASE RampCheck(r)
  BY <1>3, <1>4, <1>7 DEF RampCheck, Protocol!Ramp, Protocol!RampCheck
<1>8. CASE HoldMore(r)
  BY <1>1, <1>2, <1>4, <1>8 DEF HoldMore, Protocol!Ramp, Protocol!HoldMore
<1>9. CASE HoldEnds(r)
  BY <1>1, <1>2, <1>9 DEF HoldEnds, Protocol!Ramp, Protocol!HoldEnds
<1>10. CASE Finish(r)
  BY <1>10 DEF Finish, Exists, Protocol!Ramp, Protocol!Finish, Protocol!Exists
<1> QED
  BY <1>5, <1>6, <1>7, <1>8, <1>9, <1>10 DEF Ramp

(* A request of a client that has nothing else under way is one of the     *)
(* protocol's.                                                             *)
LEMMA Idle ==
  ASSUME OneRamp, OneAnswer, OneOpen, at \notin {"putting", "completing", "failed"}
  PROVE  /\ Protocol!ClientIdle
         /\ at \notin {"poll", "load"} => Protocol!Open = {}
<1>1. Protocol!ClientIdle
  BY DEF OneAnswer, Writing, Protocol!ClientIdle, Protocol!Writing
<1>2. Protocol!Open = Open
  BY DEF Open, Status, Exists, Protocol!Open, Protocol!Status, Protocol!Exists
<1>3. at \notin {"poll", "load"} => Open = {}
  BY DEF OneOpen, Open
<1> QED
  BY <1>1, <1>2, <1>3

(* The instance's record may change at any time.                           *)
LEMMA RecordFree == RecordMoves => Protocol!Next \/ UNCHANGED vars
<1> SUFFICES ASSUME RecordMoves PROVE Protocol!Next \/ UNCHANGED vars
  OBVIOUS
<1>1. CASE ready' = ready
  BY <1>1 DEF RecordMoves, vars
<1>2. CASE ready' # ready
  <2>1. Protocol!BecomeReady(Warm) \/ Protocol!BecomeUnready(Warm)
    BY <1>2 DEF RecordMoves, Protocol!BecomeReady, Protocol!BecomeUnready
  <2> QED
    BY <2>1, PartsAssumption DEF Protocol!Next
<1> QED
  BY <1>1, <1>2

(* Every step is one of the protocol's, a restart, or none of the          *)
(* coordinator's.                                                          *)
LEMMA ProtocolStep ==
  ASSUME TypeAll, InOrder, [NextAll]_all
  PROVE  Protocol!Next \/ CoordinatorRestarts \/ UNCHANGED vars
<1>0. OneRamp /\ OneAnswer /\ OneOpen
  BY DEF InOrder
<1>1. CASE BaselineMirror
  <2>1. Free(Putters) \in Putters /\ pc[Free(Putters)] = "idle" /\ at = "baseline"
    BY <1>1, Chosen DEF BaselineMirror
  <2>2. SetMirrorConfig(Free(Putters), Baseline)
    BY <1>1 DEF BaselineMirror
  <2>3. Protocol!MayPut(Baseline)
    BY <1>0, <2>1, Idle, BaselineIsPlain, PartsAssumption DEF Protocol!MayPut, Protocol!MayStart
  <2>4. Protocol!SetMirrorConfig(Free(Putters), Baseline)
    BY <2>2, <2>3 DEF SetMirrorConfig, Protocol!SetMirrorConfig
  <2>5. Baseline \in Protocol!MirrorConfig
    BY BaselineIsPlain DEF MirrorConfig, Protocol!MirrorConfig
  <2> QED
    BY <2>1, <2>4, <2>5 DEF Protocol!Next
<1>2. CASE StartSession
  <2>1. Free(Ramps) \in Ramps /\ NewId \in Ids /\ at = "start"
    BY <1>2, Chosen DEF StartSession
  <2>2. CreateSession(Free(Ramps), NewId, Warm, Active)
    BY <1>2 DEF StartSession
  <2>3. Protocol!MayStart
    BY <1>0, <2>1, Idle DEF Protocol!MayStart
  <2>4. Protocol!CreateSession(Free(Ramps), NewId, Warm, Active)
    BY <2>2, <2>3 DEF CreateSession, Protocol!CreateSession
  <2> QED
    BY <2>1, <2>4, PartsAssumption DEF Protocol!Next
<1>3. CASE Complete
  <2>1. Free(Completers) \in Completers /\ at = "load" /\ sid \in Ids
    BY <1>3, Chosen DEF Complete, TypeAll, Driven
  <2>2. CompleteSession(Free(Completers), sid)
    BY <1>3 DEF Complete
  <2>3. Status(sid) = "holding"
    BY <2>1, <2>2, SeenHolding DEF CompleteSession
  <2>4. Protocol!MayComplete(sid)
    <3>1. Protocol!Status(sid) = "holding"
      BY <2>3 DEF Status, Exists, Protocol!Status, Protocol!Exists
    <3> QED
      BY <1>0, <2>1, <3>1, Idle DEF Protocol!MayComplete
  <2>5. Protocol!CompleteSession(Free(Completers), sid)
    BY <2>2, <2>4 DEF CompleteSession, Promotion, Status, Exists, Protocol!CompleteSession,
                      Protocol!Promotion, Protocol!Status, Protocol!Exists
  <2> QED
    BY <2>1, <2>5 DEF Protocol!Next
<1>4. CASE Coordinates
  <2>1. ASSUME NEW w \in Completers \cup Putters, WriteMirrorConfig(w) PROVE Protocol!Next
    BY <2>1, SameWrite DEF Protocol!Next
  <2>2. ASSUME NEW r \in Ramps, Ramp(r) PROVE Protocol!Next
    BY <2>2, SameRamp DEF Protocol!Next
  <2> QED
    BY <1>4, <2>1, <2>2 DEF Coordinates
<1> QED
  BY <1>1, <1>2, <1>3, <1>4, RecordAlone, RecordFree

(* The benchmark, with its retries and failures, keeps to the protocol     *)
(* that the theorems of CoordinatorProofs assume of a client, but for the  *)
(* restarts of the coordinator itself.                                     *)
THEOREM KeepsProtocol == SpecAll => ProtocolKept
<1>1. TypeAll /\ InOrder /\ [NextAll]_all
        => [UNCHANGED vars \/ CoordinatorRestarts \/ Protocol!Next]_all
  BY ProtocolStep
<1> QED
  BY <1>1, Order, PTL DEF SpecAll, ProtocolKept

-----------------------------------------------------------------------------
(* So what is proved of the coordinator for such a client is proved for    *)
(* the benchmark, whose own guards take the place of the protocol's, as    *)
(* long as ZooKeeper answers and the coordinator is not restarted.         *)
Kept == INSTANCE CoordinatorProofs WITH OneAtATime <- TRUE

(* Its assumptions are Coordinator's.                                      *)
LEMMA KeptAssumptions ==
  /\ Kept!WritersAssumption /\ Kept!RatiosAssumption
  /\ Kept!SwitchesAssumption /\ Kept!NoneAssumption
<1>1. Kept!WritersAssumption
  BY WritersAssumption DEF Kept!WritersAssumption
<1>2. Kept!RatiosAssumption
  BY RatiosAssumption DEF Kept!RatiosAssumption
<1>3. Kept!SwitchesAssumption
  BY SwitchesAssumption DEF Kept!SwitchesAssumption
<1>4. Kept!NoneAssumption
  BY NoneAssumption DEF Kept!NoneAssumption, Session, MirrorConfig, Kept!Session, Kept!MirrorConfig
<1> QED
  BY <1>1, <1>2, <1>3, <1>4

(* The steps of the protocol are the same wherever it is instantiated.     *)
LEMMA SameNext == Protocol!Next => Kept!Next
BY Zenon DEF Protocol!Next, Kept!Next, Protocol!Ramp, Kept!Ramp, Protocol!WriteMirrorConfig,
             Kept!WriteMirrorConfig, Protocol!Set, Kept!Set, Protocol!ExistsNot, Kept!ExistsNot,
             Protocol!Create, Kept!Create, Protocol!WriteFails, Kept!WriteFails,
             Protocol!Written, Kept!Written, Protocol!AfterWrite, Kept!AfterWrite,
             Protocol!Writing, Kept!Writing, Protocol!First, Kept!First, Protocol!Hold,
             Kept!Hold, Protocol!Last, Kept!Last, Protocol!RampNext, Kept!RampNext,
             Protocol!RampCheck, Kept!RampCheck, Protocol!HoldMore, Kept!HoldMore,
             Protocol!HoldEnds, Kept!HoldEnds, Protocol!Finish, Kept!Finish, Protocol!NextStep,
             Kept!NextStep, Protocol!WriteNext, Kept!WriteNext, Protocol!SeesReady,
             Kept!SeesReady, Protocol!MissesReady, Kept!MissesReady, Protocol!Exists,
             Kept!Exists, Protocol!CreateSession, Kept!CreateSession, Protocol!MayStart,
             Kept!MayStart, Protocol!ClientIdle, Kept!ClientIdle, Protocol!Open, Kept!Open,
             Protocol!Status, Kept!Status, Protocol!CompleteSession, Kept!CompleteSession,
             Protocol!MayComplete, Kept!MayComplete, Protocol!Promotion, Kept!Promotion,
             Protocol!SetMirrorConfig, Kept!SetMirrorConfig, Protocol!MayPut, Kept!MayPut,
             Protocol!MirrorConfig, Kept!MirrorConfig, Protocol!DeleteSession,
             Kept!DeleteSession, Protocol!BecomeReady, Kept!BecomeReady, Protocol!BecomeUnready,
             Kept!BecomeUnready

(* So is the session as a client sees it.                                  *)
LEMMA SameSession ==
  /\ Kept!Warmup!Next => Warmup!Next
  /\ UNCHANGED Kept!Warmup!vars => UNCHANGED Warmup!vars
  /\ Kept!Warmup!Init => Warmup!Init
<1>1. Kept!Warmup!Next => Warmup!Next
  BY Zenon DEF Warmup!Next, Kept!Warmup!Next, Warmup!Start, Kept!Warmup!Start, Warmup!Mirror,
               Kept!Warmup!Mirror, Warmup!Hold, Kept!Warmup!Hold, Warmup!Promote,
               Kept!Warmup!Promote, Warmup!Route, Kept!Warmup!Route, Warmup!Open,
               Kept!Warmup!Open, PlanOf, Kept!PlanOf, RampOf, Kept!RampOf, PhaseOf,
               Kept!PhaseOf, Status, Kept!Status, Exists, Kept!Exists, Mirroring,
               Kept!Mirroring, Routed, Kept!Routed
<1>2. UNCHANGED Kept!Warmup!vars => UNCHANGED Warmup!vars
  BY Zenon DEF Warmup!vars, Kept!Warmup!vars, PlanOf, Kept!PlanOf, RampOf, Kept!RampOf, PhaseOf,
               Kept!PhaseOf, Status, Kept!Status, Exists, Kept!Exists, Mirroring,
               Kept!Mirroring, Routed, Kept!Routed
<1>3. Kept!Warmup!Init => Warmup!Init
  BY Zenon DEF Warmup!Init, Kept!Warmup!Init, PlanOf, Kept!PlanOf, RampOf, Kept!RampOf, PhaseOf,
               Kept!PhaseOf, Status, Kept!Status, Exists, Kept!Exists, Mirroring,
               Kept!Mirroring, Routed, Kept!Routed
<1> QED
  BY <1>1, <1>2, <1>3

(* A step that restarts nothing is one of the protocol's.                  *)
LEMMA KeptStep ==
  ASSUME TypeAll, InOrder, [NextAll]_all, [~CoordinatorRestarts]_all
  PROVE  [Kept!Next]_(Kept!vars)
<1>1. UNCHANGED vars => UNCHANGED Kept!vars
  BY DEF Kept!vars, vars
<1>2. CASE UNCHANGED all
  BY <1>1, <1>2 DEF all
<1>3. CASE ~CoordinatorRestarts
  BY <1>1, <1>3, ProtocolStep, SameNext
<1> QED
  BY <1>2, <1>3

(* The coordinator is not restarted.                                       *)
Undisturbed == [][~CoordinatorRestarts]_all

(* The coordinator's inductive invariant holds under the benchmark.        *)
LEMMA KeptInvariance ==
  ASSUME ~SameMs, ~ZkFaults
  PROVE  SpecAll /\ Undisturbed => [](Kept!IInv /\ TypeAll /\ InOrder)
<1>1. InitAll => Kept!IInv
  <2>1. InitAll => Kept!Init
    BY DEF InitAll, Init, First, NoConfig, Writers, Kept!Init, Kept!First, Kept!NoConfig,
           Kept!Writers
  <2>2. Kept!Init => Kept!IInv
    BY KeptAssumptions, Kept!InitInv
  <2> QED
    BY <2>1, <2>2
<1>2. Kept!IInv /\ TypeAll /\ InOrder /\ [NextAll]_all /\ [~CoordinatorRestarts]_all => Kept!IInv'
  <2> SUFFICES ASSUME Kept!IInv, TypeAll, InOrder, [NextAll]_all, [~CoordinatorRestarts]_all
               PROVE  Kept!IInv'
    OBVIOUS
  <2>1. [Kept!Next]_(Kept!vars)
    BY KeptStep
  <2> QED
    BY <2>1, KeptAssumptions, Kept!StepInv DEF Kept!ByProtocol
<1> QED
  BY <1>1, <1>2, Order, PTL DEF SpecAll, Undisturbed

(* For the benchmark the coordinator implements WarmupSession.             *)
THEOREM SessionsKept ==
  ASSUME ~SameMs, ~ZkFaults
  PROVE  SpecAll /\ Undisturbed => ImplementsSession
<1>1. InitAll => Warmup!Init
  BY InitRefines DEF InitAll
<1>2. Kept!IInv /\ Kept!IInv' /\ TypeAll /\ InOrder /\ [NextAll]_all
        /\ [~CoordinatorRestarts]_all => [Warmup!Next]_(Warmup!vars)
  <2> SUFFICES ASSUME Kept!IInv, Kept!IInv', TypeAll, InOrder, [NextAll]_all,
                      [~CoordinatorRestarts]_all
               PROVE  [Warmup!Next]_(Warmup!vars)
    OBVIOUS
  <2>1. [Kept!Next]_(Kept!vars)
    BY KeptStep
  <2>2. [Kept!Warmup!Next]_(Kept!Warmup!vars)
    BY <2>1, KeptAssumptions, Kept!InvRefines DEF Kept!ByProtocol
  <2> QED
    BY <2>2, SameSession
<1> QED
  BY <1>1, <1>2, KeptInvariance, PTL DEF SpecAll, Undisturbed, ImplementsSession, Warmup!Spec

(* For the benchmark a session that holds is mirrored at full share, and a *)
(* promotion that was answered stays.                                      *)
THEOREM StatusKept ==
  ASSUME ~SameMs, ~ZkFaults
  PROVE  SpecAll /\ Undisturbed => [](HoldingMirrors /\ PromotionSticks)
<1>1. Kept!IInv => HoldingMirrors
  BY DEF Kept!IInv, Kept!HoldingMirrors, Kept!Status, Kept!Exists, HoldingMirrors, Status, Exists
<1>2. Kept!IInv => PromotionSticks
  <2>1. Kept!IInv => Kept!PromotionSticks
    BY KeptAssumptions, Kept!PromotedSticks
  <2> QED
    BY <2>1 DEF Kept!PromotionSticks, Kept!Status, Kept!Exists, Kept!ClientIdle, Kept!Writing,
                PromotionSticks, Status, Exists, ClientIdle, Writing
<1> QED
  BY <1>1, <1>2, KeptInvariance, PTL
=============================================================================
