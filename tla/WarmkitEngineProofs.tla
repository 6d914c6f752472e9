------------------------ MODULE WarmkitEngineProofs ------------------------
(***************************************************************************)
(* Theorems about WarmkitEngine, for every set of requests and resetters   *)
(* and every threshold.                                                    *)
(***************************************************************************)
EXTENDS WarmkitEngine, TLAPS

(* A goroutine publishes exactly between its Get and the end of its Set,   *)
(* and only a state its own code publishes.                                *)
PublishedBy(p) ==
  IF p = Watch THEN {"Registered", "Warming", "Active", "Ready", "Failed"}
  ELSE IF p \in Requests THEN {"Warming", "Ready"} ELSE {"Registered"}

PublisherOK ==
  \A p \in Proc : IF pc[p] \in {"get", "set"} THEN pub[p] \in PublishedBy(p)
                                              ELSE pub[p] = None

TypeInv == TypeOK /\ PublisherOK

(* Every goroutine is of exactly one of the three kinds.                   *)
LEMMA ProcMembers ==
  /\ Watch \in Proc
  /\ \A r \in Requests : r \in Proc /\ r # Watch /\ r \notin Resetters
  /\ \A r \in Resetters : r \in Proc /\ r # Watch /\ r \notin Requests
  /\ \A p \in Proc : p = Watch \/ p \in Requests \/ p \in Resetters
BY ProcessesAssumption DEF Proc, Handlers

(* Moving a goroutine to a point of its own code keeps ControlOK.          *)
LEMMA GotoType ==
  ASSUME ControlOK, NEW p \in Proc, NEW point \in PointsOf(p), Goto(p, point)
  PROVE  ControlOK'
<1>1. point \in Points
  BY DEF PointsOf, Points
<1>2. pc' \in [Proc -> Points] /\ \A q \in Proc : pc'[q] \in PointsOf(q)
  BY <1>1 DEF Goto, ControlOK
<1>3. stale' \subseteq Proc
  BY DEF Goto, ControlOK
<1>4. overlap' \in BOOLEAN
  <2> DEFINE busy == point \in BusyPoints /\ \E q \in Proc \ {p} : Busy(q)
  <2>1. busy \in BOOLEAN
    OBVIOUS
  <2>2. overlap' = (overlap \/ busy)
    BY DEF Goto
  <2>3. QED BY <2>1, <2>2 DEF ControlOK
<1>5. QED BY <1>2, <1>3, <1>4 DEF ControlOK

(* A move that neither starts nor ends a publication keeps PublisherOK.    *)
LEMMA GotoPublisher ==
  ASSUME ControlOK, PublisherOK, NEW p \in Proc, NEW point, Goto(p, point),
         pub' = pub, point \in {"get", "set"} <=> pc[p] \in {"get", "set"}
  PROVE  PublisherOK'
BY DEF ControlOK, PublisherOK, Goto

(* What AfterPublish returns is a point of the publisher's own code, and   *)
(* no longer one of the publication's.                                     *)
LEMMA AfterPublishType ==
  ASSUME PublisherOK, NEW p \in Proc, pc[p] \in {"get", "set"}
  PROVE  AfterPublish(p) \in PointsOf(p) \ {"get", "set"}
<1> USE DEF PublisherOK, PublishedBy, PointsOf, AfterPublish
<1>1. CASE p \in Resetters
  BY <1>1, ProcMembers DEF ResetPoints
<1>2. CASE p \in Requests
  BY <1>2, ProcMembers DEF RequestPoints
<1>3. CASE p = Watch
  BY <1>3, ProcMembers DEF WatchPoints
<1>4. QED BY <1>1, <1>2, <1>3, ProcMembers

(* The end of a publication keeps ControlOK and PublisherOK.               *)
LEMMA EndPublishType ==
  ASSUME TypeInv, NEW p \in Proc, pc[p] \in {"get", "set"}, EndPublish(p)
  PROVE  ControlOK' /\ PublisherOK' /\ pub' \in [Proc -> State \cup {None}]
<1>1. AfterPublish(p) \in PointsOf(p) \ {"get", "set"}
  BY AfterPublishType DEF TypeInv
<1>2. ControlOK'
  BY <1>1, GotoType DEF TypeInv, TypeOK, EndPublish
<1>3. PublisherOK' /\ pub' \in [Proc -> State \cup {None}]
  BY <1>1 DEF TypeInv, TypeOK, ControlOK, DataOK, PublisherOK, EndPublish, Goto
<1>4. QED BY <1>2, <1>3

(* Every transition's point belongs to the goroutine that stands at it,    *)
(* and its target is a state that goroutine publishes.                     *)
LEMMA TargetType ==
  ASSUME ControlOK, NEW p \in Proc, pc[p] \in DOMAIN Target
  PROVE  Target[pc[p]] \in PublishedBy(p) /\ Target[pc[p]] \in State
<1>1. pc[p] \in PointsOf(p)
  BY DEF ControlOK
<1>2. QED
  BY <1>1 DEF PointsOf, Target, PublishedBy, State, WatchPoints, RequestPoints,
              ResetPoints

-----------------------------------------------------------------------------
(* Types, and what each goroutine is publishing, are preserved.            *)
LEMMA TypeInvariance == Spec => []TypeInv
<1>1. Init => TypeInv
  <2> SUFFICES ASSUME Init PROVE TypeInv
    OBVIOUS
  <2>1. ControlOK
    BY ProcMembers DEF Init, ControlOK, Points, PointsOf, WatchPoints,
                       RequestPoints, ResetPoints
  <2>2. count \in 0 .. ReadyAfter
    BY ReadyAfterAssumption DEF Init
  <2>3. pub \in [Proc -> State \cup {None}]
    BY DEF Init
  <2>4. DataOK
    BY <2>2, <2>3 DEF Init, DataOK, State, MirrorConfig, NoConfig
  <2>5. PublisherOK
    BY ProcMembers DEF Init, PublisherOK
  <2>6. QED BY <2>1, <2>4, <2>5 DEF TypeInv, TypeOK
<1>2. TypeInv /\ [Next]_vars => TypeInv'
  <2> SUFFICES ASSUME TypeInv, [Next]_vars PROVE TypeInv'
    OBVIOUS
  <2> USE ProcMembers, ReadyAfterAssumption
  <2>0. ControlOK /\ DataOK /\ PublisherOK
    BY DEF TypeInv, TypeOK
  <2>1. ASSUME Register PROVE TypeInv'
    <3>1. PICK point \in PointsOf(Watch) \ {"get", "set"} :
             Goto(Watch, point) /\ pc[Watch] \notin {"get", "set"}
      BY <2>1 DEF Register, PointsOf, WatchPoints
    <3>2. ControlOK' /\ PublisherOK'
      BY <2>1, <2>0, <3>1, GotoType, GotoPublisher DEF Register
    <3>3. DataOK'
      BY <2>1, <2>0 DEF Register, DataOK, State
    <3>4. QED BY <3>2, <3>3 DEF TypeInv, TypeOK
  <2>2. ASSUME RegisterFails PROVE TypeInv'
    <3>1. PICK point \in PointsOf(Watch) \ {"get", "set"} :
             Goto(Watch, point) /\ pc[Watch] \notin {"get", "set"}
      BY <2>2 DEF RegisterFails, PointsOf, WatchPoints
    <3>2. ControlOK' /\ PublisherOK'
      BY <2>2, <2>0, <3>1, GotoType, GotoPublisher DEF RegisterFails
    <3>3. DataOK'
      BY <2>2, <2>0 DEF RegisterFails, DataOK
    <3>4. QED BY <3>2, <3>3 DEF TypeInv, TypeOK
  <2>3. ASSUME NEW c \in MirrorConfig, ReceiveConfig(c) PROVE TypeInv'
    <3>1. PICK point \in PointsOf(Watch) \ {"get", "set"} :
             Goto(Watch, point) /\ pc[Watch] \notin {"get", "set"}
      BY <2>3 DEF ReceiveConfig, PointsOf, WatchPoints
    <3>2. ControlOK' /\ PublisherOK'
      BY <2>3, <2>0, <3>1, GotoType, GotoPublisher DEF ReceiveConfig
    <3>3. DataOK'
      BY <2>3, <2>0 DEF ReceiveConfig, DataOK
    <3>4. QED BY <3>2, <3>3 DEF TypeInv, TypeOK
  <2>4. ASSUME CheckWarming PROVE TypeInv'
    <3>1. PICK point \in PointsOf(Watch) \ {"get", "set"} :
             Goto(Watch, point) /\ pc[Watch] \notin {"get", "set"}
      BY <2>4 DEF CheckWarming, PointsOf, WatchPoints
    <3>2. ControlOK' /\ PublisherOK'
      BY <2>4, <2>0, <3>1, GotoType, GotoPublisher DEF CheckWarming
    <3>3. DataOK'
      BY <2>4, <2>0 DEF CheckWarming, DataOK
    <3>4. QED BY <3>2, <3>3 DEF TypeInv, TypeOK
  <2>5. ASSUME CheckActive PROVE TypeInv'
    <3>1. PICK point \in PointsOf(Watch) \ {"get", "set"} :
             Goto(Watch, point) /\ pc[Watch] \notin {"get", "set"}
      BY <2>5 DEF CheckActive, PointsOf, WatchPoints
    <3>2. ControlOK' /\ PublisherOK'
      BY <2>5, <2>0, <3>1, GotoType, GotoPublisher DEF CheckActive
    <3>3. DataOK'
      BY <2>5, <2>0 DEF CheckActive, DataOK
    <3>4. QED BY <3>2, <3>3 DEF TypeInv, TypeOK
  <2>6. ASSUME CheckTimer PROVE TypeInv'
    <3>1. PICK point \in PointsOf(Watch) \ {"get", "set"} :
             Goto(Watch, point) /\ pc[Watch] \notin {"get", "set"}
      BY <2>6 DEF CheckTimer, PointsOf, WatchPoints
    <3>2. ControlOK' /\ PublisherOK'
      BY <2>6, <2>0, <3>1, GotoType, GotoPublisher DEF CheckTimer
    <3>3. DataOK'
      BY <2>6, <2>0 DEF CheckTimer, DataOK, MirrorConfig, NoConfig
    <3>4. QED BY <3>2, <3>3 DEF TypeInv, TypeOK
  <2>7. ASSUME TakeTimeout PROVE TypeInv'
    <3>1. PICK point \in PointsOf(Watch) \ {"get", "set"} :
             Goto(Watch, point) /\ pc[Watch] \notin {"get", "set"}
      BY <2>7 DEF TakeTimeout, PointsOf, WatchPoints
    <3>2. ControlOK' /\ PublisherOK'
      BY <2>7, <2>0, <3>1, GotoType, GotoPublisher DEF TakeTimeout
    <3>3. DataOK'
      BY <2>7, <2>0 DEF TakeTimeout, DataOK
    <3>4. QED BY <3>2, <3>3 DEF TypeInv, TypeOK
  <2>8. ASSUME CheckTimeout PROVE TypeInv'
    <3>1. PICK point \in PointsOf(Watch) \ {"get", "set"} :
             Goto(Watch, point) /\ pc[Watch] \notin {"get", "set"}
      BY <2>8 DEF CheckTimeout, PointsOf, WatchPoints
    <3>2. ControlOK' /\ PublisherOK'
      BY <2>8, <2>0, <3>1, GotoType, GotoPublisher DEF CheckTimeout
    <3>3. DataOK'
      BY <2>8, <2>0 DEF CheckTimeout, DataOK
    <3>4. QED BY <3>2, <3>3 DEF TypeInv, TypeOK
  <2>9. ASSUME WatchDone PROVE TypeInv'
    <3>1. PICK point \in PointsOf(Watch) \ {"get", "set"} :
             Goto(Watch, point) /\ pc[Watch] \notin {"get", "set"}
      BY <2>9 DEF WatchDone, PointsOf, WatchPoints
    <3>2. ControlOK' /\ PublisherOK'
      BY <2>9, <2>0, <3>1, GotoType, GotoPublisher DEF WatchDone
    <3>3. DataOK'
      BY <2>9, <2>0 DEF WatchDone, DataOK
    <3>4. QED BY <3>2, <3>3 DEF TypeInv, TypeOK
  <2>10. ASSUME NEW r \in Requests, Arrive(r) PROVE TypeInv'
    <3>1. PICK point \in PointsOf(r) \ {"get", "set"} :
             Goto(r, point) /\ pc[r] \notin {"get", "set"}
      BY <2>10 DEF Arrive, PointsOf, RequestPoints
    <3>2. ControlOK' /\ PublisherOK'
      BY <2>10, <2>0, <3>1, GotoType, GotoPublisher DEF Arrive
    <3>3. DataOK'
      BY <2>10, <2>0 DEF Arrive, DataOK
    <3>4. QED BY <3>2, <3>3 DEF TypeInv, TypeOK
  <2>11. ASSUME NEW r \in Requests, Record(r) PROVE TypeInv'
    <3>1. PICK point \in PointsOf(r) \ {"get", "set"} :
             Goto(r, point) /\ pc[r] \notin {"get", "set"}
      BY <2>11 DEF Record, PointsOf, RequestPoints
    <3>2. ControlOK' /\ PublisherOK'
      BY <2>11, <2>0, <3>1, GotoType, GotoPublisher DEF Record
    <3>3. DataOK'
      BY <2>11, <2>0 DEF Record, DataOK
    <3>4. QED BY <3>2, <3>3 DEF TypeInv, TypeOK
  <2>12. ASSUME NEW p \in Requests \cup {Watch}, CheckCount(p) PROVE TypeInv'
    <3>1. PICK point \in PointsOf(p) \ {"get", "set"} :
             Goto(p, point) /\ pc[p] \notin {"get", "set"}
      BY <2>12 DEF CheckCount, PointsOf, WatchPoints, RequestPoints, AfterReadyCheck
    <3>2. ControlOK' /\ PublisherOK'
      BY <2>12, <2>0, <3>1, GotoType, GotoPublisher DEF CheckCount
    <3>3. DataOK'
      BY <2>12, <2>0 DEF CheckCount, DataOK
    <3>4. QED BY <3>2, <3>3 DEF TypeInv, TypeOK
  <2>13. ASSUME NEW p \in Requests \cup {Watch}, CheckState(p) PROVE TypeInv'
    <3>1. PICK point \in PointsOf(p) \ {"get", "set"} :
             Goto(p, point) /\ pc[p] \notin {"get", "set"}
      BY <2>13 DEF CheckState, PointsOf, WatchPoints, RequestPoints, AfterReadyCheck
    <3>2. ControlOK' /\ PublisherOK'
      BY <2>13, <2>0, <3>1, GotoType, GotoPublisher DEF CheckState
    <3>3. DataOK'
      BY <2>13, <2>0 DEF CheckState, DataOK
    <3>4. QED BY <3>2, <3>3 DEF TypeInv, TypeOK
  <2>14. ASSUME NEW p \in Requests \cup {Watch}, TransitAndPublish(p) PROVE TypeInv'
    <3>1. Target[pc[p]] \in PublishedBy(p) /\ Target[pc[p]] \in State
      BY <2>14, <2>0, TargetType DEF TransitAndPublish
    <3>2. "get" \in PointsOf(p)
      BY DEF PointsOf, WatchPoints, RequestPoints
    <3>3. ControlOK'
      BY <2>14, <2>0, <3>2, GotoType DEF TransitAndPublish
    <3>4. DataOK' /\ PublisherOK'
      BY <2>14, <2>0, <3>1
      DEF TransitAndPublish, Transition, Goto, ControlOK, DataOK, PublisherOK
    <3>5. QED BY <3>3, <3>4 DEF TypeInv, TypeOK
  <2>15. ASSUME NEW r \in Resetters, ResetState(r) PROVE TypeInv'
    <3>1. Target["force"] \in PublishedBy(r) /\ Target["force"] \in State
      BY DEF Target, PublishedBy, State
    <3>2. "get" \in PointsOf(r)
      BY DEF PointsOf, ResetPoints
    <3>3. ControlOK'
      BY <2>15, <2>0, <3>2, GotoType DEF ResetState
    <3>4. DataOK' /\ PublisherOK'
      BY <2>15, <2>0, <3>1 DEF ResetState, Goto, ControlOK, DataOK, PublisherOK
    <3>5. QED BY <3>3, <3>4 DEF TypeInv, TypeOK
  <2>16. ASSUME NEW r \in Resetters, ResetShadow(r) PROVE TypeInv'
    <3>1. "force" \in PointsOf(r) /\ "force" \in Points
      BY DEF PointsOf, ResetPoints, Points
    <3>2. overlap' \in BOOLEAN
      <4>1. (\E q \in Proc : Busy(q)) \in BOOLEAN
        OBVIOUS
      <4>2. QED BY <2>16, <2>0, <4>1 DEF ResetShadow, ControlOK
    <3>3. ControlOK'
      BY <2>16, <2>0, <3>1, <3>2 DEF ResetShadow, ControlOK
    <3>4. DataOK' /\ PublisherOK'
      BY <2>16, <2>0 DEF ResetShadow, DataOK, ControlOK, PublisherOK
    <3>5. QED BY <3>3, <3>4 DEF TypeInv, TypeOK
  <2>17. ASSUME NEW p \in Proc, Get(p) PROVE TypeInv'
    <3>1. "set" \in PointsOf(p)
      BY DEF PointsOf, WatchPoints, RequestPoints, ResetPoints
    <3>2. ControlOK' /\ PublisherOK'
      BY <2>17, <2>0, <3>1, GotoType, GotoPublisher DEF Get
    <3>3. DataOK'
      BY <2>17, <2>0 DEF Get, DataOK
    <3>4. QED BY <3>2, <3>3 DEF TypeInv, TypeOK
  <2>18. ASSUME NEW p \in Proc, Set(p) PROVE TypeInv'
    <3>1. ControlOK' /\ PublisherOK' /\ pub' \in [Proc -> State \cup {None}]
      BY <2>18, EndPublishType DEF Set
    <3>2. DataOK'
      BY <2>18, <2>0, <3>1 DEF Set, DataOK
    <3>3. QED BY <3>1, <3>2 DEF TypeInv, TypeOK
  <2>19. ASSUME NEW p \in Proc, ZkError(p) PROVE TypeInv'
    <3>1. ControlOK' /\ PublisherOK' /\ pub' \in [Proc -> State \cup {None}]
      BY <2>19, EndPublishType DEF ZkError
    <3>2. DataOK'
      BY <2>19, <2>0, <3>1 DEF ZkError, DataOK
    <3>3. QED BY <3>1, <3>2 DEF TypeInv, TypeOK
  <2>20. ASSUME TimerFires \/ SessionExpires \/ CloseRegistry \/ Cancel PROVE TypeInv'
    BY <2>20, <2>0 DEF TimerFires, SessionExpires, CloseRegistry, Cancel,
      TypeInv, TypeOK, ControlOK, DataOK, PublisherOK, Busy
  <2>21. CASE UNCHANGED vars
    BY <2>21, <2>0 DEF vars, TypeInv, TypeOK, ControlOK, DataOK, PublisherOK
  <2> QED
    BY <2>1, <2>2, <2>3, <2>4, <2>5, <2>6, <2>7, <2>8, <2>9, <2>10,
       <2>11, <2>12, <2>13, <2>14, <2>15, <2>16, <2>17, <2>18, <2>19,
       <2>20, <2>21
    DEF Next, WatchStep, RequestStep, ResetStep, Publish, ReadyCheck
<1>3. QED BY <1>1, <1>2, PTL DEF Spec

(* Types hold in every reachable state.                                    *)
THEOREM TypeCorrect == Spec => []TypeOK
<1>1. TypeInv => TypeOK
  BY DEF TypeInv
<1>2. QED BY <1>1, TypeInvariance, PTL

-----------------------------------------------------------------------------
(* A goroutine past the count check really counted enough, unless a reset  *)
(* has replaced the counter since.                                         *)
CountInv ==
  \A p \in Proc :
    (pc[p] \in CountedPoints /\ p \notin stale) => count >= ReadyAfter

(* Moving one goroutine keeps CountInv if the counter does not go down and *)
(* the goroutine's own claim, if it makes one, is true.                    *)
LEMMA GotoCounted ==
  ASSUME ControlOK, CountInv, NEW p \in Proc, NEW point, Goto(p, point),
         count \in Nat, count' \in Nat, count' >= count,
         (point \in CountedPoints /\ p \notin stale) => count' >= ReadyAfter
  PROVE  CountInv'
<1> SUFFICES ASSUME NEW q \in Proc, pc'[q] \in CountedPoints, q \notin stale'
             PROVE  count' >= ReadyAfter
  BY DEF CountInv
<1>1. CASE q = p
  BY <1>1 DEF Goto, ControlOK
<1>2. CASE q # p
  <2>1. pc[q] \in CountedPoints /\ q \notin stale
    BY <1>2 DEF Goto, ControlOK
  <2>2. count >= ReadyAfter
    BY <2>1 DEF CountInv
  <2>3. QED BY <2>2, ReadyAfterAssumption
<1>3. QED BY <1>1, <1>2

(* A count behind a Ready decision stays valid, or the goroutine is stale. *)
LEMMA CountInvariance == Spec => []CountInv
<1>1. Init => CountInv
  BY DEF Init, CountInv, CountedPoints
<1>2. TypeInv /\ CountInv /\ [Next]_vars => CountInv'
  <2> SUFFICES ASSUME TypeInv, CountInv, [Next]_vars PROVE CountInv'
    OBVIOUS
  <2> USE ProcMembers, ReadyAfterAssumption
  <2>0. ControlOK /\ PublisherOK /\ count \in 0 .. ReadyAfter
    BY DEF TypeInv, TypeOK, DataOK
  <2>1. ASSUME \/ Register \/ RegisterFails \/ CheckWarming \/ CheckActive
               \/ CheckTimer \/ TakeTimeout \/ CheckTimeout \/ WatchDone
               \/ \E c \in MirrorConfig : ReceiveConfig(c)
        PROVE  CountInv'
    <3>1. PICK point : Goto(Watch, point) /\ point \notin CountedPoints
      BY <2>1 DEF Register, RegisterFails, CheckWarming, CheckActive, CheckTimer,
        TakeTimeout, CheckTimeout, WatchDone, ReceiveConfig, CountedPoints
    <3>2. count' = count
      BY <2>1 DEF Register, RegisterFails, CheckWarming, CheckActive, CheckTimer,
        TakeTimeout, CheckTimeout, WatchDone, ReceiveConfig
    <3>3. QED BY <2>0, <3>1, <3>2, GotoCounted
  <2>2. ASSUME NEW p \in Proc, \/ Get(p) \/ Set(p) \/ ZkError(p)
                               \/ TransitAndPublish(p) \/ Arrive(p)
                               \/ ResetState(p)
        PROVE  CountInv'
    <3>1. PICK point : Goto(p, point) /\ point \notin CountedPoints
      <4>1. CASE Set(p) \/ ZkError(p)
        <5>1. pc[p] \in {"get", "set"} /\ Goto(p, AfterPublish(p))
          BY <4>1 DEF Set, ZkError, EndPublish
        <5>2. AfterPublish(p) \in {"idle", "serve", "select", "checkActive",
                                   "checkCount", "checkTimer", "exited"}
          BY <2>0, <5>1 DEF AfterPublish, PublisherOK, PublishedBy
        <5>3. QED BY <5>1, <5>2 DEF CountedPoints
      <4>2. QED
        BY <2>2, <4>1 DEF Get, TransitAndPublish, Arrive, ResetState, CountedPoints
    <3>2. count' = count
      BY <2>2 DEF Get, Set, ZkError, TransitAndPublish, Arrive, ResetState
    <3>3. QED BY <2>0, <3>1, <3>2, GotoCounted
  <2>3. ASSUME NEW p \in Proc, CheckCount(p) \/ CheckState(p) PROVE CountInv'
    <3>1. PICK point : /\ Goto(p, point)
                       /\ (point \in CountedPoints /\ p \notin stale) => count >= ReadyAfter
      BY <2>3, <2>0 DEF CheckCount, CheckState, AfterReadyCheck, CountedPoints, CountInv
    <3>2. count' = count
      BY <2>3 DEF CheckCount, CheckState
    <3>3. QED BY <2>0, <3>1, <3>2, GotoCounted
  <2>4. ASSUME NEW r \in Requests, Record(r) PROVE CountInv'
    <3>1. Goto(r, "checkCount") /\ "checkCount" \notin CountedPoints
      BY <2>4 DEF Record, CountedPoints
    <3>2. count' \in Nat /\ count' >= count
      BY <2>4, <2>0 DEF Record
    <3>3. QED BY <2>0, <3>1, <3>2, GotoCounted
  <2>5. ASSUME NEW r \in Resetters, ResetShadow(r) PROVE CountInv'
    BY <2>5, <2>0 DEF ResetShadow, CountInv, CountedPoints, ControlOK
  <2>6. ASSUME \/ TimerFires \/ SessionExpires \/ CloseRegistry \/ Cancel
               \/ UNCHANGED vars
        PROVE  CountInv'
    BY <2>6 DEF TimerFires, SessionExpires, CloseRegistry, Cancel, vars, CountInv
  <2>7. QED
    BY <2>1, <2>2, <2>3, <2>4, <2>5, <2>6
    DEF Next, WatchStep, RequestStep, ResetStep, Publish, ReadyCheck
<1>3. QED BY <1>1, <1>2, TypeInvariance, PTL DEF Spec

(* The instance turns Ready only on a full count, or by a goroutine whose  *)
(* count a reset outdated: no third way exists, for any number of          *)
(* concurrent requests, resets and configs.                                *)
THEOREM ReadyOnlyWhenWarmed == Spec => ReadyStepIsWarmed
<1> DEFINE Warmed == (state # "Ready" /\ state' = "Ready") =>
                       \/ count >= ReadyAfter
                       \/ \E p \in stale : pc[p] = "toReady"
<1>1. TypeInv /\ CountInv /\ [Next]_vars => [Warmed]_vars
  <2> SUFFICES ASSUME TypeInv, CountInv, Next, state # "Ready", state' = "Ready"
               PROVE  \/ count >= ReadyAfter
                      \/ \E p \in stale : pc[p] = "toReady"
    OBVIOUS
  <2>1. PICK p \in Proc : TransitAndPublish(p) \/ ResetState(p)
    BY ProcMembers DEF Next, WatchStep, RequestStep, ResetStep, Publish, ReadyCheck,
      Register, RegisterFails, CheckWarming, CheckActive, CheckTimer, TakeTimeout,
      CheckTimeout, WatchDone, ReceiveConfig, Get, Set, ZkError, CheckCount,
      CheckState, Arrive, Record, ResetShadow, TimerFires, SessionExpires,
      CloseRegistry, Cancel
  <2>2. pc[p] = "toReady"
    BY <2>1 DEF TransitAndPublish, ResetState, Transition, Target
  <2>3. QED BY <2>2 DEF CountInv, CountedPoints
<1>2. QED BY <1>1, TypeInvariance, CountInvariance, PTL DEF Spec, ReadyStepIsWarmed

-----------------------------------------------------------------------------
(* Where Watch is tells what the state can be: nobody leaves Starting but  *)
(* Start, and nobody enters Failed but the timeout, after which the        *)
(* watcher only publishes and exits.                                       *)
WatchInv ==
  /\ ~Started => \A p \in Handlers : pc[p] = "idle"
  /\ pc[Watch] \in {"register", "toRegistered"} => state = "Starting"
  /\ state = "Starting" =>
       \/ pc[Watch] \in {"register", "toRegistered"}
       \/ pc[Watch] = "exited" /\ life = "cancelled"
  /\ state = "Starting" => \A p \in Handlers : pc[p] = "idle"
  /\ state = "Failed" => pc[Watch] = "exited" \/ pub[Watch] = "Failed"
  /\ pub[Watch] = "Failed" => pc[Watch] \in {"get", "set"}

(* As long as no two goroutines have published at the same time, the one   *)
(* that is publishing owns the difference between the FSM and the znode:   *)
(* before its transition they agree and the transition will be accepted,   *)
(* after it the FSM is in the state it is about to write, and once it has  *)
(* read the version, the version is current.                               *)
Agreed(p) ==
  /\ pc[p] \in DOMAIN Target \ {"toRegistered"} => record = state
  /\ pc[p] \in DOMAIN Target \ {"force"} => <<state, Target[pc[p]]>> \in validTransition
  /\ pc[p] = "toRegistered" => record = "Registered"
  /\ pc[p] \in {"get", "set"} => state = pub[p] /\ record # None
  /\ pc[p] = "set" => p \in current

SerialInv ==
  (~overlap /\ life = "running") =>
    /\ \A p, q \in Proc : Busy(p) /\ Busy(q) => p = q
    /\ \A p \in Proc : Agreed(p)
    /\ SerialAgreement

(* Without resets: what is written or about to be written trails the FSM.  *)
Trails(s) == Stage[s] <= Stage[state] /\ (s = "Active" => state = "Active")

TrailInv ==
  /\ \A p \in Proc : pc[p] \in {"get", "set"} => Trails(pub[p])
  /\ \A p \in Proc : pc[p] = "toWarming" => Trails("Registered")
  /\ \A p \in Proc : pc[p] = "toReady" => Trails("Warming")
  /\ pc[Watch] = "toActive" => state = "Ready"
  /\ pc[Watch] \in {"timeoutActive", "toFailed"} => state \notin {"Starting", "Failed"}
  /\ pc[Watch] = "toFailed" => state # "Active"
  /\ (~Started /\ pc[Watch] # "register") => record \in {"Registered", None}
  /\ RecordTrails

(* Where Watch is agrees with its phase, in every reachable state.         *)
LEMMA WatchInvariance == Spec => []WatchInv
<1>1. Init => WatchInv
  <2> SUFFICES ASSUME Init PROVE WatchInv
    OBVIOUS
  <2>1. pc[Watch] = "register" /\ pub[Watch] = None /\ state = "Starting"
    BY ProcMembers DEF Init
  <2>2. \A p \in Handlers : pc[p] = "idle"
    BY ProcMembers DEF Init, Handlers
  <2>3. QED BY <2>1, <2>2 DEF WatchInv, None
<1>2. TypeInv /\ WatchInv /\ [Next]_vars => WatchInv'
  <2> SUFFICES ASSUME TypeInv, WatchInv, [Next]_vars PROVE WatchInv'
    OBVIOUS
  <2> USE ProcMembers DEF WatchInv, Started
  <2>0. ControlOK /\ PublisherOK /\ DataOK /\ Handlers \subseteq Proc \ {Watch}
    BY ProcessesAssumption DEF TypeInv, TypeOK, Proc, Handlers
  <2>1. ASSUME Register \/ RegisterFails PROVE WatchInv'
    BY <2>1, <2>0 DEF Register, RegisterFails, Goto, ControlOK, PublisherOK, None
  <2>2. ASSUME \/ CheckWarming \/ CheckActive \/ CheckTimer \/ TakeTimeout
               \/ CheckTimeout \/ WatchDone
               \/ \E c \in MirrorConfig : ReceiveConfig(c)
        PROVE  WatchInv'
    <3>1. PICK point : /\ Goto(Watch, point)
                       /\ point \notin {"register", "toRegistered", "get", "set"}
                       /\ pc[Watch] \notin {"register", "toRegistered", "get", "set", "exited"}
      BY <2>2 DEF CheckWarming, CheckActive, CheckTimer, TakeTimeout, CheckTimeout,
        WatchDone, ReceiveConfig
    <3>2. UNCHANGED <<state, pub, life>>
      BY <2>2 DEF CheckWarming, CheckActive, CheckTimer, TakeTimeout, CheckTimeout,
        WatchDone, ReceiveConfig
    <3>3. QED BY <2>0, <3>1, <3>2 DEF Goto, ControlOK
  <2>3. ASSUME TransitAndPublish(Watch) PROVE WatchInv'
    BY <2>3, <2>0 DEF TransitAndPublish, Transition, validTransition, Target, Goto,
      ControlOK, PublisherOK, DataOK, None
  <2>4. ASSUME Get(Watch) PROVE WatchInv'
    BY <2>4, <2>0 DEF Get, Goto, ControlOK
  <2>5. ASSUME Set(Watch) \/ ZkError(Watch) PROVE WatchInv'
    BY <2>5, <2>0 DEF Set, ZkError, EndPublish, AfterPublish, Goto, ControlOK,
      PublisherOK, PublishedBy, DataOK, None
  <2>6. ASSUME CheckCount(Watch) \/ CheckState(Watch) PROVE WatchInv'
    BY <2>6, <2>0 DEF CheckCount, CheckState, AfterReadyCheck, Goto, ControlOK
  <2>7. ASSUME NEW p \in Handlers, \/ Arrive(p) \/ Record(p) \/ TransitAndPublish(p)
               \/ Get(p) \/ Set(p) \/ ZkError(p) \/ CheckCount(p) \/ CheckState(p)
               \/ ResetShadow(p) \/ ResetState(p)
        PROVE  WatchInv'
    <3>1. p \in Proc /\ p # Watch
      BY <2>0
    <3>2. pc[Watch] \notin {"register", "toRegistered"} /\ Started /\ state # "Starting"
      <4>1. CASE Arrive(p) \/ ResetShadow(p)
        BY <4>1 DEF Arrive, ResetShadow, Serving
      <4>2. CASE pc[p] # "idle"
        BY <4>2
      <4>3. QED
        BY <2>7, <4>1, <4>2 DEF Record, TransitAndPublish, Get, Set, ZkError,
          CheckCount, CheckState, ResetState, Target
    <3>3. PICK point : pc' = [pc EXCEPT ![p] = point]
      BY <2>7 DEF Arrive, Record, TransitAndPublish, Get, Set, ZkError, EndPublish,
        CheckCount, CheckState, ResetShadow, ResetState, Goto
    <3>4. pub'[Watch] = pub[Watch] /\ life' = life
      BY <2>7, <3>1, <2>0 DEF Arrive, Record, TransitAndPublish, Get, Set, ZkError,
        EndPublish, CheckCount, CheckState, ResetShadow, ResetState, DataOK
    <3>5. pc'[Watch] = pc[Watch]
      BY <3>1, <3>3, <2>0 DEF ControlOK
    <3>6. state' # "Starting" /\ (state' = "Failed" => state = "Failed")
      <4>1. CASE TransitAndPublish(p)
        <5>1. Target[pc[p]] \in PublishedBy(p)
          BY <4>1, <3>1, <2>0, TargetType DEF TransitAndPublish
        <5>2. QED
          BY <4>1, <5>1, <3>1, <3>2 DEF TransitAndPublish, Transition, PublishedBy
      <4>2. CASE ResetState(p)
        BY <4>2 DEF ResetState, Target
      <4>3. CASE UNCHANGED state
        BY <4>3, <3>2
      <4>4. QED
        BY <2>7, <4>1, <4>2, <4>3 DEF Arrive, Record, Get, Set, ZkError, CheckCount,
          CheckState, ResetShadow
    <3>7. QED BY <2>0, <3>2, <3>4, <3>5, <3>6
  <2>8. ASSUME \/ TimerFires \/ SessionExpires \/ CloseRegistry \/ Cancel
               \/ UNCHANGED vars
        PROVE  WatchInv'
    BY <2>8 DEF TimerFires, SessionExpires, CloseRegistry, Cancel, Serving, vars
  <2>9. QED
    BY <2>1, <2>2, <2>3, <2>4, <2>5, <2>6, <2>7, <2>8
    DEF Next, WatchStep, RequestStep, ResetStep, Publish, ReadyCheck, Handlers
<1>3. QED BY <1>1, <1>2, TypeInvariance, PTL DEF Spec

-----------------------------------------------------------------------------
Alone(p) == \A q \in Proc \ {p} : ~Busy(q)

(* What Goto says of the history variable overlap.                         *)
LEMMA GotoAlone ==
  ASSUME ControlOK, NEW p \in Proc, NEW point, Goto(p, point), ~overlap'
  PROVE  ~overlap /\ (point \in BusyPoints => Alone(p))
BY DEF Goto, Alone

(* When p is the only goroutine that may be publishing, only p's part of   *)
(* the invariant has to be looked at.                                      *)
LEMMA AloneKeepsSerial ==
  ASSUME ControlOK, NEW p \in Proc, NEW point, pc' = [pc EXCEPT ![p] = point],
         Alone(p), Agreed(p)', point \notin BusyPoints => record' = state'
  PROVE  SerialInv'
<1>1. \A q \in Proc \ {p} : ~Busy(q)'
  BY DEF ControlOK, Alone, Busy
<1>2. \A q \in Proc \ {p} : Agreed(q)'
  BY <1>1 DEF Busy, BusyPoints, Agreed, Target
<1>3. (\A q \in Proc : ~Busy(q)') => record' = state'
  BY DEF ControlOK, Busy
<1>4. QED BY <1>1, <1>2, <1>3 DEF SerialInv, SerialAgreement

(* A move outside publications, and of nothing they look at.               *)
LEMMA QuietKeepsSerial ==
  ASSUME ControlOK, SerialInv, NEW p \in Proc, NEW point, Goto(p, point),
         pc[p] \notin BusyPoints, point \notin BusyPoints,
         UNCHANGED <<state, record, current, pub, life>>
  PROVE  SerialInv'
<1>1. \A q \in Proc : Busy(q)' <=> Busy(q)
  BY DEF Goto, ControlOK, Busy
<1>2. \A q \in Proc : Agreed(q) => Agreed(q)'
  <2> SUFFICES ASSUME NEW q \in Proc, Agreed(q) PROVE Agreed(q)'
    OBVIOUS
  <2>1. CASE q = p
    BY <2>1 DEF Goto, ControlOK, Agreed, BusyPoints, Target
  <2>2. CASE q # p
    <3>1. pc'[q] = pc[q]
      BY <2>2 DEF Goto, ControlOK
    <3>2. QED BY <3>1 DEF Agreed
  <2>3. QED BY <2>1, <2>2
<1>3. ~overlap' => ~overlap
  BY DEF Goto
<1>4. QED BY <1>1, <1>2, <1>3 DEF SerialInv, SerialAgreement

(* Entering a publication: if it is the only one, the znode agreed with    *)
(* the FSM just before, and the state read is still the state.             *)
LEMMA EnterKeepsSerial ==
  ASSUME ControlOK, SerialInv, NEW p \in Proc, pc[p] \notin BusyPoints,
         NEW point \in DOMAIN Target \ {"toRegistered"}, Goto(p, point),
         <<state, Target[point]>> \in validTransition,
         UNCHANGED <<state, record, current, pub, life>>
  PROVE  SerialInv'
<1> SUFFICES ASSUME ~overlap', life' = "running" PROVE SerialInv'
  BY DEF SerialInv
<1>1. point \in BusyPoints
  BY DEF BusyPoints
<1>2. Alone(p) /\ ~overlap
  BY <1>1, GotoAlone
<1>3. record = state
  BY <1>2 DEF Alone, Busy, SerialInv, SerialAgreement
<1>4. pc'[p] = point
  BY DEF Goto, ControlOK
<1>5. Agreed(p)'
  BY <1>3, <1>4 DEF Agreed, Target
<1>6. QED BY <1>1, <1>2, <1>5, AloneKeepsSerial DEF Goto

(* Publications that do not overlap carry the state to the znode.          *)
LEMMA SerialInvariance == ~ZkFaults => (Spec => []SerialInv)
<1> SUFFICES ASSUME ~ZkFaults PROVE Spec => []SerialInv
  OBVIOUS
<1>1. Init => SerialInv
  <2> SUFFICES ASSUME Init PROVE SerialInv
    OBVIOUS
  <2>1. \A p \in Proc : pc[p] = IF p = Watch THEN "register" ELSE "idle"
    BY DEF Init
  <2>2. Busy(Watch) /\ Watch \in Proc /\ \A p \in Proc : Busy(p) => p = Watch
    BY <2>1, ProcMembers DEF Busy, BusyPoints, Target
  <2>3. \A p \in Proc : Agreed(p)
    BY <2>1 DEF Agreed, Target
  <2>4. QED BY <2>2, <2>3 DEF SerialInv, SerialAgreement
<1>2. TypeInv /\ WatchInv /\ SerialInv /\ [Next]_vars => SerialInv'
  <2> SUFFICES ASSUME TypeInv, WatchInv, SerialInv, [Next]_vars,
                      ~overlap', life' = "running"
               PROVE  SerialInv'
    BY DEF SerialInv
  <2> USE ProcMembers
  <2>0. ControlOK /\ DataOK /\ PublisherOK
    BY DEF TypeInv, TypeOK
  <2>1. ASSUME NEW p \in Proc, NEW point, Goto(p, point),
               life = "running", Busy(p)
        PROVE  Alone(p) /\ Agreed(p) /\ pc'[p] = point
    <3>1. ~overlap /\ pc'[p] = point
      BY <2>1, <2>0, GotoAlone DEF Goto, ControlOK
    <3>2. QED BY <2>1, <3>1 DEF SerialInv, Alone
  <2>2. ASSUME NEW p \in Proc, TransitAndPublish(p) PROVE SerialInv'
    <3>1. life = "running" /\ Goto(p, "get") /\ Busy(p)
      BY <2>2 DEF TransitAndPublish, Busy, BusyPoints
    <3>2. Alone(p) /\ Agreed(p) /\ pc'[p] = "get"
      BY <2>1, <3>1
    <3>3. state' = Target[pc[p]] /\ pub'[p] = Target[pc[p]]
      BY <2>2, <2>0, <3>2 DEF TransitAndPublish, Transition, Agreed, DataOK
    <3>4. record' # None
      BY <2>2, <2>0, <3>2 DEF TransitAndPublish, Agreed, Target, DataOK, State, None
    <3>5. Agreed(p)'
      BY <3>2, <3>3, <3>4 DEF Agreed, Target
    <3>6. "get" \in BusyPoints
      BY DEF BusyPoints
    <3>7. QED BY <2>0, <3>1, <3>2, <3>5, <3>6, AloneKeepsSerial DEF Goto
  <2>3. ASSUME NEW r \in Resetters, ResetState(r) PROVE SerialInv'
    <3>1. life = "running" /\ Goto(r, "get") /\ Busy(r)
      BY <2>3 DEF ResetState, Busy, BusyPoints, Target
    <3>2. Alone(r) /\ Agreed(r) /\ pc'[r] = "get"
      BY <2>1, <3>1
    <3>3. state' = pub'[r]
      BY <2>3, <2>0 DEF ResetState, DataOK
    <3>4. record' # None
      BY <2>3, <2>0, <3>2 DEF ResetState, Agreed, Target, DataOK, State, None
    <3>5. Agreed(r)'
      BY <3>2, <3>3, <3>4 DEF Agreed, Target
    <3>6. "get" \in BusyPoints
      BY DEF BusyPoints
    <3>7. QED BY <2>0, <3>1, <3>2, <3>5, <3>6, AloneKeepsSerial DEF Goto
  <2>4. ASSUME NEW p \in Proc, Get(p) PROVE SerialInv'
    <3>1. life = "running" /\ Goto(p, "set") /\ Busy(p)
      BY <2>4 DEF Get, Busy, BusyPoints
    <3>2. Alone(p) /\ Agreed(p) /\ pc'[p] = "set"
      BY <2>1, <3>1
    <3>3. Agreed(p)'
      BY <2>4, <3>2 DEF Get, Agreed, Target
    <3>4. "set" \in BusyPoints
      BY DEF BusyPoints
    <3>5. QED BY <2>0, <3>1, <3>2, <3>3, <3>4, AloneKeepsSerial DEF Goto
  <2>5. ASSUME NEW p \in Proc, Set(p) PROVE SerialInv'
    <3> DEFINE point == AfterPublish(p)
    <3>1. life = "running" /\ Goto(p, point) /\ Busy(p)
      BY <2>5 DEF Set, EndPublish, Busy, BusyPoints
    <3>2. Alone(p) /\ Agreed(p) /\ pc'[p] = point
      BY <2>1, <3>1
    <3>3. record' = state'
      BY <2>5, <3>2 DEF Set, Agreed
    <3>4. point \in {"idle", "serve", "select", "checkActive", "checkCount",
                     "checkTimer", "exited"}
      BY <2>5, <2>0 DEF Set, AfterPublish, PublisherOK, PublishedBy
    <3>5. Agreed(p)'
      BY <3>2, <3>4 DEF Agreed, Target
    <3>6. QED BY <2>0, <3>1, <3>2, <3>3, <3>5, AloneKeepsSerial DEF Goto
  <2>6. ASSUME NEW p \in Proc, ZkError(p) PROVE SerialInv'
    <3>1. life = "running" /\ Goto(p, AfterPublish(p)) /\ Busy(p)
      BY <2>6 DEF ZkError, EndPublish, Busy, BusyPoints
    <3>2. Agreed(p)
      BY <2>1, <3>1
    <3>3. QED BY <2>6, <3>2 DEF ZkError, Agreed
  <2>7. ASSUME Register PROVE SerialInv'
    <3>1. life = "running" /\ Goto(Watch, "toRegistered") /\ Busy(Watch)
      BY <2>7 DEF Register, Busy, BusyPoints
    <3>2. Alone(Watch) /\ pc'[Watch] = "toRegistered"
      BY <2>1, <3>1
    <3>3. state' = "Starting" /\ record' = "Registered"
      BY <2>7 DEF Register, WatchInv
    <3>4. Agreed(Watch)'
      BY <3>2, <3>3 DEF Agreed, Target, validTransition
    <3>5. "toRegistered" \in BusyPoints
      BY DEF BusyPoints, Target
    <3>6. QED BY <2>0, <3>1, <3>2, <3>4, <3>5, AloneKeepsSerial DEF Goto
  <2>8. ASSUME NEW r \in Resetters, ResetShadow(r) PROVE SerialInv'
    <3>1. ~overlap /\ Alone(r) /\ pc[r] = "idle" /\ life = "running"
      BY <2>8 DEF ResetShadow, Alone, Serving
    <3>2. record = state
      BY <2>8, <3>1 DEF ResetShadow, SerialInv, SerialAgreement
    <3>3. pc'[r] = "force" /\ "force" \in BusyPoints
      BY <2>8, <2>0 DEF ResetShadow, ControlOK, BusyPoints, Target
    <3>4. Agreed(r)'
      BY <2>8, <3>2, <3>3 DEF ResetShadow, Agreed
    <3>5. QED BY <2>0, <2>8, <3>1, <3>3, <3>4, AloneKeepsSerial DEF ResetShadow
  <2>9. ASSUME NEW p \in Proc, NEW point, Goto(p, point), pc[p] \notin BusyPoints,
               UNCHANGED <<state, record, current, pub, life>>,
               \/ point \notin BusyPoints
               \/ /\ point \in DOMAIN Target \ {"toRegistered"}
                  /\ <<state, Target[point]>> \in validTransition
        PROVE  SerialInv'
    BY <2>9, <2>0, QuietKeepsSerial, EnterKeepsSerial
  <2>10. ASSUME \/ CheckWarming \/ CheckActive \/ CheckTimer \/ TakeTimeout
                \/ CheckTimeout \/ WatchDone
                \/ \E c \in MirrorConfig : ReceiveConfig(c)
         PROVE  SerialInv'
    <3>1. PICK point : Goto(Watch, point) /\ \/ point \notin BusyPoints
                                             \/ /\ point \in DOMAIN Target \ {"toRegistered"}
                                                /\ <<state, Target[point]>> \in validTransition
      <4>1. CASE CheckTimeout
        <5>1. pc[Watch] \in {"timeoutReady", "timeoutActive"}
          BY <4>1 DEF CheckTimeout
        <5>2. state \notin {"Starting", "Failed"}
          BY <4>1, <5>1, <2>0 DEF CheckTimeout, WatchInv, PublisherOK, None
        <5>3. QED
          BY <4>1, <5>2, <2>0 DEF CheckTimeout, validTransition, Target, BusyPoints,
            DataOK, State
      <4>2. QED
        BY <2>10, <4>1 DEF CheckWarming, CheckActive, CheckTimer, TakeTimeout,
          WatchDone, ReceiveConfig, validTransition, Target, BusyPoints
    <3>2. pc[Watch] \notin BusyPoints /\ UNCHANGED <<state, record, current, pub, life>>
      BY <2>10 DEF CheckWarming, CheckActive, CheckTimer, TakeTimeout, CheckTimeout,
        WatchDone, ReceiveConfig, BusyPoints, Target
    <3>3. QED BY <3>1, <3>2, <2>9
  <2>11. ASSUME NEW p \in Proc, CheckCount(p) \/ CheckState(p) \/ Arrive(p) \/ Record(p)
         PROVE  SerialInv'
    <3>1. PICK point : Goto(p, point) /\ \/ point \notin BusyPoints
                                         \/ /\ point \in DOMAIN Target \ {"toRegistered"}
                                            /\ <<state, Target[point]>> \in validTransition
      BY <2>11 DEF CheckCount, CheckState, Arrive, Record, AfterReadyCheck,
        validTransition, Target, BusyPoints
    <3>2. pc[p] \notin BusyPoints /\ UNCHANGED <<state, record, current, pub, life>>
      BY <2>11 DEF CheckCount, CheckState, Arrive, Record, BusyPoints, Target
    <3>3. QED BY <3>1, <3>2, <2>9
  <2>12. ASSUME RegisterFails \/ SessionExpires \/ CloseRegistry \/ Cancel
         PROVE  SerialInv'
    BY <2>12 DEF RegisterFails, SessionExpires, CloseRegistry, Cancel
  <2>13. ASSUME TimerFires \/ UNCHANGED vars PROVE SerialInv'
    BY <2>13 DEF TimerFires, vars, SerialInv, SerialAgreement, Agreed, Busy
  <2>14. QED
    BY <2>2, <2>3, <2>4, <2>5, <2>6, <2>7, <2>8, <2>10, <2>11, <2>12, <2>13
    DEF Next, WatchStep, RequestStep, ResetStep, Publish, ReadyCheck
<1>3. QED BY <1>1, <1>2, TypeInvariance, WatchInvariance, PTL DEF Spec

(* Without ZooKeeper faults, as long as publications have not overlapped,  *)
(* the znode shows the FSM's state between them.                           *)
THEOREM SerialRecordAgrees == ~ZkFaults => (Spec => []SerialAgreement)
<1> SUFFICES ASSUME ~ZkFaults PROVE Spec => []SerialAgreement
  OBVIOUS
<1>1. SerialInv => SerialAgreement
  BY DEF SerialInv, SerialAgreement
<1>2. QED BY <1>1, SerialInvariance, PTL

-----------------------------------------------------------------------------
(* What a claim of TrailInv needs of a step: the FSM goes only forward.    *)
Forward == Stage[state] <= Stage[state'] /\ (state = "Active" => state' = "Active")

(* A transition never goes back to an earlier stage.                       *)
LEMMA TransitionForward ==
  ASSUME state \in State, NEW next \in State, Transition(next)
  PROVE  Forward /\ state' \in State
BY DEF Transition, validTransition, Forward, Stage, State

(* What trails a stage trails every later one.                             *)
LEMMA TrailsForward ==
  ASSUME state \in State, state' \in State, Forward, NEW s \in State, Trails(s)
  PROVE  Trails(s)'
BY DEF Forward, Trails, Stage, State

(* A move that leaves state, record and publications alone keeps TrailInv  *)
(* if the goroutine's new claim, if it makes one, is true.                 *)
LEMMA GotoTrails ==
  ASSUME ControlOK, TrailInv, NEW p \in Proc, NEW point, Goto(p, point),
         UNCHANGED <<state, record, pub, life>>, Started' = Started,
         pc[p] # "register",
         point \in {"get", "set"} => pc[p] \in {"get", "set"},
         point = "toWarming" => Trails("Registered"),
         point = "toReady" => Trails("Warming"),
         point = "toActive" => state = "Ready",
         point = "timeoutActive" => state \notin {"Starting", "Failed"},
         point = "toFailed" => state \notin {"Starting", "Failed", "Active"}
  PROVE  TrailInv'
<1>1. pc'[p] = point /\ \A q \in Proc : q # p => pc'[q] = pc[q]
  BY DEF Goto, ControlOK
<1>2. \A s \in STRING : Trails(s)' = Trails(s)
  BY DEF Trails
<1>3. Watch \in Proc
  BY ProcMembers
<1>4. RecordTrails'
  BY DEF TrailInv, RecordTrails, Serving
<1>5. \A q \in Proc : pc'[q] \in {"get", "set"} => Trails(pub[q])'
  BY <1>1 DEF TrailInv, Trails
<1>6. \A q \in Proc : pc'[q] = "toWarming" => Trails("Registered")'
  BY <1>1 DEF TrailInv, Trails
<1>7. \A q \in Proc : pc'[q] = "toReady" => Trails("Warming")'
  BY <1>1 DEF TrailInv, Trails
<1>8. /\ pc'[Watch] = "toActive" => state' = "Ready"
      /\ pc'[Watch] \in {"timeoutActive", "toFailed"} => state' \notin {"Starting", "Failed"}
      /\ pc'[Watch] = "toFailed" => state' # "Active"
  BY <1>1, <1>3 DEF TrailInv
<1>9. (~Started' /\ pc'[Watch] # "register") => record' \in {"Registered", None}
  BY <1>1, <1>3 DEF TrailInv, Started
<1>10. QED BY <1>4, <1>5, <1>6, <1>7, <1>8, <1>9 DEF TrailInv

(* Without resets what is published or recorded trails the FSM.            *)
LEMMA TrailInvariance == Resetters = {} => (Spec => []TrailInv)
<1> SUFFICES ASSUME Resetters = {} PROVE Spec => []TrailInv
  OBVIOUS
<1>1. Init => TrailInv
  <2> SUFFICES ASSUME Init PROVE TrailInv
    OBVIOUS
  <2>1. \A p \in Proc : pc[p] = IF p = Watch THEN "register" ELSE "idle"
    BY DEF Init
  <2>2. QED BY <2>1, ProcMembers DEF TrailInv, RecordTrails, Serving, Started
<1>2. TypeInv /\ WatchInv /\ TrailInv /\ [Next]_vars => TrailInv'
  <2> SUFFICES ASSUME TypeInv, WatchInv, TrailInv, [Next]_vars PROVE TrailInv'
    OBVIOUS
  <2> USE ProcMembers
  <2>0. ControlOK /\ DataOK /\ PublisherOK
    BY DEF TypeInv, TypeOK
  <2>1. ASSUME NEW p \in Proc, TransitAndPublish(p) PROVE TrailInv'
    <3> DEFINE next == Target[pc[p]]
    <3>1. next \in PublishedBy(p) /\ next \in State
      BY <2>1, <2>0, TargetType DEF TransitAndPublish
    <3>2. Forward /\ state' \in State
      BY <2>1, <2>0, <3>1, TransitionForward DEF TransitAndPublish, DataOK
    <3>4. /\ pc'[p] = "get" /\ pub'[p] = next
          /\ \A q \in Proc : q # p => pc'[q] = pc[q] /\ pub'[q] = pub[q]
      BY <2>1, <2>0 DEF TransitAndPublish, Goto, ControlOK, DataOK
    <3>3. Trails(pub[p])'
      <4> USE <3>4, <2>1, <2>0 DEF TransitAndPublish, Transition, validTransition,
        Target, Trails, Stage, DataOK, State
      <4>1. CASE pc[p] = "toRegistered"
        BY <4>1 DEF WatchInv, ControlOK, PointsOf, RequestPoints
      <4>2. CASE pc[p] = "toWarming"
        BY <4>2 DEF TrailInv
      <4>3. CASE pc[p] = "toReady"
        BY <4>3 DEF TrailInv
      <4>4. CASE pc[p] = "toActive"
        BY <4>4 DEF TrailInv, ControlOK, PointsOf, RequestPoints
      <4>5. CASE pc[p] = "toFailed"
        BY <4>5 DEF TrailInv, ControlOK, PointsOf, RequestPoints
      <4>6. QED BY <4>1, <4>2, <4>3, <4>4, <4>5
    <3>5. \A q \in Proc : pc'[q] \in {"get", "set"} => Trails(pub[q])'
      <4> SUFFICES ASSUME NEW q \in Proc, q # p, pc'[q] \in {"get", "set"}
                   PROVE  Trails(pub[q])'
        BY <3>3
      <4>1. PICK s \in State : s = pub[q] /\ Trails(s)
        BY <3>4, <2>0 DEF TrailInv, PublisherOK, PublishedBy, State
      <4>2. Trails(s)'
        BY <4>1, <3>2, <2>0, TrailsForward DEF DataOK
      <4>3. QED BY <4>1, <4>2, <3>4 DEF Trails
    <3>6. /\ \A q \in Proc : pc'[q] = "toWarming" => Trails("Registered")'
          /\ \A q \in Proc : pc'[q] = "toReady" => Trails("Warming")'
      <4>1. "Registered" \in State /\ "Warming" \in State
        BY DEF State
      <4>2. QED BY <4>1, <3>2, <3>4, <2>0, TrailsForward DEF TrailInv, DataOK
    <3>7. p # Watch => state' \in {state, "Warming", "Ready"}
      BY <2>1, <3>1 DEF TransitAndPublish, Transition, PublishedBy
    <3>8. /\ pc'[Watch] = "toActive" => state' = "Ready"
          /\ pc'[Watch] \in {"timeoutActive", "toFailed"} => state' \notin {"Starting", "Failed"}
          /\ pc'[Watch] = "toFailed" => state' # "Active"
      BY <2>1, <3>1, <3>4, <3>7
      DEF TrailInv, TransitAndPublish, Transition, validTransition, PublishedBy
    <3>9. Started' <=> (Started \/ (p = Watch /\ pc[p] # "toRegistered"))
      BY <2>1, <3>4, <2>0 DEF Started, TransitAndPublish, Target, PublisherOK, None
    <3>10. Started => Started'
      BY <3>9
    <3>11. (~Started' /\ pc'[Watch] # "register") => record' \in {"Registered", None}
      BY <2>1, <3>4, <3>10 DEF TrailInv, TransitAndPublish, Target
    <3>12. RecordTrails'
      <4> SUFFICES ASSUME Serving', record' # None
                   PROVE  Trails(record)'
        BY DEF RecordTrails, Trails
      <4>1. Started
        BY <3>9, <3>4, <2>1, <2>0 DEF Serving, Started, TransitAndPublish, Target,
          PublisherOK, None
      <4>2. PICK s \in State : s = record /\ Trails(s)
        BY <4>1, <2>1, <2>0 DEF TransitAndPublish, Serving, TrailInv, RecordTrails, Trails,
          DataOK
      <4>3. Trails(s)' /\ record' = s
        BY <4>2, <3>2, <2>1, <2>0, TrailsForward DEF DataOK, TransitAndPublish
      <4>4. QED BY <4>3 DEF Trails
    <3>13. QED BY <3>5, <3>6, <3>8, <3>11, <3>12 DEF TrailInv
  <2>2. ASSUME NEW p \in Proc, Set(p) \/ ZkError(p) PROVE TrailInv'
    <3> DEFINE point == AfterPublish(p)
    <3>1. /\ pc'[p] = point /\ pub'[p] = None /\ pc[p] \in {"get", "set"}
          /\ \A q \in Proc : q # p => pc'[q] = pc[q] /\ pub'[q] = pub[q]
          /\ UNCHANGED <<state, life>>
      BY <2>2, <2>0 DEF Set, ZkError, EndPublish, Goto, ControlOK, DataOK
    <3>2. point \in {"idle", "serve", "select", "checkActive", "checkCount",
                     "checkTimer", "exited"}
      BY <3>1, <2>0 DEF AfterPublish, PublisherOK, PublishedBy
    <3>3. record' = record \/ (record' = pub[p] /\ Trails(pub[p]))
      BY <2>2, <3>1 DEF Set, ZkError, TrailInv
    <3>4. (~Started /\ pc[Watch] # "register") => record' \in {"Registered", None}
      <4>1. ~Started => p = Watch
        BY <3>1 DEF WatchInv, Handlers
      <4>2. (p = Watch /\ ~Started) => pub[p] = "Registered"
        BY <3>1 DEF Started
      <4>3. QED BY <3>3, <4>1, <4>2 DEF TrailInv
    <3>5. (~Started' /\ pc'[Watch] # "register") => record' \in {"Registered", None}
      BY <3>1, <3>2, <3>4 DEF Started, None
    <3>6. RecordTrails'
      <4> SUFFICES ASSUME Serving', record' # None PROVE Trails(record)'
        BY DEF RecordTrails, Trails
      <4>1. CASE ~Started
        <5>1. p = Watch /\ pub[p] = "Registered" /\ record' = "Registered"
          BY <4>1, <3>1, <3>2, <3>4 DEF WatchInv, Handlers, Started, Serving
        <5>2. Trails("Registered")
          BY <5>1, <3>1 DEF TrailInv
        <5>3. QED BY <5>1, <5>2, <3>1 DEF Trails
      <4>2. CASE Started
        <5>1. record' = record => Trails(record)
          BY <4>2, <3>1 DEF TrailInv, RecordTrails, Serving, Trails
        <5>2. QED BY <5>1, <3>1, <3>3 DEF Trails
      <4>3. QED BY <4>1, <4>2
    <3>7. /\ \A q \in Proc : pc'[q] \in {"get", "set"} => Trails(pub[q])'
          /\ \A q \in Proc : pc'[q] = "toWarming" => Trails("Registered")'
          /\ \A q \in Proc : pc'[q] = "toReady" => Trails("Warming")'
      BY <3>1, <3>2 DEF TrailInv, Trails
    <3>8. /\ pc'[Watch] = "toActive" => state' = "Ready"
          /\ pc'[Watch] \in {"timeoutActive", "toFailed"} => state' \notin {"Starting", "Failed"}
          /\ pc'[Watch] = "toFailed" => state' # "Active"
      BY <3>1, <3>2 DEF TrailInv
    <3>9. QED BY <3>5, <3>6, <3>7, <3>8 DEF TrailInv
  <2>3. ASSUME Register \/ RegisterFails PROVE TrailInv'
    <3>1. /\ pc[Watch] = "register" /\ pub[Watch] = None
          /\ \A q \in Proc : q # Watch => pc'[q] = pc[q]
          /\ UNCHANGED <<state, pub>>
      BY <2>3, <2>0 DEF Register, RegisterFails, Goto, ControlOK, PublisherOK
    <3>2. \/ pc'[Watch] = "toRegistered" /\ record' = "Registered"
          \/ pc'[Watch] = "exited" /\ life' = "cancelled"
      BY <2>3, <2>0 DEF Register, RegisterFails, Goto, ControlOK
    <3>3. ~Serving' /\ RecordTrails'
      BY <3>2 DEF Serving, Started, RecordTrails
    <3>4. (~Started' /\ pc'[Watch] # "register") => record' \in {"Registered", None}
      BY <3>1, <3>2 DEF Started, None
    <3>5. /\ \A q \in Proc : pc'[q] \in {"get", "set"} => Trails(pub[q])'
          /\ \A q \in Proc : pc'[q] = "toWarming" => Trails("Registered")'
          /\ \A q \in Proc : pc'[q] = "toReady" => Trails("Warming")'
      BY <3>1, <3>2 DEF TrailInv, Trails
    <3>6. QED BY <3>2, <3>3, <3>4, <3>5 DEF TrailInv
  <2>4. ASSUME NEW p \in Proc, NEW point, Goto(p, point), pub' = pub,
               UNCHANGED <<state, record, life>>, pc[p] \notin {"register", "toRegistered"},
               point \notin {"register", "toRegistered"}
        PROVE  Started' = Started
    BY <2>4, <2>0 DEF Started, Goto, ControlOK
  <2>5. ASSUME NEW p \in Proc, Get(p) PROVE TrailInv'
    BY <2>5, <2>4, <2>0, GotoTrails DEF Get
  <2>6. ASSUME NEW p \in Proc, CheckCount(p) \/ CheckState(p) \/ Arrive(p) \/ Record(p)
        PROVE  TrailInv'
    <3>1. PICK point : /\ Goto(p, point)
                       /\ point \in {"toWarming", "serve", "checkCount", "checkState",
                                    "toReady", "checkTimer", "idle"}
                       /\ point = "toWarming" => state = "Registered"
                       /\ point = "toReady" => state = "Warming"
      BY <2>6 DEF CheckCount, CheckState, Arrive, Record, AfterReadyCheck
    <3>2. /\ UNCHANGED <<state, record, pub, life>>
          /\ pc[p] \notin {"register", "toRegistered"}
      BY <2>6 DEF CheckCount, CheckState, Arrive, Record
    <3>3. Started' = Started
      BY <3>1, <3>2, <2>4
    <3>4. /\ point = "toWarming" => Trails("Registered")
          /\ point = "toReady" => Trails("Warming")
      BY <3>1 DEF Trails, Stage
    <3>5. QED BY <3>1, <3>2, <3>3, <3>4, <2>0, GotoTrails
  <2>7. ASSUME \/ CheckWarming \/ CheckActive \/ CheckTimer \/ TakeTimeout
               \/ CheckTimeout \/ WatchDone
               \/ \E c \in MirrorConfig : ReceiveConfig(c)
        PROVE  TrailInv'
    <3>1. state \notin {"Starting", "Failed"}
      BY <2>7, <2>0 DEF CheckWarming, CheckActive, CheckTimer, TakeTimeout, CheckTimeout,
        WatchDone, ReceiveConfig, WatchInv, PublisherOK, None
    <3>2. PICK point : /\ Goto(Watch, point)
                       /\ point \in {"select", "checkWarming", "toWarming", "checkActive",
                             "toActive", "checkCount", "timeoutReady", "timeoutActive",
                             "toFailed", "exited"}
                       /\ point = "toWarming" => state = "Registered"
                       /\ point = "toActive" => state = "Ready"
                       /\ point = "timeoutActive" => state # "Ready"
                       /\ point = "toFailed" => state # "Active"
      BY <2>7 DEF CheckWarming, CheckActive, CheckTimer, TakeTimeout, CheckTimeout,
        WatchDone, ReceiveConfig
    <3>3. /\ UNCHANGED <<state, record, pub, life>>
          /\ pc[Watch] \notin {"register", "toRegistered"}
      BY <2>7 DEF CheckWarming, CheckActive, CheckTimer, TakeTimeout, CheckTimeout,
        WatchDone, ReceiveConfig
    <3>4. Started' = Started
      BY <3>2, <3>3, <2>4
    <3>5. point = "toWarming" => Trails("Registered")
      BY <3>2 DEF Trails, Stage
    <3>6. QED BY <3>1, <3>2, <3>3, <3>4, <3>5, <2>0, GotoTrails
  <2>8. ASSUME \/ TimerFires \/ SessionExpires \/ CloseRegistry \/ Cancel
               \/ UNCHANGED vars
        PROVE  TrailInv'
    BY <2>8 DEF TimerFires, SessionExpires, CloseRegistry, Cancel, vars, TrailInv, Trails,
      RecordTrails, Serving, Started
  <2>9. QED
    BY <2>1, <2>2, <2>3, <2>5, <2>6, <2>7, <2>8
    DEF Next, WatchStep, RequestStep, ResetStep, Publish, ReadyCheck
<1>3. QED BY <1>1, <1>2, TypeInvariance, WatchInvariance, PTL DEF Spec

(* Without resets, whatever ZooKeeper does: the znode never shows a stage  *)
(* the FSM has not reached, nor Active when it is not.                     *)
THEOREM RecordNeverAhead == Resetters = {} => (Spec => []RecordTrails)
<1> SUFFICES ASSUME Resetters = {} PROVE Spec => []RecordTrails
  OBVIOUS
<1>1. TrailInv => RecordTrails
  BY DEF TrailInv
<1>2. QED BY <1>1, TrailInvariance, PTL

=============================================================================
