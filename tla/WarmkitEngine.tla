--------------------------- MODULE WarmkitEngine ---------------------------
(***************************************************************************)
(* The warmup engine of one instance (warmkit/engine.go, warmkit/fsm.go)   *)
(* and the part of the registry it calls (UpdateInstanceState).            *)
(*                                                                         *)
(* Three kinds of goroutine run the engine's code at the same time:        *)
(*   - Watch runs Start and then runMirrorWatch, the select loop over the  *)
(*     shutdown context, the mirror configs and the warmup timeout;        *)
(*   - Requests are the HTTP handlers of mirrored GETs (ShadowMiddleware); *)
(*   - Resetters are the HTTP handlers of POST /reset (ResetBenchmark).    *)
(*                                                                         *)
(* One action is what the code does under one mutex or in one ZooKeeper    *)
(* call; everything between two of them is interleaved.  Reading e.shadow  *)
(* (a plain pointer load) is merged with the method called on it: what is  *)
(* done to a replaced counter can be moved before the replacement.         *)
(* Requests that are not mirrored GETs change none of this state and are   *)
(* left out; the engine exists only where Role is "warmup"                 *)
(* (LoadedService/cmd/server/main.go:39).                                  *)
(***************************************************************************)
EXTENDS Naturals, FiniteSets

CONSTANTS
  Requests,    \* handlers of mirrored GETs
  Resetters,   \* handlers of POST /reset
  Watch,       \* the goroutine of Start and runMirrorWatch
  ReadyAfter,  \* Config.ReadyAfter
  ZkFaults     \* whether ZooKeeper calls may fail and the session may expire

ASSUME ProcessesAssumption ==
  /\ Requests \cap Resetters = {}
  /\ Watch \notin Requests \cup Resetters

ASSUME ReadyAfterAssumption == ReadyAfter \in Nat

ASSUME ZkFaultsAssumption == ZkFaults \in BOOLEAN

Handlers == Requests \cup Resetters
Proc == Handlers \cup {Watch}

State == {"Starting", "Registered", "Warming", "Ready", "Active", "Failed"}
None == "none"

(* A mirror config, reduced to the two questions the engine asks of it:    *)
(* does it mirror to me (target, enabled and ratio > 0), and does it name  *)
(* me the active instance?                                                 *)
MirrorConfig == [warm : BOOLEAN, promote : BOOLEAN]
NoConfig == [warm |-> FALSE, promote |-> FALSE]

VARIABLES
  state,    \* FSM.state
  count,    \* ShadowMetrics.count, counted up to ReadyAfter
  timer,    \* the warmup timer: armed, fired (its value unread) or off
  cfg,      \* the config Watch is handling
  pc,       \* where each goroutine is
  pub,      \* the state each goroutine is publishing, or None
  record,   \* the state in the instance's znode, None without a znode
  current,  \* goroutines whose stat.Version is still the znode's version
  life,     \* running, closed (registry closed) or cancelled (context too)
  stale,    \* history: past a count check that a reset has since outdated
  overlap   \* history: two goroutines were once publishing at the same time

vars == <<state, count, timer, cfg, pc, pub, record, current, life,
          stale, overlap>>

(* Where the FSM is about to be moved, and to what.                        *)
Target == [toRegistered |-> "Registered", toWarming |-> "Warming",
           toReady |-> "Ready", toActive |-> "Active",
           toFailed |-> "Failed", force |-> "Registered"]

WatchPoints == {"register", "toRegistered", "select", "checkWarming",
                "toWarming", "checkActive", "toActive", "checkCount",
                "checkState", "toReady", "checkTimer", "timeoutReady",
                "timeoutActive", "toFailed", "get", "set", "exited"}
RequestPoints == {"idle", "toWarming", "serve", "checkCount", "checkState",
                  "toReady", "get", "set"}
ResetPoints == {"idle", "force", "get", "set"}
Points == WatchPoints \cup RequestPoints \cup ResetPoints
PointsOf(p) == IF p = Watch THEN WatchPoints
               ELSE IF p \in Requests THEN RequestPoints ELSE ResetPoints

(* From deciding on a transition to the end of publishing it.              *)
BusyPoints == DOMAIN Target \cup {"register", "get", "set"}
Busy(p) == pc[p] \in BusyPoints

(* Between the count check of engine.go:148 or :213 and its transition.    *)
CountedPoints == {"checkState", "toReady"}

(* HTTP is served only once Start has returned and until the shutdown.     *)
Started == pc[Watch] \notin {"register", "toRegistered"} /\ pub[Watch] # "Registered"
Serving == Started /\ life = "running"

-----------------------------------------------------------------------------
Init ==
  /\ state = "Starting"
  /\ count = 0
  /\ timer = "armed"
  /\ cfg = NoConfig
  /\ pc = [p \in Proc |-> IF p = Watch THEN "register" ELSE "idle"]
  /\ pub = [p \in Proc |-> None]
  /\ record \in (State \ {"Starting"}) \cup {None}   \* left by an earlier incarnation
  /\ current = {}
  /\ life = "running"
  /\ stale = {}
  /\ overlap = FALSE

(* Moves goroutine p, and keeps the two history variables.                 *)
Goto(p, point) ==
  /\ pc' = [pc EXCEPT ![p] = point]
  /\ stale' = IF point \in CountedPoints THEN stale ELSE stale \ {p}
  /\ overlap' = (overlap \/ (point \in BusyPoints
                              /\ \E q \in Proc \ {p} : Busy(q)))

-----------------------------------------------------------------------------
(* FSM.Transition: moves only along validTransition; callers ignore the    *)
(* error, so a refused move is a step that changes nothing.                *)
validTransition ==
  {<<"Starting", "Registered">>, <<"Starting", "Failed">>,
   <<"Registered", "Warming">>, <<"Registered", "Failed">>,
   <<"Warming", "Ready">>, <<"Warming", "Failed">>,
   <<"Ready", "Active">>, <<"Ready", "Failed">>}

Transition(next) ==
  state' = IF <<state, next>> \in validTransition THEN next ELSE state

(* Transition followed by the publication of its target, which happens     *)
(* whether or not the transition did.                                      *)
TransitAndPublish(p) ==
  /\ pc[p] \in DOMAIN Target \ {"force"}
  /\ Transition(Target[pc[p]])
  /\ pub' = [pub EXCEPT ![p] = Target[pc[p]]]
  /\ Goto(p, "get")
  /\ UNCHANGED <<count, timer, cfg, record, current, life>>

-----------------------------------------------------------------------------
(* UpdateInstanceState: Get, then Set at the version Get returned.  Every  *)
(* error ends it early, and no caller on the warmup path looks at it.      *)
AfterPublish(p) ==
  CASE p \in Resetters -> "idle"
    [] p \in Requests -> IF pub[p] = "Warming" THEN "serve" ELSE "idle"
    [] OTHER -> [Registered |-> "select", Warming |-> "checkActive",
                 Active |-> "checkCount", Ready |-> "checkTimer",
                 Failed |-> "exited"][pub[p]]

EndPublish(p) ==
  /\ pub' = [pub EXCEPT ![p] = None]
  /\ Goto(p, AfterPublish(p))

Get(p) ==
  /\ pc[p] = "get"
  /\ record # None
  /\ current' = current \cup {p}
  /\ Goto(p, "set")
  /\ UNCHANGED <<state, count, timer, cfg, pub, record, life>>

(* The conditional write: it takes effect, and moves the version on, only  *)
(* if nobody has written since p's Get.                                    *)
Set(p) ==
  /\ pc[p] = "set"
  /\ IF p \in current
       THEN record' = pub[p] /\ current' = {}
       ELSE UNCHANGED <<record, current>>
  /\ EndPublish(p)
  /\ UNCHANGED <<state, count, timer, cfg, life>>

(* A call that returns an error: no znode, a lost connection, a closed     *)
(* registry.                                                               *)
ZkError(p) ==
  /\ pc[p] \in {"get", "set"}
  /\ ZkFaults \/ record = None
  /\ current' = current \ {p}
  /\ EndPublish(p)
  /\ UNCHANGED <<state, count, timer, cfg, record, life>>

(* The session that owns the ephemeral znode expires (the engine's own, or *)
(* that of an earlier incarnation of the instance).                        *)
SessionExpires ==
  /\ ZkFaults
  /\ record # None
  /\ record' = None
  /\ current' = {}
  /\ UNCHANGED <<state, count, timer, cfg, pc, pub, life, stale, overlap>>

-----------------------------------------------------------------------------
(* Start.                                                                  *)
Register ==
  /\ pc[Watch] = "register"
  /\ record' = "Registered"
  /\ current' = {}
  /\ Goto(Watch, "toRegistered")
  /\ UNCHANGED <<state, count, timer, cfg, pub, life>>

(* Start returns the error and the process exits (main.go:47-50).          *)
RegisterFails ==
  /\ pc[Watch] = "register"
  /\ ZkFaults
  /\ life' = "cancelled"
  /\ Goto(Watch, "exited")
  /\ UNCHANGED <<state, count, timer, cfg, pub, record, current>>

-----------------------------------------------------------------------------
(* runMirrorWatch: the select loop.  Any config may arrive: what the       *)
(* coordinator writes is not this module's business.                       *)
ReceiveConfig(c) ==
  /\ pc[Watch] = "select"
  /\ cfg' = c
  /\ Goto(Watch, "checkWarming")
  /\ UNCHANGED <<state, count, timer, pub, record, current, life>>

(* handleMirrorConfig, its three conditionals in order.                    *)
CheckWarming ==
  /\ pc[Watch] = "checkWarming"
  /\ Goto(Watch, IF cfg.warm /\ state = "Registered" THEN "toWarming"
                                                     ELSE "checkActive")
  /\ UNCHANGED <<state, count, timer, cfg, pub, record, current, life>>

CheckActiveUnguarded ==    \* faulty: promotes without asking for Ready
  /\ pc[Watch] = "checkActive"
  /\ Goto(Watch, IF cfg.promote THEN "toActive" ELSE "checkCount")
  /\ UNCHANGED <<state, count, timer, cfg, pub, record, current, life>>

CheckActive ==
  /\ pc[Watch] = "checkActive"
  /\ Goto(Watch, IF cfg.promote /\ state = "Ready" THEN "toActive"
                                                   ELSE "checkCount")
  /\ UNCHANGED <<state, count, timer, cfg, pub, record, current, life>>

(* The Ready check, shared by handleMirrorConfig and ShadowMiddleware.     *)
AfterReadyCheckShared(p) == "checkTimer"    \* faulty: one tail for both callers
AfterReadyCheck(p) == IF p = Watch THEN "checkTimer" ELSE "idle"

CheckCountEarly(p) ==    \* faulty: off by one
  /\ pc[p] = "checkCount"
  /\ Goto(p, IF count + 1 >= ReadyAfter THEN "checkState"
                                        ELSE AfterReadyCheck(p))
  /\ UNCHANGED <<state, count, timer, cfg, pub, record, current, life>>

CheckCount(p) ==
  /\ pc[p] = "checkCount"
  /\ Goto(p, IF count >= ReadyAfter THEN "checkState" ELSE AfterReadyCheck(p))
  /\ UNCHANGED <<state, count, timer, cfg, pub, record, current, life>>

CheckState(p) ==
  /\ pc[p] = "checkState"
  /\ Goto(p, IF state = "Warming" THEN "toReady" ELSE AfterReadyCheck(p))
  /\ UNCHANGED <<state, count, timer, cfg, pub, record, current, life>>

(* Timer.Stop under Go 1.22: a value the timer has already sent stays in   *)
(* its channel and can still be received.                                  *)
CheckTimerAlways ==    \* faulty: any config stops the timer
  /\ pc[Watch] = "checkTimer"
  /\ timer' = IF timer = "armed" THEN "off" ELSE timer
  /\ cfg' = NoConfig
  /\ Goto(Watch, "select")
  /\ UNCHANGED <<state, count, pub, record, current, life>>

CheckTimer ==
  /\ pc[Watch] = "checkTimer"
  /\ timer' = IF state = "Ready" /\ timer = "armed" THEN "off" ELSE timer
  /\ cfg' = NoConfig
  /\ Goto(Watch, "select")
  /\ UNCHANGED <<state, count, pub, record, current, life>>

TimerFires ==
  /\ timer = "armed"
  /\ Started
  /\ timer' = "fired"
  /\ UNCHANGED <<state, count, cfg, pc, pub, record, current, life, stale,
                 overlap>>

TakeTimeout ==
  /\ pc[Watch] = "select"
  /\ timer = "fired"
  /\ timer' = "off"
  /\ Goto(Watch, "timeoutReady")
  /\ UNCHANGED <<state, count, cfg, pub, record, current, life>>

(* State() # Ready && State() # Active: two reads of the state.            *)
CheckTimeout ==
  /\ \/ /\ pc[Watch] = "timeoutReady"
        /\ Goto(Watch, IF state = "Ready" THEN "select" ELSE "timeoutActive")
     \/ /\ pc[Watch] = "timeoutActive"
        /\ Goto(Watch, IF state = "Active" THEN "select" ELSE "toFailed")
  /\ UNCHANGED <<state, count, timer, cfg, pub, record, current, life>>

-----------------------------------------------------------------------------
(* ShadowMiddleware.                                                       *)
Arrive(r) ==
  /\ pc[r] = "idle"
  /\ Serving
  /\ Goto(r, IF state = "Registered" THEN "toWarming" ELSE "serve")
  /\ UNCHANGED <<state, count, timer, cfg, pub, record, current, life>>

Record(r) ==
  /\ pc[r] = "serve"
  /\ count' = IF count < ReadyAfter THEN count + 1 ELSE count
  /\ Goto(r, "checkCount")
  /\ UNCHANGED <<state, timer, cfg, pub, record, current, life>>

-----------------------------------------------------------------------------
(* ResetBenchmark: a new counter, then the forced state, both under e.mu,  *)
(* which no other operation takes.                                         *)
ResetShadow(r) ==
  /\ pc[r] = "idle"
  /\ Serving
  /\ \A q \in Resetters : pc[q] # "force"
  /\ count' = 0
  /\ pc' = [pc EXCEPT ![r] = "force"]
  /\ stale' = {p \in Proc : pc[p] \in CountedPoints}
  /\ overlap' = (overlap \/ \E q \in Proc : Busy(q))
  /\ UNCHANGED <<state, timer, cfg, pub, record, current, life>>

ResetStateSilently(r) ==    \* faulty: the forced state is not published
  /\ pc[r] = "force"
  /\ state' = Target["force"]
  /\ Goto(r, "idle")
  /\ UNCHANGED <<count, timer, cfg, pub, record, current, life>>

ResetState(r) ==
  /\ pc[r] = "force"
  /\ state' = Target["force"]
  /\ pub' = [pub EXCEPT ![r] = Target["force"]]
  /\ Goto(r, "get")
  /\ UNCHANGED <<count, timer, cfg, record, current, life>>

-----------------------------------------------------------------------------
(* Shutdown: main closes the registry, which ends the session and with it  *)
(* the znode, and then calls Stop, which cancels the watcher's context.    *)
CloseRegistry ==
  /\ Serving
  /\ life' = "closed"
  /\ record' = None
  /\ current' = {}
  /\ UNCHANGED <<state, count, timer, cfg, pc, pub, stale, overlap>>

Cancel ==
  /\ life = "closed"
  /\ life' = "cancelled"
  /\ UNCHANGED <<state, count, timer, cfg, pc, pub, record, current, stale,
                 overlap>>

WatchDoneBeforeTimeout ==    \* faulty: the context is watched with the timer only
  /\ pc[Watch] = "select"
  /\ life = "cancelled"
  /\ timer # "off"
  /\ Goto(Watch, "exited")
  /\ UNCHANGED <<state, count, timer, cfg, pub, record, current, life>>

WatchDone ==
  /\ pc[Watch] = "select"
  /\ life = "cancelled"
  /\ Goto(Watch, "exited")
  /\ UNCHANGED <<state, count, timer, cfg, pub, record, current, life>>

-----------------------------------------------------------------------------
Publish(p) == Get(p) \/ Set(p) \/ ZkError(p)
ReadyCheck(p) == CheckCount(p) \/ CheckState(p)

(* The steps a goroutine takes of its own accord, once it runs.            *)
WatchStep ==
  \/ Register \/ CheckWarming \/ CheckActive \/ CheckTimer \/ CheckTimeout
  \/ WatchDone
  \/ TransitAndPublish(Watch) \/ Publish(Watch) \/ ReadyCheck(Watch)

RequestStep(r) == Record(r) \/ TransitAndPublish(r) \/ Publish(r) \/ ReadyCheck(r)

ResetStep(r) == ResetState(r) \/ Publish(r)

Next ==
  \/ WatchStep \/ RegisterFails \/ TakeTimeout \/ TimerFires
  \/ \E c \in MirrorConfig : ReceiveConfig(c)
  \/ \E r \in Requests : Arrive(r) \/ RequestStep(r)
  \/ \E r \in Resetters : ResetShadow(r) \/ ResetStep(r)
  \/ SessionExpires \/ CloseRegistry \/ Cancel

Spec == Init /\ [][Next]_vars

(* The goroutines are scheduled, ZooKeeper calls return, a timer fires.    *)
(* select picks at random among the cases that are ready, so neither the   *)
(* timeout nor the cancelled context is passed over forever.               *)
Fairness ==
  /\ WF_vars(WatchStep)
  /\ WF_vars(TimerFires)
  /\ WF_vars(Cancel)
  /\ SF_vars(TakeTimeout)
  /\ SF_vars(WatchDone)
  /\ \A r \in Requests : WF_vars(RequestStep(r))
  /\ \A r \in Resetters : WF_vars(ResetStep(r))

FairSpec == Spec /\ Fairness

-----------------------------------------------------------------------------
ControlOK ==
  /\ pc \in [Proc -> Points]
  /\ \A p \in Proc : pc[p] \in PointsOf(p)
  /\ stale \subseteq Proc
  /\ overlap \in BOOLEAN

DataOK ==
  /\ state \in State
  /\ count \in 0 .. ReadyAfter
  /\ timer \in {"armed", "fired", "off"}
  /\ cfg \in MirrorConfig
  /\ pub \in [Proc -> State \cup {None}]
  /\ record \in State \cup {None}
  /\ current \subseteq Proc
  /\ life \in {"running", "closed", "cancelled"}

TypeOK == ControlOK /\ DataOK

(* The instance turns Ready only on enough mirrored requests since the     *)
(* last reset, whoever turns it and whatever else runs; the one exception  *)
(* is a goroutine that counted before a reset and decided after it         *)
(* (engine.go:148, :213 read the count and the state separately).          *)
ReadyStepIsWarmed ==
  [][(state # "Ready" /\ state' = "Ready") =>
       \/ count >= ReadyAfter
       \/ \E p \in stale : pc[p] = "toReady"]_vars

(* If no two goroutines ever published at the same time, then between      *)
(* publications the znode shows the state of the FSM, resets, timeouts and *)
(* refused transitions included.                                           *)
SerialAgreement ==
  (~overlap /\ life = "running" /\ \A p \in Proc : ~Busy(p)) => record = state

(* What the lifecycle has passed when the FSM or the znode is in a state.  *)
Stage == [Starting |-> 0, Registered |-> 1, Warming |-> 2, Ready |-> 3,
          Active |-> 4, Failed |-> 4]

(* Without resets the znode never shows a later stage than the FSM has     *)
(* reached, in whatever order publications land: other components may see  *)
(* an instance late but never early, nor Active when it is not.            *)
RecordTrails ==
  (Serving /\ record # None) =>
    /\ Stage[record] <= Stage[state]
    /\ (record = "Active" => state = "Active")

(* Without resets a warmup ends: the instance gets Ready, is promoted or   *)
(* fails on its timeout, however configs, requests and the timer race.     *)
WarmupResolves == <>(state \in {"Ready", "Active", "Failed"} \/ life # "running")

(* Stop's wg.Wait returns: a cancelled watcher always leaves its loop,     *)
(* from whatever step the shutdown finds it in.                            *)
StopDrains == (life = "cancelled") ~> (pc[Watch] = "exited")
=============================================================================
