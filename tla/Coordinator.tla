---------------------------- MODULE Coordinator ----------------------------
(***************************************************************************)
(* The warmup coordinator (cmd/warmup-coordinator/main.go) and the mirror  *)
(* config it writes (WriteMirrorConfig, warmkit/registry.go:152-173).      *)
(*                                                                         *)
(* Every HTTP request runs in a goroutine of its own, and createSession    *)
(* leaves a ramp goroutine behind.  One action is what one of them does    *)
(* under c.mu or in one ZooKeeper call.  Ratios are compared only, so they *)
(* are naturals; the clock appears as what it decides: a session id, and   *)
(* whether the hold deadline has passed.                                   *)
(***************************************************************************)
EXTENDS Naturals, Sequences, FiniteSets

CONSTANTS
  Instances,   \* instance ids
  Ids,         \* session ids
  Ramps,       \* createSession handlers, each with its ramp goroutine
  Completers,  \* completeSession handlers
  Putters,     \* setMirrorConfig handlers
  Steps,       \* DWSS_COORD_RAMP_STEPS
  Full,        \* ratio 1.0
  OneAtATime,  \* TRUE: the benchmark's protocol; FALSE: any HTTP client
  SameMs,      \* two sessions may be created in the same millisecond
  ZkFaults,    \* ZooKeeper calls may fail
  None

ASSUME WritersAssumption ==
  /\ Ramps \cap Completers = {} /\ Ramps \cap Putters = {} /\ Completers \cap Putters = {}
  /\ None \notin Ids \cup Instances

ASSUME RatiosAssumption == Full \in Nat /\ Steps \in Seq(0 .. Full)

ASSUME SwitchesAssumption == OneAtATime \in BOOLEAN /\ SameMs \in BOOLEAN /\ ZkFaults \in BOOLEAN

Writers == Ramps \cup Completers \cup Putters

MirrorConfig == [enabled : BOOLEAN, ratio : 0 .. Full, target : Instances \cup {None},
                 active : Instances \cup {None}, session : Ids \cup {None}]
NoConfig == [enabled |-> FALSE, ratio |-> 0, target |-> None, active |-> None,
             session |-> None]

Session == [status : {"running", "holding", "completed"}, target : Instances,
            active : Instances]

ASSUME NoneAssumption == None \notin Session /\ None \notin MirrorConfig

VARIABLES
  sessions,  \* coordinator.sessions: [Ids -> Session or None]
  config,    \* the mirror config in ZooKeeper, None without a znode
  ready,     \* instances whose record shows Ready or Active
  pc,        \* where each goroutine is
  out,       \* the config each goroutine writes
  step,      \* which ramp step each ramp is at
  promoted   \* history: sessions whose promotion has been written

vars == <<sessions, config, ready, pc, out, step, promoted>>

First == 0                  \* the write of ratio 0
Hold == Len(Steps) + 1      \* the writes of ratio 1.0
Last == Len(Steps) + 2      \* the write before status "holding"

Writing(w) == pc[w] \in {"write", "create"}
Exists(id) == sessions[id] # None
Status(id) == IF Exists(id) THEN sessions[id].status ELSE "none"
Open == {id \in Ids : Status(id) \in {"running", "holding"}}

(* The benchmark sends one request at a time, completes a session when it  *)
(* has seen it hold and starts none before the last is completed           *)
(* (benchmark/internal/experiment/experiment.go:88-148).  Its own configs  *)
(* name no session; they turn mirroring off, or on at the full ratio       *)
(* (coord/client.go:41, experiment.go:287-293).                            *)
ClientIdle == \A c \in Completers \cup Putters : ~Writing(c)
MayStart == OneAtATime => (ClientIdle /\ Open = {})
MayPut(cfg) ==
  OneAtATime => /\ MayStart
                /\ cfg.session = None /\ cfg.active \in Instances
                /\ cfg.ratio = IF cfg.enabled THEN Full ELSE 0
MayComplete(id) == OneAtATime => (ClientIdle /\ Status(id) = "holding")

Init ==
  /\ sessions = [id \in Ids |-> None]
  /\ config = None
  /\ ready = {}
  /\ pc = [w \in Writers |-> "idle"]
  /\ out = [w \in Writers |-> NoConfig]
  /\ step = [r \in Ramps |-> First]
  /\ promoted = {}

-----------------------------------------------------------------------------
(* createSession.  The id is the time in milliseconds.                     *)
CreateSession(r, id, target, active) ==
  /\ pc[r] = "idle"
  /\ MayStart
  /\ SameMs \/ \A q \in Ramps : pc[q] # "idle" => out[q].session # id
  /\ sessions' = [sessions EXCEPT ![id] = [status |-> "running", target |-> target,
                                          active |-> active]]
  /\ out' = [out EXCEPT ![r] = [enabled |-> TRUE, ratio |-> 0, target |-> target,
                               active |-> active, session |-> id]]
  /\ pc' = [pc EXCEPT ![r] = "write"]
  /\ UNCHANGED <<config, ready, step, promoted>>

-----------------------------------------------------------------------------
AfterWriteUnchecked(w, ok) ==    \* faulty: errors of the write are not looked at
  IF w \in Ramps
    THEN pc' = [pc EXCEPT ![w] = IF step[w] = First THEN "next"
                                 ELSE IF step[w] = Hold THEN "hold"
                                 ELSE IF step[w] = Last THEN "finish" ELSE "check"]
    ELSE pc' = [pc EXCEPT ![w] = "ok"]

(* What a writer does when WriteMirrorConfig returns.                      *)
AfterWrite(w, ok) ==
  IF w \in Ramps
    THEN pc' = [pc EXCEPT ![w] = IF step[w] = First THEN "next"
                                 ELSE IF step[w] = Hold THEN "hold"
                                 ELSE IF step[w] = Last THEN "finish" ELSE "check"]
    ELSE pc' = [pc EXCEPT ![w] = IF ok THEN "ok" ELSE "error"]

(* The write takes effect; the answer to it may be lost all the same.      *)
Written(w) ==
  /\ config' = out[w]
  /\ promoted' = IF w \in Completers THEN promoted \cup {out[w].session} ELSE promoted
  /\ \E ok \in BOOLEAN : (ok \/ ZkFaults) /\ AfterWrite(w, ok)
  /\ UNCHANGED <<sessions, ready, out, step>>

(* WriteMirrorConfig: Exists, and then Set(-1) or Create.  The znode is    *)
(* never deleted, so a Set can be merged with the Exists before it.        *)
Set(w) ==
  /\ pc[w] = "write"
  /\ config # None
  /\ Written(w)

ExistsNot(w) ==
  /\ pc[w] = "write"
  /\ config = None
  /\ pc' = [pc EXCEPT ![w] = "create"]
  /\ UNCHANGED <<sessions, config, ready, out, step, promoted>>

Create(w) ==
  /\ pc[w] = "create"
  /\ config = None
  /\ Written(w)

(* Another writer created the znode first, or ZooKeeper failed.            *)
WriteFails(w) ==
  /\ Writing(w)
  /\ ZkFaults \/ (pc[w] = "create" /\ config # None)
  /\ AfterWrite(w, FALSE)
  /\ UNCHANGED <<sessions, config, ready, out, step, promoted>>

WriteMirrorConfig(w) == Set(w) \/ ExistsNot(w) \/ Create(w) \/ WriteFails(w)

-----------------------------------------------------------------------------
(* runRamp.  Goes on to write ratio at step n.                             *)
WriteNext(r, n, ratio) ==
  /\ step' = [step EXCEPT ![r] = n]
  /\ out' = [out EXCEPT ![r].ratio = ratio]
  /\ pc' = [pc EXCEPT ![r] = "write"]

NextStepBackwards(r) ==    \* faulty: the steps are taken from the last to the first
  IF step[r] < Len(Steps)
    THEN WriteNext(r, step[r] + 1, Steps[Len(Steps) - step[r]])
    ELSE /\ out' = [out EXCEPT ![r].ratio = Full]
         /\ pc' = [pc EXCEPT ![r] = "hold"]
         /\ UNCHANGED step

(* The ramp loop goes on; once it is through, the ratio is 1.0.            *)
NextStep(r) ==
  IF step[r] < Len(Steps)
    THEN WriteNext(r, step[r] + 1, Steps[step[r] + 1])
    ELSE /\ out' = [out EXCEPT ![r].ratio = Full]
         /\ pc' = [pc EXCEPT ![r] = "hold"]
         /\ UNCHANGED step

RampNext(r) ==
  /\ pc[r] = "next"
  /\ NextStep(r)
  /\ UNCHANGED <<sessions, config, ready, promoted>>

(* instanceReady: the Get may fail, which counts as not ready.             *)
SeesReady(i) == i \in ready
MissesReady(i) == i \notin ready \/ ZkFaults

RampCheck(r) ==
  /\ pc[r] = "check"
  /\ \/ /\ SeesReady(out[r].target)
        /\ out' = [out EXCEPT ![r].ratio = Full]
        /\ pc' = [pc EXCEPT ![r] = "hold"]
        /\ UNCHANGED step
     \/ MissesReady(out[r].target) /\ NextStep(r)
  /\ UNCHANGED <<sessions, config, ready, promoted>>

HoldMore(r) ==
  /\ pc[r] = "hold"
  /\ MissesReady(out[r].target)
  /\ WriteNext(r, Hold, Full)
  /\ UNCHANGED <<sessions, config, ready, promoted>>

HoldEndsReadyOnly(r) ==    \* faulty: no deadline
  /\ pc[r] = "hold"
  /\ SeesReady(out[r].target)
  /\ WriteNext(r, Last, Full)
  /\ UNCHANGED <<sessions, config, ready, promoted>>

HoldEndsUnwritten(r) ==    \* faulty: no write after the loop
  /\ pc[r] = "hold"
  /\ pc' = [pc EXCEPT ![r] = "finish"]
  /\ UNCHANGED <<sessions, config, ready, out, step, promoted>>

(* The instance is ready, or the deadline has passed.                      *)
HoldEnds(r) ==
  /\ pc[r] = "hold"
  /\ WriteNext(r, Last, Full)
  /\ UNCHANGED <<sessions, config, ready, promoted>>

FinishGoesOn(r) ==    \* faulty: the status is set within the hold loop
  /\ pc[r] = "finish"
  /\ sessions' = IF Exists(out[r].session)
                   THEN [sessions EXCEPT ![out[r].session].status = "holding"]
                   ELSE sessions
  /\ pc' = [pc EXCEPT ![r] = "hold"]
  /\ UNCHANGED <<config, ready, out, step, promoted>>

(* The status is set whatever it was, if the session still exists.         *)
Finish(r) ==
  /\ pc[r] = "finish"
  /\ sessions' = IF Exists(out[r].session)
                   THEN [sessions EXCEPT ![out[r].session].status = "holding"]
                   ELSE sessions
  /\ pc' = [pc EXCEPT ![r] = "done"]
  /\ UNCHANGED <<config, ready, out, step, promoted>>

Ramp(r) == WriteMirrorConfig(r) \/ RampNext(r) \/ RampCheck(r) \/ HoldMore(r)
           \/ HoldEnds(r) \/ Finish(r)

-----------------------------------------------------------------------------
PromotionOfActive(id) ==    \* faulty: the old active instance stays active
  [enabled |-> FALSE, ratio |-> 0, target |-> sessions[id].target,
   active |-> sessions[id].active, session |-> id]

PromotionMirroring(id) ==    \* faulty: mirroring is not turned off
  [enabled |-> TRUE, ratio |-> 0, target |-> sessions[id].target,
   active |-> sessions[id].target, session |-> id]

(* completeSession, up to the unlock; the write of the promotion follows.  *)
Promotion(id) == [enabled |-> FALSE, ratio |-> 0, target |-> sessions[id].target,
                  active |-> sessions[id].target, session |-> id]

CompleteSession(c, id) ==
  /\ pc[c] = "idle"
  /\ Exists(id)
  /\ MayComplete(id)
  /\ out' = [out EXCEPT ![c] = Promotion(id)]
  /\ IF Status(id) = "completed"
       THEN /\ pc' = [pc EXCEPT ![c] = "ok"]
            /\ UNCHANGED sessions
       ELSE /\ sessions' = [sessions EXCEPT ![id].active = sessions[id].target,
                                           ![id].status = "completed"]
            /\ pc' = [pc EXCEPT ![c] = "write"]
  /\ UNCHANGED <<config, ready, step, promoted>>

(* deleteSession: the ramp is not told.                                    *)
DeleteSession(id) ==
  /\ ~OneAtATime
  /\ Exists(id)
  /\ sessions' = [sessions EXCEPT ![id] = None]
  /\ UNCHANGED <<config, ready, pc, out, step, promoted>>

(* setMirrorConfig: whatever the body says, the id of a session included.  *)
(* A ratio below 0 or above 1.0 mirrors as these do.                       *)
SetMirrorConfig(p, cfg) ==
  /\ pc[p] = "idle"
  /\ MayPut(cfg)
  /\ out' = [out EXCEPT ![p] = cfg]
  /\ pc' = [pc EXCEPT ![p] = "write"]
  /\ UNCHANGED <<sessions, config, ready, step, promoted>>

-----------------------------------------------------------------------------
(* The instances' records change.  One may cease to show Ready also within *)
(* a session: its warmup timeout has fired, an older publication lands     *)
(* late, or its ZooKeeper session expires (see WarmkitEngine).             *)
BecomeReady(i) ==
  /\ i \notin ready
  /\ ready' = ready \cup {i}
  /\ UNCHANGED <<sessions, config, pc, out, step, promoted>>

BecomeUnready(i) ==
  /\ i \in ready
  /\ ready' = ready \ {i}
  /\ UNCHANGED <<sessions, config, pc, out, step, promoted>>

Next ==
  \/ \E r \in Ramps : \/ Ramp(r)
                      \/ \E id \in Ids, target, active \in Instances :
                            CreateSession(r, id, target, active)
  \/ \E c \in Completers : \/ WriteMirrorConfig(c)
                           \/ \E id \in Ids : CompleteSession(c, id)
  \/ \E id \in Ids : DeleteSession(id)
  \/ \E i \in Instances : BecomeReady(i) \/ BecomeUnready(i)
  \/ \E p \in Putters : \/ WriteMirrorConfig(p)
                        \/ \E cfg \in MirrorConfig : SetMirrorConfig(p, cfg)

(* Goroutines run and time passes, so a hold deadline is reached.          *)
Fairness ==
  /\ \A r \in Ramps : WF_vars(Ramp(r)) /\ SF_vars(HoldEnds(r))
  /\ \A w \in Completers \cup Putters : WF_vars(WriteMirrorConfig(w))

Spec == Init /\ [][Next]_vars /\ Fairness

-----------------------------------------------------------------------------
TypeOK ==
  /\ sessions \in [Ids -> Session \cup {None}]
  /\ config \in MirrorConfig \cup {None}
  /\ ready \subseteq Instances
  /\ pc \in [Writers -> {"idle", "write", "create", "next", "check", "hold", "finish",
                        "done", "ok", "error"}]
  /\ out \in [Writers -> MirrorConfig]
  /\ step \in [Ramps -> First .. Last]
  /\ promoted \subseteq Ids

(* Nobody undoes a promotion: once a session is completed and its request  *)
(* answered, its config in ZooKeeper is the promoted one.  No late write   *)
(* of its ramp lands on top of it.                                         *)
PromotionSticks ==
  \A id \in Ids :
    (Status(id) = "completed" /\ ClientIdle /\ config # None /\ config.session = id) =>
      (~config.enabled /\ config.active = sessions[id].target)

(* A promotion that was written is final, even if every other write fails  *)
(* and the coordinator restarts: no goroutine of its session that is still *)
(* about turns its mirror on again or routes away from the instance.       *)
PromotionFinal ==
  \A id \in promoted :
    (config # None /\ config.session = id) =>
      (~config.enabled /\ config.active = config.target)

(* Status holding is the truth about ZooKeeper: the session's mirror is on *)
(* at full ratio, and traffic still goes to the old active instance.       *)
HoldingMirrors ==
  \A id \in Ids : Status(id) = "holding" =>
    config = [enabled |-> TRUE, ratio |-> Full, target |-> sessions[id].target,
              active |-> sessions[id].active, session |-> id]

(* Within a session the mirrored share only grows, across the ramp, the    *)
(* hold and the last write, until mirroring ends.                          *)
RatioRises ==
  [][(/\ config # None /\ config' # None
      /\ config.session \in Ids /\ config'.session = config.session
      /\ config'.enabled) => config'.ratio >= config.ratio]_vars

(* No session runs forever (the benchmark polls until it holds), whatever  *)
(* requests, deletions, other ramps, an instance that never gets ready and *)
(* ZooKeeper errors get in its way.                                        *)
RunningEnds == \A id \in Ids : Status(id) = "running" ~> Status(id) # "running"

(* For a client that runs its sessions one after another the coordinator   *)
(* implements WarmupSession.  A session counts as completed when its       *)
(* promotion is written, which is after its status says so; its plan is    *)
(* the one its ramp was started with.                                      *)
RampOf(id) == {r \in Ramps : out[r].session = id}
PlanOf(id) ==
  IF RampOf(id) = {} THEN None
  ELSE LET cfg == out[CHOOSE r \in RampOf(id) : TRUE]
       IN  [target |-> cfg.target, active |-> cfg.active]
PhaseOf(id) == IF Status(id) = "completed" /\ id \notin promoted THEN "holding" ELSE Status(id)
Mirroring == IF config # None /\ config.enabled THEN config.session ELSE None
Routed == IF config # None THEN config.active ELSE None
Warmup == INSTANCE WarmupSession WITH
  plan <- [id \in Ids |-> PlanOf(id)], phase <- [id \in Ids |-> PhaseOf(id)],
  mirror <- Mirroring, active <- Routed
ImplementsSession == Warmup!Spec

-----------------------------------------------------------------------------
(* What the benchmark's client says of the coordinator                     *)
(* (benchmark/internal/coord/client.go:137): completing a session promotes *)
(* the instance.  Once all promotions under way are over, every request    *)
(* answered with success has its promotion written.  So it is for a client *)
(* that completes a session once, and not for one that tries again.        *)
AnsweredIsPromoted ==
  ClientIdle => \A c \in Completers : pc[c] = "ok" => out[c].session \in promoted
=============================================================================
