----------------------------- MODULE Benchmark -----------------------------
(***************************************************************************)
(* The benchmark's scenarios run against the whole system                  *)
(* (benchmark/internal/experiment/experiment.go): its client, the          *)
(* coordinator of module Coordinator, the warmed instance and the proxy.   *)
(*                                                                         *)
(* Coordinator is taken for any client here; the client below is the       *)
(* benchmark's.  Of the instance there is the FSM, the counter and the     *)
(* index, a handler each an action (WarmkitEngine and LoadedService take   *)
(* them apart), of its record that it may show Ready long after the FSM    *)
(* turned Ready, or never (WarmkitEngine), and of the watchers that they   *)
(* see the current config, late or never (WarmkitWatch, ProxyWatch).       *)
(***************************************************************************)
EXTENDS Coordinator

CONSTANTS
  Warm, Active,    \* Manifest.TargetInst and ActiveInst
  Scenarios,       \* the scenarios run, in order
  Runs, MaxRuns,   \* valid runs wanted of each, and at most if the CV is high
  ReadyAfter,
  MaxShadows,      \* bound on the mirrored requests under way
  MaxRestarts      \* bound on the restarts of the coordinator

ASSUME PartsAssumption == Warm \in Instances /\ Active \in Instances /\ Warm # Active

ASSUME CountsAssumption ==
  /\ Scenarios \in Seq({"s0-control", "s-ref", "s-dw"}) /\ Len(Scenarios) > 0
  /\ Runs \in Nat \ {0} /\ MaxRuns \in Nat /\ Runs <= MaxRuns
  /\ ReadyAfter \in Nat /\ MaxShadows \in Nat /\ MaxRestarts \in Nat

VARIABLES
  \* the client
  at,        \* where runIndependent is
  scenario,  \* which of Scenarios it runs
  attempt, valid,
  sid,       \* the session of this attempt
  mine,      \* the coordinator's handler whose answer it waits for
  load,      \* loadgen sends requests
  \* the instance Warm
  state, count, cold,
  inbox,     \* the config its watch loop is about to handle, or None
  fetched,   \* the config its watcher read last
  loop,      \* the watch loop: with its timer, without, failing the instance, or ended
  published, \* the publication of Ready or Active has begun
  \* the proxy and the mirrored requests
  routed,    \* the proxy's config
  flying, serving,  \* mirrored requests sent, and served but not counted yet
  \* history
  restarts,
  spent,     \* the promotion was handled before Ready, or belongs to an earlier attempt
  quiet,     \* no mirrored request was under way at the attempt's check
  record     \* the attempt's valid run: its scenario, quiet, and the index as probed

client == <<at, scenario, attempt, valid, sid, mine, load>>
instance == <<state, count, cold, inbox, fetched, loop, published>>
mirrored == <<routed, flying, serving>>
history == <<restarts, spent, quiet, record>>
all == <<vars, client, instance, mirrored, history>>

(* The benchmark starts on a fresh system, without a mirror config.        *)
InitAll ==
  /\ Init
  /\ at = "reset" /\ scenario = 1 /\ attempt = 1 /\ valid = 0
  /\ sid = None /\ mine = None /\ load = FALSE
  /\ state = "Registered" /\ count = 0 /\ cold = TRUE
  /\ inbox = None /\ fetched = None /\ loop = "timed" /\ published = FALSE
  /\ routed = None /\ flying = 0 /\ serving = 0
  /\ restarts = 0 /\ spent = TRUE /\ quiet = TRUE /\ record = None

Ready == state \in {"Ready", "Active"}
Mirrors(cfg) == cfg # None /\ cfg.enabled /\ cfg.ratio > 0 /\ cfg.target = Warm
Promotes(cfg) == cfg # None /\ cfg.active = Warm

-----------------------------------------------------------------------------
(* The client.                                                             *)
Name == Scenarios[scenario]
Move(point) == at' = point /\ UNCHANGED <<scenario, attempt, valid, sid, mine, load>>

(* Handlers and ids are alike: any that was not used yet, as long as the   *)
(* bounds leave one.                                                       *)
Unused(handlers) == {w \in handlers : pc[w] = "idle"}
UnusedIds == {id \in Ids : \A r \in Ramps : out[r].session # id}
Free(handlers) == CHOOSE w \in Unused(handlers) : TRUE
NewId == CHOOSE id \in UnusedIds : TRUE

(* An error answer ends the process (log.Fatal).  A call that fails or     *)
(* times out does, too: the client takes no further step, which it is free *)
(* to do anywhere, and LoadEnds ends its load.                             *)
Fail ==
  /\ at \in {"putting", "completing"}
  /\ pc[mine] = "error"
  /\ at' = "failed" /\ load' = FALSE
  /\ UNCHANGED <<vars, scenario, attempt, valid, sid, mine, instance, mirrored, history>>

(* POST /reset.                                                            *)
ResetWarmup ==
  /\ at = "reset"
  /\ state' = "Registered" /\ count' = 0 /\ cold' = TRUE
  /\ spent' = TRUE
  /\ Move(CASE Name = "s-dw" -> "baseline" [] Name = "s-ref" -> "warmup" [] OTHER -> "check")
  /\ quiet' = TRUE /\ record' = None
  /\ UNCHANGED <<vars, inbox, fetched, loop, published, mirrored, restarts>>

(* s-ref: POST /warmup, and the index is seen warm.                        *)
PostWarmup ==
  /\ at = "warmup"
  /\ cold' = FALSE
  /\ Move("check")
  /\ UNCHANGED <<vars, state, count, inbox, fetched, loop, published, mirrored, history>>

(* s-dw: BaselineMirror, StartSession with the load beside it,             *)
(* WaitSessionHolding, CompleteSession, WaitReady.                         *)
Baseline == [NoConfig EXCEPT !.active = Active]

BaselineMirror ==
  /\ at = "baseline" /\ Unused(Putters) # {}
  /\ LET p == Free(Putters) IN SetMirrorConfig(p, Baseline) /\ mine' = p
  /\ at' = "putting"
  /\ UNCHANGED <<scenario, attempt, valid, sid, load, instance, mirrored, history>>

Answered(point, next) ==
  /\ at = point
  /\ pc[mine] = "ok"
  /\ Move(next)
  /\ UNCHANGED <<vars, instance, mirrored, history>>

StartSession ==
  /\ at = "start" /\ Unused(Ramps) # {} /\ UnusedIds # {}
  /\ CreateSession(Free(Ramps), NewId, Warm, Active)
  /\ sid' = NewId /\ at' = "poll" /\ load' = TRUE
  /\ spent' = FALSE
  /\ UNCHANGED <<scenario, attempt, valid, mine, instance, mirrored, restarts, quiet, record>>

WaitSessionAnswered ==    \* faulty: any answer to the poll will do
  /\ at = "poll"
  /\ Exists(sid)
  /\ Move("load")
  /\ UNCHANGED <<vars, instance, mirrored, history>>

WaitSessionHolding ==
  /\ at = "poll"
  /\ Status(sid) = "holding"
  /\ Move("load")
  /\ UNCHANGED <<vars, instance, mirrored, history>>

LoadEnds ==
  /\ load
  /\ load' = FALSE
  /\ UNCHANGED <<vars, at, scenario, attempt, valid, sid, mine, instance, mirrored, history>>

Complete ==
  /\ at = "load" /\ ~load /\ Unused(Completers) # {}
  /\ LET c == Free(Completers) IN CompleteSession(c, sid) /\ mine' = c
  /\ at' = "completing"
  /\ UNCHANGED <<scenario, attempt, valid, sid, load, instance, mirrored, history>>

WaitReady ==
  /\ at = "waitready"
  /\ Ready
  /\ Move("check")
  /\ UNCHANGED <<vars, instance, mirrored, history>>

-----------------------------------------------------------------------------
(* runIndependent: the loop over the attempts, after v valid runs.         *)
EndScenario(v) ==
  IF v = 0 THEN at' = "failed" /\ valid' = v /\ UNCHANGED <<scenario, attempt>>
  ELSE IF scenario < Len(Scenarios)
    THEN at' = "reset" /\ valid' = 0 /\ scenario' = scenario + 1 /\ attempt' = 1
    ELSE at' = "done" /\ valid' = v /\ UNCHANGED <<scenario, attempt>>

NextAttemptOnceMore(v) ==    \* faulty: one attempt too many
  IF attempt <= 2 * MaxRuns /\ v < MaxRuns
    THEN at' = "reset" /\ valid' = v /\ attempt' = attempt + 1 /\ UNCHANGED scenario
    ELSE EndScenario(v)

NextAttempt(v) ==
  IF attempt < 2 * MaxRuns /\ v < MaxRuns
    THEN at' = "reset" /\ valid' = v /\ attempt' = attempt + 1 /\ UNCHANGED scenario
    ELSE EndScenario(v)

ValidPreProbeNot == TRUE    \* faulty: every state is a valid one

(* /readyz and /state are read one after the other; Ready lasts.           *)
ValidPreProbe ==
  CASE Name = "s0-control" -> cold
    [] Name = "s-ref" -> ~cold
    [] OTHER -> Ready /\ ~cold

(* The state is read, and from it whether the attempt counts.              *)
Check ==
  /\ at = "check"
  /\ quiet' = (flying + serving = 0)
  /\ \/ ValidPreProbe /\ at' = "probe" /\ UNCHANGED <<scenario, attempt, valid>>
     \/ NextAttempt(valid)    \* invalid, or GET /state failed
  /\ UNCHANGED <<vars, sid, mine, load, instance, mirrored, restarts, spent, record>>

(* TFirst: GET /work, which builds the index where there is none.  Enough  *)
(* runs end the scenario if their CV is low.                               *)
Probe ==
  /\ at = "probe"
  /\ cold' = FALSE
  /\ record' = [scenario |-> Name, quiet |-> quiet, cold |-> cold]
  /\ \/ NextAttempt(valid + 1)
     \/ valid + 1 >= Runs /\ EndScenario(valid + 1)
  /\ UNCHANGED <<vars, sid, mine, load, state, count, inbox, fetched, loop, published,
                 mirrored, restarts, spent, quiet>>

ProbeFails ==
  /\ at = "probe"
  /\ NextAttempt(valid)
  /\ cold' \in {cold, FALSE}    \* it may have been served all the same
  /\ UNCHANGED <<vars, sid, mine, load, state, count, inbox, fetched, loop, published, mirrored,
                 history>>

Client ==
  \/ ResetWarmup \/ PostWarmup \/ BaselineMirror \/ Answered("putting", "start") \/ StartSession
  \/ WaitSessionHolding \/ LoadEnds \/ Complete \/ Answered("completing", "waitready")
  \/ WaitReady \/ Check \/ Probe \/ ProbeFails \/ Fail

-----------------------------------------------------------------------------
(* The instance.  SetState moves the FSM and begins to publish the state;  *)
(* what becomes of that is RecordChanges.                                  *)
SetState(to) ==
  /\ state' = to
  /\ published' = (published \/ to \in {"Ready", "Active"})

(* A publication fails, is refused or lands, however late, on whatever is  *)
(* there, and the record goes with its ZooKeeper session.  (WarmkitEngine  *)
(* keeps the publications apart.)                                          *)
RecordChanges ==
  /\ (published /\ BecomeReady(Warm)) \/ BecomeUnready(Warm)
  /\ UNCHANGED <<client, instance, mirrored, history>>

FetchConfig ==
  /\ loop # "ended"
  /\ inbox = None
  /\ config # fetched
  /\ inbox' = config /\ fetched' = config
  /\ UNCHANGED <<vars, client, state, count, cold, loop, published, mirrored, history>>

(* The three steps of handleMirrorConfig: the first that applies decides.  *)
(* Registered goes on to Ready at once if stragglers were counted.         *)
HandledEnabledOnly(cfg) ==    \* faulty: a config that mirrors nothing is skipped
  IF ~Mirrors(cfg) THEN state
  ELSE IF state = "Registered" THEN "Warming" ELSE state

Handled(cfg) ==
  LET begun == IF Mirrors(cfg) /\ state = "Registered" THEN "Warming" ELSE state
  IN  IF Promotes(cfg) /\ begun = "Ready" THEN "Active"
      ELSE IF begun = "Warming" /\ count >= ReadyAfter THEN "Ready" ELSE begun

HandleConfig ==
  /\ loop \in {"timed", "untimed"}
  /\ inbox # None
  /\ SetState(Handled(inbox))
  /\ loop' = IF state' = "Ready" THEN "untimed" ELSE loop
  /\ spent' = (spent \/ (Promotes(inbox) /\ inbox.session = sid /\ ~Ready))
  /\ inbox' = None
  /\ UNCHANGED <<vars, client, count, cold, fetched, mirrored, restarts, quiet, record>>

(* The timeout reads the state and, unless it is Ready or Active, fails    *)
(* the instance, although it may have turned Ready in the meantime.        *)
Timeout ==
  /\ loop = "timed"
  /\ loop' = IF Ready THEN "untimed" ELSE "failing"
  /\ UNCHANGED <<vars, client, state, count, cold, inbox, fetched, published, mirrored, history>>

TimeoutFails ==
  /\ loop = "failing"
  /\ loop' = "ended" /\ SetState("Failed")
  /\ UNCHANGED <<vars, client, count, cold, inbox, fetched, mirrored, history>>

(* ShadowMiddleware, before and after the request is served.               *)
ShadowArrives ==
  /\ flying > 0
  /\ flying' = flying - 1 /\ serving' = serving + 1
  /\ SetState(IF state = "Registered" THEN "Warming" ELSE state)
  /\ cold' = FALSE
  /\ UNCHANGED <<vars, client, count, inbox, fetched, loop, routed, history>>

ShadowCounted ==
  /\ serving > 0
  /\ serving' = serving - 1
  /\ count' = IF count < ReadyAfter THEN count + 1 ELSE count    \* compared to ReadyAfter only
  /\ SetState(IF count' >= ReadyAfter /\ state = "Warming" THEN "Ready" ELSE state)
  /\ UNCHANGED <<vars, client, cold, inbox, fetched, loop, routed, flying, history>>

Instance ==
  \/ FetchConfig \/ HandleConfig \/ Timeout \/ TimeoutFails \/ ShadowArrives \/ ShadowCounted
  \/ RecordChanges

-----------------------------------------------------------------------------
(* The proxy: it sees configs late, mirrors the load's requests, and sends *)
(* them to Warm once that is the active instance.                          *)
SeeConfig ==
  /\ routed # config
  /\ routed' = config
  /\ UNCHANGED <<vars, client, instance, flying, serving, history>>

SendShadow ==
  /\ load
  /\ Mirrors(routed)
  /\ flying + serving < MaxShadows
  /\ flying' = flying + 1
  /\ UNCHANGED <<vars, client, instance, routed, serving, history>>

ShadowLost ==
  /\ flying > 0
  /\ flying' = flying - 1
  /\ UNCHANGED <<vars, client, instance, routed, serving, history>>

Work ==
  /\ load
  /\ Promotes(routed)
  /\ cold' = FALSE
  /\ UNCHANGED <<vars, client, state, count, inbox, fetched, loop, published, mirrored, history>>

Proxy == SeeConfig \/ SendShadow \/ ShadowLost \/ Work

-----------------------------------------------------------------------------
(* The coordinator goes on with what the client began.  A restart loses    *)
(* the sessions and cuts off every goroutine.                              *)
Coordinates ==
  /\ \/ \E r \in Ramps : Ramp(r)
     \/ \E w \in Completers \cup Putters : WriteMirrorConfig(w)
  /\ UNCHANGED <<client, instance, mirrored, history>>

CoordinatorRestarts ==
  /\ restarts < MaxRestarts
  /\ restarts' = restarts + 1
  /\ sessions' = [id \in Ids |-> None]
  /\ pc' = [w \in Writers |-> IF pc[w] \in {"idle", "ok"} THEN pc[w]
                              ELSE IF w \in Ramps THEN "done" ELSE "error"]
  /\ UNCHANGED <<config, ready, out, step, promoted, client, instance, mirrored, spent, quiet,
                 record>>

NextAll == Client \/ Instance \/ Proxy \/ Coordinates \/ CoordinatorRestarts

(* The watcher gets to the current config (WarmkitWatch), its loop runs.   *)
SpecAll == InitAll /\ [][NextAll]_all /\ WF_all(FetchConfig) /\ WF_all(HandleConfig)
           /\ WF_all(TimeoutFails)

-----------------------------------------------------------------------------
TypeOKAll ==
  /\ TypeOK
  /\ at \in {"reset", "warmup", "baseline", "putting", "start", "poll", "load", "completing",
            "waitready", "check", "probe", "done", "failed"}
  /\ scenario \in 1 .. Len(Scenarios) /\ attempt \in 1 .. 2 * MaxRuns /\ valid \in 0 .. MaxRuns
  /\ sid \in Ids \cup {None} /\ mine \in Completers \cup Putters \cup {None}
  /\ load \in BOOLEAN
  /\ state \in {"Registered", "Warming", "Ready", "Active", "Failed"}
  /\ count \in 0 .. ReadyAfter /\ cold \in BOOLEAN
  /\ {inbox, fetched, routed} \subseteq MirrorConfig \cup {None}
  /\ loop \in {"timed", "untimed", "failing", "ended"} /\ published \in BOOLEAN
  /\ flying \in 0 .. MaxShadows /\ serving \in 0 .. MaxShadows

(* The benchmark, with its retries, is a client of the kind Coordinator's  *)
(* OneAtATime takes for granted: its steps on the coordinator's state are  *)
(* steps of that protocol, so what holds under it holds for the benchmark. *)
Protocol == INSTANCE Coordinator WITH OneAtATime <- TRUE
ProtocolKept == [][UNCHANGED vars \/ CoordinatorRestarts \/ Protocol!Next]_all

(* What a valid run measured is what its scenario is meant to measure,     *)
(* although the state was read some steps before the probe: a cold index   *)
(* for s0-control unless a mirrored request was still under way, a built   *)
(* one for the others.                                                     *)
ProbedAsIntended ==
  record # None =>
    IF record.scenario = "s0-control" THEN record.quiet => record.cold ELSE ~record.cold

(* Nothing is mirrored while the client resets, checks and probes, whether *)
(* the session before was held or the coordinator restarted: a ramp that   *)
(* is still going would warm the instance behind the measurement's back.   *)
ProbesUnmirrored ==
  at \in {"reset", "warmup", "waitready", "check", "probe", "done"} => ~Mirrors(config)

(* A Ready instance learns that it was promoted, unless its watch loop has *)
(* timed out or has used the promotion up before it was Ready.             *)
Promoted == Promotes(config) /\ ~config.enabled /\ state = "Ready"
PromotionHeard == Promoted ~> (~Promoted \/ spent \/ loop = "ended")
=============================================================================
