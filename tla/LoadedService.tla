--------------------------- MODULE LoadedService ---------------------------
(***************************************************************************)
(* One LoadedService process: its settings, start and shutdown             *)
(* (cmd/server/main.go, internal/config, envcfg, pprofserver), its HTTP    *)
(* handlers (internal/httpserver/server.go) and the lazily built index     *)
(* they share (internal/workload/engine.go).                               *)
(*                                                                         *)
(* The warmup engine appears as its state and its count of shadow requests *)
(* only; its publications and its watch loop are WarmkitEngine's.  One     *)
(* action is what a handler does under one mutex.  Handlers that change    *)
(* nothing (health, readiness, requests refused before the workload        *)
(* without the shadow header, shadow POSTs) are left out.                  *)
(***************************************************************************)
EXTENDS Integers, FiniteSets

CONSTANTS
  Requests,   \* HTTP requests in flight at the same time
  Watch,      \* the goroutine of runMirrorWatch
  Numbers,    \* the numbers an int variable may be set to
  MaxResets,  \* bound on the resets
  None

ASSUME ProcessesAssumption == Watch \notin Requests /\ None \notin Requests

ASSUME BoundsAssumption == Numbers \subseteq Int /\ MaxResets \in Nat

Proc == Requests \cup {Watch}

VARIABLES
  phase,    \* start, registered, serving, deaf (listening failed), exited
  cfg,      \* the settings that matter here
  \* workload.Engine
  mu,       \* who holds e.mu, or None
  index,    \* number of the map in e.index, 0 for nil
  built, cold,  \* indexBuilt, indexCold
  maps,     \* number of maps made so far
  partial,  \* the last map is not filled yet
  \* the warmup engine
  state,    \* FSM.state
  count,    \* ShadowMetrics.count, counted up to ReadyAfter
  \* the handlers
  pc,       \* where each process is
  req,      \* each request: its kind, the map it looks up in, what it read of /state
  resets,   \* number of times the index was dropped
  excused,  \* history: a request was counted on a cold index, or a count was
            \* compared before a reset and acted upon after it
  torn      \* history: GET /state requests overtaken by such a reset

process == <<phase, cfg>>
workload == <<mu, index, built, cold, maps, partial>>
engine == <<state, count>>
history == <<resets, excused, torn>>
vars == <<process, workload, engine, pc, req, history>>

-----------------------------------------------------------------------------
(* The environment (envcfg.go): a variable is unset, blank, a number, or   *)
(* some other text; "list" is a text with something between its commas.    *)
Raw(text) == [text |-> text, n |-> 0]
Number(n) == [text |-> "number", n |-> n]
RawValues == {Raw(t) : t \in {"unset", "blank", "commas", "list", "warmup", "active", "true",
                              "false"}} \cup {Number(n) : n \in Numbers}

Required(v) == v.text \notin {"unset", "blank"}
RequiredInt(v) == Required(v) /\ v.text = "number"
RequiredBool(v) == Required(v) /\ (v.text \in {"true", "false"} \/ v \in {Number(0), Number(1)})
RequiredCSV(v) == Required(v) /\ v.text # "commas"
Truth(v) == v = Raw("true") \/ v = Number(1)

Texts == {"HTTP_ADDR", "ROLE", "INSTANCE_ID", "MMAP_FILE", "SERVICE_NAME"}
Ints == {"MMAP_SIZE_MB", "INDEX_KEYS", "WARMUP_READY_AFTER", "WARMUP_TIMEOUT_SEC",
         "SHADOW_METRICS_KEEP"}
Lists == {"ZK_ENDPOINTS"}
Pprof == {"PPROF_ENABLED", "PPROF_HTTP_ADDR"}

(* config.Load: every setting must be there and parse; nothing more is     *)
(* asked of a number.                                                      *)
Load(env) ==
  /\ \A n \in Texts : Required(env[n])
  /\ \A n \in Ints : RequiredInt(env[n])
  /\ \A n \in Lists : RequiredCSV(env[n])

Settings(env) == [role |-> env["ROLE"].text, keys |-> env["INDEX_KEYS"].n,
                  readyAfter |-> env["WARMUP_READY_AFTER"].n]
NoSettings == [role |-> None, keys |-> 0, readyAfter |-> 0]

(* pprofserver.StartFromEnv returns no error.                              *)
StartFromEnv(env) ==
  /\ RequiredBool(env["PPROF_ENABLED"])
  /\ Truth(env["PPROF_ENABLED"]) => Required(env["PPROF_HTTP_ADDR"])

(* Everything is set; then any one variable is, to any value at all.       *)
Sound == [n \in Texts \cup Ints \cup Lists \cup Pprof |->
            IF n \in Ints THEN Number(2) ELSE IF n = "ROLE" THEN Raw("warmup")
            ELSE IF n = "PPROF_ENABLED" THEN Raw("true") ELSE Raw("list")]
Environments == {[Sound EXCEPT ![n] = v] : n \in DOMAIN Sound, v \in RawValues}

HasEngine == cfg.role = "warmup"
ReadyAfter == cfg.readyAfter
NoRequest == [kind |-> None, got |-> 0, ready |-> FALSE, count |-> 0]

Init ==
  /\ phase = "start" /\ cfg = NoSettings
  /\ mu = None /\ index = 0 /\ built = FALSE /\ cold = TRUE /\ maps = 0 /\ partial = FALSE
  /\ state = "Starting" /\ count = 0
  /\ pc = [p \in Proc |-> "idle"]
  /\ req = [r \in Requests |-> NoRequest]
  /\ resets = 0 /\ excused = FALSE /\ torn = {}

-----------------------------------------------------------------------------
(* main: load, pprof, registration, and only then the listener.  Every     *)
(* error exits, also one of ZooKeeper.                                     *)
Register ==
  /\ phase = "start"
  /\ \E env \in Environments :
       /\ Load(env) /\ StartFromEnv(env)
       /\ cfg' = Settings(env)
  /\ phase' = "registered"
  /\ state' = IF HasEngine' THEN "Registered" ELSE state
  /\ UNCHANGED <<workload, count, pc, req, history>>

StartFails ==
  /\ phase = "start"
  /\ \E env \in Environments :
       ~Load(env) \/ ~StartFromEnv(env) \/ Settings(env).role \in {"warmup", "active"}
  /\ phase' = "exited"
  /\ UNCHANGED <<cfg, workload, engine, pc, req, history>>

(* Server.Start: an error of the listener is only logged.                  *)
Listen ==
  /\ phase = "registered"
  /\ phase' \in {"serving", "deaf"}
  /\ UNCHANGED <<cfg, workload, engine, pc, req, history>>

(* A signal: Shutdown takes no new requests and waits for those there are, *)
(* though not past its deadline, so the end may cut any of them off.       *)
Exit ==
  /\ phase \in {"serving", "deaf"}
  /\ phase' = "exited"
  /\ pc' = [p \in Proc |-> "idle"]
  /\ req' = [r \in Requests |-> NoRequest]
  /\ UNCHANGED <<cfg, workload, engine, history>>

-----------------------------------------------------------------------------
Goto(p, point) == pc' = [pc EXCEPT ![p] = point]
Continue(p, point) == Goto(p, point) /\ UNCHANGED req
End(r) == Goto(r, "idle") /\ req' = [req EXCEPT ![r] = NoRequest]
EndOf(p) == IF p = Watch THEN Continue(p, "idle") ELSE End(p)

(* A request is routed (New): shadow ones go through ShadowMiddleware,     *)
(* whatever their path and parameters; other is one that then runs no      *)
(* profile.                                                                *)
Shadow == {"shadow", "other"}
Kinds == {"work", "reset", "state"} \cup (IF HasEngine THEN Shadow ELSE {})
First == [work |-> "lock", shadow |-> "lock", other |-> "record", reset |-> "reset",
          state |-> "cold"]

Arrive(r, k) ==
  /\ phase = "serving" /\ pc[r] = "idle"
  /\ k = "reset" => resets < MaxResets
  /\ req' = [req EXCEPT ![r].kind = k]
  /\ state' = IF k \in Shadow /\ state = "Registered" THEN "Warming" ELSE state
  /\ torn' = torn \ {r}
  /\ Goto(r, First[k])
  /\ UNCHANGED <<process, workload, count, resets, excused>>

-----------------------------------------------------------------------------
(* RunProfile (GET /work, POST /warmup): under e.mu the index is built if  *)
(* it is not, and the reference to it is copied.                           *)
GetIndex(r) ==
  /\ req' = [req EXCEPT ![r].got = index]
  /\ Goto(r, "lookup")

MakeMap == maps' = maps + 1 /\ index' = maps' /\ partial' = TRUE

LockTrusting(r) ==    \* faulty: indexBuilt is set before the map is filled, outside e.mu
  /\ pc[r] = "lock" /\ mu = None
  /\ \/ built /\ GetIndex(r) /\ UNCHANGED workload
     \/ /\ ~built /\ built' = TRUE
        /\ MakeMap /\ Continue(r, "fill")
        /\ UNCHANGED <<mu, cold>>
  /\ UNCHANGED <<process, engine, history>>

Lock(r) ==
  /\ pc[r] = "lock" /\ mu = None
  /\ \/ built /\ GetIndex(r) /\ UNCHANGED workload
     \/ /\ ~built /\ mu' = r
        /\ MakeMap /\ Continue(r, "fill")
        /\ UNCHANGED <<built, cold>>
  /\ UNCHANGED <<process, engine, history>>

FillForgetting(r) ==    \* faulty: indexBuilt is not set
  /\ pc[r] = "fill"
  /\ partial' = FALSE /\ cold' = FALSE /\ mu' = None
  /\ GetIndex(r)
  /\ UNCHANGED <<process, index, built, maps, engine, history>>

FillLocked(r) ==    \* faulty: e.mu is held during the lookups, and a panic leaves it so
  /\ pc[r] = "fill"
  /\ partial' = FALSE /\ built' = TRUE /\ cold' = FALSE
  /\ mu' = IF cfg.keys <= 0 THEN r ELSE None
  /\ GetIndex(r)
  /\ UNCHANGED <<process, index, maps, engine, history>>

Fill(r) ==
  /\ pc[r] = "fill"
  /\ partial' = FALSE /\ built' = TRUE /\ cold' = FALSE
  /\ mu' = None
  /\ GetIndex(r)
  /\ UNCHANGED <<process, index, maps, engine, history>>

(* The lookups; Intn panics on a number of keys that is not positive, and  *)
(* net/http ends the request there: the middleware does not count it.      *)
Lookup(r) ==
  /\ pc[r] = "lookup"
  /\ \/ (cfg.keys <= 0 \/ req[r].kind \notin Shadow) /\ End(r)
     \/ req[r].kind \in Shadow /\ Continue(r, "record")
  /\ UNCHANGED <<process, workload, engine, history>>

-----------------------------------------------------------------------------
(* ShadowMiddleware after the handler; the watch loop checks as well.      *)
Record(r) ==
  /\ pc[r] = "record"
  /\ count' = IF count < ReadyAfter THEN count + 1 ELSE count
  /\ excused' = (excused \/ cold)
  /\ Continue(r, "check")
  /\ UNCHANGED <<process, workload, state, resets, torn>>

CheckCount(p) ==
  /\ pc[p] = "check" \/ (p = Watch /\ pc[p] = "idle" /\ phase \in {"serving", "deaf"} /\ HasEngine)
  /\ \/ count >= ReadyAfter /\ Continue(p, "ready")
     \/ count < ReadyAfter /\ EndOf(p)
  /\ UNCHANGED <<process, workload, engine, history>>

BecomeReady(p) ==
  /\ pc[p] = "ready"
  /\ state' = IF state = "Warming" THEN "Ready" ELSE state
  /\ EndOf(p)
  /\ UNCHANGED <<process, workload, count, history>>

(* runMirrorWatch otherwise: warm, promote, time out. The timer's branch   *)
(* reads the state twice and then moves it: it may have become Ready.      *)
WatchMoves ==
  /\ phase \in {"serving", "deaf"}
  /\ \/ state = "Registered" /\ state' = "Warming"
     \/ state = "Ready" /\ state' = "Active"
     \/ state \in {"Registered", "Warming", "Ready"} /\ state' = "Failed"
  /\ UNCHANGED <<process, workload, count, pc, req, history>>

-----------------------------------------------------------------------------
(* POST /reset: the index is dropped, then ResetBenchmark sets up a new    *)
(* counter and forces the state.                                           *)
DropIndex ==
  /\ mu = None
  /\ resets' = resets + 1
  /\ index' = 0 /\ built' = FALSE /\ cold' = TRUE
  /\ UNCHANGED <<mu, maps, partial>>

ResetCold(r) ==
  /\ pc[r] = "reset" /\ resets < MaxResets
  /\ DropIndex
  /\ \/ HasEngine /\ Continue(r, "counter")
     \/ ~HasEngine /\ End(r)
  /\ UNCHANGED <<process, engine, excused, torn>>

ResetCounterLater(r) ==    \* faulty: the counter is replaced after the state is forced
  /\ \/ /\ pc[r] = "counter" /\ state' = "Registered" /\ Continue(r, "force")
        /\ UNCHANGED <<count, excused, torn>>
     \/ /\ pc[r] = "force" /\ count' = 0 /\ End(r)
        /\ torn' = torn \cup {q \in Requests : pc[q] \in {"fsm", "count"}}
        /\ excused' = \E p \in Proc : pc[p] = "ready"
        /\ UNCHANGED state
  /\ UNCHANGED <<process, workload, resets>>

ResetBenchmark(r) ==
  /\ \/ /\ pc[r] = "counter" /\ \A q \in Requests : pc[q] # "force"    \* the engine's mutex
        /\ count' = 0 /\ Continue(r, "force")
        /\ torn' = torn \cup {q \in Requests : pc[q] \in {"fsm", "count"}}
        /\ excused' = \E p \in Proc : pc[p] = "ready"
        /\ UNCHANGED state
     \/ /\ pc[r] = "force" /\ state' = "Registered" /\ End(r)
        /\ UNCHANGED <<count, excused, torn>>
  /\ UNCHANGED <<process, workload, resets>>

(* The bound on resets is reached by another one.                          *)
ResetNoMore(r) ==
  /\ pc[r] = "reset" /\ resets = MaxResets
  /\ End(r)
  /\ UNCHANGED <<process, workload, engine, history>>

-----------------------------------------------------------------------------
(* GET /state: SnapshotState under e.mu, then Snapshot, which reads the    *)
(* state and the count one after the other.                                *)
ReadCold(r) ==
  /\ pc[r] = "cold" /\ mu = None
  /\ \/ HasEngine /\ Continue(r, "fsm")
     \/ ~HasEngine /\ End(r)
  /\ UNCHANGED <<process, workload, engine, history>>

Torn == excused \/ \E q \in Requests : pc[q] = "force"
ReadState(r) == req' = [req EXCEPT ![r].ready = (state \in {"Ready", "Active"})]
ReadCount(r) == req' = [req EXCEPT ![r].count = count]

SnapshotCountFirst(r) ==    \* faulty: the count is read before the state
  /\ \/ pc[r] = "fsm" /\ ReadCount(r) /\ Goto(r, "count")
     \/ pc[r] = "count" /\ ReadState(r) /\ Goto(r, "reply")
  /\ torn' = IF Torn THEN torn \cup {r} ELSE torn
  /\ UNCHANGED <<process, workload, engine, resets, excused>>

Snapshot(r) ==
  /\ \/ pc[r] = "fsm" /\ ReadState(r) /\ Goto(r, "count")
     \/ pc[r] = "count" /\ ReadCount(r) /\ Goto(r, "reply")
  /\ torn' = IF Torn THEN torn \cup {r} ELSE torn
  /\ UNCHANGED <<process, workload, engine, resets, excused>>

Reply(r) ==
  /\ pc[r] = "reply"
  /\ End(r)
  /\ UNCHANGED <<process, workload, engine, history>>

-----------------------------------------------------------------------------
Locking(r) == Lock(r) \/ ResetCold(r) \/ ReadCold(r)

Step(r) ==
  \/ Fill(r) \/ Lookup(r) \/ Record(r) \/ CheckCount(r) \/ BecomeReady(r)
  \/ ResetBenchmark(r) \/ ResetNoMore(r) \/ Snapshot(r) \/ Reply(r)

Next ==
  \/ Register \/ StartFails \/ Listen \/ Exit
  \/ WatchMoves \/ CheckCount(Watch) \/ BecomeReady(Watch)
  \/ \E r \in Requests : Locking(r) \/ Step(r) \/ \E k \in Kinds : Arrive(r, k)

(* Handlers run, and a Go mutex starves nobody.                            *)
Fairness == \A r \in Requests : WF_vars(Step(r)) /\ SF_vars(Locking(r))

Spec == Init /\ [][Next]_vars /\ Fairness

-----------------------------------------------------------------------------
TypeOK ==
  /\ phase \in {"start", "registered", "serving", "deaf", "exited"}
  /\ cfg \in [role : {None} \cup {v.text : v \in RawValues}, keys : Int, readyAfter : Int]
  /\ mu \in Requests \cup {None}
  /\ mu # None /\ phase # "exited" => pc[mu] = "fill"
  /\ index \in 0 .. maps /\ maps \in Nat
  /\ built \in BOOLEAN /\ cold \in BOOLEAN /\ partial \in BOOLEAN
  /\ state \in {"Starting", "Registered", "Warming", "Ready", "Active", "Failed"}
  /\ count \in Nat
  /\ pc \in [Proc -> {"idle", "lock", "fill", "lookup", "record", "check", "ready", "reset",
                      "counter", "force", "cold", "fsm", "count", "reply"}]
  /\ req \in [Requests -> [kind : DOMAIN First \cup {None}, got : 0 .. maps,
                           ready : BOOLEAN, count : Nat]]
  /\ resets \in 0 .. MaxResets /\ excused \in BOOLEAN /\ torn \subseteq Requests

(* Lookups, which run without e.mu, only ever see a map that is filled,    *)
(* although the index is dropped and rebuilt under them.                   *)
ReadsComplete ==
  \A r \in Requests : pc[r] = "lookup" =>
    req[r].got # 0 /\ ~(partial /\ req[r].got = maps)

(* Between two resets the index is built once, however many requests find  *)
(* it missing at the same time; later ones pay nothing.                    *)
BuiltOnce == maps <= resets + 1

(* Ready and Active mean warm: the index is there.  Not so while a reset   *)
(* is under way, with ReadyAfter not positive, or after a request counted  *)
(* on a cold index (a shadow GET of any path counts, engine.go:211; one    *)
(* that ran before a reset may be counted after it) or a count compared    *)
(* before a reset and acted upon after it (engine.go:213).                 *)
ReadyIsWarm ==
  (/\ state \in {"Ready", "Active"} /\ ReadyAfter > 0 /\ ~excused /\ phase # "exited"
   /\ \A r \in Requests : pc[r] \notin {"counter", "force"}) => ~cold

(* What GET /state says of readiness and of the count fits together, read  *)
(* apart as they are: no answer is ready on too few requests, unless a     *)
(* reset came between.                                                     *)
SnapshotCoherent ==
  \A r \in Requests :
    (pc[r] = "reply" /\ req[r].ready /\ r \notin torn) => req[r].count >= ReadyAfter

(* Every request is over some time, a panic in another one notwithstanding. *)
RequestsEnd == \A r \in Requests : pc[r] # "idle" ~> pc[r] = "idle"
=============================================================================
