------------------------ MODULE LoadedServiceProofs ------------------------
(***************************************************************************)
(* Theorems about LoadedService, for any number of requests and resets and *)
(* any settings.                                                           *)
(***************************************************************************)
EXTENDS LoadedService, TLAPS

USE ProcessesAssumption, BoundsAssumption

-----------------------------------------------------------------------------
(* Before the start and after the end nothing runs.                        *)
Idle(p) == pc[p] = "idle"

AtRest ==
  /\ phase \in {"start", "exited"} => \A p \in Proc : Idle(p)
  /\ phase = "start" => state = "Starting" /\ count = 0

TypeInv == TypeOK /\ AtRest

(* Under e.mu: a map is being filled exactly while the mutex is held, by   *)
(* its holder only; what is built is there, and was built once since the   *)
(* last reset.                                                             *)
Filling ==
  /\ phase # "exited" => \A r \in Requests : pc[r] = "fill" <=> mu = r
  /\ phase # "exited" => (partial <=> mu # None)
  /\ partial => ~built /\ index = maps /\ index # 0
  /\ built => index # 0
  /\ cold <=> ~built

Spent == maps <= resets + (IF built \/ partial THEN 1 ELSE 0)

WorkInv == Filling /\ Spent /\ ReadsComplete

(* While no reset is between its two halves, requests that count and       *)
(* goroutines about to declare the instance ready have a built index.      *)
Dropped == \E r \in Requests : pc[r] = "counter"
Forcing == \E r \in Requests : pc[r] = "force"
Deciding == \E p \in Proc : pc[p] = "ready"

Certain == phase # "exited" /\ ~excused    \* the end of the process resets nothing

CountedWarm == count > 0 /\ Certain /\ ~Dropped => ~cold
DecidedWarm == Deciding /\ ReadyAfter > 0 /\ Certain /\ ~Dropped => ~cold

NoEngine ==    \* without the warmup role nothing of its engine moves
  ~HasEngine =>
    /\ state = "Starting" /\ count = 0
    /\ \A p \in Proc : pc[p] \notin {"record", "check", "ready", "counter", "force"}
    /\ \A r \in Requests : ~Idle(r) => req[r].kind \notin Shadow

Warm == CountedWarm /\ DecidedWarm /\ ReadyIsWarm

(* Ready means enough requests, up to the moment a reset forces the state, *)
(* and so does what GET /state has read of it.                             *)
DecidedEnough == Deciding /\ Certain => count >= ReadyAfter
ReadyEnough == state \in {"Ready", "Active"} /\ Certain /\ ~Forcing => count >= ReadyAfter
ReadEnough ==
  \A r \in Requests : pc[r] = "count" /\ req[r].ready /\ r \notin torn => count >= ReadyAfter

SnapInv == DecidedEnough /\ ReadyEnough /\ ReadEnough /\ SnapshotCoherent


-----------------------------------------------------------------------------
Points == {"idle", "lock", "fill", "lookup", "record", "check", "ready", "reset", "counter",
           "force", "cold", "fsm", "count", "reply"}
Request(n) == [kind : {"work", "shadow", "other", "reset", "state", None}, got : 0 .. n,
               ready : BOOLEAN, count : Nat]

(* What is known of the settings: numbers may be anything (Load).          *)
LEMMA SettingsTyped ==
  ASSUME NEW env \in Environments
  PROVE  Settings(env) \in [role : {None} \cup {v.text : v \in RawValues}, keys : Int,
                            readyAfter : Int]
<1> DEFINE Names == Texts \cup Ints \cup Lists \cup Pprof
<1>1. DOMAIN Sound = Names
  BY DEF Sound
<1>2. PICK n \in Names, v \in RawValues : env = [Sound EXCEPT ![n] = v]
  BY <1>1 DEF Environments
<1>3. Raw("warmup") \in RawValues /\ \A w \in RawValues : w.n \in Int
  BY DEF RawValues, Raw, Number
<1>4. env["ROLE"] = v \/ env["ROLE"] = Raw("warmup")
  <2>1. "ROLE" \in Names /\ "ROLE" \notin Ints /\ Sound["ROLE"] = Raw("warmup")
    BY DEF Sound, Texts, Ints
  <2> QED
    BY <1>2, <2>1 DEF Sound
<1>5. ASSUME NEW m \in {"INDEX_KEYS", "WARMUP_READY_AFTER"}
      PROVE  env[m] = v \/ env[m] = Number(2)
  <2>1. m \in Names /\ Sound[m] = Number(2)
    BY DEF Sound, Ints
  <2> QED
    BY <1>2, <2>1 DEF Sound
<1>6. env["INDEX_KEYS"].n \in Int /\ env["WARMUP_READY_AFTER"].n \in Int
  BY <1>3, <1>5 DEF Number
<1>7. env["ROLE"].text \in {w.text : w \in RawValues}
  BY <1>3, <1>4
<1> QED
  BY <1>6, <1>7 DEF Settings

(* A request enters at a point its kind names (New).                       *)
LEMMA Enters ==
  /\ DOMAIN First \cup {None} = {"work", "shadow", "other", "reset", "state", None}
  /\ \A k \in Kinds : k \in DOMAIN First /\ First[k] \in {"lock", "record", "reset", "cold"}
  /\ \A k \in Kinds : First[k] = "lock" <=> k \in {"work", "shadow"}
  /\ \A k \in Kinds : First[k] = "record" <=> k = "other"
<1>1. DOMAIN First = {"work", "shadow", "other", "reset", "state"}
  BY DEF First
<1>2. Kinds \subseteq {"work", "shadow", "other", "reset", "state"}
  BY DEF Kinds, Shadow
<1>3. /\ First["work"] = "lock" /\ First["shadow"] = "lock" /\ First["other"] = "record"
      /\ First["reset"] = "reset" /\ First["state"] = "cold"
  BY DEF First
<1>4. DOMAIN First \cup {None} = {"work", "shadow", "other", "reset", "state", None}
  BY <1>1
<1>5. ASSUME NEW k \in Kinds
      PROVE  /\ k \in DOMAIN First /\ First[k] \in {"lock", "record", "reset", "cold"}
             /\ First[k] = "lock" <=> k \in {"work", "shadow"}
             /\ First[k] = "record" <=> k = "other"
  <2>1. k \in {"work", "shadow", "other", "reset", "state"}
    BY <1>2
  <2> QED
    BY <2>1, <1>1, <1>3
<1> QED
  BY <1>4, <1>5


-----------------------------------------------------------------------------
(* A process moves, and no other does.                                     *)
LEMMA Moves ==
  ASSUME TypeOK, NEW p \in Proc, NEW point \in Points, Goto(p, point)
  PROVE  /\ pc' \in [Proc -> Points] /\ pc'[p] = point
         /\ \A q \in Proc : q # p => pc'[q] = pc[q]
  BY DEF TypeOK, Goto, Points

(* A request that ends leaves nothing behind.                              *)
LEMMA Ends ==
  ASSUME TypeOK, NEW p \in Proc, EndOf(p)
  PROVE  /\ Goto(p, "idle")
         /\ req' \in [Requests -> Request(maps)]
         /\ \A q \in Requests : q # p => req'[q] = req[q]
         /\ p \in Requests => req' = [req EXCEPT ![p] = NoRequest]
<1>1. req \in [Requests -> Request(maps)] /\ NoRequest \in Request(maps) /\ maps \in Nat
  BY Enters DEF TypeOK, Request, NoRequest
<1>2. CASE p = Watch
  BY <1>1, <1>2 DEF EndOf, Continue
<1>3. CASE p # Watch
  BY <1>1, <1>3 DEF EndOf, End
<1> QED
  BY <1>2, <1>3

(* The same of a request's End alone.                                      *)
LEMMA RequestEnds ==
  ASSUME TypeOK, NEW r \in Requests, End(r)
  PROVE  EndOf(r)
  BY DEF EndOf

(* The part of the type that the workload and its requests share.          *)
WorkTyped ==
  /\ mu \in Requests \cup {None}
  /\ mu # None /\ phase # "exited" => pc[mu] = "fill"
  /\ index \in 0 .. maps /\ maps \in Nat
  /\ built \in BOOLEAN /\ cold \in BOOLEAN /\ partial \in BOOLEAN
  /\ req \in [Requests -> Request(maps)]
  /\ pc \in [Proc -> Points]

CoreTyped ==
  /\ phase \in {"start", "registered", "serving", "deaf", "exited"}
  /\ cfg \in [role : {None} \cup {v.text : v \in RawValues}, keys : Int, readyAfter : Int]
  /\ state \in {"Starting", "Registered", "Warming", "Ready", "Active", "Failed"}
  /\ count \in Nat
  /\ resets \in 0 .. MaxResets /\ excused \in BOOLEAN /\ torn \subseteq Requests

(* Both parts together are TypeOK.                                         *)
LEMMA TypeParts == TypeOK <=> CoreTyped /\ WorkTyped
  BY Enters DEF TypeOK, CoreTyped, WorkTyped, Points, Request

(* Whoever moves outside e.mu leaves the workload well typed.              *)
LEMMA Aside ==
  ASSUME TypeOK, NEW p \in Proc, NEW point \in Points, Goto(p, point),
         pc[p] # "fill", phase' = phase, UNCHANGED workload,
         req' \in [Requests -> Request(maps)]
  PROVE  WorkTyped'
<1>1. WorkTyped
  BY TypeParts
<1>2. /\ pc' \in [Proc -> Points]
      /\ \A q \in Proc : q # p => pc'[q] = pc[q]
  BY Moves
<1>3. mu' # None /\ phase' # "exited" => pc'[mu] = "fill"
  BY <1>1, <1>2 DEF WorkTyped, workload, Proc
<1> QED
  BY <1>1, <1>2, <1>3 DEF WorkTyped, workload


-----------------------------------------------------------------------------
(* Initially.                                                              *)
LEMMA InitTyped == Init => TypeInv
<1> SUFFICES ASSUME Init PROVE TypeInv
  OBVIOUS
<1>1. NoRequest \in Request(0)
  BY DEF NoRequest, Request
<1>2. CoreTyped
  <2>1. cfg = [role |-> None, keys |-> 0, readyAfter |-> 0]
    BY DEF Init, NoSettings
  <2>2. cfg \in [role : {None} \cup {v.text : v \in RawValues}, keys : Int, readyAfter : Int]
    BY <2>1
  <2>3. count \in Nat /\ resets \in 0 .. MaxResets
    BY DEF Init
  <2>4. excused \in BOOLEAN /\ torn \subseteq Requests
    BY Zenon DEF Init
  <2> QED
    BY <2>2, <2>3, <2>4, Zenon DEF Init, CoreTyped
<1>3. WorkTyped
  <2>1. req \in [Requests -> Request(maps)]
    BY <1>1 DEF Init
  <2>2. pc \in [Proc -> Points]
    BY DEF Init, Points
  <2>3. index \in 0 .. maps /\ maps \in Nat
    BY DEF Init
  <2>4. built \in BOOLEAN /\ cold \in BOOLEAN /\ partial \in BOOLEAN
    BY Zenon DEF Init
  <2> QED
    BY <2>1, <2>2, <2>3, <2>4, Zenon DEF Init, WorkTyped
<1>4. AtRest
  BY DEF Init, AtRest, Idle
<1> QED
  BY <1>2, <1>3, <1>4, TypeParts DEF TypeInv

(* The process itself: start, listen, exit.                                *)
LEMMA ProcessTyped ==
  ASSUME TypeInv, Register \/ StartFails \/ Listen \/ Exit \/ WatchMoves
  PROVE  TypeInv'
<1>0. CoreTyped /\ WorkTyped /\ AtRest
  BY TypeParts DEF TypeInv
<1>1. CASE Register
  <2>1. cfg' \in [role : {None} \cup {v.text : v \in RawValues}, keys : Int, readyAfter : Int]
    BY <1>1, SettingsTyped DEF Register
  <2>2. CoreTyped'
    BY <1>0, <1>1, <2>1 DEF Register, CoreTyped, history
  <2>3. WorkTyped'
    BY <1>0, <1>1 DEF Register, WorkTyped, workload
  <2>4. AtRest'
    BY <1>0, <1>1 DEF Register, AtRest
  <2> QED
    BY <2>2, <2>3, <2>4, TypeParts, PTL DEF TypeInv
<1>2. CASE StartFails
  <2>1. CoreTyped'
    BY <1>0, <1>2 DEF StartFails, CoreTyped, history, engine
  <2>2. WorkTyped'
    BY <1>0, <1>2 DEF StartFails, WorkTyped, workload
  <2>3. AtRest'
    BY <1>0, <1>2 DEF StartFails, AtRest, Idle
  <2> QED
    BY <2>1, <2>2, <2>3, TypeParts, PTL DEF TypeInv
<1>3. CASE Listen
  <2>1. CoreTyped'
    BY <1>0, <1>3 DEF Listen, CoreTyped, history, engine
  <2>2. WorkTyped'
    BY <1>0, <1>3 DEF Listen, WorkTyped, workload
  <2>3. AtRest'
    BY <1>0, <1>3 DEF Listen, AtRest
  <2> QED
    BY <2>1, <2>2, <2>3, TypeParts, PTL DEF TypeInv
<1>4. CASE Exit
  <2>1. CoreTyped'
    BY <1>0, <1>4 DEF Exit, CoreTyped, history, engine
  <2>2. WorkTyped'
    <3>1. NoRequest \in Request(maps)
      BY <1>0 DEF NoRequest, Request, WorkTyped
    <3> QED
      BY <1>0, <1>4, <3>1, SMT DEF Exit, WorkTyped, workload, Points
  <2>3. AtRest'
    BY <1>0, <1>4 DEF Exit, AtRest, Idle
  <2> QED
    BY <2>1, <2>2, <2>3, TypeParts, PTL DEF TypeInv
<1>5. CASE WatchMoves
  <2>1. CoreTyped'
    BY <1>0, <1>5 DEF WatchMoves, CoreTyped, process, history
  <2>2. WorkTyped'
    BY <1>0, <1>5 DEF WatchMoves, WorkTyped, process, workload
  <2>3. AtRest'
    BY <1>0, <1>5 DEF WatchMoves, AtRest, process
  <2> QED
    BY <2>1, <2>2, <2>3, TypeParts, PTL DEF TypeInv
<1> QED
  BY <1>1, <1>2, <1>3, <1>4, <1>5


-----------------------------------------------------------------------------
(* Who moves does so while the process runs.                               *)
Running == phase \notin {"start", "exited"}

(* A process that is somewhere is one of a running server.                 *)
LEMMA Busy ==
  ASSUME AtRest, NEW p \in Proc, pc[p] # "idle"
  PROVE  Running
  BY DEF AtRest, Idle, Running

(* What a step outside e.mu has to show.                                   *)
LEMMA Outside ==
  ASSUME TypeInv, Running, NEW p \in Proc, NEW point \in Points, Goto(p, point),
         pc[p] # "fill", UNCHANGED <<process, workload>>,
         req' \in [Requests -> Request(maps)], CoreTyped'
  PROVE  TypeInv'
<1>1. WorkTyped'
  BY Aside DEF TypeInv, process
<1>2. AtRest'
  BY DEF AtRest, Running, process
<1> QED
  BY <1>1, <1>2, TypeParts, PTL DEF TypeInv

(* A request comes in.                                                     *)
LEMMA ArriveTyped ==
  ASSUME TypeInv, NEW r \in Requests, NEW k \in Kinds, Arrive(r, k)
  PROVE  TypeInv'
<1>1. CoreTyped /\ WorkTyped /\ Running /\ r \in Proc
  BY TypeParts DEF TypeInv, Arrive, Running, Proc
<1>2. req' \in [Requests -> Request(maps)]
  <2>1. k \in {"work", "shadow", "other", "reset", "state"}
    BY Enters DEF First
  <2>2. req \in [Requests -> Request(maps)] /\ req' = [req EXCEPT ![r].kind = k]
    BY <1>1 DEF WorkTyped, Arrive
  <2> QED
    BY <2>1, <2>2 DEF Request
<1>3. CoreTyped'
  BY <1>1 DEF Arrive, CoreTyped, process
<1>4. First[k] \in Points /\ Goto(r, First[k]) /\ pc[r] # "fill"
  BY Enters DEF Arrive, Points
<1> QED
  BY <1>1, <1>2, <1>3, <1>4, Outside DEF Arrive, TypeInv

(* The steps that a request takes alone, those of the watch loop with it.  *)
LEMMA ChecksTyped ==
  ASSUME TypeInv, NEW p \in Proc, CheckCount(p) \/ BecomeReady(p)
  PROVE  TypeInv'
<1>1. CoreTyped /\ WorkTyped /\ pc[p] # "fill" /\ UNCHANGED <<process, workload>>
  BY TypeParts DEF TypeInv, CheckCount, BecomeReady
<1>2. Running
  BY Busy DEF TypeInv, CheckCount, BecomeReady, Running
<1>3. CoreTyped'
  BY <1>1 DEF CheckCount, BecomeReady, CoreTyped, process, engine, history
<1>4. CASE Continue(p, "ready")
  <2>1. req' \in [Requests -> Request(maps)] /\ Goto(p, "ready") /\ "ready" \in Points
    BY <1>1, <1>4 DEF Continue, WorkTyped, Points
  <2> QED
    BY <1>1, <1>2, <1>3, <2>1, Outside
<1>5. CASE EndOf(p)
  <2>1. req' \in [Requests -> Request(maps)] /\ Goto(p, "idle") /\ "idle" \in Points
    BY <1>5, Ends DEF TypeInv, Points
  <2> QED
    BY <1>1, <1>2, <1>3, <2>1, Outside
<1> QED
  BY <1>4, <1>5 DEF CheckCount, BecomeReady


(* A request goes on, or ends, without e.mu.                               *)
LEMMA OnOrEnds ==
  ASSUME TypeInv, Running, NEW r \in Requests, NEW point \in Points,
         Continue(r, point) \/ End(r),
         pc[r] # "fill", UNCHANGED <<process, workload>>, CoreTyped'
  PROVE  TypeInv'
<1>0. r \in Proc /\ WorkTyped
  BY TypeParts DEF TypeInv, Proc
<1>1. CASE Continue(r, point)
  <2>1. req' \in [Requests -> Request(maps)] /\ Goto(r, point)
    BY <1>0, <1>1 DEF Continue, WorkTyped
  <2> QED
    BY <1>0, <2>1, Outside
<1>2. CASE End(r)
  <2>1. req' \in [Requests -> Request(maps)] /\ Goto(r, "idle") /\ "idle" \in Points
    BY <1>0, <1>2, Ends, RequestEnds DEF TypeInv, Points
  <2> QED
    BY <1>0, <2>1, Outside
<1> QED
  BY <1>1, <1>2

(* The other steps of a request outside e.mu keep the types.               *)
LEMMA StepTyped ==
  ASSUME TypeInv, NEW r \in Requests,
         \/ Lookup(r) \/ Record(r) \/ ResetBenchmark(r) \/ ResetNoMore(r) \/ Snapshot(r)
         \/ Reply(r) \/ ReadCold(r)
  PROVE  TypeInv'
<1>1. CoreTyped /\ WorkTyped /\ r \in Proc
  BY TypeParts DEF TypeInv, Proc
<1>2. /\ pc[r] \in {"lookup", "record", "counter", "force", "reset", "fsm", "count", "reply",
                    "cold"}
      /\ UNCHANGED <<process, workload>>
  BY DEF Lookup, Record, ResetBenchmark, ResetNoMore, Snapshot, Reply, ReadCold
<1>3. Running
  BY <1>1, <1>2, Busy DEF TypeInv
<1>4. {"record", "check", "force", "idle", "fsm", "count", "reply"} \subseteq Points
  BY DEF Points
<1>5. CASE Lookup(r)
  <2>1. CoreTyped'
    BY <1>1, <1>5 DEF Lookup, CoreTyped, process, engine, history
  <2> QED
    BY <1>2, <1>3, <1>4, <1>5, <2>1, OnOrEnds DEF Lookup
<1>6. CASE Record(r)
  <2>1. count' \in Nat
    BY <1>1, <1>6 DEF Record, CoreTyped
  <2>2. excused' \in BOOLEAN
    BY <1>1, <1>6, Zenon DEF Record, CoreTyped
  <2>3. CoreTyped'
    BY <1>1, <1>6, <2>1, <2>2, Zenon DEF Record, CoreTyped, process
  <2> QED
    BY <1>2, <1>3, <1>4, <1>6, <2>3, OnOrEnds DEF Record
<1>7. CASE ResetBenchmark(r)
  <2>1. CASE pc[r] = "counter"
    <3>1. /\ count' = 0 /\ Continue(r, "force") /\ UNCHANGED <<process, state, resets>>
          /\ torn' = torn \cup {q \in Requests : pc[q] \in {"fsm", "count"}}
          /\ excused' = \E p \in Proc : pc[p] = "ready"
      BY <1>7, <2>1 DEF ResetBenchmark
    <3>2. excused' \in BOOLEAN
      BY <3>1, Zenon
    <3>3. count' \in Nat /\ torn' \subseteq Requests
      BY <1>1, <3>1 DEF CoreTyped
    <3>4. CoreTyped'
      BY <1>1, <3>1, <3>2, <3>3, Zenon DEF CoreTyped, process
    <3> QED
      BY <1>2, <1>3, <1>4, <3>1, <3>4, OnOrEnds
  <2>2. CASE pc[r] = "force"
    <3>1. state' = "Registered" /\ End(r) /\ UNCHANGED <<process, count, resets, excused, torn>>
      BY <1>7, <2>2 DEF ResetBenchmark
    <3>2. CoreTyped'
      BY <1>1, <3>1, Zenon DEF CoreTyped, process
    <3> QED
      BY <1>2, <1>3, <1>4, <3>1, <3>2, OnOrEnds
  <2> QED
    BY <1>7, <2>1, <2>2 DEF ResetBenchmark
<1>8. CASE ResetNoMore(r)
  <2>1. CoreTyped'
    BY <1>1, <1>8 DEF ResetNoMore, CoreTyped, process, engine, history
  <2> QED
    BY <1>2, <1>3, <1>4, <1>8, <2>1, OnOrEnds DEF ResetNoMore
<1>9. CASE Snapshot(r)
  <2>1. torn' \subseteq Requests
    BY <1>1, <1>9 DEF Snapshot, CoreTyped
  <2>2. CoreTyped'
    BY <1>1, <1>9, <2>1 DEF Snapshot, CoreTyped, process, engine
  <2>3. (ReadState(r) /\ Goto(r, "count")) \/ (ReadCount(r) /\ Goto(r, "reply"))
    BY <1>9 DEF Snapshot
  <2>4. req' \in [Requests -> Request(maps)]
    <3>1. req \in [Requests -> Request(maps)] /\ count \in Nat
      BY <1>1 DEF WorkTyped, CoreTyped
    <3>2. CASE ReadState(r)
      <4>1. CASE state \in {"Ready", "Active"}
        <5>1. req' = [req EXCEPT ![r].ready = TRUE]
          BY <3>2, <4>1, Zenon DEF ReadState
        <5> QED
          BY <3>1, <5>1 DEF Request
      <4>2. CASE state \notin {"Ready", "Active"}
        <5>1. (state \in {"Ready", "Active"}) = FALSE
          BY <4>2
        <5>2. req' = [req EXCEPT ![r].ready = FALSE]
          BY <3>2, <5>1, Zenon DEF ReadState
        <5> QED
          BY <3>1, <5>2 DEF Request
      <4> QED
        BY <4>1, <4>2
    <3>3. CASE ReadCount(r)
      BY <3>1, <3>3 DEF ReadCount, Request
    <3> QED
      BY <2>3, <3>2, <3>3
  <2> QED
    BY <1>1, <1>2, <1>3, <1>4, <2>2, <2>3, <2>4, Outside
<1>10. CASE Reply(r)
  <2>1. CoreTyped'
    BY <1>1, <1>10 DEF Reply, CoreTyped, process, engine, history
  <2> QED
    BY <1>2, <1>3, <1>4, <1>10, <2>1, OnOrEnds DEF Reply
<1>11. CASE ReadCold(r)
  <2>1. CoreTyped'
    BY <1>1, <1>11 DEF ReadCold, CoreTyped, process, engine, history
  <2> QED
    BY <1>2, <1>3, <1>4, <1>11, <2>1, OnOrEnds DEF ReadCold
<1> QED
  BY <1>5, <1>6, <1>7, <1>8, <1>9, <1>10, <1>11


(* The steps under e.mu.                                                   *)
LEMMA LockedTyped ==
  ASSUME TypeInv, NEW r \in Requests, Lock(r) \/ Fill(r) \/ ResetCold(r)
  PROVE  TypeInv'
<1>1. CoreTyped /\ WorkTyped /\ r \in Proc /\ pc[r] \in {"lock", "fill", "reset"}
  BY TypeParts DEF TypeInv, Proc, Lock, Fill, ResetCold
<1>2. Running /\ process' = process
  BY <1>1, Busy DEF TypeInv, Lock, Fill, ResetCold
<1>3. AtRest'
  BY <1>2 DEF AtRest, Running, process
<1>4. /\ maps \in Nat /\ req \in [Requests -> Request(maps)] /\ NoRequest \in Request(maps)
      /\ Request(maps) \subseteq Request(maps + 1)
  BY <1>1 DEF WorkTyped, Request, NoRequest
<1>5. ASSUME NEW point, GetIndex(r)
      PROVE  req' \in [Requests -> Request(maps)] /\ Goto(r, "lookup")
  BY <1>1, <1>4, <1>5 DEF GetIndex, WorkTyped, Request
<1>6. {"lookup", "fill", "counter", "idle"} \subseteq Points
  BY DEF Points
<1>7. CASE Lock(r)
  <2>1. CoreTyped'
    BY <1>1, <1>7 DEF Lock, CoreTyped, process, engine, history
  <2>2. CASE built
    <3>1. GetIndex(r) /\ UNCHANGED workload
      BY <1>7, <2>2 DEF Lock
    <3>2. pc[r] # "fill"
      BY <1>7 DEF Lock
    <3> QED
      BY <1>1, <1>2, <1>5, <1>6, <2>1, <3>1, <3>2, Outside
  <2>3. CASE ~built
    <3>1. /\ mu' = r /\ maps' = maps + 1 /\ index' = maps' /\ partial' = TRUE
          /\ Goto(r, "fill") /\ req' = req /\ built' = built /\ cold' = cold
      BY <1>7, <2>3 DEF Lock, MakeMap, Continue
    <3>2. pc' \in [Proc -> Points] /\ pc'[r] = "fill"
      BY <1>1, <1>6, <3>1, Moves DEF TypeInv
    <3>3. req' \in [Requests -> Request(maps')]
      BY <1>4, <3>1
    <3>4. index' \in 0 .. maps' /\ maps' \in Nat
      BY <1>4, <3>1
    <3>5. built' \in BOOLEAN /\ cold' \in BOOLEAN /\ partial' \in BOOLEAN
      BY <1>1, <3>1, Zenon DEF WorkTyped
    <3>6. WorkTyped'
      BY <3>1, <3>2, <3>3, <3>4, <3>5, Zenon DEF WorkTyped
    <3> QED
      BY <1>3, <2>1, <3>6, TypeParts, PTL DEF TypeInv
  <2> QED
    BY <2>2, <2>3
<1>8. CASE Fill(r)
  <2>1. CoreTyped'
    BY <1>1, <1>8 DEF Fill, CoreTyped, process, engine, history
  <2>2. pc' \in [Proc -> Points]
    BY <1>1, <1>5, <1>6, <1>8, Moves DEF TypeInv, Fill
  <2>3. req' \in [Requests -> Request(maps')]
    BY <1>5, <1>8 DEF Fill
  <2>4. WorkTyped'
    BY <1>1, <1>8, <2>2, <2>3, Zenon DEF WorkTyped, Fill
  <2> QED
    BY <1>3, <2>1, <2>4, TypeParts, PTL DEF TypeInv
<1>9. CASE ResetCold(r)
  <2>1. resets' \in 0 .. MaxResets
    BY <1>1, <1>9 DEF ResetCold, DropIndex, CoreTyped
  <2>2. CoreTyped'
    BY <1>1, <1>9, <2>1 DEF ResetCold, CoreTyped, process, engine
  <2>3. /\ mu = None /\ mu' = mu /\ maps' = maps /\ index' = 0 /\ built' = FALSE
        /\ cold' = TRUE /\ partial' = partial
    BY <1>9 DEF ResetCold, DropIndex
  <2>4. pc' \in [Proc -> Points] /\ req' \in [Requests -> Request(maps')]
    <3>1. CASE Continue(r, "counter")
      BY <1>1, <1>6, <2>3, <3>1, Moves DEF TypeInv, Continue, WorkTyped
    <3>2. CASE End(r)
      BY <1>1, <1>6, <2>3, <3>2, Moves, Ends, RequestEnds DEF TypeInv
    <3> QED
      BY <1>9, <3>1, <3>2 DEF ResetCold
  <2>5. index' \in 0 .. maps'
    BY <1>4, <2>3
  <2>6. built' \in BOOLEAN /\ cold' \in BOOLEAN /\ partial' \in BOOLEAN
    BY <1>1, <2>3, Zenon DEF WorkTyped
  <2>7. WorkTyped'
    BY <1>1, <2>3, <2>4, <2>5, <2>6, Zenon DEF WorkTyped
  <2> QED
    BY <1>3, <2>2, <2>7, TypeParts, PTL DEF TypeInv
<1> QED
  BY <1>7, <1>8, <1>9

(* Every step keeps the types.                                             *)
LEMMA TypeStays == TypeInv /\ [Next]_vars => TypeInv'
<1> SUFFICES ASSUME TypeInv, [Next]_vars PROVE TypeInv'
  OBVIOUS
<1>1. CASE UNCHANGED vars
  <2>1. UNCHANGED <<process, workload, pc, req>> /\ UNCHANGED <<engine, history>>
    BY <1>1 DEF vars, process, workload, engine, history
  <2>2. CoreTyped'
    BY <2>1, TypeParts DEF TypeInv, CoreTyped, process, engine, history
  <2>3. WorkTyped'
    BY <2>1, TypeParts DEF TypeInv, WorkTyped, process, workload
  <2>4. AtRest'
    BY <2>1 DEF TypeInv, AtRest, Idle, process, engine
  <2> QED
    BY <2>2, <2>3, <2>4, TypeParts, PTL DEF TypeInv
<1>2. CASE Register \/ StartFails \/ Listen \/ Exit \/ WatchMoves
  BY <1>2, ProcessTyped
<1>3. CASE CheckCount(Watch) \/ BecomeReady(Watch)
  BY <1>3, ChecksTyped DEF Proc
<1>4. ASSUME NEW r \in Requests, Locking(r) PROVE TypeInv'
  BY <1>4, LockedTyped, StepTyped DEF Locking
<1>5. ASSUME NEW r \in Requests, Step(r) PROVE TypeInv'
  BY <1>5, LockedTyped, StepTyped, ChecksTyped DEF Step, Proc
<1>6. ASSUME NEW r \in Requests, NEW k \in Kinds, Arrive(r, k) PROVE TypeInv'
  BY <1>6, ArriveTyped
<1> QED
  BY <1>1, <1>2, <1>3, <1>4, <1>5, <1>6 DEF Next

(* Every value stays within its type; e.mu is held by the request that     *)
(* fills the map only (workload/engine.go:44-54), and never across a       *)
(* reset or the reply.                                                     *)
THEOREM TypeCorrect == Spec => []TypeOK
<1>1. Spec => []TypeInv
  BY InitTyped, TypeStays, PTL DEF Spec
<1> QED
  BY <1>1, PTL DEF TypeInv


-----------------------------------------------------------------------------
(* The workload: what the steps outside e.mu leave alone.                  *)
LEMMA WorkAside ==
  ASSUME TypeInv, WorkInv, Running, NEW p \in Proc, NEW point \in Points \ {"fill", "lookup"},
         Goto(p, point), pc[p] # "fill", UNCHANGED <<process, workload, resets>>,
         \A q \in Requests : q # p => req'[q] = req[q]
  PROVE  WorkInv'
<1>1. /\ pc' \in [Proc -> Points] /\ pc'[p] = point
      /\ \A q \in Proc : q # p => pc'[q] = pc[q]
  BY Moves DEF TypeInv
<1>2. Requests \subseteq Proc
  BY DEF Proc
<1>3. Filling'
  <2>1. \A r \in Requests : pc'[r] = "fill" <=> mu' = r
    BY <1>1, <1>2 DEF WorkInv, Filling, Running, workload
  <2> QED
    BY <2>1, Zenon DEF WorkInv, Filling, Running, process, workload
<1>4. Spent'
  BY DEF WorkInv, Spent, workload
<1>5. ReadsComplete'
  BY <1>1, <1>2 DEF WorkInv, ReadsComplete, workload
<1> QED
  BY <1>3, <1>4, <1>5 DEF WorkInv

(* Initially there is no index, and nobody looks anything up.              *)
LEMMA InitWork == Init => WorkInv
<1> SUFFICES ASSUME Init PROVE WorkInv
  OBVIOUS
<1>1. \A r \in Requests : pc[r] = "idle" /\ mu # r
  BY DEF Init, Proc
<1>2. phase # "exited" /\ built = FALSE /\ cold = TRUE /\ partial = FALSE /\ mu = None
  BY DEF Init
<1>3. Filling
  BY <1>1, <1>2 DEF Filling
<1>4. Spent
  BY <1>2 DEF Init, Spent
<1>5. ReadsComplete
  BY <1>1 DEF ReadsComplete
<1> QED
  BY <1>3, <1>4, <1>5 DEF WorkInv

(* Start, listen and exit leave the index alone.                           *)
LEMMA ProcessWork ==
  ASSUME TypeInv, WorkInv, Register \/ StartFails \/ Listen \/ Exit \/ WatchMoves
  PROVE  WorkInv'
<1>1. workload' = workload /\ resets' = resets
  BY DEF Register, StartFails, Listen, Exit, WatchMoves, history
<1>2. Spent'
  BY <1>1 DEF WorkInv, Spent, workload
<1>3. CASE Exit
  <2>1. phase' = "exited" /\ \A r \in Requests : pc'[r] = "idle"
    BY <1>3 DEF Exit, Proc
  <2>2. Filling'
    BY <1>1, <2>1 DEF WorkInv, Filling, workload
  <2>3. ReadsComplete'
    BY <2>1 DEF ReadsComplete
  <2> QED
    BY <1>2, <2>2, <2>3 DEF WorkInv
<1>4. CASE ~Exit
  <2>1. pc' = pc /\ req' = req /\ phase # "exited"
    BY <1>4 DEF Register, StartFails, Listen, WatchMoves
  <2>2. Filling'
    BY <1>1, <2>1 DEF WorkInv, Filling, workload
  <2>3. ReadsComplete'
    BY <1>1, <2>1 DEF WorkInv, ReadsComplete, workload
  <2> QED
    BY <1>2, <2>2, <2>3 DEF WorkInv
<1> QED
  BY <1>3, <1>4

(* So do the steps outside e.mu.                                           *)
LEMMA AsideWork ==
  ASSUME TypeInv, WorkInv,
         \/ \E r \in Requests :
              \/ Lookup(r) \/ Record(r) \/ ResetBenchmark(r) \/ ResetNoMore(r) \/ Snapshot(r)
              \/ Reply(r) \/ ReadCold(r)
              \/ \E k \in Kinds : Arrive(r, k)
         \/ \E p \in Proc : CheckCount(p) \/ BecomeReady(p)
  PROVE  WorkInv'
<1>0. /\ {"record", "check", "force", "idle", "fsm", "count", "reply", "ready", "lock", "reset",
          "cold"} \subseteq Points \ {"fill", "lookup"}
      /\ req \in [Requests -> Request(maps)] /\ Requests \subseteq Proc
  BY TypeParts DEF Points, TypeInv, WorkTyped, Proc
<1>1. ASSUME NEW r \in Requests, NEW k \in Kinds, Arrive(r, k) PROVE WorkInv'
  <2>1. First[k] \in Points \ {"fill", "lookup"}
    BY <1>0, Enters
  <2>2. \A q \in Requests : q # r => req'[q] = req[q]
    BY <1>0, <1>1 DEF Arrive
  <2>3. Running /\ pc[r] # "fill" /\ Goto(r, First[k]) /\ UNCHANGED <<process, workload, resets>>
    BY <1>1 DEF Arrive, Running
  <2> QED
    BY <1>0, <2>1, <2>2, <2>3, WorkAside
<1>2. ASSUME NEW p \in Proc, CheckCount(p) \/ BecomeReady(p) PROVE WorkInv'
  <2>1. Running /\ pc[p] # "fill" /\ UNCHANGED <<process, workload, resets>>
    BY <1>2, Busy DEF TypeInv, CheckCount, BecomeReady, Running, history
  <2>2. \/ Goto(p, "ready") /\ req' = req
        \/ EndOf(p)
    BY <1>2 DEF CheckCount, BecomeReady, Continue
  <2> QED
    BY <1>0, <2>1, <2>2, Ends, WorkAside DEF TypeInv
<1>3. ASSUME NEW r \in Requests,
             \/ Lookup(r) \/ Record(r) \/ ResetBenchmark(r) \/ ResetNoMore(r) \/ Snapshot(r)
             \/ Reply(r) \/ ReadCold(r)
      PROVE  WorkInv'
  <2>1. pc[r] # "idle" /\ pc[r] # "fill" /\ UNCHANGED <<process, workload, resets>>
    BY <1>3 DEF Lookup, Record, ResetBenchmark, ResetNoMore, Snapshot, Reply, ReadCold, history
  <2>2. Running
    BY <1>0, <2>1, Busy DEF TypeInv
  <2>3. \/ End(r)
        \/ Continue(r, "record") \/ Continue(r, "check") \/ Continue(r, "force")
        \/ Continue(r, "fsm")
        \/ ReadState(r) /\ Goto(r, "count")
        \/ ReadCount(r) /\ Goto(r, "reply")
    <3>1. CASE Lookup(r)
      BY <3>1 DEF Lookup
    <3>2. CASE Record(r)
      BY <3>2 DEF Record
    <3>3. CASE ResetBenchmark(r)
      BY <3>3 DEF ResetBenchmark
    <3>4. CASE ResetNoMore(r) \/ Reply(r)
      BY <3>4 DEF ResetNoMore, Reply
    <3>5. CASE Snapshot(r)
      BY <3>5 DEF Snapshot
    <3>6. CASE ReadCold(r)
      BY <3>6 DEF ReadCold
    <3> QED
      BY <1>3, <3>1, <3>2, <3>3, <3>4, <3>5, <3>6
  <2>4. CASE End(r)
    BY <1>0, <2>1, <2>2, <2>4, RequestEnds, Ends, WorkAside DEF TypeInv
  <2>5. CASE ~End(r)
    <3>1. \A q \in Requests : q # r => req'[q] = req[q]
      BY <1>0, <2>3, <2>5 DEF Continue, ReadState, ReadCount
    <3>2. PICK point \in Points \ {"fill", "lookup"} : Goto(r, point)
      BY <1>0, <2>3, <2>5, Zenon DEF Continue
    <3> QED
      BY <1>0, <2>1, <2>2, <3>1, <3>2, WorkAside
  <2> QED
    BY <2>4, <2>5
<1> QED
  BY <1>1, <1>2, <1>3


(* The workload: the steps under e.mu.                                     *)
LEMMA LockedWork ==
  ASSUME TypeInv, WorkInv, NEW r \in Requests, Lock(r) \/ Fill(r) \/ ResetCold(r)
  PROVE  WorkInv'
<1>0. /\ r \in Proc /\ Requests \subseteq Proc /\ pc[r] \in {"lock", "fill", "reset"}
      /\ WorkTyped /\ UNCHANGED process /\ Running
  BY TypeParts, Busy DEF TypeInv, Proc, Lock, Fill, ResetCold
<1>1. /\ {"lookup", "fill", "counter", "idle"} \subseteq Points
      /\ req \in [Requests -> Request(maps)] /\ maps \in Nat /\ None \notin Requests
      /\ \A q \in Requests : req[q].got \in 0 .. maps
  BY <1>0 DEF Points, WorkTyped, Request
<1>2. phase # "exited" /\ phase' = phase
  BY <1>0 DEF Running, process
<1>3. /\ \A q \in Requests : pc[q] = "fill" <=> mu = q
      /\ partial <=> mu # None
      /\ partial => ~built /\ index = maps /\ index # 0
      /\ built => index # 0
      /\ cold <=> ~built
  BY <1>2, Zenon DEF WorkInv, Filling
<1>4. CASE Lock(r) /\ built
  <2>1. /\ mu = None /\ UNCHANGED workload /\ Goto(r, "lookup") /\ resets' = resets
        /\ req' = [req EXCEPT ![r].got = index]
    BY <1>4 DEF Lock, GetIndex, history
  <2>2. pc'[r] = "lookup" /\ \A q \in Proc : q # r => pc'[q] = pc[q]
    BY <1>0, <1>1, <2>1, Moves DEF TypeInv
  <2>3. Filling'
    <3>1. \A q \in Requests : pc'[q] = "fill" <=> mu' = q
      BY <1>0, <1>3, <2>1, <2>2 DEF workload
    <3> QED
      BY <1>2, <1>3, <2>1, <3>1, Zenon DEF Filling, workload
  <2>4. Spent'
    BY <2>1 DEF WorkInv, Spent, workload
  <2>5. ReadsComplete'
    <3>1. ASSUME NEW q \in Requests, pc'[q] = "lookup"
          PROVE  req'[q].got # 0 /\ ~(partial /\ req'[q].got = maps)
      <4>1. CASE q = r
        BY <1>1, <1>3, <1>4, <2>1, <4>1 DEF Request
      <4>2. CASE q # r
        BY <1>0, <1>1, <2>1, <2>2, <3>1, <4>2 DEF WorkInv, ReadsComplete
      <4> QED
        BY <4>1, <4>2
    <3> QED
      BY <2>1, <3>1 DEF ReadsComplete, workload
  <2> QED
    BY <2>3, <2>4, <2>5 DEF WorkInv
<1>5. CASE Lock(r) /\ ~built
  <2>1. /\ mu = None /\ mu' = r /\ maps' = maps + 1 /\ index' = maps' /\ partial' = TRUE
        /\ Goto(r, "fill") /\ req' = req /\ built' = built /\ cold' = cold /\ resets' = resets
    BY <1>5 DEF Lock, MakeMap, Continue, history
  <2>2. pc'[r] = "fill" /\ \A q \in Proc : q # r => pc'[q] = pc[q]
    BY <1>0, <1>1, <2>1, Moves DEF TypeInv
  <2>3. Filling'
    <3>1. \A q \in Requests : pc'[q] = "fill" <=> mu' = q
      BY <1>0, <1>1, <1>3, <2>1, <2>2
    <3>2. index' = maps' /\ index' # 0 /\ mu' # None
      BY <1>1, <2>1
    <3> QED
      BY <1>2, <1>3, <1>5, <2>1, <3>1, <3>2, Zenon DEF Filling
  <2>4. Spent'
    <3>1. built = FALSE /\ partial = FALSE
      BY <1>0, <1>3, <1>5, <2>1, Zenon DEF WorkTyped
    <3>2. maps <= resets + 0
      BY <3>1 DEF WorkInv, Spent
    <3>3. resets \in Nat
      BY TypeParts DEF TypeInv, CoreTyped
    <3>4. maps' <= resets' + 1
      BY <1>1, <2>1, <3>2, <3>3
    <3> QED
      BY <2>1, <3>4 DEF Spent
  <2>5. ReadsComplete'
    BY <1>0, <1>1, <2>1, <2>2 DEF WorkInv, ReadsComplete
  <2> QED
    BY <2>3, <2>4, <2>5 DEF WorkInv
<1>6. CASE Fill(r)
  <2>1. /\ mu' = None /\ index' = index /\ maps' = maps /\ partial' = FALSE /\ built' = TRUE
        /\ cold' = FALSE /\ Goto(r, "lookup") /\ req' = [req EXCEPT ![r].got = index]
        /\ resets' = resets /\ pc[r] = "fill"
    BY <1>6 DEF Fill, GetIndex, history
  <2>2. pc'[r] = "lookup" /\ \A q \in Proc : q # r => pc'[q] = pc[q]
    BY <1>0, <1>1, <2>1, Moves DEF TypeInv
  <2>3. mu = r /\ partial /\ ~built /\ index # 0
    BY <1>1, <1>3, <2>1
  <2>4. Filling'
    <3>1. \A q \in Requests : pc'[q] = "fill" <=> mu' = q
      BY <1>0, <1>1, <1>3, <2>1, <2>2, <2>3
    <3> QED
      BY <1>2, <1>3, <2>1, <2>3, <3>1, Zenon DEF Filling
  <2>5. Spent'
    BY <2>1, <2>3 DEF WorkInv, Spent
  <2>6. ReadsComplete'
    <3>1. ASSUME NEW q \in Requests, pc'[q] = "lookup"
          PROVE  req'[q].got # 0
      <4>1. CASE q = r
        BY <1>1, <2>1, <2>3, <4>1 DEF Request
      <4>2. CASE q # r
        BY <1>0, <1>1, <2>1, <2>2, <3>1, <4>2 DEF WorkInv, ReadsComplete
      <4> QED
        BY <4>1, <4>2
    <3> QED
      BY <2>1, <3>1 DEF ReadsComplete
  <2> QED
    BY <2>4, <2>5, <2>6 DEF WorkInv
<1>7. CASE ResetCold(r)
  <2>1. /\ mu = None /\ mu' = mu /\ maps' = maps /\ index' = 0 /\ built' = FALSE
        /\ cold' = TRUE /\ partial' = partial /\ resets' = resets + 1 /\ resets \in Nat
    BY <1>7, TypeParts DEF ResetCold, DropIndex, TypeInv, CoreTyped
  <2>2. /\ pc'[r] \in {"counter", "idle"}
        /\ \A q \in Proc : q # r => pc'[q] = pc[q]
        /\ \A q \in Requests : q # r => req'[q] = req[q]
    <3>1. CASE Continue(r, "counter")
      BY <1>0, <1>1, <3>1, Moves DEF TypeInv, Continue
    <3>2. CASE End(r)
      BY <1>0, <1>1, <3>2, Moves, Ends, RequestEnds DEF TypeInv
    <3> QED
      BY <1>7, <3>1, <3>2 DEF ResetCold
  <2>3. ~partial
    BY <1>3, <2>1
  <2>4. Filling'
    <3>1. \A q \in Requests : pc'[q] = "fill" <=> mu' = q
      BY <1>0, <1>1, <1>3, <2>1, <2>2
    <3> QED
      BY <1>2, <1>3, <2>1, <2>3, <3>1, Zenon DEF Filling
  <2>5. Spent'
    BY <1>1, <2>1, <2>3 DEF WorkInv, Spent
  <2>6. ReadsComplete'
    BY <1>0, <2>1, <2>2, <2>3 DEF WorkInv, ReadsComplete
  <2> QED
    BY <2>4, <2>5, <2>6 DEF WorkInv
<1> QED
  BY <1>4, <1>5, <1>6, <1>7

(* Every step keeps what is known of the index.                            *)
LEMMA WorkStays == TypeInv /\ WorkInv /\ [Next]_vars => WorkInv'
<1> SUFFICES ASSUME TypeInv, WorkInv, [Next]_vars PROVE WorkInv'
  OBVIOUS
<1>1. CASE UNCHANGED vars
  BY <1>1, Zenon DEF WorkInv, Filling, Spent, ReadsComplete, vars, process, workload, engine,
                     history
<1>2. CASE Register \/ StartFails \/ Listen \/ Exit \/ WatchMoves
  BY <1>2, ProcessWork
<1>3. CASE CheckCount(Watch) \/ BecomeReady(Watch)
  BY <1>3, AsideWork DEF Proc
<1>4. ASSUME NEW r \in Requests, Locking(r) PROVE WorkInv'
  BY <1>4, LockedWork, AsideWork DEF Locking
<1>5. ASSUME NEW r \in Requests, Step(r) PROVE WorkInv'
  BY <1>5, LockedWork, AsideWork DEF Step, Proc
<1>6. ASSUME NEW r \in Requests, NEW k \in Kinds, Arrive(r, k) PROVE WorkInv'
  BY <1>6, AsideWork
<1> QED
  BY <1>1, <1>2, <1>3, <1>4, <1>5, <1>6 DEF Next

(* What is known of the index, always.                                     *)
LEMMA WorkHolds == Spec => [](TypeInv /\ WorkInv)
  BY InitTyped, TypeStays, InitWork, WorkStays, PTL DEF Spec

(* Lookups run on copied references after e.mu is released                 *)
(* (workload/engine.go:53-61), and still never see a map that is missing   *)
(* or half filled, whatever resets and rebuilds come meanwhile.            *)
THEOREM LooksUpComplete == Spec => []ReadsComplete
  BY WorkHolds, PTL DEF WorkInv

(* Between two resets the index is built once, however many requests find  *)
(* it missing at the same time (workload/engine.go:45-52).                 *)
THEOREM BuildsOnce == Spec => []BuiltOnce
<1>1. TypeInv /\ WorkInv => BuiltOnce
  BY TypeParts DEF TypeInv, CoreTyped, WorkTyped, WorkInv, Spent, BuiltOnce
<1> QED
  BY <1>1, WorkHolds, PTL


-----------------------------------------------------------------------------
(* What a step of a request does to the engine.                            *)
LEMMA Marks ==
  ASSUME TypeInv, NEW p \in Proc, NEW point \in Points, Goto(p, point)
  PROVE  /\ Deciding' /\ point # "ready" => Deciding
         /\ Dropped /\ pc[p] # "counter" => Dropped'
         /\ Forcing /\ pc[p] # "force" => Forcing'
         /\ p \in Requests /\ point = "counter" => Dropped'
         /\ p \in Requests /\ point = "force" => Forcing'
<1>1. pc'[p] = point /\ \A q \in Proc : q # p => pc'[q] = pc[q]
  BY Moves DEF TypeInv
<1>2. Requests \subseteq Proc
  BY DEF Proc
<1> QED
  BY <1>1, <1>2 DEF Deciding, Dropped, Forcing

(* Most steps of a request do nothing to it that matters.                  *)
Declared == {"Ready", "Active"}

CalmPoints == Points \ {"ready", "force", "count", "reply", "counter"}

Calm(r) ==
  /\ Running /\ phase' = phase /\ cfg' = cfg
  /\ pc[r] \notin {"counter", "force"}
  /\ \E point \in CalmPoints : Goto(r, point)
  /\ count' = count /\ excused' = excused /\ (state' \in Declared => state \in Declared)
  /\ cold' => cold
  /\ \A q \in Requests : q # r => req'[q] = req[q] /\ (q \in torn => q \in torn')


(* Which steps those are.                                                  *)
LEMMA CalmSteps ==
  ASSUME TypeInv, NEW r \in Requests,
         \/ Lock(r) \/ Fill(r) \/ Lookup(r) \/ ResetNoMore(r) \/ ReadCold(r) \/ Reply(r)
         \/ \E k \in Kinds : Arrive(r, k)
  PROVE  Calm(r)
<1>0. /\ {"record", "idle", "fsm", "lock", "fill", "lookup", "reset", "cold"} \subseteq CalmPoints
      /\ req \in [Requests -> Request(maps)] /\ r \in Proc
  BY TypeParts DEF Points, CalmPoints, TypeInv, WorkTyped, Proc
<1>1. Running
  BY <1>0, Busy DEF TypeInv, Arrive, Running, Lock, Fill, Lookup, ResetNoMore, ReadCold, Reply
<1>2. pc[r] \notin {"counter", "force"} /\ process' = process /\ count' = count
  BY DEF Arrive, Lock, Fill, Lookup, ResetNoMore, ReadCold, Reply, engine
<1>3. ASSUME Lock(r) \/ Fill(r) PROVE Calm(r)
  <2>1. cold' => cold
    BY <1>3, Zenon DEF Lock, Fill, workload
  <2>2. \/ Goto(r, "lookup") /\ req' = [req EXCEPT ![r].got = index]
        \/ Goto(r, "fill") /\ req' = req
    BY <1>3 DEF Lock, Fill, GetIndex, Continue
  <2>3. UNCHANGED <<engine, history>>
    BY <1>3 DEF Lock, Fill
  <2>4. \A q \in Requests : q # r => req'[q] = req[q]
    BY <1>0, <2>2
  <2>5. \E point \in CalmPoints : Goto(r, point)
    BY <1>0, <2>2
  <2> QED
    BY <1>1, <1>2, <2>1, <2>3, <2>4, <2>5 DEF Calm, process, engine, history
<1>4. ASSUME Lookup(r) \/ ResetNoMore(r) \/ ReadCold(r) \/ Reply(r) PROVE Calm(r)
  <2>1. UNCHANGED <<workload, engine, history>>
    BY <1>4 DEF Lookup, ResetNoMore, ReadCold, Reply
  <2>2. End(r) \/ Continue(r, "record") \/ Continue(r, "fsm")
    BY <1>4 DEF Lookup, ResetNoMore, ReadCold, Reply
  <2>3. /\ \A q \in Requests : q # r => req'[q] = req[q]
        /\ \E point \in CalmPoints : Goto(r, point)
    <3>1. CASE End(r)
      BY <1>0, <3>1, Ends, RequestEnds DEF TypeInv
    <3>2. CASE ~End(r)
      BY <1>0, <2>2, <3>2 DEF Continue
    <3> QED
      BY <3>1, <3>2
  <2> QED
    BY <1>1, <1>2, <2>1, <2>3 DEF Calm, process, workload, engine, history
<1>5. ASSUME NEW k \in Kinds, Arrive(r, k) PROVE Calm(r)
  <2>1. First[k] \in CalmPoints
    BY <1>0, Enters
  <2>2. Goto(r, First[k]) /\ excused' = excused /\ cold' = cold
    BY <1>5 DEF Arrive, workload
  <2>3. \A q \in Requests : q # r => req'[q] = req[q] /\ (q \in torn => q \in torn')
    BY <1>0, <1>5 DEF Arrive
  <2>4. state' \in Declared => state \in Declared
    BY <1>5 DEF Arrive, Declared
  <2> QED
    BY <1>1, <1>2, <2>1, <2>2, <2>3, <2>4 DEF Calm, process
<1> QED
  BY <1>3, <1>4, <1>5

(* Without the warmup role, the engine does not move.                      *)
LEMMA NoEngineInit == Init => NoEngine
<1> SUFFICES ASSUME Init PROVE NoEngine
  OBVIOUS
<1>1. state = "Starting" /\ count = 0 /\ \A p \in Proc : pc[p] = "idle"
  BY DEF Init
<1> QED
  BY <1>1 DEF NoEngine, Idle, Proc

(* The same for a step of a request that does not count.                   *)
LEMMA NoEngineAside ==
  ASSUME TypeInv, NoEngine, ~HasEngine, cfg' = cfg,
         NEW p \in Proc, NEW point \in CalmPoints \cup {"count", "reply"}, Goto(p, point),
         point # "record", point # "check", state' = state, count' = count,
         \A q \in Requests : q # p => req'[q] = req[q],
         p \in Requests /\ point # "idle" => req'[p].kind \notin Shadow
  PROVE  NoEngine'
<1>1. /\ pc'[p] = point /\ \A q \in Proc : q # p => pc'[q] = pc[q]
      /\ point \notin {"record", "check", "ready", "counter", "force"}
  BY Moves DEF TypeInv, CalmPoints, Points
<1>2. \A q \in Proc : pc'[q] \notin {"record", "check", "ready", "counter", "force"}
  BY <1>1 DEF NoEngine
<1>3. ASSUME NEW q \in Requests, pc'[q] # "idle" PROVE req'[q].kind \notin Shadow
  BY <1>1, <1>3 DEF NoEngine, Idle, Proc
<1> QED
  BY <1>2, <1>3 DEF NoEngine, Idle

(* Every step.                                                             *)
LEMMA NoEngineStays ==
  ASSUME TypeInv, NoEngine, Next
  PROVE  NoEngine'
<1>0. /\ {"idle", "lock", "fill", "lookup", "reset", "cold", "count", "reply"}
           \subseteq CalmPoints \cup {"count", "reply"}
      /\ req \in [Requests -> Request(maps)] /\ Requests \subseteq Proc
  BY TypeParts DEF Points, CalmPoints, TypeInv, WorkTyped, Proc
<1>1. CASE Register
  <2>1. /\ state' = IF HasEngine' THEN "Registered" ELSE state
        /\ state = "Starting" /\ count' = 0 /\ pc' = pc /\ \A p \in Proc : pc[p] = "idle"
    BY <1>1 DEF Register, TypeInv, AtRest, Idle
  <2> QED
    BY <1>0, <2>1 DEF NoEngine, Idle
<1>2. CASE StartFails \/ Listen
  BY <1>2 DEF StartFails, Listen, NoEngine, HasEngine, engine, Idle
<1>3. CASE Exit
  <2>1. cfg' = cfg /\ state' = state /\ count' = count /\ \A p \in Proc : pc'[p] = "idle"
    BY <1>3 DEF Exit, engine
  <2> QED
    BY <1>0, <2>1 DEF NoEngine, HasEngine, Idle
<1>4. CASE WatchMoves
  <2>1. cfg' = cfg /\ count' = count /\ pc' = pc /\ req' = req /\ state # "Starting"
    BY <1>4 DEF WatchMoves, process
  <2> QED
    BY <2>1 DEF NoEngine, HasEngine
<1>5. ASSUME NEW p \in Proc, CheckCount(p) \/ BecomeReady(p) PROVE NoEngine'
  BY <1>5 DEF CheckCount, BecomeReady, process, NoEngine, HasEngine
<1>6. ASSUME ~HasEngine, NEW r \in Requests, Locking(r) \/ Step(r),
             ~CheckCount(r), ~BecomeReady(r)
      PROVE  NoEngine'
  <2>1. /\ pc[r] \notin {"record", "check", "ready", "counter", "force"}
        /\ pc[r] # "idle" => req[r].kind \notin Shadow
    BY <1>0, <1>6 DEF NoEngine, Idle
  <2>2. ~Record(r) /\ ~ResetBenchmark(r)
    BY <2>1 DEF Record, ResetBenchmark
  <2>3. UNCHANGED <<cfg, state, count>> /\ req[r].kind \notin Shadow
    BY <1>6, <2>1, <2>2 DEF Locking, Step, Lock, Fill, ResetCold, ReadCold, Lookup, ResetNoMore,
                            Snapshot, Reply, process, engine
  <2>4. CASE End(r)
    BY <1>0, <1>6, <2>3, <2>4, Ends, RequestEnds, NoEngineAside DEF TypeInv
  <2>5. CASE Lock(r) \/ Fill(r) \/ Snapshot(r)
    <3>1. /\ req'[r].kind = req[r].kind
          /\ \A q \in Requests : q # r => req'[q] = req[q]
          /\ \E point \in {"fill", "lookup", "count", "reply"} : Goto(r, point)
      <4>1. CASE Lock(r)
        BY <1>0, <4>1 DEF Lock, GetIndex, Continue, Request
      <4>2. CASE Fill(r)
        BY <1>0, <4>2 DEF Fill, GetIndex, Request
      <4>3. CASE Snapshot(r)
        BY <1>0, <4>3 DEF Snapshot, ReadState, ReadCount, Request
      <4> QED
        BY <2>5, <4>1, <4>2, <4>3
    <3>2. PICK point \in {"fill", "lookup", "count", "reply"} : Goto(r, point)
      BY <3>1
    <3> QED
      BY <1>0, <1>6, <2>3, <3>1, <3>2, NoEngineAside
  <2>6. Lock(r) \/ Fill(r) \/ Snapshot(r) \/ End(r)
    BY <1>6, <2>2, <2>3 DEF Locking, Step, ResetCold, ReadCold, Lookup, ResetNoMore, Reply
  <2> QED
    BY <2>4, <2>5, <2>6
<1>7. ASSUME ~HasEngine, NEW r \in Requests, NEW k \in Kinds, Arrive(r, k)
      PROVE  NoEngine'
  <2>1. k \in {"work", "reset", "state"} /\ k \notin Shadow
    BY <1>7 DEF Kinds, Shadow
  <2>2. First[k] \in CalmPoints /\ First[k] # "record" /\ First[k] # "check"
    BY <1>0, <2>1, Enters DEF CalmPoints
  <2>3. /\ Goto(r, First[k]) /\ cfg' = cfg /\ count' = count /\ state' = state
        /\ req'[r].kind = k /\ \A q \in Requests : q # r => req'[q] = req[q]
    BY <1>0, <1>7, <2>1 DEF Arrive, process, Request
  <2> QED
    BY <1>0, <1>7, <2>1, <2>2, <2>3, NoEngineAside
<1>8. CASE HasEngine /\ ~Register
  <2>1. cfg' = cfg
    BY <1>8 DEF Next, StartFails, Listen, Exit, WatchMoves, CheckCount, BecomeReady, Locking, Step,
                Lock, ResetCold, ReadCold, Fill, Lookup, Record, ResetBenchmark, ResetNoMore,
                Snapshot, Reply, Arrive, process
  <2> QED
    BY <1>8, <2>1 DEF NoEngine, HasEngine
<1> QED
  BY <1>1, <1>2, <1>3, <1>4, <1>5, <1>6, <1>7, <1>8 DEF Next, Proc


-----------------------------------------------------------------------------
(* Ready means warm: the steps that do nothing to it.                      *)
LEMMA WarmSteady ==
  ASSUME TypeInv, Warm, phase' = phase, cfg' = cfg,
         Deciding' => Deciding, Dropped => Dropped', cold' => cold,
         count' = count, excused' = excused,
         state' \in {"Ready", "Active"} =>
            state \in {"Ready", "Active"} /\ \A r \in Requests :
               pc[r] \in {"counter", "force"} =>
                  \E q \in Requests : pc'[q] \in {"counter", "force"}
  PROVE  Warm'
<1>1. CountedWarm'
  BY Zenon DEF Warm, CountedWarm, Certain
<1>2. DecidedWarm'
  BY Zenon DEF Warm, DecidedWarm, Certain, ReadyAfter
<1>3. ReadyIsWarm'
  BY Zenon DEF Warm, ReadyIsWarm, ReadyAfter
<1> QED
  BY <1>1, <1>2, <1>3 DEF Warm

(* At the end nothing is claimed.                                          *)
LEMMA WarmEnded ==
  ASSUME phase' = "exited"
  PROVE  Warm'
  BY DEF Warm, CountedWarm, DecidedWarm, ReadyIsWarm, Certain

(* Every step keeps ready instances warm.                                  *)
LEMMA WarmStays ==
  ASSUME TypeInv, NoEngine, Warm, Next
  PROVE  Warm'
<1>0. /\ {"check", "record", "force", "idle", "fsm", "count", "reply", "ready", "counter"}
           \subseteq Points
      /\ Requests \subseteq Proc /\ count \in Nat /\ ReadyAfter \in Int
  BY TypeParts DEF Points, TypeInv, CoreTyped, Proc, ReadyAfter
<1>1. CASE Register
  <2>1. count' = 0 /\ state' \notin {"Ready", "Active"} /\ \A p \in Proc : pc'[p] = "idle"
    BY <1>1 DEF Register, TypeInv, AtRest, Idle
  <2> QED
    BY <2>1 DEF Warm, CountedWarm, DecidedWarm, ReadyIsWarm, Deciding
<1>2. CASE StartFails \/ Exit
  BY <1>2, WarmEnded DEF StartFails, Exit
<1>3. CASE Listen \/ WatchMoves
  <2>1. /\ pc' = pc /\ cfg' = cfg /\ cold' = cold /\ count' = count /\ excused' = excused
        /\ state' \in {"Ready", "Active"} => state \in {"Ready", "Active"}
        /\ phase # "exited" /\ phase' # "exited"
    BY <1>3 DEF Listen, WatchMoves, process, workload, engine, history
  <2> QED
    BY <2>1 DEF Warm, CountedWarm, DecidedWarm, ReadyIsWarm, Certain, Deciding, Dropped, ReadyAfter
<1>4. ASSUME NEW p \in Proc, CheckCount(p) \/ BecomeReady(p) PROVE Warm'
  <2>1. /\ phase' = phase /\ cfg' = cfg /\ cold' = cold /\ count' = count /\ excused' = excused
        /\ pc[p] \in {"check", "idle", "ready"}
    BY <1>4 DEF CheckCount, BecomeReady, process, workload, engine, history
  <2>2. CASE CheckCount(p) /\ count >= ReadyAfter
    <3>1. Goto(p, "ready") /\ state' = state
      BY <1>0, <2>2 DEF CheckCount, Continue, engine
    <3>2. /\ Dropped => Dropped'
          /\ \A r \in Requests : pc[r] \in {"counter", "force"} => pc'[r] \in {"counter", "force"}
      BY <1>0, <2>1, <3>1, Moves, Marks DEF TypeInv
    <3>3. CountedWarm'
      BY <2>1, <3>2, Zenon DEF Warm, CountedWarm, Certain
    <3>4. DecidedWarm'
      <4>1. ReadyAfter > 0 => count > 0
        BY <1>0, <2>2
      <4>2. ReadyAfter' > 0 => count' > 0
        BY <2>1, <4>1 DEF ReadyAfter
      <4> QED
        BY <3>3, <4>2, Zenon DEF DecidedWarm, CountedWarm
    <3>5. ReadyIsWarm'
      BY <2>1, <3>1, <3>2, Zenon DEF Warm, ReadyIsWarm, ReadyAfter
    <3> QED
      BY <3>3, <3>4, <3>5 DEF Warm
  <2>3. CASE EndOf(p)
    <3>1. Goto(p, "idle")
      BY <2>3, Ends DEF TypeInv
    <3>2. (Dropped => Dropped') /\ (Deciding' => Deciding)
      BY <1>0, <2>1, <3>1, Marks
    <3>3. \A r \in Requests : pc[r] \in {"counter", "force"} => pc'[r] \in {"counter", "force"}
      BY <1>0, <2>1, <3>1, Moves DEF TypeInv
    <3>4. CASE state' = "Ready" /\ state = "Warming"
      <4>1. pc[p] = "ready"
        BY <1>4, <3>4 DEF CheckCount, BecomeReady, engine
      <4>2. Deciding
        BY <4>1 DEF Deciding
      <4>3. CountedWarm'
        BY <2>1, <3>2, Zenon DEF Warm, CountedWarm, Certain
      <4>4. DecidedWarm'
        BY <2>1, <3>2, Zenon DEF Warm, DecidedWarm, Certain, ReadyAfter
      <4>5. (\A r \in Requests : pc'[r] \notin {"counter", "force"}) => ~Dropped
        BY <3>3 DEF Dropped
      <4>6. ReadyIsWarm'
        BY <2>1, <4>2, <4>5, Zenon DEF Warm, DecidedWarm, ReadyIsWarm, Certain, ReadyAfter
      <4> QED
        BY <4>3, <4>4, <4>6 DEF Warm
    <3>5. CASE ~(state' = "Ready" /\ state = "Warming")
      <4>1. state' = state
        BY <1>4, <3>5 DEF CheckCount, BecomeReady, engine
      <4> QED
        BY <2>1, <3>2, <3>3, <4>1, WarmSteady
    <3> QED
      BY <3>4, <3>5
  <2> QED
    BY <1>4, <2>2, <2>3 DEF CheckCount, BecomeReady
<1>5. ASSUME NEW r \in Requests, Record(r) PROVE Warm'
  <2>1. /\ Goto(r, "check") /\ (cold => excused') /\ cold' = cold
        /\ phase' = phase /\ cfg' = cfg /\ state' = state
    BY <1>5, Zenon DEF Record, Continue, process, workload
  <2> QED
    BY <2>1, Zenon DEF Warm, CountedWarm, DecidedWarm, ReadyIsWarm, Certain
<1>6. ASSUME NEW r \in Requests, ResetCold(r) PROVE Warm'
  <2>1. CASE HasEngine
    <3>1. Goto(r, "counter")
      BY <1>6, <2>1 DEF ResetCold, Continue
    <3>2. Dropped' /\ pc'[r] = "counter"
      BY <1>0, <3>1, Moves, Marks DEF TypeInv
    <3> QED
      BY <3>2, Zenon DEF Warm, CountedWarm, DecidedWarm, ReadyIsWarm
  <2>2. CASE ~HasEngine
    <3>1. /\ count = 0 /\ state = "Starting" /\ ~Deciding
      BY <2>2 DEF NoEngine, Deciding
    <3>2. count' = count /\ state' = state /\ Goto(r, "idle")
      BY <1>6, <2>2, RequestEnds, Ends, <1>0 DEF ResetCold, engine, TypeInv
    <3>3. ~Deciding'
      BY <1>0, <3>1, <3>2, Marks
    <3> QED
      BY <3>1, <3>2, <3>3 DEF Warm, CountedWarm, DecidedWarm, ReadyIsWarm
  <2> QED
    BY <2>1, <2>2
<1>7. ASSUME NEW r \in Requests, ResetBenchmark(r) PROVE Warm'
  <2>1. CASE pc[r] = "counter"
    <3>1. count' = 0 /\ Goto(r, "force") /\ (excused' = \E p \in Proc : pc[p] = "ready")
      BY <1>7, <2>1 DEF ResetBenchmark, Continue
    <3>2. pc'[r] = "force" /\ (Deciding' => Deciding)
      BY <1>0, <3>1, Moves, Marks DEF TypeInv
    <3>3. Deciding' => excused'
      BY <3>1, <3>2, Zenon DEF Deciding
    <3>4. ~(count' > 0)
      BY <3>1
    <3> QED
      BY <3>2, <3>3, <3>4, Zenon DEF Warm, CountedWarm, DecidedWarm, ReadyIsWarm, Certain
  <2>2. CASE pc[r] = "force"
    <3>1. /\ state' = "Registered" /\ End(r) /\ phase' = phase /\ cfg' = cfg /\ cold' = cold
          /\ count' = count /\ excused' = excused
      BY <1>7, <2>2 DEF ResetBenchmark, process, workload
    <3>2. Goto(r, "idle")
      BY <1>0, <3>1, RequestEnds, Ends DEF TypeInv
    <3>3. (Deciding' => Deciding) /\ (Dropped => Dropped')
      BY <1>0, <2>2, <3>2, Marks
    <3> QED
      BY <3>1, <3>3, WarmSteady
  <2> QED
    BY <1>7, <2>1, <2>2 DEF ResetBenchmark
<1>8. ASSUME NEW r \in Requests, Snapshot(r) PROVE Warm'
  <2>1. /\ phase' = phase /\ cfg' = cfg /\ cold' = cold /\ count' = count /\ excused' = excused
        /\ state' = state /\ pc[r] \in {"fsm", "count"}
        /\ Goto(r, "count") \/ Goto(r, "reply")
    BY <1>8 DEF Snapshot, process, workload, engine
  <2>2. (Deciding' => Deciding) /\ (Dropped => Dropped')
    BY <1>0, <2>1, Marks
  <2>3. \A q \in Requests : pc[q] \in {"counter", "force"} => pc'[q] \in {"counter", "force"}
    BY <1>0, <2>1, Moves DEF TypeInv
  <2> QED
    BY <2>1, <2>2, <2>3, WarmSteady
<1>9. ASSUME NEW r \in Requests, Calm(r) PROVE Warm'
  <2>1. PICK point \in CalmPoints : Goto(r, point)
    BY <1>9 DEF Calm
  <2>2. point \in Points /\ point # "ready" /\ pc[r] \notin {"counter", "force"}
    BY <1>9, <2>1 DEF CalmPoints, Calm
  <2>3. (Deciding' => Deciding) /\ (Dropped => Dropped')
    BY <1>0, <2>1, <2>2, Marks
  <2>4. \A q \in Requests : pc[q] \in {"counter", "force"} => pc'[q] \in {"counter", "force"}
    BY <1>0, <2>1, <2>2, Moves DEF TypeInv
  <2> QED
    BY <1>9, <2>3, <2>4, WarmSteady DEF Calm, Declared
<1> QED
  BY <1>1, <1>2, <1>3, <1>4, <1>5, <1>6, <1>7, <1>8, <1>9, CalmSteps
     DEF Next, Locking, Step, Proc


-----------------------------------------------------------------------------
(* Ready means counted: the steps that do nothing to it.                   *)
LEMMA SnapSteady ==
  ASSUME TypeInv, SnapInv, Running, phase' = phase, cfg' = cfg,
         NEW p \in Proc, NEW point \in Points \ {"ready", "count", "reply"}, Goto(p, point),
         pc[p] = "force" => state' \notin {"Ready", "Active"},
         count' \in Nat, count' >= count, excused => excused',
         state' \in {"Ready", "Active"} => state \in {"Ready", "Active"},
         \A q \in Requests : q # p => req'[q] = req[q] /\ (q \in torn => q \in torn')
  PROVE  SnapInv'
<1>0. count \in Nat /\ ReadyAfter \in Int /\ Requests \subseteq Proc /\ ReadyAfter' = ReadyAfter
  BY TypeParts DEF TypeInv, CoreTyped, Proc, ReadyAfter
<1>1. pc'[p] = point /\ \A q \in Proc : q # p => pc'[q] = pc[q]
  BY Moves DEF TypeInv
<1>2. (Deciding' => Deciding) /\ (Forcing /\ pc[p] # "force" => Forcing')
  BY Marks
<1>3. Certain' => Certain
  BY Zenon DEF Certain
<1>4. DecidedEnough'
  BY <1>0, <1>2, <1>3 DEF SnapInv, DecidedEnough
<1>5. ReadyEnough'
  BY <1>0, <1>2, <1>3 DEF SnapInv, ReadyEnough
<1>6. ReadEnough'
  BY <1>0, <1>1 DEF SnapInv, ReadEnough
<1>7. SnapshotCoherent'
  BY <1>0, <1>1 DEF SnapInv, SnapshotCoherent
<1> QED
  BY <1>4, <1>5, <1>6, <1>7 DEF SnapInv

(* Every step keeps ready instances counted.                               *)
LEMMA SnapStays ==
  ASSUME TypeInv, SnapInv, Next
  PROVE  SnapInv'
<1>0. /\ {"check", "record", "force", "idle", "fsm", "count", "reply", "ready", "counter"}
           \subseteq Points
      /\ Requests \subseteq Proc /\ count \in Nat /\ ReadyAfter \in Int
      /\ req \in [Requests -> Request(maps)]
  BY TypeParts DEF Points, TypeInv, CoreTyped, WorkTyped, Proc, ReadyAfter
<1>1. CASE Register
  <2>1. state' \notin {"Ready", "Active"} /\ \A p \in Proc : pc'[p] = "idle"
    BY <1>1 DEF Register, TypeInv, AtRest, Idle
  <2> QED
    BY <1>0, <2>1 DEF SnapInv, DecidedEnough, ReadyEnough, ReadEnough, SnapshotCoherent, Deciding
<1>2. CASE StartFails \/ Exit
  <2>1. phase' = "exited" /\ \A p \in Proc : pc'[p] = "idle"
    BY <1>2 DEF StartFails, Exit, TypeInv, AtRest, Idle
  <2> QED
    BY <1>0, <2>1 DEF SnapInv, DecidedEnough, ReadyEnough, ReadEnough, SnapshotCoherent, Certain
<1>3. CASE Listen \/ WatchMoves
  <2>1. /\ pc' = pc /\ req' = req /\ cfg' = cfg /\ count' = count /\ excused' = excused
        /\ torn' = torn /\ phase # "exited"
        /\ state' \in {"Ready", "Active"} => state \in {"Ready", "Active"}
    BY <1>3 DEF Listen, WatchMoves, process, engine, history
  <2> QED
    BY <2>1 DEF SnapInv, DecidedEnough, ReadyEnough, ReadEnough, SnapshotCoherent, Certain,
                Deciding, Forcing, ReadyAfter
<1>4. ASSUME NEW p \in Proc, CheckCount(p) \/ BecomeReady(p) PROVE SnapInv'
  <2>1. /\ phase' = phase /\ cfg' = cfg /\ count' = count /\ excused' = excused
        /\ torn' = torn /\ pc[p] \in {"check", "idle", "ready"} /\ Running
    BY <1>4, Busy DEF CheckCount, BecomeReady, process, engine, history, Running, TypeInv
  <2>2. CASE CheckCount(p) /\ count >= ReadyAfter
    <3>1. Goto(p, "ready") /\ state' = state /\ req' = req
      BY <1>0, <2>2 DEF CheckCount, Continue, engine
    <3>2. /\ Forcing => Forcing'
          /\ \A q \in Requests : pc'[q] \in {"count", "reply"} => pc'[q] = pc[q]
      BY <1>0, <2>1, <3>1, Moves, Marks DEF TypeInv
    <3>3. DecidedEnough'
      BY <2>1, <2>2 DEF DecidedEnough, ReadyAfter
    <3>4. ReadyEnough'
      BY <2>1, <2>2 DEF ReadyEnough, ReadyAfter
    <3>5. ReadEnough' /\ SnapshotCoherent'
      BY <2>1, <3>1, <3>2 DEF SnapInv, ReadEnough, SnapshotCoherent, ReadyAfter
    <3> QED
      BY <3>3, <3>4, <3>5 DEF SnapInv
  <2>3. CASE EndOf(p)
    <3>1. Goto(p, "idle") /\ \A q \in Requests : q # p => req'[q] = req[q]
      BY <2>3, Ends DEF TypeInv
    <3>2. CASE state' = "Ready" /\ state = "Warming"
      <4>1. pc[p] = "ready"
        BY <1>4, <3>2 DEF CheckCount, BecomeReady, engine
      <4>2. Deciding
        BY <4>1 DEF Deciding
      <4>3. \A q \in Requests : pc'[q] \in {"count", "reply"} => q # p /\ pc'[q] = pc[q]
        BY <1>0, <3>1, Moves DEF TypeInv
      <4>4. DecidedEnough'
        BY <2>1, <4>2 DEF SnapInv, DecidedEnough, ReadyAfter, Certain
      <4>5. ReadyEnough'
        BY <2>1, <4>2 DEF SnapInv, DecidedEnough, ReadyEnough, ReadyAfter, Certain
      <4>6. ReadEnough' /\ SnapshotCoherent'
        BY <2>1, <3>1, <4>3 DEF SnapInv, ReadEnough, SnapshotCoherent, ReadyAfter
      <4> QED
        BY <4>4, <4>5, <4>6 DEF SnapInv
    <3>3. CASE ~(state' = "Ready" /\ state = "Warming")
      <4>1. state' = state
        BY <1>4, <3>3 DEF CheckCount, BecomeReady, engine
      <4> QED
        BY <1>0, <2>1, <3>1, <4>1, SnapSteady
    <3> QED
      BY <3>2, <3>3
  <2> QED
    BY <1>4, <2>2, <2>3 DEF CheckCount, BecomeReady
<1>5. ASSUME NEW r \in Requests, Record(r) PROVE SnapInv'
  <2>1. /\ Goto(r, "check") /\ req' = req /\ phase' = phase /\ cfg' = cfg /\ state' = state
        /\ torn' = torn /\ pc[r] = "record"
    BY <1>5 DEF Record, Continue, process
  <2>2. count' \in Nat /\ count' >= count
    BY <1>0, <1>5 DEF Record
  <2>3. excused => excused'
    BY <1>5, Zenon DEF Record
  <2>4. Running
    BY <1>0, <2>1, Busy DEF TypeInv
  <2> QED
    BY <1>0, <2>1, <2>2, <2>3, <2>4, SnapSteady
<1>6. ASSUME NEW r \in Requests, ResetCold(r) PROVE SnapInv'
  <2>1. /\ phase' = phase /\ cfg' = cfg /\ state' = state /\ count' = count
        /\ excused' = excused /\ torn' = torn /\ pc[r] = "reset"
    BY <1>6 DEF ResetCold, process, engine
  <2>2. Running
    BY <1>0, <2>1, Busy DEF TypeInv
  <2>3. CASE Continue(r, "counter")
    BY <1>0, <2>1, <2>2, <2>3, SnapSteady DEF Continue
  <2>4. CASE End(r)
    <3>1. Goto(r, "idle") /\ \A q \in Requests : q # r => req'[q] = req[q]
      BY <1>0, <2>4, RequestEnds, Ends DEF TypeInv
    <3> QED
      BY <1>0, <2>1, <2>2, <3>1, SnapSteady
  <2> QED
    BY <1>6, <2>3, <2>4 DEF ResetCold
<1>7. ASSUME NEW r \in Requests, ResetBenchmark(r) PROVE SnapInv'
  <2>1. phase' = phase /\ cfg' = cfg /\ pc[r] \in {"counter", "force"}
    BY <1>7 DEF ResetBenchmark, process
  <2>2. Running
    BY <1>0, <2>1, Busy DEF TypeInv
  <2>3. CASE pc[r] = "counter"
    <3>1. /\ Goto(r, "force") /\ req' = req /\ (excused' = \E p \in Proc : pc[p] = "ready")
          /\ torn' = torn \cup {q \in Requests : pc[q] \in {"fsm", "count"}}
      BY <1>7, <2>3 DEF ResetBenchmark, Continue
    <3>2. /\ pc'[r] = "force" /\ (Deciding' => Deciding) /\ Forcing'
          /\ \A q \in Requests : pc'[q] \in {"count", "reply"} => pc'[q] = pc[q]
      BY <1>0, <3>1, Moves, Marks DEF TypeInv
    <3>3. Deciding => excused'
      BY <3>1, Zenon DEF Deciding
    <3>4. DecidedEnough'
      BY <3>2, <3>3, Zenon DEF DecidedEnough, Certain
    <3>5. ReadyEnough'
      BY <3>2, Zenon DEF ReadyEnough
    <3>6. ReadEnough'
      BY <3>1, <3>2 DEF ReadEnough
    <3>7. SnapshotCoherent'
      BY <2>1, <3>1, <3>2 DEF SnapInv, SnapshotCoherent, ReadyAfter
    <3> QED
      BY <3>4, <3>5, <3>6, <3>7 DEF SnapInv
  <2>4. CASE pc[r] = "force"
    <3>1. state' = "Registered" /\ End(r) /\ count' = count /\ excused' = excused /\ torn' = torn
      BY <1>7, <2>4 DEF ResetBenchmark
    <3>2. Goto(r, "idle") /\ \A q \in Requests : q # r => req'[q] = req[q]
      BY <1>0, <3>1, RequestEnds, Ends DEF TypeInv
    <3> QED
      BY <1>0, <2>1, <2>2, <3>1, <3>2, SnapSteady
  <2> QED
    BY <2>1, <2>3, <2>4
<1>8. ASSUME NEW r \in Requests, Snapshot(r) PROVE SnapInv'
  <2>1. /\ phase' = phase /\ cfg' = cfg /\ count' = count /\ excused' = excused
        /\ state' = state /\ torn' = IF Torn THEN torn \cup {r} ELSE torn
        /\ pc[r] \in {"fsm", "count"}
    BY <1>8 DEF Snapshot, process, engine
  <2>2. Running
    BY <1>0, <2>1, Busy DEF TypeInv
  <2>3. Goto(r, "count") \/ Goto(r, "reply")
    BY <1>8 DEF Snapshot
  <2>4. /\ Deciding' => Deciding
        /\ Forcing => Forcing'
    BY <1>0, <2>1, <2>3, Marks
  <2>5. /\ \A q \in Proc : q # r => pc'[q] = pc[q]
        /\ pc'[r] = IF pc[r] = "fsm" THEN "count" ELSE "reply"
    BY <1>0, <1>8, Moves DEF TypeInv, Snapshot
  <2>6. /\ \A q \in Requests : q # r => req'[q] = req[q]
        /\ pc[r] = "fsm" => (req'[r].ready => state \in {"Ready", "Active"})
        /\ pc[r] = "count" => req'[r].count = count /\ req'[r].ready = req[r].ready
    <3>1. CASE pc[r] = "fsm"
      <4>1. req' = [req EXCEPT ![r].ready = (state \in {"Ready", "Active"})]
        BY <1>8, <3>1 DEF Snapshot, ReadState
      <4>2. CASE state \in {"Ready", "Active"}
        BY <1>0, <3>1, <4>1, <4>2
      <4>3. CASE state \notin {"Ready", "Active"}
        <5>1. (state \in {"Ready", "Active"}) = FALSE
          BY <4>3
        <5>2. req' = [req EXCEPT ![r].ready = FALSE]
          BY <4>1, <5>1, Zenon
        <5> QED
          BY <1>0, <3>1, <5>2 DEF Request
      <4> QED
        BY <4>2, <4>3
    <3>2. CASE pc[r] = "count"
      BY <1>0, <1>8, <3>2 DEF Snapshot, ReadCount, Request
    <3> QED
      BY <2>1, <3>1, <3>2
  <2>7. torn \subseteq torn' /\ (r \notin torn' => ~excused /\ ~Forcing)
    BY <2>1, Zenon DEF Torn, Forcing
  <2>8. DecidedEnough' /\ ReadyEnough'
    BY <2>1, <2>4 DEF SnapInv, DecidedEnough, ReadyEnough, Certain, ReadyAfter
  <2>9. ReadEnough'
    <3>1. ASSUME NEW q \in Requests, pc'[q] = "count", req'[q].ready, q \notin torn'
          PROVE  count >= ReadyAfter
      <4>1. CASE q = r
        <5>1. state \in {"Ready", "Active"} /\ ~excused /\ ~Forcing
          BY <2>1, <2>5, <2>6, <2>7, <3>1, <4>1
        <5> QED
          BY <2>2, <5>1, Zenon DEF SnapInv, ReadyEnough, Certain, Running
      <4>2. CASE q # r
        BY <1>0, <2>5, <2>6, <2>7, <3>1, <4>2 DEF SnapInv, ReadEnough
      <4> QED
        BY <4>1, <4>2
    <3> QED
      BY <2>1, <3>1 DEF ReadEnough, ReadyAfter
  <2>10. SnapshotCoherent'
    <3>1. ASSUME NEW q \in Requests, pc'[q] = "reply", req'[q].ready, q \notin torn'
          PROVE  req'[q].count >= ReadyAfter
      <4>1. CASE q = r
        BY <2>1, <2>5, <2>6, <2>7, <3>1, <4>1 DEF SnapInv, ReadEnough
      <4>2. CASE q # r
        BY <1>0, <2>5, <2>6, <2>7, <3>1, <4>2 DEF SnapInv, SnapshotCoherent
      <4> QED
        BY <4>1, <4>2
    <3> QED
      BY <2>1, <3>1 DEF SnapshotCoherent, ReadyAfter
  <2> QED
    BY <2>8, <2>9, <2>10 DEF SnapInv
<1>9. ASSUME NEW r \in Requests, Calm(r) PROVE SnapInv'
  <2>1. PICK point \in CalmPoints : Goto(r, point)
    BY <1>9 DEF Calm
  <2>2. /\ point \in Points \ {"ready", "count", "reply"}
        /\ Running /\ phase' = phase /\ cfg' = cfg /\ pc[r] # "force"
        /\ count' = count /\ excused' = excused
        /\ state' \in {"Ready", "Active"} => state \in {"Ready", "Active"}
        /\ \A q \in Requests : q # r => req'[q] = req[q] /\ (q \in torn => q \in torn')
    BY <1>9, <2>1 DEF CalmPoints, Calm, Declared
  <2> QED
    BY <1>0, <2>1, <2>2, SnapSteady
<1> QED
  BY <1>1, <1>2, <1>3, <1>4, <1>5, <1>6, <1>7, <1>8, <1>9, CalmSteps
     DEF Next, Locking, Step, Proc


-----------------------------------------------------------------------------
(* The engine's invariants, together.                                      *)
EngineInv == NoEngine /\ Warm /\ SnapInv

(* Initially the engine has not started.                                   *)
LEMMA InitEngine == Init => EngineInv
<1> SUFFICES ASSUME Init PROVE EngineInv
  OBVIOUS
<1>1. state = "Starting" /\ count = 0 /\ \A p \in Proc : pc[p] = "idle"
  BY DEF Init
<1>2. Warm
  BY <1>1 DEF Warm, CountedWarm, DecidedWarm, ReadyIsWarm, Deciding
<1>3. SnapInv
  BY <1>1 DEF SnapInv, DecidedEnough, ReadyEnough, ReadEnough, SnapshotCoherent, Deciding, Proc
<1> QED
  BY <1>2, <1>3, NoEngineInit DEF EngineInv

(* Every step keeps the engine's invariants.                               *)
LEMMA EngineStays == TypeInv /\ EngineInv /\ [Next]_vars => EngineInv'
<1> SUFFICES ASSUME TypeInv, EngineInv, [Next]_vars PROVE EngineInv'
  OBVIOUS
<1>1. CASE Next
  BY <1>1, NoEngineStays, WarmStays, SnapStays DEF EngineInv
<1>2. CASE UNCHANGED vars
  BY <1>2, Zenon DEF EngineInv, NoEngine, HasEngine, Idle, Warm, CountedWarm, DecidedWarm,
       ReadyIsWarm, SnapInv, DecidedEnough, ReadyEnough, ReadEnough, SnapshotCoherent, Certain,
       Deciding, Dropped, Forcing, ReadyAfter, vars, process, workload, engine, history
<1> QED
  BY <1>1, <1>2

(* The engine's invariants, always.                                        *)
LEMMA EngineHolds == Spec => [](TypeInv /\ EngineInv)
  BY InitTyped, TypeStays, InitEngine, EngineStays, PTL DEF Spec

(* An instance that says it is ready has its index, however requests,      *)
(* checks and resets interleave: ready comes of a count, and a count of a  *)
(* request that ran on a built index (engine.go:211-213), the exceptions   *)
(* apart that ReadyIsWarm names.                                           *)
THEOREM ReadyMeansWarm == Spec => []ReadyIsWarm
  BY EngineHolds, PTL DEF EngineInv, Warm

(* GET /state reads the state first and the count second                   *)
(* (warmkit/engine.go:64-70), so an answer never says ready on too few     *)
(* requests unless a reset overtook it.                                    *)
THEOREM AnswersCoherent == Spec => []SnapshotCoherent
  BY EngineHolds, PTL DEF EngineInv, SnapInv
=============================================================================
