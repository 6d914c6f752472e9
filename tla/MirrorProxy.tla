---------------------------- MODULE MirrorProxy ----------------------------
(***************************************************************************)
(* The mirror proxy's routing (cmd/mirror-proxy/main.go) and the instance  *)
(* records it routes by (RegisterInstance, warmkit/registry.go:53-71).     *)
(*                                                                         *)
(* The config side of the proxy is ConfigFeed: cfg moves forward over the  *)
(* published configs (proved of watchMirror in ProxyWatchProofs).          *)
(* An instance is started again and again under one id; a start is         *)
(* numbered, and the number stands for its ZooKeeper session and for the   *)
(* address in the record it writes.                                        *)
(***************************************************************************)
EXTENDS Naturals, Sequences

CONSTANTS
  Instances,  \* instance ids
  Requests,   \* client requests in flight at the same time
  Configs,    \* the mirror configs, in the order they are published
  MaxStarts,  \* bound on the starts of each instance
  MaxDrops,   \* bound on the restarts of the proxy
  None        \* no instance; in a config: nothing is mirrored

ASSUME NoneAssumption == None \notin Instances

ASSUME BoundsAssumption == MaxStarts \in [Instances -> Nat] /\ MaxDrops \in Nat

(* mirror is the target if enabled and ratio > 0.                          *)
ASSUME ConfigsAssumption ==
  Configs \in Seq([active : Instances, mirror : Instances \cup {None}])

VARIABLES
  \* the instances
  start,      \* number of the last start of each instance, 0 before the first
  proc,       \* its process: down, register, set (Create found a znode) or up
  orphaned,   \* history: up instances whose znode was not theirs or expired
  \* their znodes
  owner,      \* the start whose session keeps the znode alive, 0 without one
  addr,       \* the start whose address is in the record
  \* watchInstances
  pc,         \* top, read, wait or sleep
  children,   \* what ChildrenW returned
  todo,       \* children whose record is still to be read
  m,          \* the table under construction, 0 where there is no address
  event,      \* unset, none, changed or lost: the watch and its channel
  missed,     \* children left out of the table as their Get failed
  \* proxyRouter
  inst,       \* proxyRouter.inst
  cfg,        \* proxyRouter.cfg, 0 before the first
  seen,       \* the last config the proxy, or the one before it, has seen
  drops,      \* how often the proxy was restarted
  req         \* the requests

instances == <<start, proc, orphaned>>
znodes == <<owner, addr>>
watcher == <<pc, children, todo, m, missed, inst>>
router == <<cfg, seen, drops, req>>
vars == <<instances, znodes, watcher, event, router>>

Empty == [i \in Instances |-> 0]
NoRequest == [at |-> "idle", cfg |-> 0, warm |-> FALSE, to |-> None]

Init ==
  /\ start = Empty /\ proc = [i \in Instances |-> "down"] /\ orphaned = {}
  /\ owner = Empty /\ addr = Empty
  /\ pc = "top" /\ children = {} /\ todo = {} /\ m = Empty
  /\ event = "unset" /\ missed = {}
  /\ inst = Empty /\ cfg = 0 /\ seen = 0 /\ drops = 0
  /\ req = [r \in Requests |-> NoRequest]

-----------------------------------------------------------------------------
(* ZooKeeper: a znode comes or goes; the one-shot watch is for that only,  *)
(* not for a Set on a child.                                               *)
ChildrenChange == event' = IF event = "none" THEN "changed" ELSE event

CreatePersistent(i) ==    \* faulty: the znode is not ephemeral
  /\ owner' = [owner EXCEPT ![i] = MaxStarts[i] + 1]
  /\ addr' = [addr EXCEPT ![i] = start[i]]
  /\ ChildrenChange

CreateZnode(i) ==
  /\ owner' = [owner EXCEPT ![i] = start[i]]
  /\ addr' = [addr EXCEPT ![i] = start[i]]
  /\ ChildrenChange

DeleteZnode(i) ==
  /\ owner' = [owner EXCEPT ![i] = 0]
  /\ addr' = [addr EXCEPT ![i] = 0]
  /\ ChildrenChange

IsUp(i, n) == proc[i] = "up" /\ start[i] = n

(* The session that owns i's znode expires.                                *)
Expire(i) ==
  /\ owner[i] \in 1 .. MaxStarts[i]
  /\ DeleteZnode(i)
  /\ orphaned' = IF IsUp(i, owner[i]) THEN orphaned \cup {i} ELSE orphaned
  /\ UNCHANGED <<start, proc, watcher, router>>

ExpireDead(i) == (proc[i] = "down" \/ owner[i] # start[i]) /\ Expire(i)

-----------------------------------------------------------------------------
(* An instance starts: it connects and goes on to register (warmup or      *)
(* active role alike).                                                     *)
Start(i) ==
  /\ proc[i] = "down"
  /\ start[i] < MaxStarts[i]
  /\ start' = [start EXCEPT ![i] = @ + 1]
  /\ proc' = [proc EXCEPT ![i] = "register"]
  /\ UNCHANGED <<orphaned, znodes, watcher, event, router>>

Create(i) ==
  /\ proc[i] = "register"
  /\ IF owner[i] = 0
       THEN CreateZnode(i) /\ proc' = [proc EXCEPT ![i] = "up"]
       ELSE proc' = [proc EXCEPT ![i] = "set"] /\ UNCHANGED <<znodes, event>>
  /\ UNCHANGED <<start, orphaned, watcher, router>>

(* The record is overwritten; its znode still belongs to the session that  *)
(* created it.                                                             *)
Set(i) ==
  /\ proc[i] = "set"
  /\ owner[i] # 0
  /\ addr' = [addr EXCEPT ![i] = start[i]]
  /\ proc' = [proc EXCEPT ![i] = "up"]
  /\ orphaned' = orphaned \cup {i}
  /\ UNCHANGED <<start, owner, watcher, event, router>>

(* A call fails, at the latest because the znode has vanished before the   *)
(* Set, and the process exits (cmd/server/main.go:47-50, 59-63).           *)
RegisterFails(i) ==
  /\ proc[i] \in {"register", "set"}
  /\ proc' = [proc EXCEPT ![i] = "down"]
  /\ UNCHANGED <<start, orphaned, znodes, watcher, event, router>>

(* A crash leaves the session to its timeout; a shutdown closes it.        *)
Crash(i) ==
  /\ proc[i] = "up"
  /\ proc' = [proc EXCEPT ![i] = "down"]
  /\ orphaned' = orphaned \ {i}
  /\ UNCHANGED <<start, znodes, watcher, event, router>>

Close(i) ==
  /\ proc[i] = "up"
  /\ proc' = [proc EXCEPT ![i] = "down"]
  /\ orphaned' = orphaned \ {i}
  /\ IF owner[i] = start[i] THEN DeleteZnode(i) ELSE UNCHANGED <<znodes, event>>
  /\ UNCHANGED <<start, watcher, router>>

-----------------------------------------------------------------------------
(* watchInstances.  The parent path exists from the first start on.        *)
ReadChildren ==
  /\ children' = {i \in Instances : owner[i] # 0}
  /\ todo' = children'
  /\ m' = Empty
  /\ pc' = "read"

ChildrenW ==
  /\ pc = "top"
  /\ \E i \in Instances : start[i] > 0
  /\ ReadChildren
  /\ event' = "none"
  /\ UNCHANGED <<instances, znodes, missed, inst, router>>

ChildrenFails ==
  /\ pc = "top"
  /\ pc' = "sleep"
  /\ UNCHANGED <<instances, znodes, children, todo, m, missed, inst, event, router>>

Wake ==
  /\ pc = "sleep"
  /\ pc' = "top"
  /\ UNCHANGED <<instances, znodes, children, todo, m, missed, inst, event, router>>

(* refreshInstances: the records are read one by one; one whose Get fails  *)
(* is passed over.  The new table replaces the old one.                    *)
ReadRecord(i) ==
  /\ pc = "read" /\ i \in todo
  /\ todo' = todo \ {i}
  /\ \/ owner[i] # 0 /\ m' = [m EXCEPT ![i] = addr[i]]
     \/ UNCHANGED m
  /\ UNCHANGED <<instances, znodes, pc, children, missed, inst, event, router>>

InstallMerging ==    \* faulty: what is not read again stays
  /\ pc = "read" /\ todo = {}
  /\ inst' = [i \in Instances |-> IF m[i] # 0 THEN m[i] ELSE inst[i]]
  /\ missed' = {i \in children : m[i] = 0}
  /\ pc' = "wait"
  /\ UNCHANGED <<instances, znodes, children, todo, m, event, router>>

Install ==
  /\ pc = "read" /\ todo = {}
  /\ inst' = m
  /\ missed' = {i \in children : m[i] = 0}
  /\ pc' = "wait"
  /\ UNCHANGED <<instances, znodes, children, todo, m, event, router>>

TakeChangedOnly ==    \* faulty: on any other event the watcher stays where it is
  /\ pc = "wait" /\ event = "changed"
  /\ pc' = "top"
  /\ UNCHANGED <<instances, znodes, children, todo, m, missed, inst, event, router>>

(* Whatever the event is, the loop goes on.                                *)
TakeEvent ==
  /\ pc = "wait" /\ event \in {"changed", "lost"}
  /\ pc' = "top"
  /\ UNCHANGED <<instances, znodes, children, todo, m, missed, inst, event, router>>

(* The proxy's own session is lost and with it the watch.                  *)
LoseWatch ==
  /\ event = "none"
  /\ event' = "lost"
  /\ UNCHANGED <<instances, znodes, watcher, router>>

-----------------------------------------------------------------------------
(* watchMirror: a later config is seen, or after a restart the last one.   *)
SeeConfig ==
  /\ \E v \in 1 .. Len(Configs) : /\ v > cfg /\ v >= seen
                                  /\ cfg' = v /\ seen' = v
  /\ UNCHANGED <<instances, znodes, watcher, event, drops, req>>

-----------------------------------------------------------------------------
(* ServeHTTP: config and table are copied under the lock; of the table     *)
(* only the target's address matters later.  Without an address for the    *)
(* active instance the answer is 503, and nothing else happens.            *)
KnowsTarget == Configs[cfg].mirror # None /\ inst[Configs[cfg].mirror] # 0

Arrive(r) ==
  /\ req[r].at = "idle"
  /\ cfg > 0 /\ inst[Configs[cfg].active] # 0
  /\ req' = [req EXCEPT ![r] = [at |-> "forward", cfg |-> cfg, warm |-> KnowsTarget, to |-> None]]
  /\ UNCHANGED <<instances, znodes, watcher, event, cfg, seen, drops>>

Mirror(r, to) == req' = [req EXCEPT ![r].at = "mirror", ![r].to = to]

AnsweredNow(r) ==    \* faulty: the config is read again after the request was forwarded
  /\ req[r].at = "forward"
  /\ \/ /\ Configs[cfg].mirror # None
        /\ inst[Configs[cfg].mirror] # 0
        /\ Mirror(r, Configs[cfg].mirror)
     \/ req' = [req EXCEPT ![r] = NoRequest]
  /\ UNCHANGED <<instances, znodes, watcher, event, cfg, seen, drops>>

(* The active instance has answered.  A GET is mirrored at random, if the  *)
(* copied config says so and the copied table knows the target.            *)
Answered(r) ==
  /\ req[r].at = "forward"
  /\ \/ req[r].warm /\ Mirror(r, Configs[req[r].cfg].mirror)
     \/ req' = [req EXCEPT ![r] = NoRequest]
  /\ UNCHANGED <<instances, znodes, watcher, event, cfg, seen, drops>>

(* mirrorRequest ends, well or not.                                        *)
Mirrored(r) ==
  /\ req[r].at = "mirror"
  /\ req' = [req EXCEPT ![r] = NoRequest]
  /\ UNCHANGED <<instances, znodes, watcher, event, cfg, seen, drops>>

(* The proxy ends, by a signal or not, and is started again: a new router, *)
(* both watchers from their top, requests cut off.                         *)
RestartProxy ==
  /\ drops < MaxDrops
  /\ drops' = drops + 1
  /\ cfg' = 0 /\ inst' = Empty /\ missed' = {} /\ event' = "unset"
  /\ children' = {} /\ todo' = {} /\ m' = Empty /\ pc' = "top"
  /\ req' = [r \in Requests |-> NoRequest]
  /\ UNCHANGED <<instances, znodes, seen>>

-----------------------------------------------------------------------------
Register(i) == Create(i) \/ Set(i) \/ RegisterFails(i)

Refresh ==
  \/ ChildrenW \/ ChildrenFails \/ Wake \/ Install \/ TakeEvent
  \/ \E i \in Instances : ReadRecord(i)

Next ==
  \/ \E i \in Instances : Start(i) \/ Register(i) \/ Expire(i) \/ Crash(i) \/ Close(i)
  \/ Refresh \/ LoseWatch
  \/ SeeConfig
  \/ \E r \in Requests : Arrive(r) \/ Answered(r) \/ Mirrored(r)
  \/ RestartProxy

(* Goroutines run, not every call fails, and ZooKeeper ends the sessions   *)
(* of processes that are gone.                                             *)
Fairness ==
  /\ WF_vars(Refresh) /\ SF_vars(ChildrenW)
  /\ \A i \in Instances : WF_vars(ExpireDead(i)) /\ WF_vars(Register(i))

Spec == Init /\ [][Next]_vars /\ Fairness

-----------------------------------------------------------------------------
Starts == UNION {0 .. MaxStarts[i] : i \in Instances}

TypeOK ==
  /\ start \in [Instances -> Starts]
  /\ proc \in [Instances -> {"down", "register", "set", "up"}]
  /\ orphaned \subseteq Instances
  /\ owner \in [Instances -> Starts] /\ addr \in [Instances -> Starts]
  /\ pc \in {"top", "read", "wait", "sleep"}
  /\ children \subseteq Instances /\ todo \subseteq children /\ missed \subseteq Instances
  /\ m \in [Instances -> Starts] /\ inst \in [Instances -> Starts]
  /\ event \in {"unset", "none", "changed", "lost"}
  /\ seen \in 0 .. Len(Configs) /\ cfg \in {0, seen} /\ drops \in 0 .. MaxDrops
  /\ req \in [Requests -> [at : {"idle", "forward", "mirror"}, cfg : 0 .. seen,
                           warm : BOOLEAN, to : Instances \cup {None}]]

(* No client request reaches one instance twice, as itself and as its own  *)
(* mirror, although the roles may be swapped while it is being forwarded   *)
(* (main.go:180-205 decides by one copy of the config).                    *)
NoSelfMirror ==
  \A r \in Requests : req[r].at = "mirror" => req[r].to # Configs[req[r].cfg].active

(* While the watcher waits and nothing is on its way to it, the routing    *)
(* table has an address for exactly the instances with a znode, except     *)
(* those whose record it failed to read; and the address was written to    *)
(* the very znode that is there now, if not by its present writer.         *)
TableAgrees ==
  (pc = "wait" /\ event = "none") =>
    \A i \in Instances :
      \/ i \in missed /\ inst[i] = 0
      \/ inst[i] \in owner[i] .. addr[i] /\ (inst[i] = 0 <=> owner[i] = 0)

(* An instance that stays up comes to stay in the table, through failing   *)
(* calls, lost sessions and restarts of the proxy.  Exempt are a record    *)
(* the last refresh could not read (main.go:171: not tried again before    *)
(* the next event) and an instance whose znode is not its own              *)
(* (registry.go:67) or has expired (nobody registers again).               *)
EntersTable ==
  \A i \in Instances :
    <>[](proc[i] = "up" /\ i \notin orphaned) => <>[](inst[i] # 0 \/ i \in missed)

(* An instance that stays down leaves the table for good, however it       *)
(* ended: no traffic is sent to it forever.                                *)
LeavesTable == \A i \in Instances : <>[](proc[i] = "down") => <>[](inst[i] = 0)
=============================================================================
