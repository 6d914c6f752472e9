------------------------- MODULE MirrorProxyProofs -------------------------
(***************************************************************************)
(* Theorems about MirrorProxy, for any instances and requests, any         *)
(* sequence of configs and any number of starts and restarts.              *)
(***************************************************************************)
EXTENDS MirrorProxy, TLAPS

USE NoneAssumption, BoundsAssumption, ConfigsAssumption

-----------------------------------------------------------------------------
(* A request remembers one config, by which it was routed, and is mirrored *)
(* by that one.                                                            *)
MirroredByOne ==
  \A r \in Requests :
    /\ req[r].at # "idle" => req[r].cfg # 0
    /\ req[r].at = "mirror" => req[r].to = Configs[req[r].cfg].mirror

(* A record has an address as long as it is there; the address is of the   *)
(* start that created the znode or of a later one.                         *)
Records ==
  \A i \in Instances :
    owner[i] <= addr[i] /\ addr[i] <= start[i] /\ (owner[i] = 0 <=> addr[i] = 0)

(* As long as no znode has come or gone since ChildrenW, children are      *)
(* those there are, and what has been read of them is still of the same    *)
(* znode.                                                                  *)
ReadAgrees ==
  (pc = "read" /\ event = "none") =>
    /\ children = {i \in Instances : owner[i] # 0}
    /\ \A i \in Instances :
         m[i] = 0 \/ (i \in children \ todo /\ m[i] \in owner[i] .. addr[i])

IInv == TypeOK /\ MirroredByOne /\ Records /\ ReadAgrees /\ TableAgrees


-----------------------------------------------------------------------------
(* What is known of the constants.                                         *)
LEMMA StartsKnown ==
  /\ Starts \subseteq Nat
  /\ \A i \in Instances : MaxStarts[i] \in Nat /\ 0 .. MaxStarts[i] \subseteq Starts
  /\ Empty \in [Instances -> Starts]
<1>1. \A i \in Instances : MaxStarts[i] \in Nat /\ 0 .. MaxStarts[i] \subseteq Starts
  BY DEF Starts
<1>2. Starts \subseteq Nat
  BY <1>1 DEF Starts
<1>3. Empty \in [Instances -> Starts]
  BY <1>1 DEF Empty
<1> QED
  BY <1>1, <1>2, <1>3

(* Every config has two ids, the second perhaps None.                      *)
LEMMA ConfigsKnown ==
  /\ Len(Configs) \in Nat
  /\ \A v \in 1 .. Len(Configs) :
       Configs[v].active \in Instances /\ Configs[v].mirror \in Instances \cup {None}
<1> DEFINE Config == [active : Instances, mirror : Instances \cup {None}]
<1>1. Configs \in Seq(Config)
  BY ConfigsAssumption
<1> HIDE DEF Config
<1>2. Len(Configs) \in Nat /\ \A v \in 1 .. Len(Configs) : Configs[v] \in Config
  BY <1>1
<1> USE DEF Config
<1> QED
  BY <1>2

(* The type, part by part.                                                 *)
Request(n) == [at : {"idle", "forward", "mirror"}, cfg : 0 .. n, warm : BOOLEAN,
               to : Instances \cup {None}]

InstancesTyped ==
  /\ start \in [Instances -> Starts]
  /\ proc \in [Instances -> {"down", "register", "set", "up"}]
  /\ orphaned \subseteq Instances
  /\ owner \in [Instances -> Starts] /\ addr \in [Instances -> Starts]

WatcherTyped ==
  /\ pc \in {"top", "read", "wait", "sleep"}
  /\ children \subseteq Instances /\ todo \subseteq children /\ missed \subseteq Instances
  /\ m \in [Instances -> Starts] /\ inst \in [Instances -> Starts]
  /\ event \in {"unset", "none", "changed", "lost"}

RouterTyped ==
  /\ seen \in 0 .. Len(Configs) /\ cfg \in {0, seen} /\ drops \in 0 .. MaxDrops
  /\ req \in [Requests -> Request(seen)]

(* Together they are TypeOK.                                               *)
LEMMA TypeParts == TypeOK <=> InstancesTyped /\ WatcherTyped /\ RouterTyped
  BY DEF TypeOK, InstancesTyped, WatcherTyped, RouterTyped, Request

(* Initially.                                                              *)
LEMMA InitHolds == Init => IInv
<1> SUFFICES ASSUME Init PROVE IInv
  OBVIOUS
<1>1. NoRequest \in Request(0) /\ NoRequest.at = "idle"
  BY DEF NoRequest, Request
<1>2. InstancesTyped /\ WatcherTyped
  BY StartsKnown DEF Init, InstancesTyped, WatcherTyped
<1>3. RouterTyped
  BY <1>1, ConfigsKnown DEF Init, RouterTyped
<1>4. MirroredByOne
  BY <1>1 DEF Init, MirroredByOne
<1>5. Records /\ ReadAgrees /\ TableAgrees
  BY DEF Init, Records, ReadAgrees, TableAgrees, Empty
<1> QED
  BY <1>2, <1>3, <1>4, <1>5, TypeParts DEF IInv

-----------------------------------------------------------------------------
(* The instances and their records.                                        *)
ZnodeStep(i) == Start(i) \/ Register(i) \/ Expire(i) \/ Crash(i) \/ Close(i)

(* Their steps keep types and records.                                     *)
LEMMA InstancesStay ==
  ASSUME IInv, NEW i \in Instances, ZnodeStep(i)
  PROVE  InstancesTyped' /\ Records'
<1>1. InstancesTyped /\ Records
  BY TypeParts DEF IInv
<1>2. /\ start \in [Instances -> Nat] /\ owner \in [Instances -> Nat]
      /\ addr \in [Instances -> Nat] /\ proc \in [Instances -> {"down", "register", "set", "up"}]
  BY <1>1, StartsKnown DEF InstancesTyped
<1>3. start[i] \in Starts /\ 0 \in Starts /\ (start[i] < MaxStarts[i] => start[i] + 1 \in Starts)
  <2>1. MaxStarts[i] \in Nat /\ 0 .. MaxStarts[i] \subseteq Starts /\ start[i] \in Nat
    BY <1>2, StartsKnown
  <2>2. 0 \in 0 .. MaxStarts[i] /\ (start[i] < MaxStarts[i] => start[i] + 1 \in 0 .. MaxStarts[i])
    BY <2>1
  <2>3. start[i] \in Starts
    BY <1>1 DEF InstancesTyped
  <2> QED
    BY <2>1, <2>2, <2>3
<1>4. CASE Start(i)
  <2>1. InstancesTyped'
    BY <1>1, <1>3, <1>4 DEF Start, InstancesTyped, znodes
  <2>2. Records'
    BY <1>1, <1>2, <1>4 DEF Start, Records, znodes
  <2> QED
    BY <2>1, <2>2
<1>5. CASE Create(i)
  <2>1. InstancesTyped'
    BY <1>1, <1>3, <1>5 DEF Create, CreateZnode, InstancesTyped, znodes
  <2>2. Records'
    <3>1. CASE owner[i] = 0
      <4>1. /\ owner' = [owner EXCEPT ![i] = start[i]] /\ addr' = [addr EXCEPT ![i] = start[i]]
            /\ start' = start
        BY <1>5, <3>1 DEF Create, CreateZnode
      <4>2. owner'[i] = start[i] /\ addr'[i] = start[i] /\ start[i] \in Nat
        BY <1>2, <4>1
      <4>3. \A j \in Instances : j # i => owner'[j] = owner[j] /\ addr'[j] = addr[j]
        BY <1>2, <4>1
      <4> QED
        BY <1>1, <4>1, <4>2, <4>3 DEF Records
    <3>2. CASE owner[i] # 0
      BY <1>1, <1>5, <3>2 DEF Create, Records, znodes
    <3> QED
      BY <3>1, <3>2
  <2> QED
    BY <2>1, <2>2
<1>6. CASE Set(i)
  <2>1. InstancesTyped'
    BY <1>1, <1>3, <1>6 DEF Set, InstancesTyped
  <2>2. Records'
    BY <1>1, <1>2, <1>6 DEF Set, Records
  <2> QED
    BY <2>1, <2>2
<1>7. CASE RegisterFails(i)
  <2>1. InstancesTyped'
    BY <1>1, <1>7 DEF RegisterFails, InstancesTyped, znodes
  <2>2. Records'
    BY <1>1, <1>7 DEF RegisterFails, Records, znodes
  <2> QED
    BY <2>1, <2>2
<1>8. CASE Expire(i)
  <2>1. InstancesTyped'
    BY <1>1, <1>3, <1>8 DEF Expire, DeleteZnode, InstancesTyped
  <2>2. Records'
    BY <1>1, <1>2, <1>8 DEF Expire, DeleteZnode, Records
  <2> QED
    BY <2>1, <2>2
<1>9. CASE Crash(i)
  <2>1. InstancesTyped'
    BY <1>1, <1>9 DEF Crash, InstancesTyped, znodes
  <2>2. Records'
    BY <1>1, <1>9 DEF Crash, Records, znodes
  <2> QED
    BY <2>1, <2>2
<1>10. CASE Close(i)
  <2>1. InstancesTyped'
    BY <1>1, <1>3, <1>10 DEF Close, DeleteZnode, InstancesTyped, znodes
  <2>2. Records'
    BY <1>1, <1>2, <1>10 DEF Close, DeleteZnode, Records, znodes
  <2> QED
    BY <2>1, <2>2
<1> QED
  BY <1>4, <1>5, <1>6, <1>7, <1>8, <1>9, <1>10 DEF ZnodeStep, Register


(* The watcher learns of a znode that comes or goes; of what is written    *)
(* into one that stays, it need not.                                       *)
LEMMA Notified ==
  ASSUME IInv, NEW i \in Instances, ZnodeStep(i)
  PROVE  /\ UNCHANGED <<watcher, router>>
         /\ event' \in {"unset", "none", "changed", "lost"}
         /\ event' = "none" =>
              event = "none" /\ owner' = owner /\ \A j \in Instances : addr[j] <= addr'[j]
<1>1. /\ InstancesTyped /\ WatcherTyped /\ Records
      /\ \A j \in Instances : addr[j] \in Nat /\ start[j] \in Nat
  BY TypeParts, StartsKnown DEF IInv, InstancesTyped
<1>2. ASSUME ChildrenChange PROVE event' \in {"unset", "changed", "lost"}
  BY <1>1, <1>2 DEF ChildrenChange, WatcherTyped
<1>3. CASE Start(i) \/ RegisterFails(i) \/ Crash(i)
  BY <1>1, <1>3 DEF Start, RegisterFails, Crash, znodes, WatcherTyped
<1>4. CASE Create(i)
  BY <1>1, <1>2, <1>4 DEF Create, CreateZnode, znodes, WatcherTyped
<1>5. CASE Set(i)
  <2>1. event' = event /\ owner' = owner /\ addr' = [addr EXCEPT ![i] = start[i]]
    BY <1>5 DEF Set
  <2>2. \A j \in Instances : addr[j] <= addr'[j]
    BY <1>1, <2>1 DEF Records, InstancesTyped
  <2> QED
    BY <1>1, <1>5, <2>1, <2>2 DEF Set, WatcherTyped
<1>6. CASE Expire(i)
  BY <1>2, <1>6 DEF Expire, DeleteZnode
<1>7. CASE Close(i)
  BY <1>1, <1>2, <1>7 DEF Close, DeleteZnode, znodes, WatcherTyped
<1> QED
  BY <1>3, <1>4, <1>5, <1>6, <1>7 DEF ZnodeStep, Register

(* So their steps keep the invariant.                                      *)
LEMMA ZnodeStays ==
  ASSUME IInv, NEW i \in Instances, ZnodeStep(i)
  PROVE  IInv'
<1>1. InstancesTyped' /\ Records'
  BY InstancesStay
<1>2. /\ UNCHANGED <<watcher, router>> /\ event' \in {"unset", "none", "changed", "lost"}
      /\ event' = "none" =>
           event = "none" /\ owner' = owner /\ \A j \in Instances : addr[j] <= addr'[j]
  BY Notified
<1>3. WatcherTyped /\ RouterTyped /\ InstancesTyped
  BY TypeParts DEF IInv
<1>4. WatcherTyped' /\ RouterTyped' /\ MirroredByOne'
  BY <1>2, <1>3 DEF WatcherTyped, RouterTyped, MirroredByOne, watcher, router, IInv
<1>5. \A j \in Instances : /\ owner[j] \in Nat /\ addr[j] \in Nat /\ addr'[j] \in Nat
                           /\ m[j] \in Nat /\ inst[j] \in Nat
  BY <1>1, <1>3, StartsKnown DEF InstancesTyped, WatcherTyped
<1>6. ASSUME NEW n \in Nat, NEW j \in Instances, n \in owner[j] .. addr[j], event' = "none"
      PROVE  n \in owner'[j] .. addr'[j]
  BY <1>2, <1>5, <1>6
<1>7. ReadAgrees'
  BY <1>2, <1>5, <1>6 DEF ReadAgrees, IInv, watcher
<1>8. TableAgrees'
  BY <1>2, <1>5, <1>6 DEF TableAgrees, IInv, watcher
<1> QED
  BY <1>1, <1>4, <1>7, <1>8, TypeParts, PTL DEF IInv

-----------------------------------------------------------------------------
(* The watcher of the instances.                                           *)
LEMMA RefreshStays ==
  ASSUME IInv, Refresh \/ LoseWatch
  PROVE  IInv'
<1>1. WatcherTyped /\ RouterTyped /\ InstancesTyped
  BY TypeParts DEF IInv
<1>2. UNCHANGED <<instances, znodes, router>>
  BY DEF Refresh, LoseWatch, ChildrenW, ChildrenFails, Wake, Install, TakeEvent, ReadRecord
<1>3. InstancesTyped' /\ RouterTyped' /\ Records' /\ MirroredByOne'
  BY <1>1, <1>2 DEF InstancesTyped, RouterTyped, Records, MirroredByOne, instances, znodes,
                    router, IInv
<1>4. /\ \A j \in Instances : owner[j] \in Nat /\ addr[j] \in Nat /\ m[j] \in Nat /\ inst[j] \in Nat
      /\ \A j \in Instances : owner[j] <= addr[j] /\ (owner[j] = 0 <=> addr[j] = 0)
  BY <1>1, StartsKnown DEF InstancesTyped, WatcherTyped, IInv, Records
<1>5. SUFFICES WatcherTyped' /\ ReadAgrees' /\ TableAgrees'
  BY <1>3, TypeParts, PTL DEF IInv
<1>6. CASE ChildrenW
  <2>1. /\ children' = {i \in Instances : owner[i] # 0} /\ todo' = children' /\ m' = Empty
        /\ pc' = "read" /\ event' = "none" /\ missed' = missed /\ inst' = inst
    BY <1>6 DEF ChildrenW, ReadChildren
  <2>2. WatcherTyped'
    BY <1>1, <2>1, StartsKnown DEF WatcherTyped
  <2>3. ReadAgrees'
    BY <1>2, <2>1 DEF ReadAgrees, Empty, znodes
  <2>4. TableAgrees'
    BY <2>1 DEF TableAgrees
  <2> QED
    BY <2>2, <2>3, <2>4
<1>7. CASE ChildrenFails \/ Wake \/ TakeEvent
  <2>1. /\ pc' \in {"top", "sleep"} /\ UNCHANGED <<children, todo, m, missed, inst, event>>
    BY <1>7 DEF ChildrenFails, Wake, TakeEvent
  <2> QED
    BY <1>1, <2>1 DEF WatcherTyped, ReadAgrees, TableAgrees
<1>8. CASE LoseWatch
  <2>1. event' = "lost" /\ UNCHANGED watcher
    BY <1>8 DEF LoseWatch
  <2> QED
    BY <1>1, <2>1 DEF WatcherTyped, ReadAgrees, TableAgrees, watcher
<1>9. ASSUME NEW i \in Instances, ReadRecord(i)
      PROVE  WatcherTyped' /\ ReadAgrees' /\ TableAgrees'
  <2>1. /\ pc = "read" /\ pc' = pc /\ i \in todo /\ todo' = todo \ {i} /\ event' = event
        /\ UNCHANGED <<children, missed, inst, owner, addr>>
        /\ (owner[i] # 0 /\ m' = [m EXCEPT ![i] = addr[i]]) \/ m' = m
    BY <1>9 DEF ReadRecord, znodes
  <2>2. WatcherTyped'
    BY <1>1, <2>1 DEF WatcherTyped, InstancesTyped
  <2>3. ReadAgrees'
    <3>1. ASSUME NEW j \in Instances, event = "none"
          PROVE  m'[j] = 0 \/ (j \in children \ todo' /\ m'[j] \in owner[j] .. addr[j])
      <4>1. m[j] = 0 \/ (j \in children \ todo /\ m[j] \in owner[j] .. addr[j])
        BY <2>1, <3>1 DEF IInv, ReadAgrees
      <4>2. i \in children
        BY <1>1, <2>1 DEF WatcherTyped
      <4>3. CASE m' = m
        BY <2>1, <4>1, <4>3
      <4>4. CASE m' = [m EXCEPT ![i] = addr[i]]
        <5>1. addr[i] \in owner[i] .. addr[i]
          BY <1>4
        <5> QED
          BY <1>1, <2>1, <4>1, <4>2, <4>4, <5>1 DEF WatcherTyped
      <4> QED
        BY <2>1, <4>3, <4>4
    <3> QED
      BY <2>1, <3>1 DEF ReadAgrees, IInv
  <2>4. TableAgrees'
    BY <2>1 DEF TableAgrees
  <2> QED
    BY <2>2, <2>3, <2>4
<1>10. CASE Install
  <2>1. /\ pc = "read" /\ todo = {} /\ inst' = m /\ missed' = {i \in children : m[i] = 0}
        /\ pc' = "wait" /\ UNCHANGED <<children, todo, m, event, owner, addr>>
    BY <1>10 DEF Install, znodes
  <2>2. WatcherTyped'
    BY <1>1, <2>1 DEF WatcherTyped
  <2>3. ReadAgrees'
    BY <2>1 DEF ReadAgrees
  <2>4. TableAgrees'
    <3>1. ASSUME NEW i \in Instances, event = "none"
          PROVE  \/ i \in missed' /\ m[i] = 0
                 \/ m[i] \in owner[i] .. addr[i] /\ (m[i] = 0 <=> owner[i] = 0)
      <4>1. /\ i \in children <=> owner[i] # 0
            /\ m[i] = 0 \/ (i \in children /\ m[i] \in owner[i] .. addr[i])
        BY <2>1, <3>1 DEF IInv, ReadAgrees
      <4>2. CASE i \in children /\ m[i] = 0
        BY <2>1, <4>2
      <4>3. CASE i \notin children /\ m[i] = 0
        BY <1>4, <4>1, <4>3
      <4>4. CASE m[i] # 0
        BY <1>4, <4>1, <4>4
      <4> QED
        BY <4>2, <4>3, <4>4
    <3> QED
      BY <2>1, <3>1 DEF TableAgrees
  <2> QED
    BY <2>2, <2>3, <2>4
<1> QED
  BY <1>6, <1>7, <1>8, <1>9, <1>10 DEF Refresh


-----------------------------------------------------------------------------
(* The router.                                                             *)
LEMMA RouterStays ==
  ASSUME IInv,
         \/ SeeConfig
         \/ \E r \in Requests : Arrive(r) \/ Answered(r) \/ Mirrored(r)
         \/ RestartProxy
  PROVE  IInv'
<1>1. /\ WatcherTyped /\ RouterTyped /\ InstancesTyped /\ Records /\ MirroredByOne
      /\ ReadAgrees /\ TableAgrees
  BY TypeParts DEF IInv
<1>2. UNCHANGED <<instances, znodes>>
  BY DEF SeeConfig, Arrive, Answered, Mirrored, RestartProxy
<1>3. InstancesTyped' /\ Records'
  BY <1>1, <1>2 DEF InstancesTyped, Records, instances, znodes
<1>4. NoRequest \in Request(0) /\ NoRequest.at = "idle"
  BY DEF NoRequest, Request
<1>5. SUFFICES WatcherTyped' /\ RouterTyped' /\ MirroredByOne' /\ ReadAgrees' /\ TableAgrees'
  BY <1>3, TypeParts, PTL DEF IInv
<1>6. seen \in 0 .. Len(Configs) /\ Len(Configs) \in Nat /\ req \in [Requests -> Request(seen)]
  BY <1>1, ConfigsKnown DEF RouterTyped
<1>7. ASSUME UNCHANGED <<watcher, event>>
      PROVE  WatcherTyped' /\ ReadAgrees' /\ TableAgrees'
  BY <1>1, <1>2, <1>7 DEF WatcherTyped, ReadAgrees, TableAgrees, watcher, znodes
<1>8. CASE SeeConfig
  <2>1. PICK v \in 1 .. Len(Configs) : v >= seen /\ cfg' = v /\ seen' = v
    BY <1>8 DEF SeeConfig
  <2>2. req' = req /\ drops' = drops /\ UNCHANGED <<watcher, event>>
    BY <1>8 DEF SeeConfig
  <2>3. Request(seen) \subseteq Request(seen')
    BY <1>6, <2>1 DEF Request
  <2>4. RouterTyped'
    BY <1>1, <1>6, <2>1, <2>2, <2>3 DEF RouterTyped
  <2>5. MirroredByOne'
    BY <1>1, <2>2 DEF MirroredByOne
  <2> QED
    BY <1>7, <2>2, <2>4, <2>5
<1>9. ASSUME NEW r \in Requests, NEW new \in Request(seen), req' = [req EXCEPT ![r] = new],
             UNCHANGED <<watcher, event, cfg, seen, drops>>,
             new.at # "idle" => new.cfg # 0,
             new.at = "mirror" => new.to = Configs[new.cfg].mirror
      PROVE  WatcherTyped' /\ RouterTyped' /\ MirroredByOne' /\ ReadAgrees' /\ TableAgrees'
  <2>1. RouterTyped'
    BY <1>1, <1>6, <1>9 DEF RouterTyped
  <2>2. MirroredByOne'
    BY <1>1, <1>6, <1>9 DEF MirroredByOne
  <2> QED
    BY <1>7, <1>9, <2>1, <2>2
<1>10. NoRequest \in Request(seen)
  BY <1>4, <1>6 DEF Request
<1>11. ASSUME NEW r \in Requests, Arrive(r)
       PROVE  WatcherTyped' /\ RouterTyped' /\ MirroredByOne' /\ ReadAgrees' /\ TableAgrees'
  <2> DEFINE new == [at |-> "forward", cfg |-> cfg, warm |-> KnowsTarget, to |-> None]
  <2>1. /\ cfg > 0 /\ req' = [req EXCEPT ![r] = new]
        /\ UNCHANGED <<watcher, event, cfg, seen, drops>>
    BY <1>11 DEF Arrive
  <2>2. KnowsTarget \in BOOLEAN
    BY Zenon DEF KnowsTarget
  <2>3. cfg \in 0 .. seen
    BY <1>1, <1>6 DEF RouterTyped
  <2>4. new \in Request(seen)
    BY <2>2, <2>3, Zenon DEF Request
  <2>5. new.at = "forward" /\ new.cfg # 0
    BY <2>1
  <2> HIDE DEF new
  <2> QED
    BY <1>9, <2>1, <2>4, <2>5
<1>12. ASSUME NEW r \in Requests, Answered(r)
       PROVE  WatcherTyped' /\ RouterTyped' /\ MirroredByOne' /\ ReadAgrees' /\ TableAgrees'
  <2>1. req[r].at = "forward" /\ UNCHANGED <<watcher, event, cfg, seen, drops>>
    BY <1>12 DEF Answered
  <2>2. CASE req' = [req EXCEPT ![r] = NoRequest]
    BY <1>4, <1>9, <1>10, <2>1, <2>2
  <2>3. CASE Mirror(r, Configs[req[r].cfg].mirror)
    <3> DEFINE to == Configs[req[r].cfg].mirror
    <3>1. req[r] \in Request(seen) /\ req[r].cfg # 0
      BY <1>1, <1>6, <2>1 DEF MirroredByOne
    <3>2. req[r].cfg \in 1 .. Len(Configs)
      BY <1>6, <3>1 DEF Request
    <3>3. to \in Instances \cup {None}
      BY <3>2, ConfigsKnown
    <3>4. req' = [req EXCEPT ![r].at = "mirror", ![r].to = to]
      BY <2>3 DEF Mirror
    <3> HIDE DEF to
    <3>5. req' \in [Requests -> Request(seen)]
      <4> DEFINE new == [req[r] EXCEPT !.at = "mirror", !.to = to]
      <4>1. new \in Request(seen)
        BY <3>1, <3>3 DEF Request
      <4>2. req' = [req EXCEPT ![r] = new]
        BY <3>4
      <4> HIDE DEF new
      <4> QED
        BY <1>6, <4>1, <4>2
    <3>6. /\ \A q \in Requests : q # r => req'[q] = req[q]
          /\ req'[r].cfg = req[r].cfg /\ req'[r].to = to
      BY <1>6, <3>4 DEF Request
    <3> USE DEF to
    <3>7. RouterTyped'
      BY <1>1, <2>1, <3>5 DEF RouterTyped
    <3>8. MirroredByOne'
      BY <1>1, <3>1, <3>6 DEF MirroredByOne
    <3> QED
      BY <1>7, <2>1, <3>7, <3>8
  <2> QED
    BY <1>12, <2>2, <2>3 DEF Answered
<1>13. ASSUME NEW r \in Requests, Mirrored(r)
       PROVE  WatcherTyped' /\ RouterTyped' /\ MirroredByOne' /\ ReadAgrees' /\ TableAgrees'
  BY <1>4, <1>9, <1>10, <1>13 DEF Mirrored
<1>14. CASE RestartProxy
  <2>1. /\ drops < MaxDrops /\ drops' = drops + 1 /\ cfg' = 0 /\ seen' = seen
        /\ inst' = Empty /\ missed' = {} /\ event' = "unset"
        /\ children' = {} /\ todo' = {} /\ m' = Empty /\ pc' = "top"
        /\ req' = [r \in Requests |-> NoRequest]
    BY <1>14 DEF RestartProxy
  <2>2. RouterTyped'
    BY <1>1, <1>6, <1>10, <2>1 DEF RouterTyped
  <2>3. WatcherTyped'
    BY <2>1, StartsKnown DEF WatcherTyped
  <2>4. MirroredByOne' /\ ReadAgrees' /\ TableAgrees'
    BY <1>4, <2>1 DEF MirroredByOne, ReadAgrees, TableAgrees
  <2> QED
    BY <2>2, <2>3, <2>4
<1> QED
  BY <1>8, <1>11, <1>12, <1>13, <1>14

-----------------------------------------------------------------------------
(* The invariant, inductive.                                               *)
LEMMA Invariance == Spec => []IInv
<1>1. IInv /\ [Next]_vars => IInv'
  <2> SUFFICES ASSUME IInv, [Next]_vars PROVE IInv'
    OBVIOUS
  <2>1. ASSUME NEW i \in Instances, ZnodeStep(i) PROVE IInv'
    BY <2>1, ZnodeStays
  <2>2. CASE Refresh \/ LoseWatch
    BY <2>2, RefreshStays
  <2>3. CASE \/ SeeConfig
             \/ \E r \in Requests : Arrive(r) \/ Answered(r) \/ Mirrored(r)
             \/ RestartProxy
    BY <2>3, RouterStays
  <2>4. CASE UNCHANGED vars
    BY <2>4 DEF IInv, TypeOK, MirroredByOne, Records, ReadAgrees, TableAgrees, vars, instances,
                znodes, watcher, router
  <2> QED
    BY <2>1, <2>2, <2>3, <2>4 DEF Next, ZnodeStep
<1> QED
  BY InitHolds, <1>1, PTL DEF Spec

(* Every value stays within its type.                                      *)
THEOREM TypeCorrect == Spec => []TypeOK
  BY Invariance, PTL DEF IInv

(* Of configs that do not mirror to their own active instance (the proxy   *)
(* checks none, and createSession takes both ids as they come), no request *)
(* is mirrored to the instance that answers it, whenever the config        *)
(* changes under it: ServeHTTP decides by one copy (main.go:180-205).      *)
THEOREM NeverMirrorsItself ==
  ASSUME \A v \in 1 .. Len(Configs) : Configs[v].mirror # Configs[v].active
  PROVE  Spec => []NoSelfMirror
<1>1. IInv => NoSelfMirror
  <2> SUFFICES ASSUME IInv, NEW r \in Requests, req[r].at = "mirror"
               PROVE  req[r].to # Configs[req[r].cfg].active
    BY DEF NoSelfMirror
  <2>1. req[r].cfg # 0 /\ req[r].to = Configs[req[r].cfg].mirror
    BY DEF IInv, MirroredByOne
  <2>2. req[r].cfg \in 0 .. seen /\ seen \in 0 .. Len(Configs)
    BY TypeParts DEF IInv, RouterTyped, Request
  <2>3. req[r].cfg \in 1 .. Len(Configs)
    BY <2>1, <2>2, ConfigsKnown
  <2> QED
    BY <2>1, <2>3
<1> QED
  BY Invariance, <1>1, PTL

(* The watch of the children is set before the records are read            *)
(* (main.go:149-155), so a table that is waited upon with nothing on its   *)
(* way is that of the znodes there are: an instance that came or went      *)
(* during the refresh has left an event behind.                            *)
THEOREM TableIsCurrent == Spec => []TableAgrees
  BY Invariance, PTL DEF IInv
=============================================================================
