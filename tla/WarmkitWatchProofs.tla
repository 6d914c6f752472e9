-------------------------- MODULE WarmkitWatchProofs --------------------------
(***************************************************************************)
(* Proofs about WarmkitWatch: for any number of writes and whatever fails, *)
(* no config is lost between the read and the watch, configs arrive in     *)
(* order, and the watcher implements the safety part of ConfigFeed.        *)
(***************************************************************************)
EXTENDS WarmkitWatch, SequenceTheorems, TLAPS

USE MaxWritesAssumption DEF Capacity

(* Why nothing is lost: from reading a config until the watch is served,   *)
(* either the watch has fired or it is still set and the config is current.*)
Watched == pc \in {"offer", "wait"} => fired \/ (watching /\ held = version)

(* Why order is kept: nothing older is ever behind something newer.        *)
InOrder ==
  /\ seen <= held
  /\ \A i \in DOMAIN buffer : seen <= buffer[i] /\ buffer[i] <= held

IInv == TypeOK /\ Watched /\ InOrder

-----------------------------------------------------------------------------
(* The initial state satisfies the inductive invariant.                    *)
LEMMA InitInv == Init => IInv
<1> SUFFICES ASSUME Init PROVE IInv
  OBVIOUS
<1> USE DEF Init, ZNodeInit
<1>1. buffer \in Seq(0 .. version) /\ Len(buffer) = 0 /\ DOMAIN buffer = {}
  BY EmptySeq
<1>2. version \in 0 .. MaxWrites /\ held \in 0 .. version /\ seen \in 0 .. version
  OBVIOUS
<1>3. TypeOK
  <2>1. ZNodeOK
    BY <1>2, Zenon DEF ZNodeOK
  <2>2. Len(buffer) <= Capacity
    BY <1>1
  <2> QED
    BY <1>1, <1>2, <2>1, <2>2, Zenon DEF TypeOK
<1>4. Watched /\ InOrder
  BY <1>1 DEF Watched, InOrder
<1> QED
  BY <1>3, <1>4 DEF IInv

(* A channel with room is empty, and one with something in it has one.     *)
LEMMA OneSlot ==
  ASSUME NEW S, NEW s \in Seq(S), Len(s) <= 1
  PROVE  /\ Len(s) < 1 => s = <<>>
         /\ s # <<>> => Len(s) = 1 /\ Head(s) = s[1] /\ Head(s) \in S /\ Tail(s) = <<>>
<1>1. Len(s) \in Nat /\ s \in [1 .. Len(s) -> S]
  OBVIOUS
<1>2. s # <<>> => Len(s) = 1 /\ Head(s) \in S /\ Tail(s) \in Seq(S) /\ Len(Tail(s)) = 0
  BY <1>1, EmptySeq, HeadTailProperties
<1>3. s # <<>> => Tail(s) = <<>>
  BY <1>2, EmptySeq
<1>4. s # <<>> => Head(s) = s[1]
  OBVIOUS
<1>5. Len(s) < 1 => s = <<>>
  BY <1>1, EmptySeq
<1> QED
  BY <1>2, <1>3, <1>4, <1>5

(* Every step of the watcher, the engine and the environment keeps it.     *)
LEMMA StepInv == IInv /\ [Next]_vars => IInv'
<1> SUFFICES ASSUME IInv, [Next]_vars PROVE IInv'
  OBVIOUS
<1> USE DEF IInv, TypeOK, ZNodeOK, Watched, InOrder
<1>seq. buffer \in Seq(0 .. version) /\ Len(buffer) \in Nat /\ DOMAIN buffer = 1 .. Len(buffer)
            /\ \A i \in DOMAIN buffer : buffer[i] \in 0 .. version
  BY LenProperties
<1>1. CASE Write /\ UNCHANGED <<watchVars, seen, cancelled, consuming>>
  <2>1. version \in Nat /\ version' = version + 1 /\ buffer' = buffer
    BY <1>1 DEF Write, watchVars
  <2>2. buffer' \in Seq(0 .. version')
    <3>1. 0 .. version \subseteq 0 .. version'
      BY <2>1
    <3> QED
      BY <3>1, <2>1, <1>seq, SeqMonotonic
  <2>3. ZNodeOK'
    <3>1. version' \in 0 .. MaxWrites
      BY <1>1 DEF Write
    <3>2. watching' \in BOOLEAN /\ fired' \in BOOLEAN
      BY <1>1, Zenon DEF Write
    <3> QED
      BY <3>1, <3>2
  <2>4. held' \in 0 .. version' /\ seen' \in 0 .. version' /\ Len(buffer') <= Capacity
    BY <1>1, <2>1 DEF watchVars
  <2>5. TypeOK'
    BY <1>1, <2>2, <2>3, <2>4, Zenon DEF watchVars
  <2>6. Watched' /\ InOrder'
    BY <1>1, <2>1 DEF Write, watchVars
  <2> QED
    BY <2>6, <2>5
<1>2. CASE LoseWatch /\ UNCHANGED <<watchVars, seen, cancelled, consuming>>
  BY <1>2 DEF LoseWatch, watchVars
<1>3. CASE Read
  <2>1. held' = version /\ version' = version /\ seen' = seen /\ buffer' = buffer
    BY <1>3 DEF Read, SetWatch
  <2>2. InOrder'
    BY <2>1, <1>seq
  <2> QED
    <3>1. ZNodeOK'
      BY <1>3, <2>1, Zenon DEF Read, SetWatch
    <3>2. held' \in 0 .. version' /\ buffer' \in Seq(0 .. version') /\ Len(buffer') <= Capacity
      BY <2>1
    <3>3. TypeOK'
      BY <1>3, <2>1, <3>1, <3>2, Zenon DEF Read
    <3>4. Watched'
      BY <1>3, <2>1, Zenon DEF Read, SetWatch
    <3> QED
      BY <2>2, <3>3, <3>4
<1>4. CASE ReadFails
  BY <1>4 DEF ReadFails, znode
<1>5. CASE Wake
  BY <1>5 DEF Wake, znode
<1>6. CASE Offer
  <2>1. buffer = <<>> /\ held \in 0 .. version
    BY <1>6, <1>seq, OneSlot DEF Offer
  <2>2. buffer' = <<held>>
    BY <1>6, <2>1 DEF Offer
  <2>3. version' = version /\ held' = held /\ seen' = seen
    BY <1>6 DEF Offer, znode
  <2>4. /\ buffer' \in Seq(0 .. version')
        /\ Len(buffer') = 1 /\ DOMAIN buffer' = {1} /\ buffer'[1] = held
    BY <2>1, <2>2, <2>3
  <2>5. InOrder'
    BY <2>3, <2>4
  <2> QED
    BY <1>6, <2>4, <2>5 DEF Offer, znode
<1>7. CASE TakeEvent
  BY <1>7 DEF TakeEvent
<1>8. CASE Done
  BY <1>8 DEF Done, znode
<1>9. CASE Receive
  <2>1. Len(buffer) = 1 /\ Head(buffer) = buffer[1] /\ Tail(buffer) = <<>>
    BY <1>9, <1>seq, OneSlot DEF Receive
  <2>2. seen' = buffer[1] /\ buffer' = <<>> /\ buffer[1] <= held /\ buffer[1] \in 0 .. version
    BY <1>9, <2>1 DEF Receive
  <2>3. InOrder'
    BY <1>9, <2>2 DEF Receive
  <2> QED
    BY <1>9, <2>2, <2>3 DEF Receive, znode
<1>10. CASE Leave
  BY <1>10 DEF Leave, znode, watchVars
<1>11. CASE Cancel
  BY <1>11 DEF Cancel, znode, watchVars
<1>12. CASE UNCHANGED vars
  BY <1>12 DEF vars, znode, watchVars
<1> QED
  BY <1>1, <1>2, <1>3, <1>4, <1>5, <1>6, <1>7, <1>8, <1>9, <1>10, <1>11, <1>12
  DEF Next, Environment, Watcher

(* The inductive invariant holds of every reachable state.                 *)
LEMMA Invariance == Spec => []IInv
  BY InitInv, StepInv, PTL DEF Spec

-----------------------------------------------------------------------------
(* Configs and versions keep their types and the channel its capacity,     *)
(* for every number of writes.                                             *)
THEOREM TypeCorrect == Spec => []TypeOK
  BY Invariance, PTL DEF IInv

(* WatchMirror blocks on the watch only with the latest config handed over *)
(* (registry.go:102-120), for every number of writes.                      *)
THEOREM NothingLost == Spec => []NoLostUpdate
<1>1. IInv => NoLostUpdate
  BY DEF IInv, Watched, NoLostUpdate
<1> QED
  BY Invariance, <1>1, PTL

(* Refinement: initial states map to initial states of the feed, every     *)
(* step maps to a step of the feed or to a stutter.  So the engine handles *)
(* configs in the order of their publication (registry.go:111-112,         *)
(* engine.go:118), for every number of writes.                             *)
THEOREM FeedSafety == Spec => Feed!Safety
<1>1. Init => Feed!Init
  BY DEF Init, ZNodeInit, Feed!Init
<1>2. IInv /\ [Next]_vars => [Feed!Next]_(Feed!vars)
  <2> SUFFICES ASSUME IInv, [Next]_vars PROVE [Feed!Next]_(Feed!vars)
    OBVIOUS
  <2> USE DEF Feed!Next, Feed!vars
  <2>1. CASE Write /\ UNCHANGED <<watchVars, seen, cancelled, consuming>>
    BY <2>1 DEF Write, Feed!Publish
  <2>2. CASE Receive
    <3> USE DEF IInv, TypeOK, ZNodeOK, InOrder
    <3>1. Len(buffer) = 1 /\ Head(buffer) = buffer[1] /\ Len(buffer) \in Nat
      BY <2>2, OneSlot DEF Receive
    <3>2. seen' = buffer[1] /\ seen <= buffer[1] /\ buffer[1] <= held
      BY <2>2, <3>1 DEF Receive
    <3>3. buffer[1] \in Nat /\ held \in 0 .. version /\ seen \in Nat /\ version \in Nat
      BY <2>2, <3>1, OneSlot DEF Receive
    <3>4. seen' = seen \/ seen' \in seen + 1 .. version
      BY <3>2, <3>3
    <3>5. UNCHANGED <<version, consuming, cancelled>>
      BY <2>2 DEF Receive, znode
    <3> QED
      BY <3>4, <3>5 DEF Feed!Deliver
  <2>3. CASE Leave
    BY <2>3 DEF Leave, znode, Feed!Close
  <2>4. CASE Cancel
    BY <2>4 DEF Cancel, znode, Feed!Close
  <2>5. CASE UNCHANGED <<version, seen, consuming, cancelled>>
    BY <2>5
  <2> QED
    BY <2>1, <2>2, <2>3, <2>4, <2>5
    DEF Next, Environment, LoseWatch, Watcher, Read, ReadFails, Wake, Offer, TakeEvent,
        Done, SetWatch, znode, vars
<1> QED
  BY Invariance, <1>1, <1>2, PTL DEF Spec, Feed!Safety
=============================================================================
