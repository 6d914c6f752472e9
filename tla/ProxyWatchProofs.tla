--------------------------- MODULE ProxyWatchProofs ---------------------------
(***************************************************************************)
(* Proofs about ProxyWatch, for any number of writes and whatever fails:   *)
(* the proxy implements the safety part of ConfigFeed, though not its      *)
(* liveness (see FollowsConfig).                                           *)
(***************************************************************************)
EXTENDS ProxyWatch, TLAPS

USE MaxWritesAssumption

(* A config on its way into the store is no older than the one there: one  *)
(* goroutine reads and stores, and versions only grow.                     *)
NotOlder == pc = "store" => cfg <= read

IInv == TypeOK /\ NotOlder

-----------------------------------------------------------------------------
(* The initial state satisfies the inductive invariant.                    *)
LEMMA InitInv == Init => IInv
<1> SUFFICES ASSUME Init PROVE IInv
  OBVIOUS
<1> USE DEF Init, ZNodeInit
<1>1. version \in 0 .. MaxWrites /\ read \in 0 .. version /\ cfg \in 0 .. version
  OBVIOUS
<1>2. ZNodeOK
  BY <1>1, Zenon DEF ZNodeOK
<1>3. TypeOK
  BY <1>1, <1>2 DEF TypeOK
<1> QED
  BY <1>3 DEF IInv, NotOlder

(* Every step of the watcher and of the environment keeps it.              *)
LEMMA StepInv == IInv /\ [Next]_vars => IInv'
<1> SUFFICES ASSUME IInv, [Next]_vars PROVE IInv'
  OBVIOUS
<1> USE DEF IInv, TypeOK, ZNodeOK, NotOlder
<1>1. CASE Write /\ UNCHANGED <<pc, read, cfg, missed, cancelled>>
  <2>1. /\ version' \in 0 .. MaxWrites /\ read' \in 0 .. version' /\ cfg' \in 0 .. version'
        /\ pc' = "store" => read' \in 1 .. version' /\ cfg' <= read'
    BY <1>1 DEF Write
  <2>2. watching' \in BOOLEAN /\ fired' \in BOOLEAN
    BY <1>1, Zenon DEF Write
  <2> QED
    BY <1>1, <2>1, <2>2
<1>2. CASE LoseWatch /\ UNCHANGED <<pc, read, cfg, missed, cancelled>>
  BY <1>2 DEF LoseWatch
<1>3. CASE Get
  <2>1. /\ version' = version /\ watching' = watching /\ fired' = fired
        /\ pc' = "store" /\ read' = version /\ cfg' = cfg /\ version > 0
        /\ missed' = FALSE /\ cancelled' = cancelled
    BY <1>3 DEF Get, znode
  <2>2. read' \in 1 .. version' /\ cfg' \in 0 .. version' /\ cfg' <= read'
    BY <2>1
  <2>3. read' \in 0 .. version'
    BY <2>1
  <2>4. ZNodeOK'
    BY <2>1, Zenon
  <2> QED
    BY <2>1, <2>2, <2>3, <2>4, Zenon
<1>4. CASE GetFails
  BY <1>4 DEF GetFails, znode
<1>5. CASE Store
  BY <1>5 DEF Store, znode
<1>6. CASE GetW
  BY <1>6 DEF GetW, SetWatch
<1>7. CASE GetWFails
  BY <1>7 DEF GetWFails, znode
<1>8. CASE Wake
  BY <1>8 DEF Wake, znode
<1>9. CASE TakeEvent
  BY <1>9 DEF TakeEvent
<1>10. CASE Done
  BY <1>10 DEF Done, znode
<1>11. CASE Cancel
  BY <1>11 DEF Cancel, znode
<1>12. CASE UNCHANGED vars
  BY <1>12 DEF vars, znode
<1> QED
  BY <1>1, <1>2, <1>3, <1>4, <1>5, <1>6, <1>7, <1>8, <1>9, <1>10, <1>11, <1>12
  DEF Next, Environment, Watcher

(* The inductive invariant holds of every reachable state.                 *)
LEMMA Invariance == Spec => []IInv
  BY InitInv, StepInv, PTL DEF Spec

-----------------------------------------------------------------------------
(* What the proxy reads and stores is a published config, and what it is   *)
(* about to store is not the zero config of a failed read, for every       *)
(* number of writes.                                                       *)
THEOREM TypeCorrect == Spec => []TypeOK
  BY Invariance, PTL DEF IInv

(* The proxy routes by published configs only and never goes back to an    *)
(* older one (main.go:123-128), for every number of writes and errors.     *)
THEOREM RoutedInOrder == Spec => ConfigsInOrder
<1>1. Init => Feed!Init
  BY DEF Init, ZNodeInit, Feed!Init
<1>2. IInv /\ [Next]_vars => [Feed!Next]_(Feed!vars)
  <2> SUFFICES ASSUME IInv, [Next]_vars PROVE [Feed!Next]_(Feed!vars)
    OBVIOUS
  <2> USE DEF Feed!Next, Feed!vars
  <2>1. CASE Write /\ UNCHANGED <<pc, read, cfg, missed, cancelled>>
    BY <2>1 DEF Write, Feed!Publish
  <2>2. CASE Store
    <3>1. version \in Nat /\ cfg \in Nat /\ read \in 1 .. version /\ cfg <= read
      BY <2>2 DEF Store, IInv, TypeOK, ZNodeOK, NotOlder
    <3>2. cfg' = cfg \/ cfg' \in cfg + 1 .. version
      BY <2>2, <3>1 DEF Store
    <3>3. UNCHANGED <<version, cancelled>>
      BY <2>2 DEF Store, znode
    <3> QED
      BY <3>2, <3>3 DEF Feed!Deliver
  <2>3. CASE Cancel
    BY <2>3 DEF Cancel, znode, Feed!Close
  <2>4. CASE UNCHANGED <<version, cfg, cancelled>>
    BY <2>4
  <2> QED
    BY <2>1, <2>2, <2>3, <2>4
    DEF Next, Environment, LoseWatch, Watcher, Get, GetFails, GetW, GetWFails, Wake,
        TakeEvent, Done, SetWatch, znode, vars
<1> QED
  BY Invariance, <1>1, <1>2, PTL DEF Spec, Feed!Safety, ConfigsInOrder
=============================================================================
