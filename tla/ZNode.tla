------------------------------- MODULE ZNode -------------------------------
(***************************************************************************)
(* The znode /config/{app}/mirror as its readers meet it: numbered         *)
(* versions and a one-shot data watch.  ZooKeeper is external; this is how *)
(* the calls in src/ use it.                                               *)
(***************************************************************************)
EXTENDS Naturals

CONSTANTS
  MaxWrites,  \* bound on the number of configs written
  Faults      \* whether calls may fail and sessions be interrupted

ASSUME MaxWritesAssumption == MaxWrites \in Nat
ASSUME FaultsAssumption == Faults \in BOOLEAN

VARIABLES
  version,   \* the config in the znode, 0 while there is no znode
  watching,  \* the watch of the last GetW is still set
  fired      \* its events channel has a value

znode == <<version, watching, fired>>

ZNodeInit == version = 0 /\ watching = FALSE /\ fired = FALSE

(* WriteMirrorConfig: Create the first time, then Set(-1).  No watch       *)
(* exists on an absent znode: GetW fails there and leaves none.            *)
Write ==
  /\ version < MaxWrites
  /\ version' = version + 1
  /\ watching' = FALSE
  /\ fired' = (fired \/ watching)

(* The client invalidates its watches when it loses the session; their     *)
(* channels get an event all the same.                                     *)
LoseWatch ==
  /\ Faults /\ watching
  /\ watching' = FALSE /\ fired' = TRUE
  /\ UNCHANGED version

(* A GetW that succeeds returns a new events channel.                      *)
SetWatch ==
  /\ version > 0
  /\ watching' = TRUE /\ fired' = FALSE
  /\ UNCHANGED version

CallFails == Faults \/ version = 0

ZNodeOK == version \in 0 .. MaxWrites /\ watching \in BOOLEAN /\ fired \in BOOLEAN
=============================================================================
