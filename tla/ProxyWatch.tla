----------------------------- MODULE ProxyWatch -----------------------------
(***************************************************************************)
(* proxyRouter.watchMirror (cmd/mirror-proxy/main.go:115-140): the proxy   *)
(* reads the mirror config with a Get, stores it, and only then sets the   *)
(* watch with a GetW whose data it discards.                               *)
(***************************************************************************)
EXTENDS ZNode

VARIABLES
  pc,         \* top, store, watch, wait, sleep or done
  read,       \* the config the Get returned
  cfg,        \* proxyRouter.cfg, what ServeHTTP routes by
  missed,     \* history: the last Get failed
  cancelled   \* ctx is done

vars == <<znode, pc, read, cfg, missed, cancelled>>

Init ==
  /\ ZNodeInit
  /\ pc = "top" /\ read = 0 /\ cfg = 0
  /\ missed = FALSE
  /\ cancelled = FALSE

-----------------------------------------------------------------------------
Get ==
  /\ pc = "top"
  /\ version > 0
  /\ read' = version
  /\ missed' = FALSE
  /\ pc' = "store"
  /\ UNCHANGED <<znode, cfg, cancelled>>

GetFailsStores ==    \* faulty: the error is not looked at, a zero config is stored
  /\ pc = "top"
  /\ CallFails
  /\ read' = 0
  /\ missed' = TRUE
  /\ pc' = "store"
  /\ UNCHANGED <<znode, cfg, cancelled>>

(* After an error the stored config is kept, and the watch is set anyway.  *)
GetFails ==
  /\ pc = "top"
  /\ CallFails
  /\ missed' = TRUE
  /\ pc' = "watch"
  /\ UNCHANGED <<znode, read, cfg, cancelled>>

Store ==
  /\ pc = "store"
  /\ cfg' = read
  /\ pc' = "watch"
  /\ UNCHANGED <<znode, read, missed, cancelled>>

GetW ==
  /\ pc = "watch"
  /\ SetWatch
  /\ pc' = "wait"
  /\ UNCHANGED <<read, cfg, missed, cancelled>>

GetWFails ==
  /\ pc = "watch"
  /\ CallFails
  /\ pc' = "sleep"
  /\ UNCHANGED <<znode, read, cfg, missed, cancelled>>

Wake ==
  /\ pc = "sleep"
  /\ pc' = "top"
  /\ UNCHANGED <<znode, read, cfg, missed, cancelled>>

TakeEventOnce ==    \* faulty: after the first event nothing is read again
  /\ pc = "wait"
  /\ fired
  /\ fired' = FALSE
  /\ pc' = "watch"
  /\ UNCHANGED <<version, watching, read, cfg, missed, cancelled>>

TakeEvent ==
  /\ pc = "wait"
  /\ fired
  /\ fired' = FALSE
  /\ pc' = "top"
  /\ UNCHANGED <<version, watching, read, cfg, missed, cancelled>>

Done ==
  /\ cancelled
  /\ pc \in {"top", "wait"}
  /\ pc' = "done"
  /\ UNCHANGED <<znode, read, cfg, missed, cancelled>>

Cancel ==
  /\ ~cancelled
  /\ cancelled' = TRUE
  /\ UNCHANGED <<znode, pc, read, cfg, missed>>

Environment == (Write \/ LoseWatch) /\ UNCHANGED <<pc, read, cfg, missed, cancelled>>

Watcher == Get \/ GetFails \/ Store \/ GetW \/ GetWFails \/ Wake \/ TakeEvent \/ Done

Next == Environment \/ Watcher \/ Cancel

(* As for WarmkitWatch.                                                    *)
Fairness == WF_vars(Watcher) /\ SF_vars(Get) /\ SF_vars(GetW) /\ SF_vars(Done)

Spec == Init /\ [][Next]_vars /\ Fairness

-----------------------------------------------------------------------------
TypeOK ==
  /\ ZNodeOK
  /\ pc \in {"top", "store", "watch", "wait", "sleep", "done"}
  /\ read \in 0 .. version
  /\ cfg \in 0 .. version
  /\ pc = "store" => read \in 1 .. version
  /\ missed \in BOOLEAN /\ cancelled \in BOOLEAN

Feed == INSTANCE ConfigFeed WITH latest <- version, seen <- cfg, open <- ~cancelled

(* The proxy only ever routes by published configs, in the order they were *)
(* published, whatever fails.                                              *)
ConfigsInOrder == Feed!Safety

(* A write that the watch announces reaches the routing, itself or a later *)
(* one in its place: no event is swallowed, whatever fails and whenever    *)
(* the session is lost.  Only a read that fails can miss it, as the proxy  *)
(* waits for the next event before it reads again.                         *)
AnnouncedIsSeen ==
  \A v \in 1 .. MaxWrites :
    (pc = "wait" /\ fired /\ version = v) ~> (cfg >= v \/ cancelled \/ (pc = "watch" /\ missed))

-----------------------------------------------------------------------------
(* docs/architecture.md:59: the proxy forwards and mirrors by the config   *)
(* in ZooKeeper.  Once writes have stopped, it routes by the last one.     *)
FollowsConfig == <>[](cfg = version \/ cancelled)
=============================================================================
