---------------------------- MODULE WarmkitWatch ----------------------------
(***************************************************************************)
(* ZKRegistry.WatchMirror (warmkit/registry.go:91-124): a goroutine that   *)
(* reads the mirror config and sets the watch in one call, hands the       *)
(* config to the engine over a channel of capacity 1, and waits for the    *)
(* watch; and the engine's receive from that channel                       *)
(* (warmkit/engine.go:114-125).                                            *)
(***************************************************************************)
EXTENDS ZNode, Sequences

VARIABLES
  pc,         \* top, offer, wait, sleep or done
  held,       \* the config the goroutine read last
  buffer,     \* the channel
  seen,       \* the config the engine handled last
  cancelled,  \* ctx is done
  consuming   \* the engine is still in its loop

watchVars == <<pc, held, buffer>>
vars == <<znode, watchVars, seen, cancelled, consuming>>

Capacity == 1

Init ==
  /\ ZNodeInit
  /\ pc = "top" /\ held = 0 /\ buffer = <<>>
  /\ seen = 0
  /\ cancelled = FALSE /\ consuming = TRUE

-----------------------------------------------------------------------------
ReadBeforeWatch ==    \* faulty: the config was read before the watch was set
  /\ pc = "top"
  /\ SetWatch
  /\ held' \in held .. version
  /\ pc' = "offer"
  /\ UNCHANGED <<buffer, seen, cancelled, consuming>>

Read ==
  /\ pc = "top"
  /\ SetWatch
  /\ held' = version
  /\ pc' = "offer"
  /\ UNCHANGED <<buffer, seen, cancelled, consuming>>

ReadFails ==
  /\ pc = "top"
  /\ CallFails
  /\ pc' = "sleep"
  /\ UNCHANGED <<znode, held, buffer, seen, cancelled, consuming>>

Wake ==
  /\ pc = "sleep"
  /\ pc' = "top"
  /\ UNCHANGED <<znode, held, buffer, seen, cancelled, consuming>>

OfferUnbounded ==    \* faulty: nothing bounds what the engine has not yet taken
  /\ pc = "offer"
  /\ buffer' = Append(buffer, held)
  /\ pc' = "wait"
  /\ UNCHANGED <<znode, held, seen, cancelled, consuming>>

OfferOrDrop ==    \* faulty: a full channel drops the config, as MemoryRegistry does
  /\ pc = "offer"
  /\ buffer' = IF Len(buffer) < Capacity THEN Append(buffer, held) ELSE buffer
  /\ pc' = "wait"
  /\ UNCHANGED <<znode, held, seen, cancelled, consuming>>

Offer ==
  /\ pc = "offer"
  /\ Len(buffer) < Capacity
  /\ buffer' = Append(buffer, held)
  /\ pc' = "wait"
  /\ UNCHANGED <<znode, held, seen, cancelled, consuming>>

TakeEvent ==
  /\ pc = "wait"
  /\ fired
  /\ fired' = FALSE
  /\ pc' = "top"
  /\ UNCHANGED <<version, watching, held, buffer, seen, cancelled, consuming>>

DoneAtTop ==    \* faulty: only the top of the loop looks at the context
  /\ cancelled
  /\ pc = "top"
  /\ pc' = "done"
  /\ UNCHANGED <<znode, held, buffer, seen, cancelled, consuming>>

(* ctx.Done is looked at wherever the loop blocks.                         *)
Done ==
  /\ cancelled
  /\ pc \in {"top", "offer", "wait"}
  /\ pc' = "done"
  /\ UNCHANGED <<znode, held, buffer, seen, cancelled, consuming>>

-----------------------------------------------------------------------------
(* The engine's side: receiving a config, and leaving the loop (timeout or *)
(* cancelled context), after which nobody drains the channel.              *)
Receive ==
  /\ consuming
  /\ buffer # <<>>
  /\ seen' = Head(buffer)
  /\ buffer' = Tail(buffer)
  /\ UNCHANGED <<znode, pc, held, cancelled, consuming>>

Leave ==
  /\ consuming
  /\ consuming' = FALSE
  /\ UNCHANGED <<znode, watchVars, seen, cancelled>>

Cancel ==
  /\ ~cancelled
  /\ cancelled' = TRUE
  /\ UNCHANGED <<znode, watchVars, seen, consuming>>

Environment == (Write \/ LoseWatch) /\ UNCHANGED <<watchVars, seen, cancelled, consuming>>

Watcher == Read \/ ReadFails \/ Wake \/ Offer \/ TakeEvent \/ Done

Next == Environment \/ Watcher \/ Receive \/ Leave \/ Cancel

(* The goroutines run, and reads of an existing znode do not fail forever. *)
Fairness == WF_vars(Watcher) /\ SF_vars(Read) /\ SF_vars(Done) /\ WF_vars(Receive)

Spec == Init /\ [][Next]_vars /\ Fairness

-----------------------------------------------------------------------------
TypeOK ==
  /\ ZNodeOK
  /\ pc \in {"top", "offer", "wait", "sleep", "done"}
  /\ held \in 0 .. version
  /\ buffer \in Seq(0 .. version) /\ Len(buffer) <= Capacity
  /\ seen \in 0 .. version
  /\ cancelled \in BOOLEAN /\ consuming \in BOOLEAN

(* Blocked on the watch, the loop has handed over the latest config: a     *)
(* write can not slip in between reading the config and watching it.       *)
NoLostUpdate == (pc = "wait" /\ ~fired) => (watching /\ held = version)

(* Once cancelled, the goroutine ends, even where nobody drains its        *)
(* channel any more.                                                       *)
WatcherStops == cancelled ~> (pc = "done")

(* The watcher implements the abstract feed; the engine listens until it   *)
(* leaves its loop or the context is cancelled.                            *)
Feed == INSTANCE ConfigFeed WITH latest <- version, open <- consuming /\ ~cancelled
ImplementsFeed == Feed!Spec
=============================================================================
