# Models of the dynamic warmup system

TLA+ modules, TLC configurations and TLAPS proofs for the dynamic warmup system
in this repository: the `warmkit` library, the mirror proxy, the warmup
coordinator, the demo service they warm up, and the benchmark that measures it.
Paths below are relative to the repository's root.

## 1. The system

A new instance of a service starts cold. The **coordinator** opens a *session*
for it and writes a *mirror config* to ZooKeeper (`/config/{app}/mirror`): mirror
this share of traffic to that instance. The **mirror proxy** follows the config,
forwards each request to the active instance and sends copies of GETs to the
instance that is warming up. The **engine** in that instance counts the copies,
walks `Starting → Registered → Warming → Ready → Active` (or `Failed`) and
publishes its state in its own znode (`/services/{app}/instances/{id}`), where
the coordinator reads whether it is ready. Completing the session writes a config
that names the new instance active and stops mirroring. All components meet in
ZooKeeper only; nothing calls the engine but HTTP requests and the watch.

| Component | State it keeps | Operations | Meets others through |
| --- | --- | --- | --- |
| engine, FSM (`warmkit/engine.go`, `fsm.go`) | FSM state, shadow counter, warmup timer, watcher goroutine | `Start`, the select loop, `handleMirrorConfig`, timeout, `ShadowMiddleware`, `ResetBenchmark`, `Stop` | reads the config from a channel, writes its znode, is called by HTTP handlers |
| registry (`warmkit/registry.go`) | ZooKeeper session; a watch and a channel of capacity 1 | `RegisterInstance`, `UpdateInstanceState`, `WatchMirror`, `WriteMirrorConfig`, `ReadMirrorConfig` | ZooKeeper |
| coordinator (`cmd/warmup-coordinator`) | map of sessions under `c.mu`; one ramp goroutine per session | create, get, complete, delete a session; put a mirror config; `runRamp` | writes the config, reads instance records |
| mirror proxy (`cmd/mirror-proxy`) | copy of the config, map of instance addresses | `watchMirror`, `watchInstances`, `ServeHTTP`, `mirrorRequest` | reads config and instances, forwards HTTP |
| LoadedService (`LoadedService/`) | settings; lazily built index under `e.mu` | reading of the settings, start and shutdown, `/work`, `/warmup`, `/reset`, `/state`, `/readyz` | hosts the engine |
| mmap store (`LoadedService/internal/mmapstore`) | a file, its handle and mapping under `s.mu` | `EnsureFile`, `Map`, `Unmap`, `Remap`, the measured reads | imported by nothing |
| benchmark (`benchmark/`) | attempts and valid runs of a scenario, its session | scenarios S0, S_ref, S_dw, overhead; load generator; statistics | client of coordinator, proxy and service |

### What is hard about it

- **Check and act are apart.** The engine reads its count, then its state, then
  moves the FSM, then publishes, each under a lock of its own or none; requests, resets,
  the config watcher and the timeout run in between (`engine.go:126-163`,
  `:206-216`).
- **Publications race.** `UpdateInstanceState` is a read and a conditional write
  outside any lock, and its error is ignored (`registry.go:72-89`).
- **Watches are one-shot.** What is written between a read and the setting of a
  watch is announced to nobody (`registry.go:102`, `main.go:123-129` of the
  proxy).
- **One znode, several writers.** Ramps, completions and PUTs overwrite the
  config without versions (`registry.go:171`), and a ramp outlives its session.
- **Calls fail half-way.** The coordinator changes its map, then writes, and the
  write may fail (`main.go:246-261`).
- **Copies go stale.** The proxy forwards by one copy of config and table and
  mirrors by it afterwards (`main.go:184-211`); the index and the mapping are read
  after the unlock that follows their lookup (`workload/engine.go:53-61`,
  `store.go:138-146`).
- **Sessions expire and processes stop** while all of this is going on: an
  instance registers once, on a znode that may belong to an earlier start of it.

What makes each component correct:

- *engine*: Ready only after enough mirrored requests; the znode shows the FSM's
  state, late perhaps, but never ahead of it; a warmup ends; Stop returns.
- *config watcher*: every config is seen or replaced by a later one, in order;
  the latest is seen in the end; the goroutine ends when it is told to.
- *coordinator*: status, ratio and routing in ZooKeeper agree with the status of
  the session; the ratio does not fall; a promotion is final; no session hangs.
- *proxy*: routes by published configs, in order; its table has the instances
  there are; no request is sent to one instance twice.
- *service*: lookups see whole maps, the index is built once, Ready means warm,
  and every request ends.
- *benchmark*: what is measured is what the scenario means to measure, nothing is
  mirrored meanwhile, and the coordinator gets the requests it is made for.
- *mmap store*: nothing opened is left open, no read leaves its slice.

The list of hazards, each at its line with the properties that look at it, is
in `PROJECT.json`.

## 2. The modules

```
ConfigFeed        what a config watcher promises          (abstract)
  ^        ^
WarmkitWatch  ProxyWatch   both EXTEND  ZNode             (the znode and its watch)
WarmkitEngine <- MCWarmkitEngine
MirrorProxy   <- MCMirrorProxy    routing and instance records
LoadedService                     one process around the engine
MmapStore     <- MCMmapStore
Coordinator   <- MCCoordinator, refines WarmupSession     (abstract)
  ^
Benchmark     <- MCBenchmark      the whole system under the benchmark's client
```

Each component's module (WarmkitEngine, WarmkitWatch, ProxyWatch, MirrorProxy,
LoadedService, MmapStore, Coordinator, Benchmark) has its theorems in a module
`...Proofs` that EXTENDS it; BenchmarkProofs EXTENDS CoordinatorProofs as well,
and instantiates it with the protocol switched on.

**WarmkitEngine** models `engine.go`, `fsm.go` and `UpdateInstanceState`. `pc`
says where each goroutine is: `Watch` (which runs `Start` and then the select
loop), the handlers of mirrored GETs and the handlers of `POST /reset`. One
action is what the code does under one mutex or in one ZooKeeper call, so
`CheckCount` and `CheckState` are two actions, `TransitAndPublish` moves the FSM
and leaves the goroutine before the `Get` of the publication, and `Get` and `Set`
are two more. `current` is the set of goroutines whose `stat.Version` is still
the znode's version, which is all a conditional write depends on. A mirror
config is reduced to the two questions the engine asks of it; any config may
arrive at any time. The count is kept up to `ReadyAfter`, as it is only ever
compared with it. The timer keeps a value it has sent after `Stop`, as timers do
up to Go 1.22 (the version in `go.mod`). `stale` and `overlap` are history
variables the properties need.

**ZNode** is the config znode as a reader meets it: numbered versions and a
one-shot watch, `fired` once a write or a lost session has used it up. It is
external, modelled from how the code calls `GetW`. **WarmkitWatch** models `ZKRegistry.WatchMirror` and the engine's receive,
**ProxyWatch** the proxy's `watchMirror`. The two loops differ in one thing
only, whether the read and the watch are one call, and **ConfigFeed** is what
both ought to promise: the first implements all of it, the second its safety.

**Coordinator** models every handler that changes state, the ramp goroutine and
`WriteMirrorConfig` with its `Exists` and `Create` or `Set`. Ratios are small
naturals (they are compared and copied, nothing else); the clock is what it
decides: the id of a session and whether the hold deadline has passed. Instance
records are the set `ready`; an instance may leave it at any time, as its timeout,
a late publication and the end of its ZooKeeper session do not wait for the end of
a ramp. A PUT writes any config, also one that names a session. The switch
`OneAtATime` is the protocol of `RunSDw` (`experiment.go:88-148`): one request at
a time, completion after `holding` was seen, the next session after that, and PUTs
between sessions only, of configs that name none and mirror everything or nothing
(`MayPut`).
**WarmupSession** is what such a client sees: start, mirror, hold, and a
promotion that routes to the new instance and ends mirroring in one step.

**MirrorProxy** models the other half of the proxy, `watchInstances`,
`refreshInstances`, `ServeHTTP`, `mirrorRequest` and a restart of the process,
with what it reads: the ephemeral records that `RegisterInstance`,
`RegisterActive` and `Close` write. Each start of an instance has a number, which
stands for its ZooKeeper session and for its address. So `owner` (whose session
keeps the znode alive) and `addr` (whose address is in it) come apart when a
restarted instance finds the znode of its earlier start, as in the code. Records
are read one by one; the config moves forward over a sequence of configs, which is
what `RoutedInOrder` proves of `watchMirror`.

**LoadedService** models one process. `Load`, `RequiredInt` and the like say
which environments are accepted; `Init` is followed by any environment in which
one variable is unset, blank, malformed, a text or one of `Numbers`, all others
being sound. Then come registration, the listener (which may fail, and is only
logged), the routing of `New`, and the handlers on the shared index. One action
is what is done under `e.mu`, except that filling the map is a step of its own,
so that what is read outside the lock can be wrong. The warmup engine appears as its state and
its count: `Record`, `CheckCount` and `BecomeReady` are apart as in
`engine.go:212-214`, `ResetBenchmark` replaces the counter and then forces the state. The
watcher's moves are free (`WatchMoves`), the timeout's from Ready to Failed among them.

**Benchmark** EXTENDS Coordinator and adds the other parties: the client of
`experiment.go` with its attempts and scenarios, the
instance (FSM, counter, index, the watcher's config in hand), the proxy, mirrored
requests on their way, and restarts of the coordinator, which lose its sessions.
A call of the client that fails or times out ends the process, so the client, to
which no fairness is given, just stops there; `Fail` is an error answer.
The instance's record is a matter of its own: `SetState` moves the FSM and begins a
publication, and from then on the record may begin to show Ready at any time, or never,
and may cease to, whatever the FSM has done meanwhile (`RecordChanges`). This allows
every order in which publications fail, are refused or land, and the end of the
ZooKeeper session; WarmkitEngine has the publications one by one. The run begins
on a fresh system: no config is left by an earlier process (`InitAll`).
The warmup timeout reads the state in one step and fails the instance in another
(`Timeout`, `TimeoutFails`), so the instance may turn Ready in between, or the
client reset it.
Each call of the client is an action of Coordinator conjoined with the client's
move, so `ProtocolKept` can say, by `INSTANCE Coordinator WITH OneAtATime <-
TRUE`, that the benchmark is a client of the kind the runs of Coordinator take
for granted, so that the refinement of WarmupSession shown there applies to it as
long as ZooKeeper does not fail and the coordinator is not restarted
(`SessionsKept`). Every other handler of the instance is one action here;
LoadedService and WarmkitEngine take them apart.

**MmapStore** models the file and the mappings made of it, by any number of
goroutines. `maps` records every call of `Map` that opened the file, so a handle that is
dropped without being closed stays visible. A read copies the slice and touches
its pages later; the page may have been unmapped or cut off by then (`fault`).

Operators marked `faulty` in the modules are not part of any specification: each
changes one definition the way a plausible mistake would, and
`PROJECT.json` names the property that notices.

## 3. What TLC checks

| Run | Instance | Shows |
| --- | --- | --- |
| `engine_reset` | 2 requests, 1 reset handler, threshold 2, no ZooKeeper faults; 2.3 M states | `TypeOK`; a step to Ready has the count behind it, except by a goroutine that counted before a reset (`ReadyStepIsWarmed`); publications that never overlap leave the znode in agreement (`SerialAgreement`) |
| `engine_live` | 2 requests, no reset, threshold 1, faults, fairness; 167 k | the znode never ahead of the FSM (`RecordTrails`); `WarmupResolves`; `StopDrains` |
| `warmkit_watch` | 4 writes, faults; 1.5 k | `NoLostUpdate`, `WatcherStops`, and all of `ConfigFeed` (`ImplementsFeed`), with it the order of the configs |
| `proxy_watch` | 4 writes, faults; 0.4 k | the safety of `ConfigFeed` (`ConfigsInOrder`); an announced write is seen (`AnnouncedIsSeen`) |
| `coordinator_bench` | 2 sessions, 2 instances, 2 ramps, 2 completions, 1 PUT, 2 ramp steps, the benchmark's protocol; 163 k | `PromotionSticks`, `HoldingMirrors`, `RatioRises`, and all of `WarmupSession` (`ImplementsSession`) |
| `coordinator_any` | 2 ramps and 2 ids that may collide, 1 completion, deletions, faults, 1 ramp step; 190 k | no session is left running forever (`RunningEnds`) |
| `mirror_proxy` | 2 instances, one started twice, 1 request, 2 configs that swap the roles, 1 restart of the proxy, fairness; 449 k | `NoSelfMirror`; `TableAgrees`: a waiting watcher has exactly the instances there are; `EntersTable` and `LeavesTable`: who stays up comes to stay in the table, who stays down leaves it |
| `loaded_service` | 2 requests of any kind, the watch loop, 2 resets, any one setting off, fairness; 626 k | `ReadsComplete`, `BuiltOnce`, `ReadyIsWarm`, `SnapshotCoherent`; `RequestsEnd` |
| `benchmark` | s-ref, s-dw, s0-control in turn, up to 2 attempts each, threshold 1, 1 mirrored request under way, 1 restart of the coordinator, ZooKeeper faults; 1.8 M | `ProbedAsIntended`, `ProbesUnmirrored`; `PromotionFinal`, `AnsweredIsPromoted`; `ProtocolKept`; `PromotionHeard`: a Ready instance learns of its promotion; `TypeOKAll` |
| `mmap_store` | 2 goroutines, 2 mappings, a file of 5 bytes on pages of 3, found missing, shorter or longer; 2.5 M | `NothingLeaks`, `WithinSlice`, `CutOnlyIfLarger` |

The type invariant of each module is an invariant of one of its runs, Coordinator's as a part of
`TypeOKAll` of `benchmark`. Two more runs end in a
counterexample, for statements the repository makes and the code does not keep
(`findings` in `PROJECT.json` quotes them):

- `proxy_stale`: a config written between the proxy's `Get` and `GetW` is not
  seen until another one is written.
- `coordinator_failed_write`: the status is `completed` before the promotion is
  written; if the write fails, the retry is answered with success. A client that
  completes a session once, like the benchmark, is not told so: for it the same
  property holds, and is proved.

What the models show besides, by the exceptions their properties need:

- Two publications may land in the order opposite to their transitions, or the
  later one is refused (`registry.go:74-88`); the znode then keeps `Warming` for
  an instance that is Ready, and the ramp runs into its deadline. Hence
  `SerialAgreement` speaks of publications that do not overlap, and `RecordTrails`
  only of the znode not being ahead.
- The warmup timer is created once (`engine.go:111`), and after a timeout nobody
  watches the config (`:131`); a warmup that a reset begins again may never end.
  Hence `WarmupResolves` is checked without resets, and `PromotionHeard` exempts
  a watch loop that has ended.
- A promotion handled while the instance is still Warming is used up
  (`engine.go:144` before `:148`), and the instance gets Ready but never Active: `spent` in
  `PromotionHeard`.
- A session completed while its ramp runs becomes `holding` again, with the ramp's
  config written over the promotion (`main.go:208-226`). The benchmark never
  does that (`ProtocolKept`); any other client of the API may.
- A session is `holding` also when its deadline has passed and its instance is
  not ready (`main.go:210-226`); `HoldEnds` has no such guard.
- An instance whose session expires is never registered again, and one that
  restarts on its old znode loses it with the old session: `orphaned` in
  `EntersTable`. An instance whose record could not be read is not looked for
  before the next event: `missed`.
- After a reset an instance may be Ready with a smaller count than the
  documentation says (`docs/warmkit-api.md:17`), the exception in
  `ReadyStepIsWarmed`; and it may be Ready and cold: a mirrored GET of any path
  counts (`engine.go:211`), and one served before a reset may be counted after it. These
  are the exceptions in `ReadyIsWarm` (`excused`).
- No setting has a range: with no keys every `/work` panics, with `READY_AFTER`
  not positive an instance is Ready without a request.
- `s0-control` probes a warm index if a request mirrored for an earlier attempt is
  still on its way (`quiet` in `ProbedAsIntended`).
- A read after `Unmap` or `Remap` touches a mapping that is gone, and
  `EnsureFile` on an older and larger file cuts pages off a mapping of it: `fault` in
  MmapStore.

### Bounds

Two requests and one reset are the fewest that show every pair of racing
goroutines next to the watcher, and a threshold of 2 makes the first request
insufficient; handlers return to `idle`, so each stands for any number of
requests one after another. The engine's state space has no other bound. Four
writes let the watcher hold one config, the channel another and the znode two
later ones. Two sessions and two instances let a promotion be undone by another
session's ramp and let target and active differ; two ramp steps enter, repeat
and leave the loop. `Ramps`, `Completers` and `Putters` bound the number of
requests, each being used once; `MaxWrites` bounds the writes. `coordinator_any` has
no PUT: with every config as its body the instance is out of TLC's reach, and PUTs of any
body are a matter of the theorems `TypeCorrect` and `ShareGrows`. Symmetry is used
only where no temporal property is checked that names an element.

In `mirror_proxy` one instance starts twice, which is what the reuse of a znode
takes, and both are mirrored to in turn; a restarted proxy begins again with an
empty table, so one restart stands for any number. In `loaded_service` two
requests race for the mutex, and two resets leave room for an index to be built
before, between and after them; `Numbers` is zero, every other number that
matters (2) being in the sound environment. In `benchmark` two attempts (`MaxRuns`
1, and twice as many attempts) let what one leaves behind meet the next, also
across scenarios. The ramp has no steps there (`NoSteps`), only its first write
and the hold loop, as the steps are covered by the coordinator's runs; the
channel's and the watcher's copies of a config are one (`inbox`), as their order is
`warmkit_watch`'s matter. In `mmap_store` the size is no multiple of the page, the last
page is written whole, and the older sizes are below and above both; goroutines are
symmetric.

Deadlock is
not checked where the system stops for good: after a shutdown, or once the
bounded requests are used up.

### Fairness

`FairSpec` of the engine assumes what the Go scheduler and ZooKeeper give: a
goroutine that can run does run (weak fairness of each goroutine's own steps, a
ZooKeeper call returning or failing being one), an armed timer fires, and
`Cancel` follows the closing of the registry. No request, reset or config is
assumed to come. Go's `select` chooses at random among ready cases, so neither
an expired timeout nor a cancelled context loses to arriving configs forever:
strong fairness of `TakeTimeout` and `WatchDone`. For the two config watchers,
strong fairness of the reads says that ZooKeeper calls do not fail forever. For
a ramp, strong fairness of `HoldEnds` says that time passes, so that the hold
deadline is reached however often the loop is entered.

In MirrorProxy the watcher's goroutine runs (`Refresh`), `ChildrenW` does not fail
forever, ZooKeeper ends the session of a process that is gone (`ExpireDead`), and
an instance goes on with its registration; nothing is assumed of starts,
crashes, configs or requests. In LoadedService each handler runs (`Step`), and,
by strong fairness of what needs `e.mu`, a Go mutex starves nobody. In Benchmark
the instance's watcher and its loop run, a timeout that has begun included
(`TimeoutFails`); the client, the proxy and the
coordinator may stop anywhere, so `PromotionHeard` depends on them in nothing.

## 4. What is proved

Every invariant and every action property that a run checks is stated by a
theorem, as are both refinements but for the liveness of `ConfigFeed`. The theorems
hold for every value of the constants that meets the named assumptions (goroutines
of different kinds are different, `None` is none of the values it stands beside,
bounds are naturals, switches are Booleans, the benchmark has a scenario to run)
and the hypotheses given below; sets need not be finite. Each inductive invariant
was checked by TLC on the instance of its run first.

**WarmkitEngineProofs**

- `TypeCorrect`: `TypeOK`. The invariant `TypeInv` adds that a goroutine has
  something to publish exactly between its `Get` and its `Set`, and only a state
  its own code publishes; without that, where it goes on afterwards has no type.
- `ReadyOnlyWhenWarmed`: `ReadyStepIsWarmed`. The invariant `CountInv` says that
  a goroutine past the count check still has a sufficient count, unless it is
  stale. Nothing but a reset lowers the count, and a reset makes exactly those
  goroutines stale.
- `SerialRecordAgrees` (without ZooKeeper faults): `SerialAgreement`. While no two
  publications have overlapped, at most one goroutine is publishing, and
  `SerialInv` says what it owns of the difference between FSM and znode:
  before its transition they agree and the transition is valid, after it the FSM
  is in the state about to be written, and after the `Get` the version is
  current. `WatchInv` tells what the state can be from where `Watch` is.
- `RecordNeverAhead` (without resets): `RecordTrails`, faults included. `TrailInv`
  says the same of what is about to be written, and of the conditions each
  goroutine has checked and still relies on; the FSM only moves forward, so what
  trails it keeps trailing.

**WarmkitWatchProofs**: `TypeCorrect`; `NothingLost`, from the invariant that
between reading a config and the event the watch has fired or is still set on the
version read; and `FeedSafety`, that the watcher implements `ConfigFeed!Safety`, from the
order of what it has seen, buffered and read (`InOrder`).

**ProxyWatchProofs**: `TypeCorrect`, and `RoutedInOrder`: the proxy's loop implements
`ConfigFeed!Safety`, because one goroutine both reads and stores.

**CoordinatorProofs**

- `TypeCorrect`: `TypeOK`, for any client of the API, PUTs of any config, failing
  ZooKeeper calls, colliding ids and deletions included.
- `ShareGrows` (`RatioRises`), with failing calls and for any client whose PUTs name no
  session (`PlainPuts`), as long as no two sessions get the same id. A client that PUTs
  a config under a session's id may lower that session's share, as `setMirrorConfig` checks
  nothing (`main.go:305-317`). The benchmark's protocol has no such PUT
  (`ShareGrowsByProtocol`). `Owned` says that a session belongs to one ramp, even
  after it was deleted, and that a completion mirrors nothing; `Climbing` that what a ramp has to
  write is the ratio of its step and not below what the config of its session shows. The ramp
  steps must ascend (`Ascending`), which nothing in the code demands of
  `DWSS_COORD_RAMP_STEPS`.
- `PromotionLasts` (`PromotionFinal`) and `AnsweredTruly` (`AnsweredIsPromoted`) are about a
  client that keeps to the protocol, with failing calls. `Settled` says that a ramp
  under way has a session that is not held, nor completed, nor being completed, so that none
  of its writes is left when a promotion is written. It needs of the client only that
  it completes what it saw hold (`SettledComplete`), which is what the benchmark's proof uses.
- The rest needs, besides the protocol and ids that differ, a ZooKeeper that answers
  (`ByProtocol`). The code promises less without them: section
  3 shows what another client can do, and `coordinator_failed_write` what one failed
  write does. The invariant `IInv` says that every session has exactly one ramp,
  which runs as long as the status is `running` (`RampsOwn`); that one goroutine at
  a time has something to write (`OneByOne`); that a completed session is promoted
  or has its promotion in hand (`PromotesOnce`); and that from its first write on the config
  is the running ramp's but for the ratio (`RampsMirror`); to these `RoutesPut` adds that PUTs
  name no session and an active instance. None of the four is
  inductive alone: that a ramp cannot overwrite a promotion rests on its session
  being neither holding nor completed while it runs.
- `PromotionStays` (`PromotionSticks`) and `HoldingIsTrue` (`HoldingMirrors`) follow.
- `Refinement` (`ImplementsSession`): each step is a step of WarmupSession or none. The
  plan of a session is what its one ramp was started with (`PlansKnown`); completing is
  no step, the write of the promotion is `Promote`.

**BenchmarkProofs**, for any scenarios and bounds, with calls that fail anywhere and a
coordinator that restarts at any time:

- `SystemTypes`: `TypeOKAll`. The bound on the attempts is the part that is no type.
- `ProbesMeasure`: `ProbedAsIntended`, from `Checked`: between check and probe the index
  is only ever built, and where none is to be built the only one that could, a mirrored
  request, has been seen not to be under way.
- `MeasuresUnmirrored` (`ProbesUnmirrored`) and `KeepsProtocol` (`ProtocolKept`), from
  `InOrder`: a ramp goes on only while its session is polled for or the client has failed
  (`OneRamp`), a request writes only while the client waits for that one (`OneAnswer`),
  no other session is open (`OneOpen`), and an answer to a completion means that
  the config was written (`Ended`), which holds because the session it completes was seen
  to hold and so was not completed before (`Seen`).
- `SessionsKept` (`ImplementsSession`) and `StatusKept` (`HoldingMirrors` and
  `PromotionSticks`) put the two modules together: `KeepsProtocol` makes a
  step of the benchmark one of the coordinator under its protocol, and
  `INSTANCE CoordinatorProofs WITH OneAtATime <- TRUE` provides the invariant. They need that
  ZooKeeper answers and the coordinator is not restarted (`Undisturbed`): a restart
  forgets a session whose mirror goes on.
- `PromotionsLast` (`PromotionFinal`), `AnswersTruly` (`AnsweredIsPromoted`) and, for
  ascending steps, `SharesGrow` (`RatioRises`) need neither. A restart begins no session, ramp or
  completion (`RestartsBeginNothing`) and ends every ramp, so `Owned`, `Climbing` and `Settled` are
  inductive over it; and the session that `Complete` names still holds if it still
  exists (`SeenHolding`, from `InOrder`).

**MirrorProxyProofs**

- `TypeCorrect`: `TypeOK`.
- `NeverMirrorsItself`: `NoSelfMirror`, from `MirroredByOne`: a request is routed and
  mirrored by one copy of the config. The hypothesis is that no config mirrors to
  its own active instance, which neither the proxy nor `createSession`
  (`main.go:152-160` of the coordinator) checks.
- `TableIsCurrent`: `TableAgrees`. `ReadAgrees` says the same of a refresh halfway, of the
  records read so far, and `Records` that the address in a znode is of the start that
  created it or a later one; without that, a record read and a znode replaced could
  not be told apart.

**LoadedServiceProofs**

- `TypeCorrect`: `TypeOK`, with `AtRest`: before the start and after the end nothing runs.
- `LooksUpComplete` (`ReadsComplete`) and `BuildsOnce` (`BuiltOnce`), from `WorkInv`: a map is
  being filled exactly while the mutex is held, by its holder only (`Filling`), and what is
  built was built once since the last reset (`Spent`).
- `ReadyMeansWarm`: `ReadyIsWarm`. `Warm` adds that a positive count and a goroutine past
  the count check have a built index behind them too, as long as no reset is between
  dropping the index and replacing the counter.
- `AnswersCoherent`: `SnapshotCoherent`. `SnapInv` adds the same of the count: enough for a
  goroutine about to declare the instance ready, for a Ready one, and for an answer that
  has read the state and not yet the count.

**MmapStoreProofs**: `TypeCorrect`; `Closes` (`NothingLeaks`), which is inductive with the types;
`ReadsWithinSlice` (`WithinSlice`), from `Touching`: the pages a read has left are those of
the mapping it copied; `CutsOnlyLarger` (`CutOnlyIfLarger`), from `MadeWhole`: nothing
makes the file shorter than a mapping of it, but for cutting it to `Size`.

Only model-checked: liveness and fairness, which are beyond the prover
(`WarmupResolves`, `StopDrains`, `WatcherStops`, `AnnouncedIsSeen`, `RunningEnds`,
`EntersTable`, `LeavesTable`, `RequestsEnd`, `PromotionHeard`, and the liveness in
`ImplementsFeed`), and the two counterexamples.

## 5. What is not modelled

- `MemoryRegistry`: a stand-in used by tests.
- Latencies kept by `ShadowMetrics`, logging, JSON, HTTP status codes: nothing
  the properties speak of depends on them.
- The engine in a role other than `warmup`: `main` does not create it.
- `RunOverhead`, which times requests through the proxy with mirroring on and off
  and keeps no state between them; the pauses, defaults and
  files of the benchmark (manifest, progress, report, command).
- The load profile (`TargetRPS`, `Phase`), the block medians and the statistics:
  arithmetic on clock values and floating point, and a bootstrap with a random
  generator. Benchmark needs only that the load ends, and leaves the verdict on
  the coefficient of variation open.
- The settings of proxy and coordinator (read like those of LoadedService;
  a wrong one ends the process before it has any state, a missing hold time is
  120 seconds), the functions of `envcfg` nobody calls, the profiling handlers.
- `WaitSessionCompleted` and `SizeMB`: no caller, no state.
- Memory races: the pointer `e.shadow` (`engine.go:160`) is read as the old or the
  new one. `session.Status` is a string, written while it may be encoded
  (`main.go:268`); a torn read of it would show in one answer to a poll and is left
  out.
- A mirror config left over when the benchmark starts. `RunOverhead` ignores the answer
  to its closing `BaselineMirror` (`experiment.go:255`, `:260`, `:270`), and a run that ends in
  `log.Fatal` writes none; `s0-control` and `s-ref` write no config of their own, so
  `ProbesUnmirrored` would not hold of such a start.
- Figures and deployment files.

## 6. Plan

Done, in this order: the engine and its proofs, the config watchers and
`ConfigFeed`, the coordinator and `WarmupSession`, MirrorProxy, LoadedService,
Benchmark, MmapStore; the theorems about the last five, most important
first; and what the coordinator keeps to when ZooKeeper fails and it is restarted. What is
left that a proof could add:

1. That WarmkitEngine's steps map to the instance of Benchmark, whose handlers are one step
   each but for the timeout, and with it that `ProbedAsIntended` holds over the
   interleavings of the handlers. Benchmark's record already takes any publication,
   however late; the mapping has to show that the engine's are among them.
2. A version of `HoldingMirrors` for a ZooKeeper that fails: a session may then hold with an
   older config of its own ramp, or of an earlier session.
