# A TLA+ development of the DisplayXR Leia plug-in

The plug-in lets the DisplayXR runtime drive Leia / Simulated Reality (SR)
light-field panels. It probes for a panel, derives the display geometry, and gives
the runtime a display processor (DP) that weaves the views through the vendor's SDK.
Most of it is straight-line code around closed SDKs and GPU APIs. What is hard is in
a few places: the SR service is slow and comes late, panels are unplugged, the
service restarts, and the render threads must never wait for any of it. Those places
are what this development models.

Everything was translated from the code under `src/`; `PROJECT.json` maps each
definition to the lines it stands for and lists the runs, the mutants, the hazards
and the theorems.

## 1. Inventory

Paths are under `src/src/`. "Hard" names what is difficult to test.

### Windows (`drv_leia`)

| Part | State it keeps | Operations | Interacts with | Hard |
|---|---|---|---|---|
| Readiness: refresher (`leia_sr_ready.cpp`) | two demand stamps, running / shutdown flags, three events, a mutex | poke (pending getters, create retries), heartbeat (DP ticks), start, pass, stand-down, shutdown | platform state (a pass), DPs (asks) | a stand-down racing an ask, two starts, shutdown at any point |
| Readiness: geometry, watcher, head device (`leia_sr_ready.cpp`) | verified and kept geometry, 20 s budget, watcher flags, registered device | resolve, ready wait, publish, invalidate, pending getter, watcher, register / unregister, shutdown | platform state (both call each other), head device, DPs | unplug while a query is in flight, late identification, the watcher's exit |
| Platform state (`leia_platform_state.c`) | matched panel, "panel seen", published state, topology signature | evaluate (probe), refresh with an age limit, getters | EDID probe, presence, geometry | a stale enumeration, SR keeping a device that is gone |
| EDID probe, panel table (`leia_edid_probe.c`) | cached enumeration | enumerate, match | platform state, claims | table drift |
| D3D11 weaver (`leia_sr_d3d11.cpp`) | ownership word, SDK objects, recorded window and lens wishes, lens mailbox and thread, generation token | create (sync, async), request display mode, set window, poll back end, reconnect, destroy (sync, async) | DP, liveness, readiness | cancel racing publish, mailbox hand-off, reconnect |
| Liveness (`leia_sr_liveness.cpp`) | 1 s token caches | platform generation from the SDK or the SCM | weavers | a cache keyed by address, mixed token kinds, both read around a restart |
| D3D12, GL, VK weavers | SDK objects | create, weave, lens, destroy | DPs | same restart problem, synchronous |
| v2 common (`leia_sr_v2_common.cpp`) | authorization poll, eye sample | poll, publish | weavers | poll thread life |
| Display processors (D3D11, D3D12, GL, VK) | GPU objects, pending flags | process views, eye positions, display mode, tick | weaver, readiness | pure GPU work otherwise |
| Claims, multi-display rules | none (pure) | match panels, SR devices, monitors | EDID probe | ambiguous identities |
| Stereo camera; NeurD lift; background capture; predict trace | capture / inference / frame slots, a ring | start, stop, frames | DP, runtime | slot hand-off |
| Presence, delay-load binder, API selection | results, once | probe, bind | all SR users | none: sequential |

### Other platforms

| Part | State | Hard |
|---|---|---|
| Linux SR back end and lens owner (`leia_sr_linux_sdk.c`, `leia_lens_owner_linux.h`, `leia_sr_exit_linux.h`) | weavers, who owns the shared lens, exit guard | lens hand-over between weavers, SDK teardown at exit |
| Linux background capture and worker (`leia_bg_capture_linux.c`, `leia_bg_capture_worker_linux.c`, `leia_bg_capture_recovery_linux.h`) | job queue, result, unlock watch, recovery schedule; per capture: the D-Bus link to the shell extension, a slot per PipeWire buffer, the kept previews | a start answered after it was given up, a session closed at every lock, frames recorded while the extension was away |
| Linux DP (`leia_display_processor_linux.c`) | the live capture, a graveyard of old ones, GPU state | a capture the GPU still samples, one start too many |
| Linux plug-in, claims, screens | pure rules | ambiguous identities |
| Android CNSDK back end and DP; stereo camera | core, backlight and tracking state | asynchronous core init, pause / resume |
| macOS readiness and DP (`leia_sr_macos.m`) | enumeration, verification poll | the poll's edge against an enumeration's baseline |
| Conversion provider (`conv_leia`) | session, idle policy | session end racing a conversion |
| Installer, Restart Manager helper | none | sequential |

### What makes each modelled part correct

* Refresher: at most one thread; an ask is never lost to a stand-down; every ask is
  followed by a pass that starts after it; nothing runs after shutdown.
* Geometry: at most one watcher; a registered head device has the verified geometry;
  nothing is claimed after an unplug; every resolve returns; the watcher derives the
  geometry of a late panel without the help of a later call.
* Captures: each is stopped once, and not while the GPU samples it; a lost one comes
  back; nothing recorded without the extension's exclusion is ever composed.
* Weaver: exactly one owner frees the handle, and a handle given up is freed; the lens
  mailbox is never stranded; a destroy that joins tears down alone; a stamp of an earlier
  platform is renewed.

## 2. Modules

| Module | Models | Correspondence |
|---|---|---|
| `SrRefresher` | the refresher thread and its askers | `pendingDemand`, `heartbeatDemand`, `running`, `shutdown` and the events are the `g_refresher_*` / `g_*_demand_ms` globals. Every atomic access is a step: `PokeStore`, `ReadRunning`, `StandDownClear`, `StandDownTakeBack`, ... The three rules of `leia_sr_ready_rules.h` are operators. |
| `SrGeometry` | platform state, geometry cache, resolver, watcher, head device, kept pair | `geom`, `kept`, `matched`, `hit`, `state`, `edid` are the globals of `leia_sr_ready.cpp` and `leia_platform_state.c`; a geometry is the panel it was read from. The resolver, the watcher and the passes are threads with a `pc`. |
| `AsyncWeaver` | one `leiasr_d3d11` handle | `state` is `async_state`, `mailbox` / `busy` the lens mailbox, `lpc` the lens thread, `rpc` a destroy past its hand-off. Callers are the DP's threads, workers the create / reconnect threads. What liveness may answer is `PlatformGeneration`. |
| `CaptureLifecycle` | the abstract specification of the Linux desktop captures | Per capture a stage (`none`, `started`, `shown`, `resting`, `stopping`) and whether the GPU may be sampling it. One action per move. |
| `BgCapture` | the display processor's captures, the worker and the recovery | The frame thread is at `at`: `dp_capture_reconcile` is one step per access to the worker (`NoticeLoss`, `TakeUnlock`, `PollCreated`, `GoIdle`, `PostStart`). `grave` is `bg_graveyard`, `queue` and `result` the worker's, `rec` the `leia_bg_recovery`. The worker thread is at `wpc`. |
| `CaptureTrust` | one live capture: the pump, `on_process`, the trust gate, the preview | `live`, `serial`, `layoutSerial`, `wantsRestart` are `exclusion_live`, `exclude_serial`, `layout_serial`, `wants_restart`; `bus` holds the messages its D-Bus connection has for it, `frames` what mutter recorded and the PipeWire thread has not dequeued. Every store of `on_process` and every read of a poll is a step. |
| `SrRefresherProofs`, `SrGeometryProofs`, `AsyncWeaverProofs`, `BgCaptureProofs`, `BgCaptureBounds`, `CaptureTrustProofs` | theorems about the five | section 5 |
| `MC*` | model values, small sets, symmetry | one per module |
| `MCWeaverStories`, `MCCaptureStories` | what the callers, the setters and the environment of one behaviour do | section 3 |

The modules meet where the code does: a refresher's pass in `SrRefresher` is one step
(`Pass`), in `SrGeometry` it is the sequence `RefresherPass`, `Evaluate`, `Rearm`,
`RefreshUnlock`, `Snapshot`. `BgCapture` has a capture whose frames are good or not
(`good`), `CaptureTrust` says frame by frame which those are. The presence of the SR
platform is `platform` in `SrGeometry` and `up`, `boots` in `AsyncWeaver`.

The environment is in the models too: panels come and go (`Replug`), SR identifies
late or keeps a device (`SrIdentifies`, `SrKeeps`), the service stops and starts
(`PlatformChanges`, `PlatformStops`, `PlatformStarts`). SDK calls may fail
(`QueryFails`, `WorkerCreateFails`, `WindowRefused`) or throw (`LensAborts`), events and
threads may not be made (`StartSpawnFailed`, `StartNoEvents`, `StartThrows`,
`SpawnFails`), D-Bus requests may not be sent, waits time out.

### Abstractions

* Times: the refresher has a clock; elsewhere a time limit is a step that may happen
  when the wait is on (`BudgetEnds`, `LensDwelt`, `WorkerRetries`). A sleep promises
  nothing about other threads: the 100 ms a reconnect waits before it tears down are
  one more step.
* `SrRefresher`: the clock and the two demands are three reads (`ReadClock`,
  `ReadPending`, `ReadHeartbeat`), in each of the two decisions.
* `g_mu` sections are one step each; `g_lock` and `g_watcher_mu`, which are held across
  calls, are variables. A pass reads the SR install when it begins (`read`), its other
  inputs under `g_lock` in `EvaluateLocked`, and publishes in `RefreshUnlock`.
* `SrGeometry`: the view scale and the window geometry are left out; a stale
  snapshot of the attached panel reads as none; applying a geometry to the head
  device succeeds. A query may be answered with the placeholders of SR's default
  display (`Placeholder`). The cache of the display dimensions in `leia_sr_d3d11.cpp`
  (`g_display_dims_cached`) is left out.
* `AsyncWeaver`: a lens or window call and the look before it, or the record after it,
  are steps of their own (`LensLooks`, `LensCall`, `WindowCall`, `WindowRecord`). Only a
  call and the look at the object's pointer right before it are one. A call on objects
  that a reconnect tore down meanwhile has no effect in the model. `lens_quit` only
  shortens the dwell, which may end at any step. The SDK create reads the platform at one
  instant. A stamp or a poll may read the SDK's token or, when that fails, the SCM's,
  and within a second of a stop or start of the service a cached one of before
  (`recent`, `SecondPasses`). A lens call that throws has no effect, and `LensAborts` is
  an exception that gets past its handler. Deleting the struct with a joinable lens
  thread ends the process: the model stops the lens thread there. `arm_reconnect`'s
  thread is always made, since the process ends where it is not. A destroy comes when no
  call of the same DP runs, because the runtime serialises a DP's calls with its
  destruction under its render mutex.
* `BgCapture`: `LEIA_DP_DISABLE_BG_CAPTURE` is unset, the worker thread and the compose
  pipeline can be created, the window is on the panel. A wait that is over is a
  flag (`retryDue`, `rec.due`). The GPU is at most `InFlight` frames behind, which the
  compositor's fences bound. What happens to a capture that was handed back is read by
  nobody and is left out. Equal captures are alike, so the allocator gives the first
  free one. A result is published together with the destroy of an older one that was
  never taken, which does not occur (`InflightIsOneStart`).
* `CaptureTrust`: frames arrive by shared memory, in the order mutter recorded them,
  any time later; the pool is that of one format negotiation (2 to
  `DXR_MAX_BUFFERS`); the window is on the panel. The counters `dbg_frames`,
  `slot_seq`, the previews' `seq` and `untrusted_through` are only ever compared: the
  slot has the result, and `toSkip` is how far the one is behind the other. A pump and
  the gate after it are taken together, with nobody in between: they wait for nothing
  and read only two words that others write. The preview's swap and the slot's publish
  are steps of their own. A request may not be sent (`refused`, `unasked`), and the
  extension may answer one with an error, or never, when it goes away. That a session
  closed or a stream failed is `BgCapture`'s; the gate's own look at it is left out,
  which only lets more through. The held copy of the last composed picture
  (`held_refresh`) is left out: the properties are about polls and previews
  (section 6).
* Logging, timing statistics, and the SDK's own state are left out.

## 3. Runs

Bounds are constants of the modules, or named in the MC module. Every action fires in a
passing run.

| Run | Instance | What it shows |
|---|---|---|
| `SrRefresher` | one asker that pokes and beats, two refresher identities, clock to 4, both idle periods 2, `MaxStall = 1` | Safety and liveness of the refresher. Two identities are enough to see a second refresher; the clock is long enough for an episode, its expiry and a new one; one tick may fall between an asker's clock read and its store. More askers: section 5. |
| `SrRefresherWake` | the same | Violation, section 4. |
| `SrGeometry` | one panel, there at the start, identified or not; one client, two watchers, one refresher, two events, `SrKeeps` (`SmallSpec` of `MCSrGeometry`) | Safety of the geometry, that every resolve returns, and that the watcher derives a late panel. The first event is any; after it only a panel is plugged in again. The claims' re-probe comes before the first event. So an unplug is followed by the panel's return, and a query, a pass or a watcher that began before sees both. |
| `SrGeometryStale`, `SrGeometryDone` | two panels with one desktop rectangle, two events, everything else free | Violations, section 4. |
| `AsyncWeaver` | two callers, two workers, two windows, two platform incarnations (`MCWeaverStories`) | Ownership, the mailbox, freeing, repair after a restart. One caller polls; what the other does is one of four stories: lens requests of an async lens, of a sync lens, window changes, or polls while the platform restarts. `Small` has the bounds of each: a lens only in the two about it (in the async one with one worker and no SCM stamps), the second window only in its story, and a service that is down only where it restarts. All of it at once is the theorems' (section 5). |
| `AsyncWeaverLatest` | one caller, one worker, one window; no exception past the lens handler (`SureSpec`) | Violation, section 4. |
| `AsyncWeaverAccepted` | one caller, one worker, two windows | Violation, section 4. |
| `AsyncWeaverDeleted` | one caller, one worker, one window | Violation, section 4. |
| `BgCapture` | three captures, two graveyard slots, `Grace = 1`, a queue of 6, the GPU one frame behind, one setter call between frames, two events (`MCCaptureStories`) | The refinement of `CaptureLifecycle`, that neither inline stop is reached, that every recovery ends and a transparent window gets its capture. An application uses one of the two setters; with `set_transparency_active` there is one event. Two events are a lock with a refused start after it, or two locks in one recovery. Three captures are what can exist at once with two slots; the slots and the queue satisfy what `BgCaptureBounds` asks of them (section 5). |
| `BgCaptureEarn` | two captures, a queue of 8 | Violation, section 4. |
| `CaptureTrust` | two buffers, two events | Two buffers are a frame in the PipeWire thread's hands and one behind it; two events are two absences of the extension, or one and a change of the layout. A second absence is needed for an answer of the first one to arrive in the second. |

Deadlock is checked except for `AsyncWeaver*`, where the handle is freed in the end
and boots are bounded, and `BgCapture*`, where the display processor is destroyed.
Symmetry is used where only safety is checked (`CaptureTrust` and the two violations of
`SrGeometry`).

Fairness. Threads that run code are weakly fair, since the operating system runs
them. Waits with a time limit are fair because the limit passes.

* `SrGeometry`: the budget and shutdown's wait end, the refreshers' steps are weakly
  fair, those of the clients and of the watcher strongly, because they need a lock that
  others take again and again; and the watcher's query, which it repeats once a second on
  an identified panel, succeeds in the end. That a client resolves again, or that another
  pass runs, is not assumed: late geometry is the watcher's alone.
* `AsyncWeaver`: callers, workers, the lens thread, the destroy and the second of the
  token cache are weakly fair; strongly, the DP's 1 Hz poll of the back end, and the
  create that is retried for ever and can succeed.
* `BgCapture`: frames go on until the destroy and the worker is scheduled (weak), clocks
  run out, mutter delivers a frame to a healthy capture, and an application that weaves
  reaches the compositing again and again (`Restart \/ Sample`, strong, because a frame
  of one view may skip it).
* `CaptureTrust` is safety only.

No fairness is assumed for the environment, for asks, for requests or for a shutdown.

### Properties

* `OneRefresher`, `NoAskLost`, `QuietAfterShutdown`, `NoStartAfterShutdown`,
  `AsksAreServed`, `ShutdownStopsRefresher`.
* `OneWatcher`, `HmdCurrent`, `NoClaimAfterUnplug`, `NoWatcherAfterShutdown`,
  `ResolvesReturn`, `GeometryDerived`.
* `OneOwner`, `BusyIsOneClaim`, `MailboxServed`, `JoinedBeforeTeardown`,
  `DestroyedIsFreed`, `RestartRepaired`.
* `SampledNotStopped`, `NoInlineStop`, `Lifecycle`, `OneHolder`, `InflightIsOneStart`,
  `WatchedWhileLost`, `NothingLeft`, `RecoveryEnds`, `CaptureComes`.
* `SampledClean`, `PreviewClean`, `LayoutNoticed`, `TrustDue`.
* Violated by the code, section 4: `PendingIsAttached`, `DoneMeansGone`, `EpisodeWakes`,
  `LatestWishWins`, `AcceptedIsBound`, `DeletedIsUnused`, `ActivationEarnsAttempt`.

Each is stated in its module. For those that hold, a mutant of the code, defined next
to the definition it changes (`Name_HowItIsBroken`), shows that they can fail.

## 4. Disagreements between the code and its documentation

Each has a run that TLC ends with a counterexample. Where a property fails in two ways
the run prints the shorter one; `PROJECT.json` has both.

1. `PendingIsAttached`: `publish()` stores the geometry of a query that was in flight
   while its panel was unplugged. The invalidation ran earlier and found nothing to
   drop. Until the next panel change, the pending getters report it for another
   panel, which `leia_sr_ready_rules.h` says cannot be. The run takes an SR that
   forgets a device with its panel, so the answer was right when it was given.
2. `DoneMeansGone`: the watcher clears its flag and sets its done event outside the
   lock. A successor started in between is reported done to the shutdown.
3. `EpisodeWakes`: `leiasr_pending_refresh_poke` reads the clock (`leia_sr_ready.cpp:633`)
   before it exchanges the stamp (634). An asker preempted in between judges the
   episode by an old clock: the previous ask still looks recent to it, while the
   refresher has seen it expire and has chosen the long period. Nobody wakes it, although
   the comment at 639-642 says it is cut short "once per episode, so the pass runs now".
   The pass comes up to one heartbeat period late.
4. `LatestWishWins`: a reconnect reads the last wish and seeds it (`leia_sr_d3d11.cpp:2132-2134`)
   in two steps. A newer wish recorded in between is overwritten, which the comment at
   2129-2131 says cannot be. And a request that applies its own recorded 3D (3680)
   bypasses the mailbox, in which the create worker has queued an older 2D (2006), which
   is then applied last.
5. `AcceptedIsBound`: a window accepted between the worker's exchange of `pending_hwnd`
   (1984) and its swap to READY (2027) is bound by nobody. The comment at 2845-2847 says
   that whichever weaver publishes will be bound to it.
6. `DeletedIsUnused`: after a reconnect's swap to READY its worker still counts it in the
   struct and reads the stamp (2031, 2035), where the comments at 255-256 and 1993-1994 say
   that the swap is its last access. A destroy in between deletes the struct first. And a
   destroy during a reconnect has the worker delete the struct (1946, 2078) with the lens
   thread of before not joined, where the comment at 1524-1526 says no join is needed.
7. `ActivationEarnsAttempt`: "a new activation earns a new attempt", but a start still in
   flight from before an idle period that fails afterwards is booked as the new
   activation's refusal, which then posts no start of its own.

## 5. Proofs

Every theorem holds for all values of the constants that satisfy the named assumption
of its module. No invariant but `TypeOK` is assumed to be inductive by itself: each
module of proofs states an `IInv`, shows that `Init` gives it and that each action
keeps it, and reads the properties off it.

### `SrRefresherProofs`

For any sets of askers and refresher threads (at least two), idle periods, clock
bound and stall: `TypeCorrect` (`TypeOK`), `RefresherUnique` (`OneRefresher`),
`AsksKept` (`NoAskLost`), `ShutdownQuiet` (`QuietAfterShutdown`) and `ShutdownFinal`
(`NoStartAfterShutdown`).

`IInv` adds what the code relies on: who owns `g_refresher_mu` (`LockInv`); that the
running flag is set exactly while a refresher is up or its start holds the lock
(`FlagInv`); that a done event means no thread (`ThreadInv`); and that a thread leaves
through the stop event only after the shutdown flag (`StopInv`). Then `OneRefresher`
follows: a start that finds the flag clear, under the lock, finds no thread.
`NoAskLost` is inductive with those and with `SeenInv`, and the case that carries it is
the stand-down: the flag is cleared before the demands are read again, and an ask stores
its demand before it reads the flag, so one of the two sees the other. `SeenInv` says
that each demand the refresher has read so far is the one that is stored, or an ask
that stored since is still on its way to the flag; the clock it read first is not ahead.
`RecentMonotone` covers the clock: time makes asks stale, never recent. `Invariance` puts
the steps together (`TypeStep`, `ThreadStep`, `SeenStep`, `AskStep`).

### `SrGeometryProofs`

For any set of panels with any desktop rectangles, any disjoint sets of clients,
watchers and refreshers, and any number of environment events: `TypeCorrect`
(`TypeOK`), `WatcherUnique` (`OneWatcher`), `HeadDeviceCurrent` (`HmdCurrent`),
`UnplugNotClaimed` (`NoClaimAfterUnplug`), `ShutdownStartsNone`
(`NoWatcherAfterShutdown`), and two that no run checks, `LocksGivenUp` (`LockInv`) and
`PassAtomic`.

The resolver and the pass are run by several kinds of threads, so typing needs to
know that a watcher is never in the code of a probe and that a thread about to publish
holds an answer (`PlaceInv`). One watcher needs `WatchInv`: the running flag
is set while some watcher is between its start and its leaving, and also, with none,
after a thread could not be made; a start reads the flag and sets it in one section of
the watcher's lock. `ThreadPath` and
`WatcherPath` say which moves the shared code allows. `HmdCurrent` and
`NoClaimAfterUnplug` are inductive on their own: the first because a publish and a
registration are sections of one lock, the second because the state is derived from
the match before `g_lock` is given up. `evaluate_locked` re-arms the watcher between the
match and the state, and can wait there for `g_watcher_mu`: `LockInv` says that the one
thread between the two has `g_lock` and that only a shutdown's wait for the watcher keeps
`g_watcher_mu`, and `PassAtomic` that no other pass matches a panel meanwhile. That
`g_lock`'s "free" is no thread is an assumption of the module.

### `AsyncWeaverProofs`

For any disjoint sets of callers and workers (at least one worker), any windows and
any number of incarnations: `TypeCorrect` (`TypeOK`), `OwnerUnique` (`OneOwner`),
`ClaimUnique` (`BusyIsOneClaim`), `WishesServed` (`MailboxServed`) and `TeardownJoined`
(`JoinedBeforeTeardown`).

* Types need the argument of a call in progress (`ArgInv`).
* `OwnInv` adds to `OneOwner` that a pending weaver has not been given up and that a
  worker joins and reaps only once it was cancelled. Three exchanges of `async_state`
  carry it: the arming of a reconnect wins READY, the worker's publish and the
  destroy's cancel both want PENDING, and one of the two loses. A worker owns the
  struct up to its publishing exchange. What it does to the struct after that is outside
  `OneOwner` and is what `DeletedIsUnused` refutes (section 4).
* `LensInv` is `BusyIsOneClaim` and `MailboxServed` together. A poster stores its wish
  before it tries the claim, and who drops the claim looks at the box again; a spawn
  that fails gives the claim back before it takes its wish out. Only a lens thread that
  an exception ended leaves a wish behind.
* `JoinedBeforeTeardown` follows once there is one owner: after the join nobody is left
  who posts.

### `BgCaptureProofs`

For any captures, graveyard, queue length, rest and lag (the lag no longer than the
rest), events and calls: `TypeCorrect`, `HolderUnique` (`OneHolder`), `WatchKept`
(`WatchedWhileLost`) and `AllStopped` (`NothingLeft`).

`IInv` is `TypeOK`, `OneHolder` and three parts: what is buried when the frame thread is
where (`GraveInv`, `PlaceInv`), and what the worker has before it runs, between two
jobs and after its loop (`WorkerInv`). `OneHolder` says for each capture which of
five hands has it; each step moves a capture from one hand to another
(`RetireEffect`, `BuryEffect`, `TakeEffect` say what the three calls do to the hands).

Two inline paths break what the threads promise: a full job queue drops a start and
stops a capture on the frame thread, and a full graveyard hands a capture to the worker
at once. This module shows, step by step, that what they would break is kept by a step
that takes neither: one start (`StartInv`), a buried capture rests longer than the GPU
lags (`LagInv`), a step of `CaptureLifecycle` (`LifeStep`, by `stageOf`).

### `BgCaptureBounds`

That no step takes either, with two counting arguments.

* The queue (`QueueNeverFull`), for any queue that holds two jobs more than there are
  slots; the code's holds 8 with 4 slots. What lives when a start begins was resting,
  or behind the start in the queue, when the start was posted: the worker stops
  everything queued before the start first. So no more than the graveyard's captures
  and one are alive (`CrowdInv`; `LateJobs` are the stops behind the start), and the
  queue holds at most one stop for each and one start. The three invariants need each
  other (`JInv`): a dropped start would leave `bg_create_inflight` set, and a second
  start would break the count. `OneStartInFlight` (`InflightIsOneStart`) follows with
  no further hypothesis.
* The graveyard (`NeverInline`, `NoInlineStop`). Between two frames a capture may be
  buried by the frame and by setter calls, but a burial is of a capture that a start
  and a claim had to bring first, and each takes the end of a frame or of a call.
  `Credit` is the balance of what may still be buried before the next frame, in
  halves; `PaceInv` says for each `h` that the slots that stay taken for `h` frames
  more are no more than the frames since allow. The hypothesis `SettersAreRare`
  compares that with the slots: with the code's 4 slots and 3 frames it says at most
  two setter calls between two frames. More of them, with starts and stops as quick,
  do fill the graveyard; the code calls that "not a real pattern".

`RestedBeforeStop` (`SampledNotStopped`) and `ImplementsLifecycle` (`Lifecycle`, the
refinement of `CaptureLifecycle`) follow under the same hypothesis, for any number of
captures, events and frames the GPU lags.

### `CaptureTrustProofs`

For any pool and number of events: `TypeCorrect`, `TrustFollowed` (`TrustDue`),
`LayoutFollowed` (`LayoutNoticed`), `SampleClean` (`SampledClean`) and
`PreviewKeptClean` (`PreviewClean`).

The first half of `IInv` is about the messages on the bus. Losses are numbered and
alternate with returns (`OrderInv`), so a return is heard with no request open and the
exclusion is asked for again at once. A grant holds, or the loss that ended it follows on
the bus (`ExclInv`); a refusal on the bus is of an extension that has left, unless a
request of the present one was refused or not sent (`Refusals`, `refused`); the last
change of the layout is not followed by an older answer (`LayoutInv`), unless the pump
could not ask about it (`unasked`).

The second half is about the pictures. Each buffer is in flight once, so no more frames
are in flight than the pool has (`InFlightBound`, by an injection), and the frame at place
`i` that may show us is among the next `toSkip` (`FlightInv`): this is why the pool's
size and one is enough. A trusted slot has a clean staging buffer, and a clean image or
one about to be uploaded, at each step of the two threads (`SlotInv`), and nothing takes
a trust away between the gate and the end of a poll (`PollInv`).

### Only model-checked

All liveness (`AsksAreServed`, `ShutdownStopsRefresher`, `ResolvesReturn`,
`GeometryDerived`, `DestroyedIsFreed`, `RestartRepaired`, `RecoveryEnds`,
`CaptureComes`), which the prover does not handle under fairness. Every safety property
of a passing run is a theorem.

## 6. Limits

* An expired wait or an invalidation that finds the leaving watcher's flag still set, or
  the flag of one whose thread could not be made, starts none. The geometry is then
  derived by the next resolve, if there is one: `GeometryDerived` names this exception
  (`lost`), and so the run shows nothing about it.
* A probe enumerates the EDIDs before it takes `g_lock`, and the topology signature is
  taken under it. A re-plug in between is never enumerated by the 1 Hz passes; a
  re-probe by the runtime or a `get_platform_state` repairs it.
* A wish recorded in the short time between the worker's exchange and its swap to READY
  stays recorded until the next request; the code says so, and no property asks for
  more.
* A restart of the platform between the SDK create and the stamp leaves a dead weaver
  with a current stamp. Only the SDK's own report of a dead connection (`MayBeDead`) ends
  it; `RestartRepaired` asks for the stamp.
* A cached token of the last second, or an SCM token after an SDK one, makes the poll
  rebuild a weaver although nothing restarted. `AsyncWeaver` reaches it; it costs a
  rebuild, and no property forbids it.
* A reconnect tears the SDK objects down while a lens or window call that read READY
  before may still be about to use them; the code accepts it (1440-1444) and sleeps
  100 ms. `JoinedBeforeTeardown` is about the destroys that join.
* Two callers that move the window, or one and a publish, may leave `bound_hwnd` another
  window than the weaver's; the next reconnect binds the recorded one.
* An exclusion request that the extension refuses while it is up, or that cannot be sent,
  is not repeated: the capture stays distrusted until the extension leaves and comes
  back. A layout request that cannot be sent is made up for by the next change.
  `TrustDue` and `LayoutNoticed` except these (`refused`, `unasked`).
* A layout restart during a recovery leaves `bg_recovery_awaiting_frame` set with no
  capture; unlocks are dropped meanwhile and the next attempt waits for its backoff.
* The removal of buffers by a new format negotiation, while a poll has read its slot, is
  not modelled; neither is the held copy of the desktop (`leia_display_processor_linux.c:969-982`),
  which may be taken between a loss of the exclusion and the poll that hears of it, and
  composed afterwards.
* The view scale (`leia_device.c`) is read by render threads with no lock; not
  modelled.
* `PROJECT.json` lists every hazard found, with the property that covers it or the
  reason none does.
* The share of the code modelled is small: most of the repository is GPU command
  recording, vendor SDK calls and numerical code, written once per graphics API and
  platform. The modules take the parts where threads and outside events meet.

## 7. Plan

Done: the Windows readiness modules, the D3D11 weaver with the answers of the liveness
tokens, and the Linux desktop capture with its abstract specification. Next, the most
important first:

1. `LinuxLensOwner`: the shared lens between weavers and the exit guard.
2. The buffers' removal and the held copy in `CaptureTrust`, and the dmabuf path.
3. `MacReadiness`, `DisplayClaims` (pure operators against a reference definition),
   `ConvPolicy`, the NeurD slots and the camera's frame slot.

Not planned: the display processors' GPU work, the vendor SDKs, calibration numerics,
background capture through WGC, the installer.
