---------------------------- MODULE SrRefresher ----------------------------
(***************************************************************************)
(* The platform-state refresher of src/src/drv_leia/leia_sr_ready.cpp      *)
(* (#469, #475): a detached thread that re-reads the platform state off    *)
(* the render threads, started by the first ask, kept up while an ask is   *)
(* recent, standing down by itself, and stopped for good at plug-in        *)
(* shutdown.                                                               *)
(*                                                                         *)
(* Askers are the threads that ask (a display processor's getters and a    *)
(* create retry poke, the display processors' 1 Hz tick heartbeats).       *)
(* Workers are the identities a detached refresher thread can have; there  *)
(* are at least two, so that two refreshers at once is a state of the      *)
(* model.  Every atomic load, store, exchange and event call that another  *)
(* thread can observe is a step of its own; what one thread does while it  *)
(* holds g_refresher_mu is split only where a lock-free reader can see the *)
(* difference.                                                             *)
(***************************************************************************)
EXTENDS Integers, FiniteSets

CONSTANTS
    Askers,         \* threads that call leiasr_pending_refresh_poke / leiasr_platform_heartbeat
    Workers,        \* identities of refresher threads
    PendingIdle,    \* LEIASR_PENDING_IDLE_STOP_MS, in clock units
    HeartbeatIdle,  \* LEIASR_HEARTBEAT_IDLE_STOP_MS, in clock units
    MaxClock,       \* bound: the clock stops here
    MaxStall        \* bound: how far the clock may run past a stamp an asker has read and not stored

ASSUME ThreadsAssumption ==
    /\ Askers \cap Workers = {}
    /\ {"free", "shutdown"} \cap (Askers \cup Workers) = {}
    /\ \E v, w \in Workers : v # w

ASSUME TimesAssumption ==
    /\ PendingIdle \in Nat \ {0}
    /\ HeartbeatIdle \in Nat \ {0}
    /\ MaxClock \in Nat \ {0}
    /\ MaxStall \in Nat

VARIABLES
    clock,            \* GetTickCount64()
    pendingDemand,    \* g_pending_demand_ms, 0 = never
    heartbeatDemand,  \* g_heartbeat_demand_ms, 0 = never
    running,          \* g_refresher_running
    shutdown,         \* g_refresher_shutdown
    lock,             \* owner of g_refresher_mu, or "free"
    created,          \* the three events exist
    stopEv,           \* g_refresher_stop signalled (manual-reset)
    doneEv,           \* g_refresher_done signalled (manual-reset)
    wakeEv,           \* g_refresher_wake signalled (auto-reset)
    apc, kind, stamp, prev,  \* per asker: place, call, clock read, previous demand
                             \* (the locals are reset when the call returns)
    wpc, period,             \* per worker: place, cadence of its wait (reset after it)
    seenNow, seenPending, seenHeartbeat,  \* per worker: the clock and the demands as it
                             \* loaded them for the decision at hand (reset after it)
    spc,                     \* leiasr_ready_shutdown: place
    unserved,         \* history: an ask was stored and no pass has started since
    startFailed       \* history: the last attempt to start a refresher failed

demands == <<pendingDemand, heartbeatDemand>>
events  == <<created, stopEv, doneEv, wakeEv>>
asker   == <<apc, kind, stamp, prev>>
seen    == <<seenNow, seenPending, seenHeartbeat>>
worker  == <<wpc, period, seen>>
vars    == <<clock, demands, running, shutdown, lock, events, asker, worker,
             spc, unserved, startFailed>>

AskerPlaces  == {"idle", "store", "readShutdown", "readRunning", "wake", "start",
                 "spawn", "inline"}
WorkerPlaces == {"none", "pass", "period", "wait", "check", "standDown",
                 "recheck", "stopped", "signal"}

\* A value the decision at hand has yet to load.
NotRead == -1

TypeOK ==
    /\ clock \in 1..MaxClock
    /\ pendingDemand \in 0..MaxClock
    /\ heartbeatDemand \in 0..MaxClock
    /\ running \in BOOLEAN /\ shutdown \in BOOLEAN
    /\ lock \in Askers \cup Workers \cup {"free", "shutdown"}
    /\ created \in BOOLEAN /\ stopEv \in BOOLEAN /\ doneEv \in BOOLEAN /\ wakeEv \in BOOLEAN
    /\ apc \in [Askers -> AskerPlaces]
    /\ kind \in [Askers -> {"poke", "heartbeat"}]
    /\ stamp \in [Askers -> 0..MaxClock]
    /\ prev \in [Askers -> 0..MaxClock]
    /\ wpc \in [Workers -> WorkerPlaces]
    /\ period \in [Workers -> {"pending", "heartbeat"}]
    /\ seenNow \in [Workers -> {NotRead} \cup 0..MaxClock]
    /\ seenPending \in [Workers -> {NotRead} \cup 0..MaxClock]
    /\ seenHeartbeat \in [Workers -> {NotRead} \cup 0..MaxClock]
    /\ spc \in {"no", "flagged", "waiting", "done", "timedOut"}
    /\ unserved \in BOOLEAN /\ startFailed \in BOOLEAN

-----------------------------------------------------------------------------
(* The pure rules of leia_sr_ready_rules.h.                                *)

Recent(now, at, idle) == at # 0 /\ (at >= now \/ now - at < idle)

PendingRefresherWanted(now, at) == Recent(now, at, PendingIdle)
HeartbeatWanted(now, at)        == Recent(now, at, HeartbeatIdle)

\* refresher_wanted_now(), by the clock and the demands worker w has loaded.
RefresherWanted(w) ==
    \/ PendingRefresherWanted(seenNow[w], seenPending[w])
    \/ HeartbeatWanted(seenNow[w], seenHeartbeat[w])

RefresherPeriod(now, at) ==
    IF PendingRefresherWanted(now, at) THEN "pending" ELSE "heartbeat"

\* Mutant: only the first episode of the process wakes the refresher.
PendingEpisodeStarts_FirstOnly(now, before) == before = 0

PendingEpisodeStarts(now, before) == ~PendingRefresherWanted(now, before)

\* What refresher_start requires under its mutex.
\* Mutants: one of the two flags is not read.
MayStart_IgnoresRunning  == ~shutdown
MayStart_IgnoresShutdown == ~running

MayStart == ~shutdown /\ ~running

\* What keeps a standing-down refresher, under the mutex and its flag cleared.
\* Mutants: the demand is not read again, or only the pending one is.
TakesBack_Never(w)          == FALSE
TakesBack_OnlyForPending(w) == ~shutdown /\ PendingRefresherWanted(seenNow[w], seenPending[w])

TakesBack(w) == ~shutdown /\ RefresherWanted(w)

-----------------------------------------------------------------------------
Init ==
    /\ clock = 1
    /\ pendingDemand = 0 /\ heartbeatDemand = 0
    /\ running = FALSE /\ shutdown = FALSE
    /\ lock = "free"
    /\ created = FALSE /\ stopEv = FALSE /\ doneEv = FALSE /\ wakeEv = FALSE
    /\ apc = [a \in Askers |-> "idle"]
    /\ kind = [a \in Askers |-> "poke"]
    /\ stamp = [a \in Askers |-> 0]
    /\ prev = [a \in Askers |-> 0]
    /\ wpc = [w \in Workers |-> "none"]
    /\ period = [w \in Workers |-> "heartbeat"]
    /\ seenNow = [w \in Workers |-> NotRead]
    /\ seenPending = [w \in Workers |-> NotRead]
    /\ seenHeartbeat = [w \in Workers |-> NotRead]
    /\ spc = "no"
    /\ unserved = FALSE /\ startFailed = FALSE

Tick ==
    /\ clock < MaxClock
    /\ \A a \in Askers : apc[a] = "store" => clock + 1 - stamp[a] <= MaxStall
    /\ clock' = clock + 1
    /\ UNCHANGED <<demands, running, shutdown, lock, events, asker, worker, spc,
                   unserved, startFailed>>

-----------------------------------------------------------------------------
(* The askers: leiasr_pending_refresh_poke and leiasr_platform_heartbeat.  *)

\* Asker a goes to `place`; at "idle" its call has returned and its locals are gone.
Goto(a, place) ==
    /\ apc' = [apc EXCEPT ![a] = place]
    /\ IF place = "idle"
       THEN /\ kind' = [kind EXCEPT ![a] = "poke"]
            /\ stamp' = [stamp EXCEPT ![a] = 0]
            /\ prev' = [prev EXCEPT ![a] = 0]
       ELSE UNCHANGED <<kind, stamp, prev>>

\* Both read the clock before they store it.
Ask(a, k) ==
    /\ apc[a] = "idle"
    /\ apc' = [apc EXCEPT ![a] = "store"]
    /\ kind' = [kind EXCEPT ![a] = k]
    /\ stamp' = [stamp EXCEPT ![a] = clock]
    /\ UNCHANGED <<clock, demands, running, shutdown, lock, events, prev, worker,
                   spc, unserved, startFailed>>

\* Mutant: the time the demand expires at is stored, not the time it was made.
PokeStore_Expiry(a) ==
    /\ apc[a] = "store" /\ kind[a] = "poke"
    /\ prev' = [prev EXCEPT ![a] = pendingDemand]
    /\ pendingDemand' = stamp[a] + PendingIdle
    /\ unserved' = TRUE
    /\ apc' = [apc EXCEPT ![a] = "readShutdown"]
    /\ UNCHANGED <<clock, heartbeatDemand, running, shutdown, lock, events, kind,
                   stamp, worker, spc, startFailed>>

\* g_pending_demand_ms.exchange(now_ms)
PokeStore(a) ==
    /\ apc[a] = "store" /\ kind[a] = "poke"
    /\ prev' = [prev EXCEPT ![a] = pendingDemand]
    /\ pendingDemand' = stamp[a]
    /\ unserved' = TRUE
    /\ apc' = [apc EXCEPT ![a] = "readShutdown"]
    /\ UNCHANGED <<clock, heartbeatDemand, running, shutdown, lock, events, kind,
                   stamp, worker, spc, startFailed>>

\* g_heartbeat_demand_ms.store(...): the heartbeat does not read the shutdown flag.
HeartbeatStore(a) ==
    /\ apc[a] = "store" /\ kind[a] = "heartbeat"
    /\ heartbeatDemand' = stamp[a]
    /\ unserved' = TRUE
    /\ apc' = [apc EXCEPT ![a] = "readRunning"]
    /\ UNCHANGED <<clock, pendingDemand, running, shutdown, lock, events, kind,
                   stamp, prev, worker, spc, startFailed>>

PokeReadShutdown(a) ==
    /\ apc[a] = "readShutdown"
    /\ Goto(a, IF shutdown THEN "idle" ELSE "readRunning")
    /\ UNCHANGED <<clock, demands, running, shutdown, lock, events, worker, spc,
                   unserved, startFailed>>

ReadRunning(a) ==
    /\ apc[a] = "readRunning"
    /\ Goto(a, IF ~running THEN "start" ELSE IF kind[a] = "poke" THEN "wake" ELSE "idle")
    /\ UNCHANGED <<clock, demands, running, shutdown, lock, events, worker, spc,
                   unserved, startFailed>>

\* SetEvent(g_refresher_wake) once per pending episode.
PokeWake(a) ==
    /\ apc[a] = "wake"
    /\ wakeEv' = (wakeEv \/ PendingEpisodeStarts(stamp[a], prev[a]))
    /\ Goto(a, "idle")
    /\ UNCHANGED <<clock, demands, running, shutdown, lock, created, stopEv,
                   doneEv, worker, spc, unserved, startFailed>>

\* What the caller does with refresher_start()'s false: a poke gives up, a
\* heartbeat refreshes on its own thread.
AfterFailedStart(a) == IF kind[a] = "heartbeat" THEN "inline" ELSE "idle"

\* refresher_start() under g_refresher_mu, with nothing to start: shut down, or
\* another asker (or the refresher taking itself back) was first.
StartNotNeeded(a) ==
    /\ apc[a] = "start" /\ lock = "free"
    /\ ~MayStart
    /\ Goto(a, IF shutdown THEN AfterFailedStart(a) ELSE "idle")
    /\ UNCHANGED <<clock, demands, running, shutdown, lock, events, worker, spc,
                   unserved, startFailed>>

StartNoEvents(a) ==  \* CreateEvent failed
    /\ apc[a] = "start" /\ lock = "free"
    /\ MayStart /\ ~created
    /\ startFailed' = TRUE
    /\ Goto(a, AfterFailedStart(a))
    /\ UNCHANGED <<clock, demands, running, shutdown, lock, events, worker, spc,
                   unserved>>

StartFlag(a) ==  \* ResetEvent(done); running = true, then std::thread
    /\ apc[a] = "start" /\ lock = "free"
    /\ MayStart
    /\ created' = TRUE
    /\ doneEv' = FALSE
    /\ running' = TRUE
    /\ lock' = a
    /\ Goto(a, "spawn")
    /\ UNCHANGED <<clock, demands, shutdown, stopEv, wakeEv, worker, spc,
                   unserved, startFailed>>

StartSpawn(a, w) ==
    /\ apc[a] = "spawn" /\ lock = a
    /\ wpc[w] = "none"
    /\ wpc' = [wpc EXCEPT ![w] = "pass"]
    /\ startFailed' = FALSE
    /\ lock' = "free"
    /\ Goto(a, "idle")
    /\ UNCHANGED <<clock, demands, running, shutdown, events, period, seen, spc,
                   unserved>>

StartSpawnFailed(a) ==  \* std::system_error
    /\ apc[a] = "spawn" /\ lock = a
    /\ running' = FALSE
    /\ doneEv' = TRUE
    /\ startFailed' = TRUE
    /\ lock' = "free"
    /\ Goto(a, AfterFailedStart(a))
    /\ UNCHANGED <<clock, demands, shutdown, created, stopEv, wakeEv, worker,
                   spc, unserved>>

\* The heartbeat's fallback: leia_platform_state_refresh on its own thread.
InlineRefresh(a) ==
    /\ apc[a] = "inline"
    /\ Goto(a, "idle")
    /\ unserved' = FALSE
    /\ UNCHANGED <<clock, demands, running, shutdown, lock, events, worker, spc,
                   startFailed>>

-----------------------------------------------------------------------------
(* The refresher thread: refresher_body.                                   *)

\* pending_refresh_once(), at the instant it reads the monitor topology.
Pass(w) ==
    /\ wpc[w] = "pass"
    /\ unserved' = FALSE
    /\ wpc' = [wpc EXCEPT ![w] = "period"]
    /\ UNCHANGED <<clock, demands, running, shutdown, lock, events, asker, period,
                   seen, spc, startFailed>>

\* A decision loads the clock and the demands as the arguments of one call: one
\* at a time, in an order C++ leaves open, while askers store.  The re-check of
\* the stand-down loads them only after it has read the shutdown flag as clear.
Deciding(w) ==
    \/ wpc[w] \in {"period", "check"}
    \/ wpc[w] = "recheck" /\ ~shutdown

ReadClock(w) ==
    /\ Deciding(w) /\ seenNow[w] = NotRead
    /\ seenNow' = [seenNow EXCEPT ![w] = clock]
    /\ UNCHANGED <<clock, demands, running, shutdown, lock, events, asker, wpc, period,
                   seenPending, seenHeartbeat, spc, unserved, startFailed>>

ReadPending(w) ==
    /\ Deciding(w) /\ seenPending[w] = NotRead
    /\ seenPending' = [seenPending EXCEPT ![w] = pendingDemand]
    /\ UNCHANGED <<clock, demands, running, shutdown, lock, events, asker, wpc, period,
                   seenNow, seenHeartbeat, spc, unserved, startFailed>>

ReadHeartbeat(w) ==  \* the period does not depend on the heartbeat's demand
    /\ Deciding(w) /\ wpc[w] # "period" /\ seenHeartbeat[w] = NotRead
    /\ seenHeartbeat' = [seenHeartbeat EXCEPT ![w] = heartbeatDemand]
    /\ UNCHANGED <<clock, demands, running, shutdown, lock, events, asker, wpc, period,
                   seenNow, seenPending, spc, unserved, startFailed>>

\* Worker w has loaded all its decision depends on.
HasRead(w) ==
    /\ seenNow[w] # NotRead /\ seenPending[w] # NotRead
    /\ wpc[w] = "period" \/ seenHeartbeat[w] # NotRead

\* The decision is taken: what it was taken by is gone.
Forget(w) ==
    /\ seenNow' = [seenNow EXCEPT ![w] = NotRead]
    /\ seenPending' = [seenPending EXCEPT ![w] = NotRead]
    /\ seenHeartbeat' = [seenHeartbeat EXCEPT ![w] = NotRead]

ChoosePeriod(w) ==
    /\ wpc[w] = "period" /\ HasRead(w)
    /\ period' = [period EXCEPT ![w] = RefresherPeriod(seenNow[w], seenPending[w])]
    /\ wpc' = [wpc EXCEPT ![w] = "wait"]
    /\ Forget(w)
    /\ UNCHANGED <<clock, demands, running, shutdown, lock, events, asker, spc,
                   unserved, startFailed>>

\* WaitForMultipleObjects: the stop event has the lowest index, so it wins.
WaitStop(w) ==
    /\ wpc[w] = "wait" /\ stopEv
    /\ wpc' = [wpc EXCEPT ![w] = "stopped"]
    /\ period' = [period EXCEPT ![w] = "heartbeat"]
    /\ UNCHANGED <<clock, demands, running, shutdown, lock, events, asker, seen,
                   spc, unserved, startFailed>>

WaitOver(w) ==  \* woken (the wake event resets itself), or the period elapsed
    /\ wpc[w] = "wait" /\ ~stopEv
    /\ wakeEv' = FALSE
    /\ wpc' = [wpc EXCEPT ![w] = "check"]
    /\ period' = [period EXCEPT ![w] = "heartbeat"]
    /\ UNCHANGED <<clock, demands, running, shutdown, lock, created, stopEv, doneEv,
                   asker, seen, spc, unserved, startFailed>>

CheckWanted(w) ==
    /\ wpc[w] = "check" /\ HasRead(w)
    /\ wpc' = [wpc EXCEPT ![w] = IF RefresherWanted(w) THEN "pass" ELSE "standDown"]
    /\ Forget(w)
    /\ UNCHANGED <<clock, demands, running, shutdown, lock, events, asker, period,
                   spc, unserved, startFailed>>

\* Under g_refresher_mu: the flag is cleared before the demand is read again.
StandDownClear(w) ==
    /\ wpc[w] = "standDown" /\ lock = "free"
    /\ lock' = w
    /\ running' = FALSE
    /\ wpc' = [wpc EXCEPT ![w] = "recheck"]
    /\ UNCHANGED <<clock, demands, shutdown, events, asker, period, seen, spc, unserved,
                   startFailed>>

StandDownTakeBack(w) ==
    /\ wpc[w] = "recheck" /\ lock = w
    /\ HasRead(w) /\ TakesBack(w)
    /\ running' = TRUE
    /\ lock' = "free"
    /\ wpc' = [wpc EXCEPT ![w] = "pass"]
    /\ Forget(w)
    /\ UNCHANGED <<clock, demands, shutdown, events, asker, period, spc, unserved,
                   startFailed>>

StandDownExit(w) ==
    /\ wpc[w] = "recheck" /\ lock = w
    /\ shutdown \/ HasRead(w)
    /\ ~TakesBack(w)
    /\ doneEv' = TRUE
    /\ lock' = "free"
    /\ wpc' = [wpc EXCEPT ![w] = "none"]
    /\ Forget(w)
    /\ UNCHANGED <<clock, demands, running, shutdown, created, stopEv, wakeEv,
                   asker, period, spc, unserved, startFailed>>

\* The stop path takes no lock: clear the flag, then signal done.
StopClear(w) ==
    /\ wpc[w] = "stopped"
    /\ running' = FALSE
    /\ wpc' = [wpc EXCEPT ![w] = "signal"]
    /\ UNCHANGED <<clock, demands, shutdown, lock, events, asker, period, seen, spc,
                   unserved, startFailed>>

StopSignal(w) ==
    /\ wpc[w] = "signal"
    /\ doneEv' = TRUE
    /\ wpc' = [wpc EXCEPT ![w] = "none"]
    /\ UNCHANGED <<clock, demands, running, shutdown, lock, created, stopEv, wakeEv,
                   asker, period, seen, spc, unserved, startFailed>>

-----------------------------------------------------------------------------
(* leiasr_ready_shutdown, the refresher's half.                            *)

\* Mutant: the flag is set and the thread not told.
ShutdownFlag_NoStop ==
    /\ spc = "no" /\ lock = "free"
    /\ lock' = "shutdown"
    /\ shutdown' = TRUE
    /\ spc' = "flagged"
    /\ UNCHANGED <<clock, demands, running, events, asker, worker, unserved,
                   startFailed>>

ShutdownFlag ==
    /\ spc = "no" /\ lock = "free"
    /\ lock' = "shutdown"
    /\ shutdown' = TRUE
    /\ stopEv' = created
    /\ spc' = "flagged"
    /\ UNCHANGED <<clock, demands, running, created, doneEv, wakeEv, asker, worker,
                   unserved, startFailed>>

\* Mutant: shutdown goes on without waiting for the thread.
ShutdownDecide_NoWait ==
    /\ spc = "flagged"
    /\ spc' = "done"
    /\ lock' = "free"
    /\ UNCHANGED <<clock, demands, running, shutdown, events, asker, worker,
                   unserved, startFailed>>

ShutdownDecide ==
    /\ spc = "flagged"
    /\ spc' = IF running THEN "waiting" ELSE "done"
    /\ lock' = "free"
    /\ UNCHANGED <<clock, demands, running, shutdown, events, asker, worker,
                   unserved, startFailed>>

ShutdownWaited ==
    /\ spc = "waiting" /\ doneEv
    /\ spc' = "done"
    /\ UNCHANGED <<clock, demands, running, shutdown, lock, events, asker, worker,
                   unserved, startFailed>>

ShutdownTimedOut ==  \* WaitForSingleObject(g_refresher_done, 2500)
    /\ spc = "waiting"
    /\ spc' = "timedOut"
    /\ UNCHANGED <<clock, demands, running, shutdown, lock, events, asker, worker,
                   unserved, startFailed>>

-----------------------------------------------------------------------------
\* An asker between its call and its return; new calls (Ask) are the environment's.
AskerStep(a) ==
    \/ PokeStore(a) \/ HeartbeatStore(a) \/ PokeReadShutdown(a) \/ ReadRunning(a)
    \/ PokeWake(a) \/ StartNotNeeded(a) \/ StartNoEvents(a) \/ StartFlag(a)
    \/ (\E w \in Workers : StartSpawn(a, w)) \/ StartSpawnFailed(a) \/ InlineRefresh(a)

WorkerStep(w) ==
    \/ Pass(w) \/ ReadClock(w) \/ ReadPending(w) \/ ReadHeartbeat(w)
    \/ ChoosePeriod(w) \/ WaitStop(w) \/ WaitOver(w) \/ CheckWanted(w)
    \/ StandDownClear(w) \/ StandDownTakeBack(w) \/ StandDownExit(w)
    \/ StopClear(w) \/ StopSignal(w)

ShutdownStep == ShutdownFlag \/ ShutdownDecide \/ ShutdownWaited \/ ShutdownTimedOut

Next ==
    \/ Tick
    \/ \E a \in Askers : (\E k \in {"poke", "heartbeat"} : Ask(a, k)) \/ AskerStep(a)
    \/ \E w \in Workers : WorkerStep(w)
    \/ ShutdownStep

Spec == Init /\ [][Next]_vars

\* Threads inside the code keep running; whether a thread asks, and whether the
\* plug-in is shut down, is the environment's choice.
Fairness ==
    /\ \A a \in Askers : WF_vars(AskerStep(a))
    /\ \A w \in Workers : WF_vars(WorkerStep(w))
    /\ WF_vars(ShutdownDecide \/ ShutdownWaited \/ ShutdownTimedOut)

FairSpec == Spec /\ Fairness

-----------------------------------------------------------------------------
(* Properties.                                                             *)

\* An ask has been made recently enough to keep a refresher up.
AskRecent ==
    \/ PendingRefresherWanted(clock, pendingDemand)
    \/ HeartbeatWanted(clock, heartbeatDemand)

Live == {w \in Workers : wpc[w] # "none"}

\* Places from which the refresher can still make a pass.
Working == {w \in Workers : wpc[w] \notin {"none", "signal", "stopped"}}

\* An ask whose demand is stored and whose call has not returned yet.
AskInFlight(a) == apc[a] \in {"readShutdown", "readRunning", "start", "spawn"}

\* "Two threads, or `done` set while one runs": a start never sees a refresher
\* half-way out, so there is never a second one, and the done event the shutdown
\* waits for is never signalled while a refresher can still make a pass.
OneRefresher ==
    /\ \A v, w \in Live : v = w
    /\ doneEv => Working = {}

\* The stand-down never loses an ask: while an ask is recent, once its call has
\* returned a refresher thread exists, unless the plug-in is shut down or the
\* last thread start failed.
NoAskLost ==
    AskRecent /\ ~shutdown /\ ~startFailed
        => Working # {} \/ \E a \in Askers : AskInFlight(a)

\* A shutdown that did not run into its time limit leaves no refresher that could
\* still call into the platform state of an unloading plug-in.
QuietAfterShutdown == spc = "done" => Working = {}

\* Once the shutdown flag is set no refresher starts or takes itself back.
NoStartAfterShutdown ==
    [][shutdown => Working' \subseteq Working]_vars

\* #475, as the comment in leiasr_pending_refresh_poke has it: a refresher that
\* would wait out a heartbeat period is cut short once per pending episode, so the
\* pass runs now.  It never sits in that wait with a recent pending ask, unless the
\* wake is signalled or an asker is about to.  The code does not keep this: a poke
\* judges the previous demand by the clock it read before the exchange, and the
\* refresher chooses its period by a clock and a demand it loaded apart.
EpisodeWakes ==
    \A w \in Workers :
        /\ wpc[w] = "wait" /\ period[w] = "heartbeat" /\ ~shutdown
        /\ PendingRefresherWanted(clock, pendingDemand)
        => wakeEv \/ \E a \in Askers : AskInFlight(a) \/ apc[a] = "wake"

\* Every ask is followed by a pass that reads the platform state after it,
\* unless it goes stale first, the plug-in shuts down or no thread can start.
AsksAreServed ==
    unserved ~> (~unserved \/ ~AskRecent \/ shutdown \/ startFailed)

\* Even a shutdown whose wait ran out sees its refresher leave in the end.
ShutdownStopsRefresher == shutdown ~> Live = {}
=============================================================================
