-------------------------- MODULE SrRefresherProofs --------------------------
(***************************************************************************)
(* Proofs about SrRefresher, for any sets of askers and workers, any idle  *)
(* periods and any bounds.  The safety properties are not inductive: they  *)
(* rest on who owns g_refresher_mu, on what the running flag says of the   *)
(* threads, on the flag order around the stand-down, and on what a         *)
(* standing-down refresher has loaded, which is what IInv adds.            *)
(***************************************************************************)
EXTENDS SrRefresher, TLAPS

\* Places at which the flag g_refresher_running is set on the thread's behalf.
Flagged == {"pass", "period", "wait", "check", "standDown", "stopped"}

\* The mutex: exactly one thread is inside each critical section.
LockInv ==
    /\ \A a \in Askers : apc[a] = "spawn" <=> lock = a
    /\ \A w \in Workers : wpc[w] = "recheck" <=> lock = w
    /\ spc = "flagged" <=> lock = "shutdown"

\* The flag is set exactly while a refresher is up or being started.
FlagInv ==
    /\ \A w \in Workers : wpc[w] \in Flagged => running
    /\ running => \/ \E w \in Workers : wpc[w] \in Flagged
                  \/ \E a \in Askers : apc[a] = "spawn"
    /\ \A a \in Askers : apc[a] = "spawn" =>
         /\ running /\ ~shutdown /\ ~doneEv
         /\ \A w \in Workers : wpc[w] = "none"

ThreadInv ==
    /\ \A v, w \in Workers : wpc[v] # "none" /\ wpc[w] # "none" => v = w
    /\ doneEv => \A w \in Workers : wpc[w] = "none"

StopInv ==
    /\ stopEv => shutdown
    /\ \A w \in Workers : wpc[w] \in {"stopped", "signal"} => shutdown
    /\ shutdown <=> spc # "no"
    /\ spc = "done" => \A w \in Workers : wpc[w] \in {"none", "signal", "stopped"}

\* What a standing-down refresher has loaded is what is stored, or an ask that
\* stored it since is still under way; and its clock is not ahead of the clock.
SeenInv ==
    /\ \A w \in Workers : wpc[w] \notin {"period", "check", "recheck"} =>
         seenNow[w] = NotRead /\ seenPending[w] = NotRead /\ seenHeartbeat[w] = NotRead
    /\ \A w \in Workers : wpc[w] = "recheck" /\ ~shutdown =>
         /\ seenNow[w] <= clock
         /\ seenPending[w] \in {NotRead, pendingDemand} \/ \E a \in Askers : AskInFlight(a)
         /\ seenHeartbeat[w] \in {NotRead, heartbeatDemand} \/ \E a \in Askers : AskInFlight(a)

IInv == TypeOK /\ LockInv /\ FlagInv /\ ThreadInv /\ StopInv /\ SeenInv /\ NoAskLost

-----------------------------------------------------------------------------
\* An ask that is recent now was recent before: time only makes asks stale.
LEMMA RecentMonotone ==
    ASSUME NEW now \in Nat, NEW later \in Nat, now <= later,
           NEW at \in Nat, NEW idle \in Nat \ {0}, Recent(later, at, idle)
    PROVE  Recent(now, at, idle)
BY DEF Recent

LEMMA InitIInv == Init => IInv
<1> SUFFICES ASSUME Init PROVE IInv
  OBVIOUS
<1> USE DEF Init
<1>1. TypeOK
  <2>1. 0 \in 0..MaxClock /\ clock \in 1..MaxClock
    BY TimesAssumption
  <2> QED
    BY <2>1 DEF TypeOK, AskerPlaces, WorkerPlaces
<1>2. LockInv
  BY ThreadsAssumption DEF LockInv
<1>3. FlagInv /\ ThreadInv /\ StopInv /\ SeenInv
  BY DEF FlagInv, ThreadInv, StopInv, SeenInv, Flagged
<1>4. NoAskLost
  BY DEF NoAskLost, AskRecent, PendingRefresherWanted, HeartbeatWanted, Recent
<1> QED
  BY <1>1, <1>2, <1>3, <1>4 DEF IInv

\* The askers' part of TypeOK.
AskersTyped ==
    /\ apc \in [Askers -> AskerPlaces]
    /\ kind \in [Askers -> {"poke", "heartbeat"}]
    /\ stamp \in [Askers -> 0..MaxClock]
    /\ prev \in [Askers -> 0..MaxClock]

\* The refresher threads' part.
WorkersTyped ==
    /\ wpc \in [Workers -> WorkerPlaces]
    /\ period \in [Workers -> {"pending", "heartbeat"}]
    /\ seenNow \in [Workers -> {NotRead} \cup 0..MaxClock]
    /\ seenPending \in [Workers -> {NotRead} \cup 0..MaxClock]
    /\ seenHeartbeat \in [Workers -> {NotRead} \cup 0..MaxClock]

LEMMA GotoType ==
    ASSUME TypeOK, NEW a \in Askers, NEW place \in AskerPlaces, Goto(a, place)
    PROVE  /\ apc' \in [Askers -> AskerPlaces]
           /\ kind' \in [Askers -> {"poke", "heartbeat"}]
           /\ stamp' \in [Askers -> 0..MaxClock]
           /\ prev' \in [Askers -> 0..MaxClock]
<1>1. 0 \in 0..MaxClock
  BY TimesAssumption
<1>2. CASE place = "idle"
  BY <1>1, <1>2 DEF TypeOK, Goto
<1>3. CASE place # "idle"
  BY <1>3 DEF TypeOK, Goto
<1> QED
  BY <1>2, <1>3

LEMMA TypeStep == TypeOK /\ [Next]_vars => TypeOK'
<1> SUFFICES ASSUME TypeOK, [Next]_vars PROVE TypeOK'
  OBVIOUS
<1> USE DEF TypeOK, demands, events, asker, worker, seen
<1>1. CASE Tick
  BY <1>1, TimesAssumption DEF Tick
<1>2. ASSUME NEW a \in Askers, NEW k \in {"poke", "heartbeat"}, Ask(a, k)
      PROVE TypeOK'
  BY <1>2 DEF Ask, AskerPlaces
<1>3. ASSUME NEW a \in Askers, AskerStep(a) PROVE TypeOK'
  <2>0. /\ AfterFailedStart(a) \in AskerPlaces
        /\ {"idle", "readRunning", "start", "wake", "spawn"} \subseteq AskerPlaces
    BY DEF AfterFailedStart, AskerPlaces
  <2>1. CASE PokeStore(a)
    BY <2>1 DEF PokeStore, AskerPlaces
  <2>2. CASE HeartbeatStore(a)
    BY <2>2 DEF HeartbeatStore, AskerPlaces
  <2>3. CASE PokeReadShutdown(a)
    <3>1. PICK place \in AskerPlaces : Goto(a, place)
      BY <2>0, <2>3 DEF PokeReadShutdown
    <3>2. AskersTyped'
      BY <3>1, GotoType DEF AskersTyped
    <3> QED
      BY <2>3, <3>2 DEF PokeReadShutdown, AskersTyped
  <2>4. CASE ReadRunning(a)
    <3>1. PICK place \in AskerPlaces : Goto(a, place)
      BY <2>0, <2>4 DEF ReadRunning
    <3>2. AskersTyped'
      BY <3>1, GotoType DEF AskersTyped
    <3> QED
      BY <2>4, <3>2 DEF ReadRunning, AskersTyped
  <2>5. CASE PokeWake(a)
    <3>1. PICK place \in AskerPlaces : Goto(a, place)
      BY <2>0, <2>5 DEF PokeWake
    <3>2. AskersTyped'
      BY <3>1, GotoType DEF AskersTyped
    <3> QED
      BY <2>5, <3>2 DEF PokeWake, PendingEpisodeStarts, AskersTyped
  <2>6. CASE StartNotNeeded(a)
    <3>1. PICK place \in AskerPlaces : Goto(a, place)
      BY <2>0, <2>6 DEF StartNotNeeded
    <3>2. AskersTyped'
      BY <3>1, GotoType DEF AskersTyped
    <3> QED
      BY <2>6, <3>2 DEF StartNotNeeded, MayStart, AskersTyped
  <2>7. CASE StartNoEvents(a)
    <3>1. PICK place \in AskerPlaces : Goto(a, place)
      BY <2>0, <2>7 DEF StartNoEvents
    <3>2. AskersTyped'
      BY <3>1, GotoType DEF AskersTyped
    <3> QED
      BY <2>7, <3>2 DEF StartNoEvents, MayStart, AskersTyped
  <2>8. CASE StartFlag(a)
    <3>1. PICK place \in AskerPlaces : Goto(a, place)
      BY <2>0, <2>8 DEF StartFlag
    <3>2. AskersTyped'
      BY <3>1, GotoType DEF AskersTyped
    <3> QED
      BY <2>8, <3>2 DEF StartFlag, MayStart, AskersTyped
  <2>9. ASSUME NEW w \in Workers, StartSpawn(a, w) PROVE TypeOK'
    <3>1. AskersTyped'
      BY <2>0, <2>9, GotoType DEF StartSpawn, AskersTyped
    <3> QED
      BY <2>9, <3>1 DEF StartSpawn, WorkerPlaces, AskersTyped
  <2>10. CASE StartSpawnFailed(a)
    <3>1. PICK place \in AskerPlaces : Goto(a, place)
      BY <2>0, <2>10 DEF StartSpawnFailed
    <3>2. AskersTyped'
      BY <3>1, GotoType DEF AskersTyped
    <3> QED
      BY <2>10, <3>2 DEF StartSpawnFailed, AskersTyped
  <2>11. CASE InlineRefresh(a)
    <3>1. PICK place \in AskerPlaces : Goto(a, place)
      BY <2>0, <2>11 DEF InlineRefresh
    <3>2. AskersTyped'
      BY <3>1, GotoType DEF AskersTyped
    <3>3. unserved' \in BOOLEAN
      BY <2>11 DEF InlineRefresh
    <3>4. UNCHANGED <<clock, demands, running, shutdown, lock, events, worker, spc, startFailed>>
      BY <2>11 DEF InlineRefresh
    <3> QED
      BY <3>2, <3>3, <3>4 DEF AskersTyped
  <2> QED
    BY <1>3, <2>1, <2>2, <2>3, <2>4, <2>5, <2>6, <2>7, <2>8, <2>9, <2>10, <2>11
       DEF AskerStep
<1>4. ASSUME NEW w \in Workers, WorkerStep(w) PROVE TypeOK'
  <2> USE DEF WorkerPlaces
  <2>1. CASE Pass(w)
    <3>1. WorkersTyped'
      BY <2>1 DEF Pass, WorkersTyped
    <3>2. unserved' \in BOOLEAN
      BY <2>1 DEF Pass
    <3>3. UNCHANGED <<clock, demands, running, shutdown, lock, events, asker, period, seen, spc, startFailed>>
      BY <2>1 DEF Pass
    <3> QED
      BY <3>1, <3>2, <3>3 DEF WorkersTyped
  <2>2. CASE StopClear(w)
    <3>1. WorkersTyped'
      BY <2>2 DEF StopClear, WorkersTyped
    <3>2. running' \in BOOLEAN
      BY <2>2 DEF StopClear
    <3>3. UNCHANGED <<clock, demands, shutdown, lock, events, asker, period, spc, unserved, startFailed>>
      BY <2>2 DEF StopClear
    <3> QED
      BY <3>1, <3>2, <3>3 DEF WorkersTyped
  <2>3. CASE StopSignal(w)
    <3>1. WorkersTyped'
      BY <2>3 DEF StopSignal, WorkersTyped
    <3> QED
      BY <2>3, <3>1 DEF StopSignal, WorkersTyped
  <2>4. CASE WaitStop(w)
    <3>1. WorkersTyped'
      BY <2>4 DEF WaitStop, WorkersTyped
    <3> QED
      BY <2>4, <3>1 DEF WaitStop, WorkersTyped
  <2>5. CASE ChoosePeriod(w)
    <3>1. WorkersTyped'
      BY <2>5 DEF ChoosePeriod, RefresherPeriod, Forget, WorkersTyped
    <3> QED
      BY <2>5, <3>1 DEF ChoosePeriod, WorkersTyped
  <2>6. CASE WaitOver(w)
    <3>1. WorkersTyped'
      BY <2>6 DEF WaitOver, WorkersTyped
    <3>2. wakeEv' \in BOOLEAN
      BY <2>6 DEF WaitOver
    <3>3. UNCHANGED <<clock, demands, running, shutdown, lock, created, stopEv, doneEv, asker, spc, unserved, startFailed>>
      BY <2>6 DEF WaitOver
    <3> QED
      BY <3>1, <3>2, <3>3 DEF WorkersTyped
  <2>7. CASE CheckWanted(w)
    <3>1. WorkersTyped'
      BY <2>7 DEF CheckWanted, Forget, WorkersTyped
    <3> QED
      BY <2>7, <3>1 DEF CheckWanted, WorkersTyped
  <2>8. CASE StandDownClear(w)
    <3>1. WorkersTyped'
      BY <2>8 DEF StandDownClear, WorkersTyped
    <3> QED
      BY <2>8, <3>1 DEF StandDownClear, WorkersTyped
  <2>9. CASE StandDownTakeBack(w)
    <3>1. WorkersTyped'
      BY <2>9 DEF StandDownTakeBack, Forget, WorkersTyped
    <3> QED
      BY <2>9, <3>1 DEF StandDownTakeBack, WorkersTyped
  <2>10. CASE StandDownExit(w)
    <3>1. WorkersTyped'
      BY <2>10 DEF StandDownExit, Forget, WorkersTyped
    <3> QED
      BY <2>10, <3>1 DEF StandDownExit, WorkersTyped
  <2>11. CASE ReadClock(w) \/ ReadPending(w) \/ ReadHeartbeat(w)
    <3>1. WorkersTyped'
      BY <2>11 DEF ReadClock, ReadPending, ReadHeartbeat, WorkersTyped
    <3> QED
      BY <2>11, <3>1 DEF ReadClock, ReadPending, ReadHeartbeat, WorkersTyped
  <2> QED
    BY <1>4, <2>1, <2>2, <2>3, <2>4, <2>5, <2>6, <2>7, <2>8, <2>9, <2>10, <2>11
       DEF WorkerStep
<1>5. CASE ShutdownStep
  <2>1. UNCHANGED <<asker, worker, clock, demands, running, created, doneEv, wakeEv, unserved, startFailed>>
    BY <1>5 DEF ShutdownStep, ShutdownFlag, ShutdownDecide, ShutdownWaited, ShutdownTimedOut
  <2>2. AskersTyped' /\ WorkersTyped'
    BY <2>1 DEF AskersTyped, WorkersTyped
  <2>3. shutdown' \in BOOLEAN /\ stopEv' \in BOOLEAN
    BY <1>5 DEF ShutdownStep, ShutdownFlag, ShutdownDecide, ShutdownWaited, ShutdownTimedOut
  <2>4. lock' \in {lock, "free", "shutdown"} /\ spc' \in {"flagged", "waiting", "done", "timedOut"}
    BY <1>5 DEF ShutdownStep, ShutdownFlag, ShutdownDecide, ShutdownWaited, ShutdownTimedOut
  <2> QED
    BY <2>1, <2>2, <2>3, <2>4 DEF AskersTyped, WorkersTyped
<1>6. CASE UNCHANGED vars
  BY <1>6 DEF vars
<1> QED
  BY <1>1, <1>2, <1>3, <1>4, <1>5, <1>6 DEF Next

\* The mutex, the flag and the threads: one refresher, no start after shutdown.
ThreadPart == LockInv /\ FlagInv /\ ThreadInv /\ StopInv

LEMMA ThreadStep == TypeOK /\ ThreadPart /\ [Next]_vars => ThreadPart'
<1> SUFFICES ASSUME TypeOK, ThreadPart, [Next]_vars PROVE ThreadPart'
  OBVIOUS
<1> USE ThreadsAssumption
    DEF TypeOK, ThreadPart, LockInv, FlagInv, ThreadInv, StopInv, Flagged,
        events, asker, worker, seen
<1>1. CASE Tick
  BY <1>1 DEF Tick
<1>2. ASSUME NEW a \in Askers, NEW k \in {"poke", "heartbeat"}, Ask(a, k)
      PROVE ThreadPart'
  BY <1>2 DEF Ask
<1>3. ASSUME NEW a \in Askers, AskerStep(a) PROVE ThreadPart'
  <2>1. CASE PokeStore(a)
    BY <2>1 DEF PokeStore
  <2>2. CASE HeartbeatStore(a)
    BY <2>2 DEF HeartbeatStore
  <2>3. CASE PokeReadShutdown(a)
    BY <2>3 DEF PokeReadShutdown, Goto
  <2>4. CASE ReadRunning(a)
    BY <2>4 DEF ReadRunning, Goto
  <2>5. CASE PokeWake(a)
    BY <2>5 DEF PokeWake, Goto
  <2>6. CASE StartNotNeeded(a)
    BY <2>6 DEF StartNotNeeded, Goto, AfterFailedStart, MayStart
  <2>7. CASE StartNoEvents(a)
    BY <2>7 DEF StartNoEvents, Goto, AfterFailedStart, MayStart
  <2>8. CASE StartFlag(a)
    <3>1. \A w \in Workers : wpc[w] = "none"
      BY <2>8 DEF StartFlag, WorkerPlaces, MayStart
    <3>2. LockInv' /\ FlagInv'
      BY <2>8, <3>1 DEF StartFlag, Goto, MayStart
    <3>3. ThreadInv' /\ StopInv'
      BY <2>8, <3>1 DEF StartFlag, MayStart
    <3> QED
      BY <3>2, <3>3
  <2>9. ASSUME NEW w \in Workers, StartSpawn(a, w) PROVE ThreadPart'
    BY <2>9 DEF StartSpawn, Goto
  <2>10. CASE StartSpawnFailed(a)
    BY <2>10 DEF StartSpawnFailed, Goto, AfterFailedStart
  <2>11. CASE InlineRefresh(a)
    BY <2>11 DEF InlineRefresh, Goto
  <2> QED
    BY <1>3, <2>1, <2>2, <2>3, <2>4, <2>5, <2>6, <2>7, <2>8, <2>9, <2>10, <2>11
       DEF AskerStep
<1>4. ASSUME NEW w \in Workers, WorkerStep(w) PROVE ThreadPart'
  <2>1. CASE Pass(w)
    BY <2>1 DEF Pass
  <2>2. CASE ChoosePeriod(w)
    BY <2>2 DEF ChoosePeriod
  <2>3. CASE WaitStop(w)
    BY <2>3 DEF WaitStop
  <2>4. CASE WaitOver(w)
    BY <2>4 DEF WaitOver
  <2>5. CASE CheckWanted(w)
    BY <2>5 DEF CheckWanted
  <2>6. CASE StandDownClear(w)
    BY <2>6 DEF StandDownClear
  <2>7. CASE StandDownTakeBack(w)
    BY <2>7 DEF StandDownTakeBack, TakesBack
  <2>8. CASE StandDownExit(w)
    BY <2>8 DEF StandDownExit, TakesBack
  <2>9. CASE StopClear(w)
    BY <2>9 DEF StopClear
  <2>10. CASE StopSignal(w)
    BY <2>10 DEF StopSignal
  <2>11. CASE ReadClock(w) \/ ReadPending(w) \/ ReadHeartbeat(w)
    BY <2>11 DEF ReadClock, ReadPending, ReadHeartbeat
  <2> QED
    BY <1>4, <2>1, <2>2, <2>3, <2>4, <2>5, <2>6, <2>7, <2>8, <2>9, <2>10, <2>11
       DEF WorkerStep
<1>5. CASE ShutdownStep
  <2>1. CASE ShutdownFlag
    BY <2>1 DEF ShutdownFlag
  <2>2. CASE ShutdownDecide
    <3>1. ~running => \A w \in Workers : wpc[w] \in {"none", "signal", "stopped"}
      BY <2>2 DEF ShutdownDecide, WorkerPlaces
    <3> QED
      BY <2>2, <3>1 DEF ShutdownDecide
  <2>3. CASE ShutdownWaited
    BY <2>3 DEF ShutdownWaited
  <2>4. CASE ShutdownTimedOut
    BY <2>4 DEF ShutdownTimedOut
  <2> QED
    BY <1>5, <2>1, <2>2, <2>3, <2>4 DEF ShutdownStep
<1>6. CASE UNCHANGED vars
  BY <1>6 DEF vars
<1> QED
  BY <1>1, <1>2, <1>3, <1>4, <1>5, <1>6 DEF Next

\* While the flag is set and no shutdown began, a refresher works or is being started.
LEMMA FlagMeansBusy ==
    ASSUME ThreadPart, running, ~shutdown
    PROVE  Working # {} \/ \E a \in Askers : apc[a] = "spawn"
BY DEF ThreadPart, FlagInv, StopInv, Flagged, Working

\* While a refresher re-reads the demand an ask stays under way: the flag is
\* cleared and g_refresher_mu is taken.
LEMMA AskWaits ==
    ASSUME TypeOK, ThreadPart, [Next]_vars,
           NEW w \in Workers, wpc[w] = "recheck", ~shutdown,
           NEW a \in Askers, AskInFlight(a)
    PROVE  AskInFlight(a)' \/ wpc'[w] # "recheck" \/ shutdown'
<1> USE DEF TypeOK, AskInFlight, asker, worker
<1>1. lock = w /\ lock \notin Askers \cup {"free", "shutdown"} /\ ~running
  BY ThreadsAssumption DEF ThreadPart, LockInv, FlagInv, ThreadInv, Flagged
<1>2. CASE AskerStep(a)
  <2>1. CASE PokeReadShutdown(a)
    BY <2>1 DEF PokeReadShutdown, Goto
  <2>2. CASE ReadRunning(a)
    BY <1>1, <2>2 DEF ReadRunning, Goto
  <2> QED
    BY <1>1, <1>2, <2>1, <2>2
       DEF AskerStep, PokeStore, HeartbeatStore, PokeWake, StartNotNeeded, StartNoEvents,
           StartFlag, StartSpawn, StartSpawnFailed, InlineRefresh
<1>3. ASSUME NEW b \in Askers, b # a, AskerStep(b) PROVE apc'[a] = apc[a]
  BY <1>3 DEF AskerStep, PokeStore, HeartbeatStore, PokeReadShutdown, ReadRunning, PokeWake,
       StartNotNeeded, StartNoEvents, StartFlag, StartSpawn, StartSpawnFailed, InlineRefresh,
       Goto
<1>4. ASSUME NEW b \in Askers, NEW k \in {"poke", "heartbeat"}, Ask(b, k)
      PROVE apc'[a] = apc[a]
  BY <1>4 DEF Ask
<1>5. ASSUME NEW v \in Workers, WorkerStep(v) PROVE apc' = apc
  BY <1>5 DEF WorkerStep, Pass, ReadClock, ReadPending, ReadHeartbeat, ChoosePeriod, WaitStop,
       WaitOver, CheckWanted, StandDownClear, StandDownTakeBack, StandDownExit, StopClear,
       StopSignal
<1>6. Tick \/ ShutdownStep \/ UNCHANGED vars => apc' = apc
  BY DEF Tick, ShutdownStep, ShutdownFlag, ShutdownDecide, ShutdownWaited, ShutdownTimedOut, vars
<1> QED
  BY <1>2, <1>3, <1>4, <1>5, <1>6 DEF Next

LEMMA SeenStep == TypeOK /\ ThreadPart /\ SeenInv /\ [Next]_vars => SeenInv'
<1> SUFFICES ASSUME TypeOK, ThreadPart, SeenInv, [Next]_vars PROVE SeenInv'
  OBVIOUS
<1> USE DEF TypeOK, SeenInv, NotRead, demands, events, asker, worker, seen
<1>0. \A w \in Workers : wpc'[w] = "recheck" /\ ~shutdown' /\ wpc[w] = "recheck" /\ ~shutdown =>
        \A a \in Askers : AskInFlight(a) => AskInFlight(a)'
  BY AskWaits
<1>1. CASE Tick
  BY <1>0, <1>1 DEF Tick
<1>2. ASSUME NEW a \in Askers, NEW k \in {"poke", "heartbeat"}, Ask(a, k)
      PROVE SeenInv'
  BY <1>0, <1>2 DEF Ask
<1>3. ASSUME NEW a \in Askers, AskerStep(a) PROVE SeenInv'
  <2>1. CASE PokeStore(a)
    <3>1. AskInFlight(a)'
      BY <2>1 DEF PokeStore, AskInFlight
    <3> QED
      BY <2>1, <3>1 DEF PokeStore
  <2>2. CASE HeartbeatStore(a)
    <3>1. AskInFlight(a)'
      BY <2>2 DEF HeartbeatStore, AskInFlight
    <3> QED
      BY <2>2, <3>1 DEF HeartbeatStore
  <2>3. ASSUME NEW w \in Workers, StartSpawn(a, w) PROVE SeenInv'
    BY <1>0, <2>3 DEF StartSpawn
  <2>4. ASSUME UNCHANGED <<clock, demands, shutdown, worker>> PROVE SeenInv'
    BY <1>0, <2>4
  <2> QED
    BY <1>3, <2>1, <2>2, <2>3, <2>4
       DEF AskerStep, PokeReadShutdown, ReadRunning, PokeWake, StartNotNeeded, StartNoEvents,
           StartFlag, StartSpawnFailed, InlineRefresh
<1>4. ASSUME NEW w \in Workers, WorkerStep(w) PROVE SeenInv'
  <2>0. UNCHANGED <<clock, demands, shutdown>>
    BY <1>4 DEF WorkerStep, Pass, ReadClock, ReadPending, ReadHeartbeat, ChoosePeriod, WaitStop,
         WaitOver, CheckWanted, StandDownClear, StandDownTakeBack, StandDownExit, StopClear,
         StopSignal
  <2>1. CASE Pass(w)
    BY <1>0, <2>0, <2>1 DEF Pass
  <2>2. CASE ReadClock(w)
    BY <1>0, <2>0, <2>2 DEF ReadClock, Deciding
  <2>3. CASE ReadPending(w)
    BY <1>0, <2>0, <2>3 DEF ReadPending, Deciding
  <2>4. CASE ReadHeartbeat(w)
    BY <1>0, <2>0, <2>4 DEF ReadHeartbeat, Deciding
  <2>5. CASE ChoosePeriod(w)
    BY <1>0, <2>0, <2>5 DEF ChoosePeriod, Forget
  <2>6. CASE WaitStop(w) \/ WaitOver(w)
    BY <1>0, <2>0, <2>6 DEF WaitStop, WaitOver
  <2>7. CASE CheckWanted(w)
    BY <1>0, <2>0, <2>7 DEF CheckWanted, Forget
  <2>8. CASE StandDownClear(w)
    BY <1>0, <2>0, <2>8 DEF StandDownClear
  <2>9. CASE StandDownTakeBack(w)
    BY <1>0, <2>0, <2>9 DEF StandDownTakeBack, Forget
  <2>10. CASE StandDownExit(w)
    BY <1>0, <2>0, <2>10 DEF StandDownExit, Forget
  <2>11. CASE StopClear(w) \/ StopSignal(w)
    BY <1>0, <2>0, <2>11 DEF StopClear, StopSignal
  <2> QED
    BY <1>4, <2>1, <2>2, <2>3, <2>4, <2>5, <2>6, <2>7, <2>8, <2>9, <2>10, <2>11
       DEF WorkerStep
<1>5. CASE ShutdownStep
  <2>1. UNCHANGED <<clock, demands, worker>> /\ (shutdown => shutdown')
    BY <1>5 DEF ShutdownStep, ShutdownFlag, ShutdownDecide, ShutdownWaited, ShutdownTimedOut
  <2> QED
    BY <1>0, <2>1
<1>6. CASE UNCHANGED vars
  BY <1>0, <1>6 DEF vars
<1> QED
  BY <1>1, <1>2, <1>3, <1>4, <1>5, <1>6 DEF Next

\* A refresher that leaves has seen every ask, or the asker is still under way.
LEMMA ExitSeesAsks ==
    ASSUME TypeOK, SeenInv, NEW w \in Workers, wpc[w] = "recheck", HasRead(w),
           ~TakesBack(w), ~shutdown, AskRecent
    PROVE  \E a \in Askers : AskInFlight(a)
<1> USE DEF TypeOK, SeenInv
<1>1. SUFFICES ASSUME \A a \in Askers : ~AskInFlight(a) PROVE FALSE
  OBVIOUS
<1>2. /\ seenNow[w] \in Nat /\ clock \in Nat /\ seenNow[w] <= clock
      /\ seenPending[w] = pendingDemand /\ seenHeartbeat[w] = heartbeatDemand
      /\ pendingDemand \in Nat /\ heartbeatDemand \in Nat
  BY <1>1, TimesAssumption DEF HasRead, NotRead
<1>3. ~Recent(seenNow[w], pendingDemand, PendingIdle)
  BY <1>2 DEF TakesBack, RefresherWanted, PendingRefresherWanted
<1>4. ~Recent(seenNow[w], heartbeatDemand, HeartbeatIdle)
  BY <1>2 DEF TakesBack, RefresherWanted, HeartbeatWanted
<1>5. ~Recent(clock, pendingDemand, PendingIdle) /\ ~Recent(clock, heartbeatDemand, HeartbeatIdle)
  BY <1>2, <1>3, <1>4, RecentMonotone, TimesAssumption
<1> QED
  BY <1>5 DEF AskRecent, PendingRefresherWanted, HeartbeatWanted

LEMMA AskStep == TypeOK /\ ThreadPart /\ SeenInv /\ NoAskLost /\ [Next]_vars => NoAskLost'
<1> SUFFICES ASSUME TypeOK, ThreadPart, SeenInv, NoAskLost, [Next]_vars PROVE NoAskLost'
  OBVIOUS
<1> USE DEF TypeOK, NoAskLost, Working, AskInFlight, AskRecent,
        demands, events, asker, worker, seen
<1>1. CASE Tick
  <2>1. clock \in Nat /\ clock' \in Nat /\ clock <= clock' /\ UNCHANGED demands
    BY <1>1 DEF Tick
  <2>2. AskRecent' => AskRecent
    BY <2>1, RecentMonotone, TimesAssumption DEF PendingRefresherWanted, HeartbeatWanted
  <2> QED
    BY <1>1, <2>2 DEF Tick
<1>2. ASSUME NEW a \in Askers, NEW k \in {"poke", "heartbeat"}, Ask(a, k)
      PROVE NoAskLost'
  BY <1>2 DEF Ask
<1>3. ASSUME NEW a \in Askers, AskerStep(a) PROVE NoAskLost'
  <2>1. CASE PokeStore(a)
    BY <2>1 DEF PokeStore
  <2>2. CASE HeartbeatStore(a)
    BY <2>2 DEF HeartbeatStore
  <2>3. CASE PokeReadShutdown(a)
    BY <2>3 DEF PokeReadShutdown, Goto
  <2>4. CASE ReadRunning(a)
    BY <2>4, FlagMeansBusy DEF ReadRunning, Goto
  <2>5. CASE PokeWake(a)
    BY <2>5 DEF PokeWake, Goto
  <2>6. CASE StartNotNeeded(a)
    BY <2>6, FlagMeansBusy DEF StartNotNeeded, Goto, AfterFailedStart, MayStart
  <2>7. CASE StartNoEvents(a)
    BY <2>7 DEF StartNoEvents, Goto, AfterFailedStart, MayStart
  <2>8. CASE StartFlag(a)
    BY <2>8 DEF StartFlag, Goto, MayStart
  <2>9. ASSUME NEW w \in Workers, StartSpawn(a, w) PROVE NoAskLost'
    BY <2>9 DEF StartSpawn, Goto
  <2>10. CASE StartSpawnFailed(a)
    BY <2>10 DEF StartSpawnFailed, Goto, AfterFailedStart
  <2>11. CASE InlineRefresh(a)
    BY <2>11 DEF InlineRefresh, Goto
  <2> QED
    BY <1>3, <2>1, <2>2, <2>3, <2>4, <2>5, <2>6, <2>7, <2>8, <2>9, <2>10, <2>11
       DEF AskerStep
<1>4. ASSUME NEW w \in Workers, WorkerStep(w) PROVE NoAskLost'
  <2>1. CASE Pass(w)
    BY <2>1 DEF Pass
  <2>2. CASE ChoosePeriod(w)
    BY <2>2 DEF ChoosePeriod
  <2>3. CASE WaitStop(w)
    BY <2>3 DEF WaitStop, ThreadPart, StopInv
  <2>4. CASE WaitOver(w)
    BY <2>4 DEF WaitOver, ThreadPart, StopInv
  <2>5. CASE CheckWanted(w)
    BY <2>5 DEF CheckWanted
  <2>6. CASE StandDownClear(w)
    BY <2>6 DEF StandDownClear
  <2>7. CASE StandDownTakeBack(w)
    BY <2>7 DEF StandDownTakeBack
  <2>8. CASE StandDownExit(w)
    <3>1. CASE shutdown
      BY <2>8, <3>1 DEF StandDownExit
    <3>2. CASE ~shutdown
      <4>1. AskRecent => \E a \in Askers : AskInFlight(a)
        BY <2>8, <3>2, ExitSeesAsks DEF StandDownExit
      <4> QED
        BY <2>8, <4>1 DEF StandDownExit, PendingRefresherWanted, HeartbeatWanted
    <3> QED
      BY <3>1, <3>2
  <2>9. CASE StopClear(w)
    BY <2>9 DEF StopClear, ThreadPart, StopInv
  <2>10. CASE StopSignal(w)
    BY <2>10 DEF StopSignal, ThreadPart, StopInv
  <2>11. CASE ReadClock(w) \/ ReadPending(w) \/ ReadHeartbeat(w)
    BY <2>11 DEF ReadClock, ReadPending, ReadHeartbeat
  <2> QED
    BY <1>4, <2>1, <2>2, <2>3, <2>4, <2>5, <2>6, <2>7, <2>8, <2>9, <2>10, <2>11
       DEF WorkerStep
<1>5. CASE ShutdownStep
  BY <1>5 DEF ShutdownStep, ShutdownFlag, ShutdownDecide, ShutdownWaited, ShutdownTimedOut
<1>6. CASE UNCHANGED vars
  BY <1>6 DEF vars
<1> QED
  BY <1>1, <1>2, <1>3, <1>4, <1>5, <1>6 DEF Next

-----------------------------------------------------------------------------
\* Every reachable state satisfies the inductive invariant.
THEOREM Invariance == Spec => []IInv
<1>1. IInv /\ [Next]_vars => IInv'
  BY TypeStep, ThreadStep, SeenStep, AskStep DEF IInv, ThreadPart
<1> QED
  BY InitIInv, <1>1, PTL DEF Spec

\* The variables of leia_sr_ready.cpp's refresher keep their types.
THEOREM TypeCorrect == Spec => []TypeOK
BY Invariance, PTL DEF IInv

\* leia_sr_ready.cpp never runs two refreshers, and never signals
\* g_refresher_done while one can still make a pass.
THEOREM RefresherUnique == Spec => []OneRefresher
<1>1. IInv => OneRefresher
  BY DEF IInv, ThreadInv, OneRefresher, Live, Working
<1> QED
  BY Invariance, <1>1, PTL

\* The stand-down of refresher_body never drops a recent ask.
THEOREM AsksKept == Spec => []NoAskLost
BY Invariance, PTL DEF IInv

\* When leiasr_ready_shutdown's wait ends in time, no refresher pass follows.
THEOREM ShutdownQuiet == Spec => []QuietAfterShutdown
<1>1. IInv => QuietAfterShutdown
  BY DEF IInv, StopInv, QuietAfterShutdown, Working
<1> QED
  BY Invariance, <1>1, PTL

\* After the shutdown flag no step brings a refresher to work.
THEOREM ShutdownFinal == Spec => NoStartAfterShutdown
<1> DEFINE A == shutdown => Working' \subseteq Working
<1>1. IInv /\ [Next]_vars => [A]_vars
  <2> SUFFICES ASSUME IInv, Next, shutdown PROVE Working' \subseteq Working
    BY DEF vars
  <2>1. \A a \in Askers : apc[a] # "spawn"
    BY DEF IInv, FlagInv
  <2>2. ASSUME NEW a \in Askers, AskerStep(a) PROVE wpc' = wpc
    BY <2>1, <2>2
       DEF AskerStep, PokeStore, HeartbeatStore, PokeReadShutdown, ReadRunning, PokeWake,
           StartNotNeeded, StartNoEvents, StartFlag, StartSpawn, StartSpawnFailed,
           InlineRefresh, worker
  <2>3. ASSUME NEW w \in Workers, WorkerStep(w) PROVE Working' \subseteq Working
    BY <2>3
       DEF IInv, TypeOK, Working, WorkerStep, Pass, ReadClock, ReadPending, ReadHeartbeat,
           ChoosePeriod, WaitStop, WaitOver, CheckWanted, StandDownClear, StandDownTakeBack, StandDownExit, StopClear, StopSignal
  <2>4. wpc' = wpc => Working' \subseteq Working
    BY DEF Working
  <2>5. Tick \/ ShutdownStep \/ (\E a \in Askers, k \in {"poke", "heartbeat"} : Ask(a, k))
        => wpc' = wpc
    BY DEF Tick, Ask, ShutdownStep, ShutdownFlag, ShutdownDecide, ShutdownWaited,
           ShutdownTimedOut, worker
  <2> QED
    BY <2>2, <2>3, <2>4, <2>5 DEF Next
<1> QED
  BY Invariance, <1>1, PTL DEF Spec, NoStartAfterShutdown
=============================================================================
