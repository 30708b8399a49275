-------------------------- MODULE SrGeometryProofs --------------------------
(***************************************************************************)
(* Proofs about SrGeometry, for any panels, threads and number of events.  *)
(* Arguments that do not meet: the running flag stands for a watcher that  *)
(* has not left (one watcher); g_mu orders a publish and a registration    *)
(* (head device); what is published under g_lock is derived from what was  *)
(* matched under the same lock (no claim); and who holds the two locks     *)
(* that are kept across steps (a pass is atomic).                          *)
(***************************************************************************)
EXTENDS SrGeometry, TLAPS

\* Where a thread is in code that only the other threads run, and what a thread
\* that publishes holds.
PlaceInv ==
    /\ \A w \in Watchers : pc[w] \notin {"snapshot", "probed"}
    /\ \A t \in Threads :
         /\ pc[t] \in {"match", "publish"} => got[t] \in Panels \cup {Placeholder}
         /\ pc[t] = "probed" => got[t] \in OptPanel

Typed == TypeOK /\ PlaceInv

Away == {"idle", "signal"}

WEvents == [made : {"none", "half", "both"}, stop : BOOLEAN, done : BOOLEAN]

\* The flag is set while a watcher is between its start and its leaving; a start that
\* failed to make its thread leaves it set with none.
WatchInv ==
    /\ OneWatcher
    /\ ~running => ~\E w \in Watchers : pc[w] \notin Away

-----------------------------------------------------------------------------
(* Types.                                                                  *)

LEMMA Moves ==
    ASSUME TypeOK, NEW t \in Threads, NEW place \in Places, Goto(t, place)
    PROVE  /\ pc' \in [Threads -> Places]
           /\ \A s \in Threads : pc'[s] = IF s = t THEN place ELSE pc[s]
BY DEF TypeOK, Goto

LEMMA ReturnPlace ==
    \A t, ok : ResolveReturns(t, ok) \in {"idle", "leave", "sleep"}
BY DEF ResolveReturns

\* A start of the watcher moves the starting thread, and brings one watcher from
\* idle to its first sleep or none.
LEMMA StartMoves ==
    ASSUME TypeOK, NEW t \in Threads, NEW next \in Places, pc[t] # "idle", WatcherStart(t, next)
    PROVE  /\ pc' \in [Threads -> Places] /\ running' \in BOOLEAN
           /\ wevents' \in WEvents /\ lost' \in BOOLEAN /\ events' \in 0..MaxEvents
           /\ UNCHANGED <<panel, sr, platform, wmu, wshutdown>>
           /\ \/ /\ UNCHANGED running
                 /\ \A s \in Threads : pc'[s] = IF s = t THEN next ELSE pc[s]
              \/ /\ ~wshutdown /\ ~running /\ running'
                 /\ \E w \in Watchers :
                      /\ pc[w] = "idle" /\ w # t
                      /\ \A s \in Threads : pc'[s] = IF s = w THEN "sleep" ELSE IF s = t THEN next ELSE pc[s]
<1> USE DEF WEvents
<1>0. UNCHANGED <<panel, sr, platform, wmu, wshutdown>>
  BY DEF WatcherStart
<1>1. CASE StartNotNeeded(t, next)
  <2>1. lost' \in BOOLEAN
    BY <1>1 DEF StartNotNeeded
  <2>2. wevents' \in WEvents /\ running' \in BOOLEAN /\ events' \in 0..MaxEvents /\ UNCHANGED running
    BY <1>1 DEF StartNotNeeded, TypeOK
  <2> QED
    BY <1>0, <1>1, <2>1, <2>2, Moves DEF StartNotNeeded
<1>2. CASE StartNoEvents(t, next)
  <2>1. wevents' \in WEvents
    BY <1>2 DEF StartNoEvents, TypeOK
  <2>2. events' \in 0..MaxEvents
    BY <1>2, GeometryAssumption DEF StartNoEvents, TypeOK
  <2>3. lost' \in BOOLEAN /\ running' \in BOOLEAN /\ UNCHANGED running
    BY <1>2 DEF StartNoEvents, TypeOK
  <2> QED
    BY <1>0, <1>2, <2>1, <2>2, <2>3, Moves DEF StartNoEvents
<1>3. CASE StartThread(t, next)
  <2>1. PICK w \in Watchers : pc[w] = "idle" /\ pc' = [pc EXCEPT ![t] = next, ![w] = "sleep"]
    BY <1>3 DEF StartThread
  <2>2. w \in Threads /\ "sleep" \in Places
    BY DEF Threads, Places
  <2>3. /\ pc' \in [Threads -> Places]
        /\ \A s \in Threads : pc'[s] = IF s = w THEN "sleep" ELSE IF s = t THEN next ELSE pc[s]
    BY <2>1, <2>2 DEF TypeOK
  <2>4. running' = TRUE /\ ~wshutdown /\ ~running
    BY <1>3 DEF StartThread, StartFlagged, WatcherNotNeeded
  <2>5. wevents' \in WEvents
    BY <1>3 DEF StartThread, StartFlagged, TypeOK
  <2>6. lost' = FALSE /\ events' \in 0..MaxEvents
    BY <1>3 DEF StartThread, TypeOK
  <2> QED
    BY <1>0, <2>1, <2>3, <2>4, <2>5, <2>6
<1> QED
  BY <1>1, <1>2, <1>3 DEF WatcherStart

\* A start that fails to make the thread: the flag is set, and no watcher moves.
LEMMA ThrowMoves ==
    ASSUME TypeOK, NEW t \in Threads, StartThrows(t)
    PROVE  /\ t \in Clients /\ Goto(t, "idle") /\ running' = TRUE /\ ~wshutdown
           /\ wevents' \in WEvents /\ lost' \in BOOLEAN /\ events' \in 0..MaxEvents
           /\ UNCHANGED <<panel, sr, platform, wmu, wshutdown>>
<1>1. wevents' \in WEvents
  BY DEF StartThrows, StartFlagged, TypeOK, WEvents
<1>2. events' \in 0..MaxEvents
  BY GeometryAssumption DEF StartThrows, TypeOK
<1> QED
  BY <1>1, <1>2 DEF StartThrows, StartFlagged, WatcherNotNeeded

\* A thread that moves to a place where it holds nothing keeps PlaceInv.
LEMMA PlaceMoves ==
    ASSUME Typed, NEW t \in Threads, NEW place \in Places \ {"snapshot", "probed", "match", "publish"},
           Goto(t, place), \A s \in Threads \ {t} : got'[s] = got[s]
    PROVE  pc' \in [Threads -> Places] /\ PlaceInv'
<1>1. /\ pc' \in [Threads -> Places]
      /\ \A s \in Threads : pc'[s] = IF s = t THEN place ELSE pc[s]
  BY Moves DEF Typed
<1> QED
  BY <1>1 DEF Typed, PlaceInv, Threads

LEMMA InitTyped == Init => Typed
<1> SUFFICES ASSUME Init PROVE Typed
  OBVIOUS
<1>0. 0 \in 0..MaxEvents
  BY GeometryAssumption
<1> USE DEF Init
<1> NoPanel \in OptPanel
  BY DEF OptPanel
<1>1. /\ panel \in OptPanel /\ sr \in OptPanel /\ events \in 0..MaxEvents /\ platform \in Platforms
      /\ matched \in OptPanel /\ geom \in Geometries /\ attached \in OptPanel
  <2>1. events \in 0..MaxEvents
    BY <1>0
  <2>2. panel \in OptPanel /\ sr \in OptPanel /\ platform \in Platforms
    OBVIOUS
  <2> QED
    BY <2>1, <2>2 DEF Geometries
<1>2. /\ edid \in [panel : OptPanel, signature : Signatures]
      /\ kept \in [geom : Geometries, on : OptPanel]
      /\ wevents \in WEvents
  <2>1. edid \in [panel : OptPanel, signature : Signatures]
    BY DEF Signatures
  <2>2. kept \in [geom : Geometries, on : OptPanel]
    BY DEF Geometries
  <2>3. wevents \in WEvents
    BY DEF WEvents
  <2> QED
    BY <2>1, <2>2, <2>3
<1>3. /\ pc \in [Threads -> Places]
      /\ got \in [Threads -> Geometries] /\ on \in [Threads -> OptPanel]
      /\ read \in [Threads -> Platforms \cup {"unread"}]
  BY DEF OptPanel, Geometries, Places
<1>4. TypeOK
  BY <1>1, <1>2, <1>3 DEF TypeOK, WEvents
<1> QED
  BY <1>4 DEF Typed, PlaceInv, Threads

LEMMA ResolveTyped ==
    ASSUME Typed, NEW t \in Threads, ResolveStep(t)
    PROVE  Typed'
<1> USE DEF env, plat, cache, watch, data, locals
<1>1. ASSUME NEW place \in Places \ {"snapshot", "probed", "match", "publish"}, Goto(t, place),
             budget' \in {"unstarted", "running", "spent"},
             UNCHANGED <<env, plock, plat, cache, attached, wmu, watch, data, spc>>
      PROVE  Typed'
  BY <1>1, PlaceMoves DEF Typed, TypeOK
<1>2. CASE ResolveCheck(t) \/ ResolveGate(t) \/ QueryFails(t)
  <2>1. PICK place \in {"idle", "leave", "sleep", "gate", "ident"} : Goto(t, place)
    BY <1>2, ReturnPlace DEF ResolveCheck, ResolveGate, QueryFails
  <2>2. place \in Places \ {"snapshot", "probed", "match", "publish"}
    BY DEF Places
  <2>3. UNCHANGED <<env, plock, plat, cache, attached, budget, wmu, watch, data, spc>>
    BY <1>2 DEF ResolveCheck, ResolveGate, QueryFails
  <2>4. budget' \in {"unstarted", "running", "spent"}
    BY <2>3 DEF Typed, TypeOK
  <2> QED
    BY <1>1, <2>1, <2>2, <2>3, <2>4
<1>3. CASE ReadyWait(t) \/ ReadyPoll(t)
  BY <1>1, <1>3 DEF ReadyWait, ReadyPoll, Places, Typed, TypeOK
<1>8. CASE ReadyExpired(t) /\ StartThrows(t)
  <2>1. /\ Goto(t, "idle") /\ running' = TRUE
        /\ wevents' \in WEvents /\ lost' \in BOOLEAN /\ events' \in 0..MaxEvents
        /\ UNCHANGED <<panel, sr, platform, wmu, wshutdown>>
    BY <1>8, ThrowMoves DEF Typed
  <2>2. pc' \in [Threads -> Places] /\ PlaceInv'
    BY <1>8, <2>1, PlaceMoves DEF ReadyExpired, Places
  <2> QED
    BY <1>8, <2>1, <2>2 DEF ReadyExpired, Typed, TypeOK, WEvents
<1>4. CASE ReadyExpired(t) /\ ~StartThrows(t)
  <2>1. PICK next \in {"idle", "leave", "sleep"} : WatcherStart(t, next)
    BY <1>4, ReturnPlace DEF ReadyExpired
  <2>2. next \in Places /\ pc[t] # "idle"
    BY <1>4 DEF ReadyExpired, Places
  <2>3. /\ pc' \in [Threads -> Places] /\ running' \in BOOLEAN
        /\ wevents' \in WEvents /\ lost' \in BOOLEAN /\ events' \in 0..MaxEvents
        /\ UNCHANGED <<panel, sr, platform, wmu, wshutdown>>
        /\ \A s \in Threads : pc'[s] \in {next, "sleep", pc[s]}
    BY <2>1, <2>2, StartMoves DEF Typed
  <2>4. TypeOK'
    BY <1>4, <2>3 DEF ReadyExpired, Typed, TypeOK, WEvents
  <2>5. PlaceInv'
    BY <1>4, <2>3 DEF ReadyExpired, Typed, PlaceInv, Threads
  <2> QED
    BY <2>4, <2>5 DEF Typed
<1>5. CASE Query(t)
  <2>1. PICK g \in Panels \cup {Placeholder} : got' = [got EXCEPT ![t] = g]
    <3>1. sr \in Panels
      BY <1>5 DEF Query, Identified, OptPanel, Typed, TypeOK
    <3>2. {sr} \cup (IF sr = panel THEN {} ELSE {Placeholder}) \subseteq Panels \cup {Placeholder}
      BY <3>1
    <3> QED
      BY <1>5, <3>2 DEF Query
  <2>2. /\ pc' \in [Threads -> Places]
        /\ \A s \in Threads : pc'[s] = IF s = t THEN "match" ELSE pc[s]
    BY <1>5, Moves DEF Query, Typed, Places
  <2>3. /\ got' \in [Threads -> Geometries]
        /\ \A s \in Threads : got'[s] = IF s = t THEN g ELSE got[s]
    BY <2>1 DEF Typed, TypeOK, OptPanel, Geometries
  <2>4. TypeOK'
    BY <1>5, <2>2, <2>3 DEF Query, Typed, TypeOK
  <2>5. PlaceInv'
    BY <2>2, <2>3 DEF Typed, PlaceInv, Threads
  <2> QED
    BY <2>4, <2>5 DEF Typed
<1>6. CASE PublishMatch(t)
  <2>1. "publish" \in Places
    BY DEF Places
  <2>2. /\ pc' \in [Threads -> Places]
        /\ \A s \in Threads : pc'[s] = IF s = t THEN "publish" ELSE pc[s]
    BY <1>6, <2>1, Moves DEF PublishMatch, Typed
  <2>3. on' \in [Threads -> OptPanel]
    BY <1>6 DEF PublishMatch, Typed, TypeOK
  <2>4. TypeOK'
    BY <1>6, <2>2, <2>3 DEF PublishMatch, Typed, TypeOK
  <2>5. PlaceInv'
    BY <1>6, <2>2 DEF PublishMatch, Typed, PlaceInv, Threads
  <2> QED
    BY <2>4, <2>5 DEF Typed
<1>7. CASE Publish(t)
  <2>1. got[t] \in Panels \cup {Placeholder} /\ on[t] \in OptPanel
    BY <1>7 DEF Publish, Typed, TypeOK, PlaceInv
  <2>2. geom' \in Geometries /\ hmd' \in Panels \cup {Placeholder, "none", "fallback"}
    BY <1>7, <2>1 DEF Publish, Typed, TypeOK, Geometries, OptPanel
  <2>3. kept' \in [geom : Geometries, on : OptPanel]
    BY <1>7, <2>1 DEF Publish, Typed, TypeOK, Geometries, OptPanel
  <2>4. /\ got' \in [Threads -> Geometries] /\ on' \in [Threads -> OptPanel]
        /\ \A s \in Threads \ {t} : got'[s] = got[s]
    BY <1>7 DEF Publish, Typed, TypeOK, Geometries, OptPanel
  <2>5. PICK place \in {"idle", "leave", "sleep"} : Goto(t, place)
    BY <1>7, ReturnPlace DEF Publish
  <2>6. pc' \in [Threads -> Places] /\ PlaceInv'
    BY <2>4, <2>5, PlaceMoves DEF Places
  <2> QED
    BY <1>7, <2>2, <2>3, <2>4, <2>6 DEF Publish, Typed, TypeOK
<1> QED
  BY <1>2, <1>3, <1>4, <1>5, <1>6, <1>7, <1>8 DEF ResolveStep

LEMMA RefreshTyped ==
    ASSUME Typed, NEW t \in Threads, RefreshStep(t)
    PROVE  Typed'
<1> USE DEF env, plat, cache, watch, data, locals
<1>1. ASSUME NEW found \in OptPanel, EvaluateLocked(t, found), edid' \in [panel : OptPanel, signature : Signatures],
             got' \in [Threads -> Geometries], \A s \in Threads \ {t} : got'[s] = got[s],
             read' \in [Threads -> Platforms \cup {"unread"}]
      PROVE  Typed'
  <2>1. PICK place \in {"rearm", "unlock"} : Goto(t, place)
    BY <1>1 DEF EvaluateLocked
  <2>2. pc' \in [Threads -> Places] /\ PlaceInv'
    BY <1>1, <2>1, PlaceMoves DEF Places
  <2>3. plock' \in Threads \cup {"free"} /\ matched' \in OptPanel /\ hit' \in BOOLEAN /\ geom' \in Geometries
    BY <1>1 DEF EvaluateLocked, Typed, TypeOK, OptPanel, Geometries
  <2>4. UNCHANGED <<env, state, kept, hmd, attached, budget, wmu, watch, on, spc>>
    BY <1>1 DEF EvaluateLocked
  <2> QED
    BY <1>1, <2>2, <2>3, <2>4 DEF Typed, TypeOK
<1>2. ASSUME NEW p \in OptPanel PROVE [panel |-> p, signature |-> SignatureOf[panel]] \in [panel : OptPanel, signature : Signatures]
  BY DEF Typed, TypeOK, Signatures
<1>3. ASSUME NEW stale \in BOOLEAN, Evaluate(t, stale) PROVE Typed'
  <2>1. EdidAfter(stale) \in [panel : OptPanel, signature : Signatures]
    BY <1>2 DEF EdidAfter, Typed, TypeOK
  <2>2. EdidAfter(stale).panel \in OptPanel
    BY <2>1
  <2>3. edid' = EdidAfter(stale) /\ EvaluateLocked(t, EdidAfter(stale).panel) /\ UNCHANGED got
    BY <1>3 DEF Evaluate
  <2>4. read' \in [Threads -> Platforms \cup {"unread"}]
    BY <1>3 DEF Evaluate, Typed, TypeOK
  <2> QED
    BY <1>1, <2>1, <2>2, <2>3, <2>4 DEF Typed, TypeOK
<1>4. CASE ProbeEvaluate(t)
  <2>1. edid' \in [panel : OptPanel, signature : Signatures]
    BY <1>4 DEF ProbeEvaluate, Typed, TypeOK, Signatures
  <2>2. got[t] \in OptPanel
    BY <1>4 DEF ProbeEvaluate, Typed, PlaceInv
  <2>3. got' \in [Threads -> Geometries] /\ \A s \in Threads \ {t} : got'[s] = got[s]
    BY <1>4 DEF ProbeEvaluate, Typed, TypeOK, OptPanel, Geometries
  <2>4. read' \in [Threads -> Platforms \cup {"unread"}]
    BY <1>4 DEF ProbeEvaluate, Typed, TypeOK
  <2> QED
    BY <1>1, <1>4, <2>1, <2>2, <2>3, <2>4 DEF ProbeEvaluate
<1>5. CASE Rearm(t)
  <2>1. WatcherStart(t, "unlock") /\ "unlock" \in Places /\ pc[t] # "idle"
    BY <1>5 DEF Rearm, Places
  <2>2. /\ pc' \in [Threads -> Places] /\ running' \in BOOLEAN
        /\ wevents' \in WEvents /\ lost' \in BOOLEAN /\ events' \in 0..MaxEvents
        /\ UNCHANGED <<panel, sr, platform, wmu, wshutdown>>
        /\ \A s \in Threads : pc'[s] \in {"unlock", "sleep", pc[s]}
    BY <2>1, StartMoves DEF Typed
  <2>3. TypeOK'
    BY <1>5, <2>2 DEF Rearm, Typed, TypeOK, WEvents
  <2>4. PlaceInv'
    BY <1>5, <2>2 DEF Rearm, Typed, PlaceInv, Threads
  <2> QED
    BY <2>3, <2>4 DEF Typed
<1>6. CASE RefreshUnlock(t)
  <2>1. PICK place \in {"watchReady", "snapshot", "idle"} : Goto(t, place) /\ (place = "snapshot" => t \in Refreshers)
    BY <1>6 DEF RefreshUnlock
  <2>2. /\ pc' \in [Threads -> Places]
        /\ \A s \in Threads : pc'[s] = IF s = t THEN place ELSE pc[s]
    BY <2>1, Moves DEF Typed, Places
  <2>3. UNCHANGED got
    BY <1>6 DEF RefreshUnlock
  <2>4. PlaceInv'
    BY <2>1, <2>2, <2>3, GeometryAssumption DEF Typed, PlaceInv, Threads
  <2>5. state' \in {"UNKNOWN", "READY", "ABSENT", "NOT_RUNNING", "NO_DISPLAY", "INCOMPATIBLE"}
    BY <1>6 DEF RefreshUnlock, Ladder
  <2>6. read' \in [Threads -> Platforms \cup {"unread"}]
    BY <1>6 DEF RefreshUnlock, Typed, TypeOK
  <2> QED
    BY <1>6, <2>2, <2>4, <2>5, <2>6 DEF RefreshUnlock, Typed, TypeOK
<1>7. CASE Snapshot(t)
  <2>1. pc' \in [Threads -> Places] /\ PlaceInv'
    BY <1>7, PlaceMoves DEF Snapshot, Places
  <2> QED
    BY <1>7, <2>1 DEF Snapshot, Typed, TypeOK
<1> QED
  BY <1>3, <1>4, <1>5, <1>6, <1>7 DEF RefreshStep

LEMMA WatcherTyped ==
    ASSUME Typed, NEW w \in Watchers, WatcherStep(w)
    PROVE  Typed'
<1> w \in Threads
  BY DEF Threads
<1> USE DEF env, plat, cache, watch, data, locals
<1>1. ASSUME NEW place \in Places \ {"snapshot", "probed", "match", "publish"}, Goto(w, place),
             running' \in BOOLEAN, wevents' \in WEvents,
             UNCHANGED <<env, plock, plat, cache, attached, budget, wmu, wshutdown, lost, data, spc>>
      PROVE  Typed'
  BY <1>1, PlaceMoves DEF Typed, TypeOK, WEvents
<1>2. CASE WatcherWakes(w) \/ WatcherCheck(w) \/ WatcherIdentified(w) \/ WatcherReady(w)
  BY <1>1, <1>2 DEF WatcherWakes, WatcherCheck, WatcherIdentified, WatcherReady, Places, Typed, TypeOK, WEvents
<1>3. CASE WatcherLeave(w)
  BY <1>1, <1>3 DEF WatcherLeave, Places, Typed, TypeOK, WEvents
<1>4. CASE WatcherSignal(w)
  <2>1. wevents' \in WEvents
    BY <1>4 DEF WatcherSignal, Typed, TypeOK, WEvents
  <2> QED
    BY <1>1, <1>4, <2>1 DEF WatcherSignal, Places, Typed, TypeOK
<1> QED
  BY <1>2, <1>3, <1>4 DEF WatcherStep

LEMMA EnvironmentTyped == Typed /\ Environment => Typed'
<1> SUFFICES ASSUME Typed, Environment PROVE Typed'
  OBVIOUS
<1> USE DEF plat, cache, watch, data, locals
<1>1. events' \in 0..MaxEvents
  BY GeometryAssumption DEF Environment, Replug, SrIdentifies, PlatformChanges, Event, Typed, TypeOK
<1>2. /\ panel' \in OptPanel /\ sr' \in OptPanel
      /\ platform' \in Platforms
  BY DEF Environment, Replug, SrIdentifies, PlatformChanges, Typed, TypeOK, OptPanel, Platforms
<1>3. UNCHANGED <<plock, plat, cache, attached, budget, wmu, watch, locals, spc>>
  BY DEF Environment, Replug, SrIdentifies, PlatformChanges, Event
<1>4. TypeOK'
  BY <1>1, <1>2, <1>3 DEF Typed, TypeOK
<1> QED
  BY <1>3, <1>4 DEF Typed, PlaceInv

LEMMA TypedStep == Typed /\ [Next]_vars => Typed'
<1> SUFFICES ASSUME Typed, [Next]_vars PROVE Typed'
  OBVIOUS
<1> USE DEF env, plat, cache, watch, data, locals
<1>1. CASE BudgetEnds
  BY <1>1 DEF BudgetEnds, Typed, TypeOK, PlaceInv
<1>2. ASSUME NEW c \in Clients, ClientResolves(c) PROVE Typed'
  <2>1. pc' \in [Threads -> Places] /\ PlaceInv'
    BY <1>2, PlaceMoves DEF ClientResolves, Places, Threads
  <2> QED
    BY <1>2, <2>1 DEF ClientResolves, Typed, TypeOK
<1>3. ASSUME NEW r \in Refreshers, RefresherPass(r) PROVE Typed'
  <2>1. pc' \in [Threads -> Places] /\ PlaceInv'
    BY <1>3, PlaceMoves DEF RefresherPass, Places, Threads
  <2> QED
    BY <1>3, <2>1 DEF RefresherPass, Typed, TypeOK
<1>4. ASSUME NEW r \in Refreshers, Probe(r) PROVE Typed'
  <2>1. /\ pc' \in [Threads -> Places]
        /\ \A s \in Threads : pc'[s] = IF s = r THEN "probed" ELSE pc[s]
    <3>1. TypeOK /\ r \in Threads /\ "probed" \in Places /\ Goto(r, "probed")
      BY <1>4 DEF Probe, Typed, Places, Threads
    <3> QED
      BY <3>1, Moves
  <2>2. /\ got' \in [Threads -> Geometries]
        /\ \A s \in Threads : got'[s] = IF s = r THEN panel ELSE got[s]
    BY <1>4 DEF Probe, Typed, TypeOK, OptPanel, Geometries
  <2>5. read' \in [Threads -> Platforms \cup {"unread"}]
    BY <1>4 DEF Probe, Typed, TypeOK
  <2>6. panel \in OptPanel
    BY DEF Typed, TypeOK
  <2>3. edid' \in [panel : OptPanel, signature : Signatures]
    BY <1>4 DEF Probe, Typed, TypeOK
  <2>4. PlaceInv'
    BY <2>1, <2>2, <2>6, GeometryAssumption DEF Typed, PlaceInv, Threads
  <2> QED
    BY <1>4, <2>1, <2>2, <2>3, <2>4, <2>5 DEF Probe, Typed, TypeOK
<1>5. CASE HmdRegister \/ HmdUnregister
  <2>1. hmd' \in Panels \cup {Placeholder, "none", "fallback"}
    BY <1>5 DEF HmdRegister, HmdUnregister, HmdGeometry, Typed, TypeOK, OptPanel, Geometries
  <2> QED
    BY <1>5, <2>1 DEF HmdRegister, HmdUnregister, Typed, TypeOK, PlaceInv
<1>6. CASE ShutdownBegin
  <2>1. wevents' \in WEvents
    BY <1>6 DEF ShutdownBegin, Typed, TypeOK, WEvents
  <2> QED
    BY <1>6, <2>1 DEF ShutdownBegin, Typed, TypeOK, PlaceInv, WEvents
<1>7. CASE ShutdownEnd("done") \/ ShutdownEnd("timedOut")
  BY <1>7 DEF ShutdownEnd, Typed, TypeOK, PlaceInv
<1>8. CASE UNCHANGED vars
  BY <1>8 DEF vars, Typed, TypeOK, PlaceInv
<1> QED
  BY <1>1, <1>2, <1>3, <1>4, <1>5, <1>6, <1>7, <1>8, ResolveTyped, RefreshTyped, WatcherTyped, EnvironmentTyped
     DEF Next, ThreadStep

-----------------------------------------------------------------------------
(* One watcher.                                                            *)

\* In the two shared procedures a thread moves on or starts a watcher, and a watcher
\* that is in one of them stays a watcher.
LEMMA ThreadPath ==
    ASSUME Typed, NEW t \in Threads, ResolveStep(t) \/ RefreshStep(t)
    PROVE  /\ pc[t] \notin Away
           /\ \E place \in Places :
                /\ t \in Watchers => place \notin Away
                /\ \/ Goto(t, place) /\ (UNCHANGED running \/ (running' = TRUE /\ ~wshutdown))
                   \/ WatcherStart(t, place)
<1> USE DEF Away, Places, watch
<1>1. CASE ResolveCheck(t) \/ ResolveGate(t) \/ QueryFails(t) \/ Publish(t)
  BY <1>1 DEF ResolveCheck, ResolveGate, QueryFails, Publish, ResolveReturns
<1>2. CASE ReadyWait(t) \/ ReadyPoll(t) \/ Query(t) \/ PublishMatch(t)
  BY <1>2 DEF ReadyWait, ReadyPoll, Query, PublishMatch
<1>3. CASE ReadyExpired(t)
  <2>1. CASE StartThrows(t)
    BY <1>3, <2>1, ThrowMoves, GeometryAssumption DEF ReadyExpired, Typed
  <2>2. CASE WatcherStart(t, ResolveReturns(t, FALSE))
    BY <1>3, <2>2 DEF ReadyExpired, ResolveReturns
  <2> QED
    BY <1>3, <2>1, <2>2 DEF ReadyExpired
<1>4. CASE (\E stale \in BOOLEAN : Evaluate(t, stale)) \/ ProbeEvaluate(t)
  <2>1. PICK found : EvaluateLocked(t, found)
    BY <1>4 DEF Evaluate, ProbeEvaluate
  <2>2. pc[t] \in {"lock", "probed"}
    BY <1>4 DEF Evaluate, ProbeEvaluate
  <2> QED
    BY <2>1, <2>2 DEF EvaluateLocked
<1>5. CASE Rearm(t)
  BY <1>5 DEF Rearm
<1>6. CASE RefreshUnlock(t)
  <2>1. t \in Refreshers => t \notin Watchers
    BY GeometryAssumption
  <2> QED
    BY <1>6, <2>1 DEF RefreshUnlock
<1>7. CASE Snapshot(t)
  BY <1>7 DEF Snapshot, Typed, PlaceInv
<1> QED
  BY <1>1, <1>2, <1>3, <1>4, <1>5, <1>6, <1>7 DEF ResolveStep, RefreshStep

\* A watcher's own steps: from its first sleep to its leaving it is one, and then not.
LEMMA WatcherPath ==
    ASSUME Typed, NEW w \in Watchers, WatcherStep(w)
    PROVE  /\ pc[w] # "idle"
           /\ \E place \in Places :
                /\ Goto(w, place)
                /\ \/ UNCHANGED running /\ (pc[w] \in Away <=> place \in Away)
                   \/ running' = FALSE /\ pc[w] \notin Away /\ place \in Away
<1> USE DEF Away, Places, watch
<1>1. CASE WatcherWakes(w) \/ WatcherCheck(w) \/ WatcherIdentified(w) \/ WatcherReady(w)
  BY <1>1 DEF WatcherWakes, WatcherCheck, WatcherIdentified, WatcherReady
<1>2. CASE WatcherLeave(w) \/ WatcherSignal(w)
  BY <1>2 DEF WatcherLeave, WatcherSignal
<1> QED
  BY <1>1, <1>2 DEF WatcherStep

LEMMA SharedWatch ==
    ASSUME Typed, WatchInv, NEW t \in Threads, ResolveStep(t) \/ RefreshStep(t)
    PROVE  WatchInv'
<1>1. pc[t] \notin Away
  BY ThreadPath
<1>2. PICK place \in Places :
        /\ t \in Watchers => place \notin Away
        /\ \/ Goto(t, place) /\ (UNCHANGED running \/ (running' = TRUE /\ ~wshutdown))
           \/ WatcherStart(t, place)
  BY ThreadPath
<1>3. CASE Goto(t, place) /\ (UNCHANGED running \/ (running' = TRUE /\ ~wshutdown))
  <2>1. \A w \in Watchers : pc'[w] = IF w = t THEN place ELSE pc[w]
    BY <1>3, Moves DEF Typed, Threads
  <2> QED
    BY <1>1, <1>2, <1>3, <2>1 DEF WatchInv, OneWatcher, Away
<1>4. CASE WatcherStart(t, place)
  <2>1. pc[t] # "idle"
    BY <1>1 DEF Away
  <2>2. CASE UNCHANGED running /\ \A s \in Threads : pc'[s] = IF s = t THEN place ELSE pc[s]
    <3>1. \A w \in Watchers : pc'[w] = IF w = t THEN place ELSE pc[w]
      BY <2>2 DEF Threads
    <3> QED
      BY <1>1, <1>2, <2>2, <3>1 DEF WatchInv, OneWatcher, Away
  <2>3. ASSUME ~running, running', NEW v \in Watchers, pc[v] = "idle", v # t,
               \A s \in Threads : pc'[s] = IF s = v THEN "sleep" ELSE IF s = t THEN place ELSE pc[s]
        PROVE  WatchInv'
    <3>1. \A w \in Watchers : pc[w] \in Away
      BY <2>3 DEF WatchInv
    <3>2. t \notin Watchers
      BY <1>1, <3>1
    <3>3. \A w \in Watchers : pc'[w] = IF w = v THEN "sleep" ELSE pc[w]
      BY <2>3, <3>2 DEF Threads
    <3> QED
      BY <2>3, <3>1, <3>3 DEF WatchInv, OneWatcher, Away
  <2> QED
    BY <1>4, <2>1, <2>2, <2>3, StartMoves DEF Typed
<1> QED
  BY <1>2, <1>3, <1>4

LEMMA WatcherWatch ==
    ASSUME Typed, WatchInv, NEW w \in Watchers, WatcherStep(w)
    PROVE  WatchInv'
<1>1. PICK place \in Places :
        /\ Goto(w, place)
        /\ \/ UNCHANGED running /\ (pc[w] \in Away <=> place \in Away)
           \/ running' = FALSE /\ pc[w] \notin Away /\ place \in Away
  BY WatcherPath
<1>2. \A v \in Watchers : pc'[v] = IF v = w THEN place ELSE pc[v]
  BY <1>1, Moves DEF Typed, Threads
<1>3. CASE UNCHANGED running /\ (pc[w] \in Away <=> place \in Away)
  BY <1>2, <1>3 DEF WatchInv, OneWatcher, Away
<1>4. CASE running' = FALSE /\ pc[w] \notin Away /\ place \in Away
  <2>1. \A v \in Watchers : v # w => pc[v] \in Away
    BY <1>4 DEF WatchInv, OneWatcher, Away
  <2>2. \A v \in Watchers : pc'[v] \in Away
    BY <1>2, <1>4, <2>1
  <2>3. ~running'
    BY <1>4
  <2> QED
    BY <2>2, <2>3 DEF WatchInv, OneWatcher, Away
<1> QED
  BY <1>1, <1>3, <1>4

\* The steps that are no thread's: none moves a watcher.
LEMMA OutsidePath ==
    ASSUME Typed, [Next]_vars, \A t \in Threads : ~ThreadStep(t)
    PROVE  UNCHANGED running /\ \A w \in Watchers : pc'[w] = pc[w]
<1> USE DEF env, plat, cache, watch, data, locals
<1>1. CASE Environment \/ BudgetEnds \/ HmdRegister \/ HmdUnregister \/ ShutdownBegin
           \/ ShutdownEnd("done") \/ ShutdownEnd("timedOut") \/ UNCHANGED vars
  BY <1>1 DEF Environment, Replug, SrIdentifies, PlatformChanges, Event, BudgetEnds, HmdRegister,
     HmdUnregister, ShutdownBegin, ShutdownEnd, vars
<1>2. ASSUME NEW t \in Clients \cup Refreshers, ClientResolves(t) \/ RefresherPass(t) \/ Probe(t)
      PROVE  UNCHANGED running /\ \A w \in Watchers : pc'[w] = pc[w]
  <2>1. PICK place \in {"check", "lock", "probed"} : Goto(t, place) /\ UNCHANGED running
    BY <1>2 DEF ClientResolves, RefresherPass, Probe
  <2>2. \A s \in Threads : pc'[s] = IF s = t THEN place ELSE pc[s]
    BY <2>1, Moves DEF Typed, Places, Threads
  <2> QED
    BY <2>1, <2>2, GeometryAssumption DEF Threads
<1> QED
  BY <1>1, <1>2 DEF Next

LEMMA WatchStep == Typed /\ WatchInv /\ [Next]_vars => WatchInv'
<1> SUFFICES ASSUME Typed, WatchInv, [Next]_vars PROVE WatchInv'
  OBVIOUS
<1>1. CASE \E t \in Threads : ThreadStep(t)
  BY <1>1, SharedWatch, WatcherWatch DEF ThreadStep
<1>2. CASE \A t \in Threads : ~ThreadStep(t)
  BY <1>2, OutsidePath DEF WatchInv, OneWatcher
<1> QED
  BY <1>1, <1>2

LEMMA NoLateStart ==
    ASSUME Typed, [Next]_vars, wshutdown, NEW w \in Watchers, pc[w] = "idle"
    PROVE  pc'[w] = "idle"
<1> w \in Threads
  BY DEF Threads
<1>1. ASSUME NEW t \in Threads, ResolveStep(t) \/ RefreshStep(t) PROVE pc'[w] = "idle"
  <2>1. pc[t] \notin Away
    BY <1>1, ThreadPath
  <2>2. PICK place \in Places : Goto(t, place) \/ WatcherStart(t, place)
    BY <1>1, ThreadPath
  <2>3. t # w /\ pc[t] # "idle"
    BY <2>1 DEF Away
  <2>4. CASE Goto(t, place)
    BY <2>3, <2>4, Moves DEF Typed
  <2>5. CASE WatcherStart(t, place)
    BY <2>3, <2>5, StartMoves DEF Typed
  <2> QED
    BY <2>2, <2>4, <2>5
<1>2. ASSUME NEW v \in Watchers, WatcherStep(v) PROVE pc'[w] = "idle"
  <2>1. v \in Threads /\ v # w
    BY <1>2, WatcherPath DEF Threads
  <2>2. PICK place \in Places : Goto(v, place)
    BY <1>2, WatcherPath
  <2> QED
    BY <2>1, <2>2, Moves DEF Typed
<1> QED
  BY <1>1, <1>2, OutsidePath DEF ThreadStep

-----------------------------------------------------------------------------
(* The head device and the claim.                                          *)

\* A publish and a registration each read and write both sides in one g_mu section.
LEMMA HmdStep == Typed /\ HmdCurrent /\ [Next]_vars => HmdCurrent'
<1> SUFFICES ASSUME Typed, HmdCurrent, [Next]_vars PROVE HmdCurrent'
  OBVIOUS
<1> USE DEF HmdCurrent, env, plat, cache, watch, locals
<1>1. ASSUME NEW t \in Threads, ResolveStep(t) PROVE HmdCurrent'
  BY <1>1 DEF ResolveStep, ResolveCheck, ResolveGate, ReadyWait, ReadyPoll, ReadyExpired, Query, QueryFails,
     PublishMatch, Publish
<1>2. ASSUME NEW t \in Threads, RefreshStep(t) PROVE HmdCurrent'
  BY <1>2 DEF RefreshStep, Evaluate, ProbeEvaluate, EvaluateLocked, Rearm, RefreshUnlock, Snapshot
<1>3. ASSUME NEW w \in Watchers, WatcherStep(w) PROVE HmdCurrent'
  BY <1>3 DEF WatcherStep, WatcherWakes, WatcherCheck, WatcherIdentified, WatcherReady, WatcherLeave, WatcherSignal
<1>4. CASE Environment \/ BudgetEnds \/ ShutdownBegin \/ ShutdownEnd("done") \/ ShutdownEnd("timedOut")
           \/ UNCHANGED vars
  BY <1>4 DEF Environment, Replug, SrIdentifies, PlatformChanges, Event, BudgetEnds, ShutdownBegin,
     ShutdownEnd, vars
<1>5. CASE HmdRegister \/ HmdUnregister
  BY <1>5 DEF HmdRegister, HmdUnregister, HmdGeometry
<1>6. ASSUME NEW t, ClientResolves(t) \/ RefresherPass(t) \/ Probe(t) PROVE HmdCurrent'
  BY <1>6 DEF ClientResolves, RefresherPass, Probe
<1> QED
  BY <1>1, <1>2, <1>3, <1>4, <1>5, <1>6 DEF Next, ThreadStep

\* A pass changes the match under g_lock and gives the lock up with a state derived from it.
LEMMA ClaimStep == NoClaimAfterUnplug /\ [Next]_vars => NoClaimAfterUnplug'
<1> SUFFICES ASSUME NoClaimAfterUnplug, [Next]_vars PROVE NoClaimAfterUnplug'
  OBVIOUS
<1> USE DEF NoClaimAfterUnplug, env, plat, cache, watch, locals
<1>1. ASSUME NEW t \in Threads, ResolveStep(t) PROVE NoClaimAfterUnplug'
  BY <1>1 DEF ResolveStep, ResolveCheck, ResolveGate, ReadyWait, ReadyPoll, ReadyExpired, Query, QueryFails,
     PublishMatch, Publish
<1>2. ASSUME NEW t \in Threads, RefreshStep(t) PROVE NoClaimAfterUnplug'
  <2>1. CASE (\E stale \in BOOLEAN : Evaluate(t, stale)) \/ ProbeEvaluate(t)
    <3>1. plock' = t
      BY <2>1 DEF Evaluate, ProbeEvaluate, EvaluateLocked
    <3>2. t # "free"
      BY GeometryAssumption DEF Threads
    <3> QED
      BY <3>1, <3>2
  <2>2. CASE RefreshUnlock(t)
    BY <2>2 DEF RefreshUnlock, Ladder
  <2>3. CASE Rearm(t) \/ Snapshot(t)
    BY <2>3 DEF Rearm, Snapshot
  <2> QED
    BY <1>2, <2>1, <2>2, <2>3 DEF RefreshStep
<1>3. ASSUME NEW w \in Watchers, WatcherStep(w) PROVE NoClaimAfterUnplug'
  BY <1>3 DEF WatcherStep, WatcherWakes, WatcherCheck, WatcherIdentified, WatcherReady, WatcherLeave, WatcherSignal
<1>4. CASE Environment \/ BudgetEnds \/ HmdRegister \/ HmdUnregister \/ ShutdownBegin
           \/ ShutdownEnd("done") \/ ShutdownEnd("timedOut") \/ UNCHANGED vars
  BY <1>4 DEF Environment, Replug, SrIdentifies, PlatformChanges, Event, BudgetEnds, HmdRegister,
     HmdUnregister, ShutdownBegin, ShutdownEnd, vars
<1>5. ASSUME NEW t, ClientResolves(t) \/ RefresherPass(t) \/ Probe(t) PROVE NoClaimAfterUnplug'
  BY <1>5 DEF ClientResolves, RefresherPass, Probe
<1> QED
  BY <1>1, <1>2, <1>3, <1>4, <1>5 DEF Next, ThreadStep

-----------------------------------------------------------------------------
(* The locks.                                                              *)

Inside == {"rearm", "unlock"}

\* g_lock is held from the match of a panel to the publishing of the state derived from
\* it; of those that hold g_watcher_mu over a wait there is one, the shutdown.
LockInv ==
    /\ \A t \in Threads : plock = t <=> pc[t] \in Inside
    /\ wmu = "shutdown" <=> spc = "waiting"

\* A thread that is not inside and stays out leaves the locks to the others.
LEMMA LockKept ==
    ASSUME Typed, LockInv, NEW t \in Threads, NEW place \in Places \ Inside, pc[t] \notin Inside,
           (Goto(t, place) /\ UNCHANGED wmu) \/ (pc[t] # "idle" /\ WatcherStart(t, place)),
           UNCHANGED <<plock, spc>>
    PROVE  LockInv'
<1> USE DEF LockInv, Inside
<1>1. CASE Goto(t, place) /\ UNCHANGED wmu
  <2>1. \A s \in Threads : pc'[s] = IF s = t THEN place ELSE pc[s]
    BY <1>1, Moves DEF Typed
  <2> QED
    BY <1>1, <2>1
<1>2. CASE pc[t] # "idle" /\ WatcherStart(t, place)
  <2>1. UNCHANGED wmu /\ \A s \in Threads : pc'[s] \in Inside <=> pc[s] \in Inside
    BY <1>2, StartMoves DEF Typed, Threads
  <2> QED
    BY <2>1
<1> QED
  BY <1>1, <1>2

LEMMA LockStep == Typed /\ LockInv /\ [Next]_vars => LockInv'
<1> SUFFICES ASSUME Typed, LockInv, [Next]_vars PROVE LockInv'
  OBVIOUS
<1> USE DEF Inside
<1>1. ASSUME NEW t \in Threads, ResolveStep(t) PROVE LockInv'
  <2>1. pc[t] \notin Inside /\ pc[t] # "idle" /\ UNCHANGED <<plock, spc>>
    BY <1>1 DEF ResolveStep, ResolveCheck, ResolveGate, ReadyWait, ReadyPoll, ReadyExpired, Query,
       QueryFails, PublishMatch, Publish
  <2>2. \E place \in Places \ Inside : (Goto(t, place) /\ UNCHANGED wmu) \/ WatcherStart(t, place)
    <3>1. CASE ReadyExpired(t)
      BY <3>1, ThrowMoves DEF ReadyExpired, ResolveReturns, Places, Typed
    <3>2. CASE ResolveCheck(t) \/ ResolveGate(t) \/ QueryFails(t) \/ Publish(t)
      BY <3>2 DEF ResolveCheck, ResolveGate, QueryFails, Publish, ResolveReturns, Places
    <3>3. CASE ReadyWait(t) \/ ReadyPoll(t) \/ Query(t) \/ PublishMatch(t)
      BY <3>3 DEF ReadyWait, ReadyPoll, Query, PublishMatch, Places
    <3> QED
      BY <1>1, <3>1, <3>2, <3>3 DEF ResolveStep
  <2> QED
    BY <2>1, <2>2, LockKept
<1>2. ASSUME NEW t \in Threads, RefreshStep(t) PROVE LockInv'
  <2>0. t # "free"
    BY GeometryAssumption DEF Threads
  <2>1. CASE (\E stale \in BOOLEAN : Evaluate(t, stale)) \/ ProbeEvaluate(t)
    <3>1. PICK found : EvaluateLocked(t, found)
      BY <2>1 DEF Evaluate, ProbeEvaluate
    <3>2. PICK place \in Inside : Goto(t, place)
      BY <3>1 DEF EvaluateLocked
    <3>3. plock = "free" /\ plock' = t /\ UNCHANGED <<wmu, spc>>
      BY <3>1 DEF EvaluateLocked
    <3>4. \A s \in Threads : pc'[s] = IF s = t THEN place ELSE pc[s]
      BY <3>2, Moves DEF Typed, Places
    <3>5. \A s \in Threads : pc[s] \notin Inside
      BY <3>3, GeometryAssumption DEF LockInv, Threads
    <3> QED
      BY <3>3, <3>4, <3>5 DEF LockInv
  <2>2. CASE Rearm(t)
    <3>1. UNCHANGED <<plock, wmu, spc>> /\ \A s \in Threads : pc'[s] \in Inside <=> pc[s] \in Inside
      BY <2>2, StartMoves DEF Rearm, Typed, Places
    <3> QED
      BY <3>1 DEF LockInv
  <2>3. CASE RefreshUnlock(t)
    <3>1. PICK place \in Places \ Inside : Goto(t, place)
      BY <2>3 DEF RefreshUnlock, Places
    <3>2. pc[t] \in Inside /\ plock' = "free" /\ UNCHANGED <<wmu, spc>>
      BY <2>3 DEF RefreshUnlock
    <3>3. \A s \in Threads : pc'[s] = IF s = t THEN place ELSE pc[s]
      BY <3>1, Moves DEF Typed
    <3>4. \A s \in Threads : pc'[s] \notin Inside /\ s # "free"
      BY <3>1, <3>2, <3>3, GeometryAssumption DEF LockInv, Threads
    <3> QED
      BY <3>2, <3>4 DEF LockInv
  <2>4. CASE Snapshot(t)
    <3>1. "idle" \in Places \ Inside /\ pc[t] \notin Inside
      BY <2>4 DEF Snapshot, Places
    <3> QED
      BY <2>4, <3>1, LockKept DEF Snapshot
  <2> QED
    BY <1>2, <2>1, <2>2, <2>3, <2>4 DEF RefreshStep
<1>3. ASSUME NEW w \in Watchers, WatcherStep(w) PROVE LockInv'
  <2>1. w \in Threads /\ pc[w] \notin Inside /\ UNCHANGED <<plock, wmu, spc>>
    BY <1>3 DEF WatcherStep, WatcherWakes, WatcherCheck, WatcherIdentified, WatcherReady, WatcherLeave,
       WatcherSignal, Threads
  <2>2. \E place \in Places \ Inside : Goto(w, place)
    BY <1>3 DEF WatcherStep, WatcherWakes, WatcherCheck, WatcherIdentified, WatcherReady, WatcherLeave,
       WatcherSignal, Places
  <2> QED
    BY <2>1, <2>2, LockKept
<1>4. ASSUME NEW t \in Clients \cup Refreshers, ClientResolves(t) \/ RefresherPass(t) \/ Probe(t)
      PROVE  LockInv'
  <2>1. t \in Threads /\ pc[t] \notin Inside /\ UNCHANGED <<plock, wmu, spc>>
    BY <1>4 DEF ClientResolves, RefresherPass, Probe, Threads
  <2>2. \E place \in Places \ Inside : Goto(t, place)
    BY <1>4 DEF ClientResolves, RefresherPass, Probe, Places
  <2> QED
    BY <2>1, <2>2, LockKept
<1>5. CASE Environment \/ BudgetEnds \/ HmdRegister \/ HmdUnregister \/ UNCHANGED vars
  <2>1. UNCHANGED <<plock, wmu, spc, pc>>
    BY <1>5 DEF Environment, Replug, SrIdentifies, PlatformChanges, Event, BudgetEnds, HmdRegister,
       HmdUnregister, vars, locals
  <2> QED
    BY <2>1 DEF LockInv
<1>6. CASE ShutdownBegin
  <2>1. UNCHANGED <<plock, pc>> /\ (wmu' = "shutdown" <=> spc' = "waiting")
    BY <1>6 DEF ShutdownBegin, locals
  <2> QED
    BY <2>1 DEF LockInv
<1>7. CASE ShutdownEnd("done") \/ ShutdownEnd("timedOut")
  <2>1. UNCHANGED <<plock, pc>> /\ wmu' = "free" /\ spc' # "waiting"
    BY <1>7 DEF ShutdownEnd, locals
  <2> QED
    BY <2>1 DEF LockInv
<1> QED
  BY <1>1, <1>2, <1>3, <1>4, <1>5, <1>6, <1>7 DEF Next, ThreadStep

\* What a pass matched is not matched over by another before its state is derived.
LEMMA PassKeeps ==
    ASSUME LockInv, [Next]_vars, NEW t \in Threads, pc[t] \in Inside
    PROVE  UNCHANGED <<matched, hit>>
<1> USE DEF env, plat, cache, watch, data, locals
<1>1. plock # "free"
  BY GeometryAssumption DEF LockInv, Threads
<1>2. ASSUME NEW s \in Threads, ResolveStep(s) PROVE UNCHANGED <<matched, hit>>
  BY <1>2 DEF ResolveStep, ResolveCheck, ResolveGate, ReadyWait, ReadyPoll, ReadyExpired, Query,
     QueryFails, PublishMatch, Publish
<1>3. ASSUME NEW s \in Threads, RefreshStep(s) PROVE UNCHANGED <<matched, hit>>
  BY <1>1, <1>3 DEF RefreshStep, Evaluate, ProbeEvaluate, EvaluateLocked, Rearm, RefreshUnlock, Snapshot
<1>4. ASSUME NEW w \in Watchers, WatcherStep(w) PROVE UNCHANGED <<matched, hit>>
  BY <1>4 DEF WatcherStep, WatcherWakes, WatcherCheck, WatcherIdentified, WatcherReady, WatcherLeave,
     WatcherSignal
<1>5. CASE Environment \/ BudgetEnds \/ HmdRegister \/ HmdUnregister \/ ShutdownBegin
           \/ ShutdownEnd("done") \/ ShutdownEnd("timedOut") \/ UNCHANGED vars
  BY <1>5 DEF Environment, Replug, SrIdentifies, PlatformChanges, Event, BudgetEnds, HmdRegister,
     HmdUnregister, ShutdownBegin, ShutdownEnd, vars
<1>6. ASSUME NEW s, ClientResolves(s) \/ RefresherPass(s) \/ Probe(s) PROVE UNCHANGED <<matched, hit>>
  BY <1>6 DEF ClientResolves, RefresherPass, Probe
<1> QED
  BY <1>2, <1>3, <1>4, <1>5, <1>6 DEF Next, ThreadStep

-----------------------------------------------------------------------------
IInv == Typed /\ WatchInv /\ HmdCurrent /\ NoClaimAfterUnplug /\ LockInv

LEMMA InitIInv == Init => IInv
<1> SUFFICES ASSUME Init PROVE IInv
  OBVIOUS
<1>1. /\ ~running /\ hmd = "none" /\ state = "UNKNOWN"
      /\ \A w \in Watchers : pc[w] = "idle"
  BY DEF Init, Threads
<1>2. LockInv
  BY GeometryAssumption DEF Init, LockInv, Inside, Threads
<1> QED
  BY <1>1, <1>2, InitTyped DEF IInv, WatchInv, OneWatcher, HmdCurrent, NoClaimAfterUnplug, Away

\* Every reachable state satisfies the inductive invariant.
THEOREM Invariance == Spec => []IInv
<1>1. IInv /\ [Next]_vars => IInv'
  BY TypedStep, WatchStep, HmdStep, ClaimStep, LockStep DEF IInv
<1> QED
  BY InitIInv, <1>1, PTL DEF Spec

\* The globals of leia_sr_ready.cpp's geometry part and of leia_platform_state.c keep
\* their types.
THEOREM TypeCorrect == Spec => []TypeOK
<1>1. IInv => TypeOK
  BY DEF IInv, Typed
<1> QED
  BY Invariance, <1>1, PTL

\* watcher_start never brings a second watcher to life, whoever calls it.
THEOREM WatcherUnique == Spec => []OneWatcher
<1>1. IInv => OneWatcher
  BY DEF IInv, WatchInv
<1> QED
  BY Invariance, <1>1, PTL

\* A registration and a publish, in either order, leave the head device current.
THEOREM HeadDeviceCurrent == Spec => []HmdCurrent
BY Invariance, PTL DEF IInv

\* leia_platform_state.c is never READY without a panel once it has seen one.
THEOREM UnplugNotClaimed == Spec => []NoClaimAfterUnplug
BY Invariance, PTL DEF IInv

\* leiasr_ready_shutdown's flag keeps every later start from bringing a watcher to life.
THEOREM ShutdownStartsNone == Spec => NoWatcherAfterShutdown
<1> DEFINE A == wshutdown => \A w \in Watchers : pc[w] = "idle" => pc'[w] = "idle"
<1>1. IInv /\ [Next]_vars => [A]_vars
  BY NoLateStart DEF IInv
<1> QED
  BY Invariance, <1>1, PTL DEF Spec, NoWatcherAfterShutdown

\* Who has g_lock is between its match and its state; it can be kept waiting there for
\* g_watcher_mu alone, and by nobody but a shutdown, whose wait ends.
THEOREM LocksGivenUp == Spec => []LockInv
BY Invariance, PTL DEF IInv

\* The presence state that a pass publishes is derived from the panel that this pass has
\* matched: evaluate_locked is atomic, although the watcher is re-armed in the middle of it.
THEOREM PassAtomic ==
    Spec => [][\A t \in Threads : pc[t] \in Inside => UNCHANGED <<matched, hit>>]_vars
<1> DEFINE A == \A t \in Threads : pc[t] \in Inside => UNCHANGED <<matched, hit>>
<1>1. IInv /\ [Next]_vars => [A]_vars
  BY PassKeeps DEF IInv
<1> QED
  BY Invariance, <1>1, PTL DEF Spec
=============================================================================
