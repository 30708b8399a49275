----------------------------- MODULE SrGeometry -----------------------------
(***************************************************************************)
(* The verified display geometry of the Windows arm: the platform-state    *)
(* machine (src/src/drv_leia/leia_platform_state.c, P-c), the geometry     *)
(* cache with its resolver, its 1 Hz watcher and the kept copy that a      *)
(* pending display processor reports (leia_sr_ready.cpp, #266, #469).      *)
(*                                                                         *)
(* A geometry is abstracted to the panel SR read it from, so a cache that  *)
(* holds another panel's geometry is a state of the model.  Threads share  *)
(* the two procedures leiasr_geometry_resolve and                          *)
(* leia_platform_state_refresh; pc says where a thread is in them and its  *)
(* kind says where they return.  Each short critical section under g_mu is *)
(* one step; g_lock (the platform state's) and g_watcher_mu are held       *)
(* across steps and are variables.                                         *)
(***************************************************************************)
EXTENDS Integers, FiniteSets

CONSTANTS
    Panels,       \* Leia panels that can be attached
    NoPanel,      \* no panel: nothing attached, identified, matched or cached
    Placeholder,  \* the geometry of SR's "default display", no panel's
    SignatureOf,  \* desktop rect of each panel, what topology_signature can see
    Clients,      \* threads that resolve the geometry (runtime calls, weaver workers)
    Watchers,     \* identities of watcher threads
    Refreshers,   \* threads that run platform-state passes (SrRefresher's, runtime re-probes)
    SrKeeps,      \* may SR keep a device identified after its panel is gone
    MaxEvents     \* bound: changes of the environment, failed starts of a watcher included

ASSUME GeometryAssumption ==
    /\ NoPanel \notin Panels /\ Placeholder \notin Panels \cup {NoPanel}
    /\ DOMAIN SignatureOf = Panels \cup {NoPanel}
    /\ SrKeeps \in BOOLEAN
    /\ MaxEvents \in Nat
    /\ Clients \cap Watchers = {} /\ Clients \cap Refreshers = {} /\ Watchers \cap Refreshers = {}
    /\ "free" \notin Clients \cup Watchers \cup Refreshers

Threads == Clients \cup Watchers \cup Refreshers

VARIABLES
    panel,      \* environment: the attached Leia panel
    sr,         \* environment: the panel SR has identified (count byte >= 1)
    platform,   \* environment: the SR install, "absent", "incompatible", "stopped", "running"
    events,     \* environment: changes so far
    plock,      \* owner of the platform state's g_lock, or "free"
    edid,       \* the EDID module's cached panel, and g_topology_sig
    matched,    \* g_panel_*: the panel P-c tracks
    hit,        \* g_hit_seen
    state,      \* g_state
    geom,       \* g_geom: the panel its geometry was read from, NoPanel = not valid
    kept,       \* g_kept / g_kept_on
    attached,   \* g_attached: the refresher's snapshot
    budget,     \* the process-wide deadline: "unstarted", "running", "spent"
    hmd,        \* the registered head device: "none", "fallback", or its geometry's panel
    wmu,        \* owner of g_watcher_mu, or "free"
    running,    \* g_watcher_running
    wshutdown,  \* g_watcher_shutdown
    wevents,    \* which of g_watcher_stop / g_watcher_done exist, and which are signalled
    lost,       \* history: the last start asked of the watcher found the flag of one that
                \* was leaving, or of none, or failed
    pc,         \* where each thread is
    got,        \* the geometry a thread's query returned
    on,         \* the matched panel a publishing thread read before g_mu
    read,       \* the SR install a presence pass read before it evaluates
    spc         \* leiasr_ready_shutdown: "no", "waiting", "done", "timedOut"

env    == <<panel, sr, platform, events>>
plat   == <<edid, matched, hit, state>>
cache  == <<geom, kept, hmd>>
watch  == <<running, wshutdown, wevents, lost>>
data   == <<got, on, read>>
locals == <<pc, data>>
vars   == <<env, plock, plat, cache, attached, budget, wmu, watch, locals, spc>>

OptPanel == Panels \cup {NoPanel}
Geometries == OptPanel \cup {Placeholder}
Platforms == {"absent", "incompatible", "stopped", "running"}
Signatures == {SignatureOf[p] : p \in OptPanel} \cup {"never probed"}
Places   == {"idle", "check", "gate", "ident", "wait", "expired", "query", "match",
             "publish", "lock", "probed", "rearm", "unlock", "snapshot", "sleep",
             "watchCheck", "watchIdent", "watchReady", "leave", "signal"}

TypeOK ==
    /\ panel \in OptPanel /\ sr \in OptPanel /\ events \in 0..MaxEvents
    /\ platform \in Platforms
    /\ plock \in Threads \cup {"free"}
    /\ edid \in [panel : OptPanel, signature : Signatures] /\ matched \in OptPanel /\ hit \in BOOLEAN
    /\ state \in {"UNKNOWN", "READY", "ABSENT", "NOT_RUNNING", "NO_DISPLAY", "INCOMPATIBLE"}
    /\ geom \in Geometries /\ kept \in [geom : Geometries, on : OptPanel]
    /\ attached \in OptPanel
    /\ budget \in {"unstarted", "running", "spent"}
    /\ hmd \in Panels \cup {Placeholder, "none", "fallback"}
    /\ wmu \in {"free", "shutdown"}
    /\ running \in BOOLEAN /\ wshutdown \in BOOLEAN
    /\ wevents \in [made : {"none", "half", "both"}, stop : BOOLEAN, done : BOOLEAN]
    /\ lost \in BOOLEAN
    /\ pc \in [Threads -> Places] /\ got \in [Threads -> Geometries] /\ on \in [Threads -> OptPanel]
    /\ read \in [Threads -> Platforms \cup {"unread"}]
    /\ spc \in {"no", "waiting", "done", "timedOut"}

\* leia_sr_client_bind() == LEIA_SR_BIND_OK.
Bound == platform \in {"stopped", "running"}

\* leiasr_display_identified(): SR's shared-memory count is >= 1.
Identified == platform = "running" /\ sr # NoPanel

Goto(t, place) == pc' = [pc EXCEPT ![t] = place]

-----------------------------------------------------------------------------
Init ==
    /\ panel \in OptPanel /\ events = 0
    /\ platform \in Platforms
    /\ sr \in IF platform = "running" THEN {NoPanel, panel} ELSE {NoPanel}
    /\ plock = "free"
    /\ edid = [panel |-> NoPanel, signature |-> "never probed"]
    /\ matched = NoPanel /\ hit = FALSE /\ state = "UNKNOWN"
    /\ geom = NoPanel /\ kept = [geom |-> NoPanel, on |-> NoPanel]
    /\ attached = NoPanel
    /\ budget = "unstarted"
    /\ hmd = "none"
    /\ wmu = "free" /\ running = FALSE /\ wshutdown = FALSE
    /\ wevents = [made |-> "none", stop |-> FALSE, done |-> FALSE]
    /\ lost = FALSE
    /\ pc = [t \in Threads |-> "idle"]
    /\ got = [t \in Threads |-> NoPanel] /\ on = [t \in Threads |-> NoPanel]
    /\ read = [t \in Threads |-> "unread"]
    /\ spc = "no"

-----------------------------------------------------------------------------
(* The environment: panels come and go, SR identifies them late, the SR    *)
(* Service stops and starts, the SR runtime gets installed.                *)

Event ==
    /\ events < MaxEvents
    /\ events' = events + 1
    /\ UNCHANGED <<plock, plat, cache, attached, budget, wmu, watch, locals, spc>>

Replug(p) ==
    /\ Event
    /\ p # panel
    /\ panel' = p
    /\ sr' = IF SrKeeps THEN sr ELSE NoPanel
    /\ UNCHANGED platform

SrIdentifies ==
    /\ Event
    /\ platform = "running" /\ sr # panel
    /\ sr' = panel
    /\ UNCHANGED <<panel, platform>>

PlatformChanges(p) ==
    /\ Event
    /\ <<platform, p>> \in {<<"absent", "stopped">>, <<"stopped", "running">>, <<"running", "stopped">>}
    /\ platform' = p
    /\ sr' = NoPanel
    /\ UNCHANGED panel

BudgetEnds ==
    /\ budget = "running"
    /\ budget' = "spent"
    /\ UNCHANGED <<env, plock, plat, cache, attached, wmu, watch, locals, spc>>

-----------------------------------------------------------------------------
(* watcher_start: called by an expired wait and by an invalidation.        *)

\* Mutants: one of the two flags is not read.
WatcherNotNeeded_IgnoresRunning  == wshutdown
WatcherNotNeeded_IgnoresShutdown == running

WatcherNotNeeded == wshutdown \/ running

\* A watcher is up: it has not decided to leave.
Watching == \E w \in Watchers : pc[w] \notin {"idle", "leave", "signal"}

StartNotNeeded(t, next) ==
    /\ WatcherNotNeeded
    /\ lost' = (lost \/ ~(wshutdown \/ Watching))
    /\ Goto(t, next)
    /\ UNCHANGED <<events, running, wevents>>

\* CreateEvent failed for the stop event, or for the done event alone: the next
\* start then finds a stop event and goes on without the other.
StartNoEvents(t, next) ==
    /\ ~WatcherNotNeeded /\ wevents.made = "none"
    /\ events < MaxEvents /\ events' = events + 1
    /\ wevents' \in {wevents, [wevents EXCEPT !.made = "half"]}
    /\ lost' = TRUE
    /\ Goto(t, next)
    /\ UNCHANGED running

\* The flag is set and the done event reset before the thread is created.
StartFlagged ==
    /\ ~WatcherNotNeeded
    /\ running' = TRUE
    /\ wevents' = [wevents EXCEPT !.done = FALSE,
                                  !.made = IF @ = "none" THEN "both" ELSE @]

StartThread(t, next) ==
    /\ StartFlagged
    /\ lost' = FALSE
    /\ \E w \in Watchers :
         /\ pc[w] = "idle"
         /\ pc' = [pc EXCEPT ![t] = next, ![w] = "sleep"]
    /\ UNCHANGED events

WatcherStart(t, next) ==
    /\ wmu = "free"
    /\ StartNotNeeded(t, next) \/ StartNoEvents(t, next) \/ StartThread(t, next)
    /\ UNCHANGED <<panel, sr, platform, wmu, wshutdown>>

\* std::thread throws: nothing clears the flag.  leiasr_ready_note_weaver_ready
\* catches what escapes its resolve; on any other thread it ends the process.
StartThrows(t) ==
    /\ t \in Clients
    /\ wmu = "free" /\ StartFlagged
    /\ events < MaxEvents /\ events' = events + 1
    /\ lost' = TRUE
    /\ Goto(t, "idle")
    /\ UNCHANGED <<panel, sr, platform, wmu, wshutdown>>

-----------------------------------------------------------------------------
(* leiasr_geometry_resolve.                                                *)

\* Where the resolver returns, by thread: a client's call is over; the watcher
\* leaves once it resolved and sleeps again when it did not.
ResolveReturns(t, ok) ==
    IF t \notin Watchers THEN "idle" ELSE IF ok THEN "leave" ELSE "sleep"

ResolveCheck(t) ==  \* a cached geometry answers at once
    /\ pc[t] = "check"
    /\ Goto(t, IF geom # NoPanel THEN ResolveReturns(t, TRUE) ELSE "gate")
    /\ UNCHANGED <<env, plock, plat, cache, attached, budget, wmu, watch, data, spc>>

ResolveGate(t) ==  \* SR client DLLs bound, and the panel not known to be gone
    /\ pc[t] = "gate"
    /\ Goto(t, IF Bound /\ state # "NO_DISPLAY" THEN "ident" ELSE ResolveReturns(t, FALSE))
    /\ UNCHANGED <<env, plock, plat, cache, attached, budget, wmu, watch, data, spc>>

\* Mutant: a spent budget is looked at before SR's answer.
ReadyWait_BudgetFirst(t) ==
    /\ pc[t] = "ident"
    /\ Goto(t, IF budget = "spent" THEN "expired" ELSE IF Identified THEN "query" ELSE "wait")
    /\ budget' = IF ~Identified /\ budget = "unstarted" THEN "running" ELSE budget
    /\ UNCHANGED <<env, plock, plat, cache, attached, wmu, watch, data, spc>>

ReadyWait(t) ==  \* leiasr_ready_wait up to its loop: the first caller starts the budget
    /\ pc[t] = "ident"
    /\ Goto(t, IF Identified THEN "query" ELSE "wait")
    /\ budget' = IF ~Identified /\ budget = "unstarted" THEN "running" ELSE budget
    /\ UNCHANGED <<env, plock, plat, cache, attached, wmu, watch, data, spc>>

\* Mutant: the wait has no limit.
ReadyPoll_Unbounded(t) ==
    /\ pc[t] = "wait"
    /\ Identified /\ Goto(t, "query")
    /\ UNCHANGED <<env, plock, plat, cache, attached, budget, wmu, watch, data, spc>>

ReadyPoll(t) ==  \* one turn of the wait loop, while the budget lasts
    /\ pc[t] = "wait"
    /\ \/ Identified /\ Goto(t, "query")
       \/ budget = "spent" /\ Goto(t, "expired")
    /\ UNCHANGED <<env, plock, plat, cache, attached, budget, wmu, watch, data, spc>>

ReadyExpired(t) ==  \* the watcher owns the late re-derivation
    /\ pc[t] = "expired"
    /\ WatcherStart(t, ResolveReturns(t, FALSE)) \/ StartThrows(t)
    /\ UNCHANGED <<plock, plat, cache, attached, budget, data, spc>>

\* query_fresh: a fresh handle sees the panel SR has identified.  Of one that is
\* gone SR may answer with the placeholders of its default display.
Query(t) ==
    /\ pc[t] = "query"
    /\ Identified
    /\ \E g \in {sr} \cup (IF sr = panel THEN {} ELSE {Placeholder}) : got' = [got EXCEPT ![t] = g]
    /\ Goto(t, "match")
    /\ UNCHANGED <<env, plock, plat, cache, attached, budget, wmu, watch, on, read, spc>>

QueryFails(t) ==
    /\ pc[t] = "query"
    /\ Goto(t, ResolveReturns(t, FALSE))
    /\ UNCHANGED <<env, plock, plat, cache, attached, budget, wmu, watch, data, spc>>

\* publish: the matched panel is read before g_mu, under g_lock (shared).
PublishMatch(t) ==
    /\ pc[t] = "match"
    /\ plock = "free"
    /\ on' = [on EXCEPT ![t] = matched]
    /\ Goto(t, "publish")
    /\ UNCHANGED <<env, plock, plat, cache, attached, budget, wmu, watch, got, read, spc>>

Publish(t) ==
    /\ pc[t] = "publish"
    /\ geom' = got[t]
    /\ kept' = IF on[t] # NoPanel THEN [geom |-> got[t], on |-> on[t]] ELSE kept
    /\ hmd' = IF hmd = "none" THEN hmd ELSE got[t]
    /\ got' = [got EXCEPT ![t] = NoPanel]
    /\ on' = [on EXCEPT ![t] = NoPanel]
    /\ Goto(t, ResolveReturns(t, TRUE))
    /\ UNCHANGED <<env, plock, plat, attached, budget, wmu, watch, read, spc>>

-----------------------------------------------------------------------------
(* leia_platform_state_refresh, and leiasr_geometry_invalidate inside it.  *)

\* The EDID enumeration re-runs when the topology signature changed, or when the
\* caller set an age limit and the last one is older (get_platform_state).
EdidAfter(stale) ==
    IF stale \/ edid.signature # SignatureOf[panel]
    THEN [panel |-> panel, signature |-> SignatureOf[panel]]
    ELSE edid

\* Mutant: an identification alone is READY, also after the panel was seen.
Ladder_IgnoresSeen(install, found, seen) ==
    IF install = "absent" THEN "ABSENT"
    ELSE IF install = "incompatible" THEN "INCOMPATIBLE"
    ELSE IF install = "stopped" THEN "NOT_RUNNING"
    ELSE IF found # NoPanel \/ Identified THEN "READY"
    ELSE "NO_DISPLAY"

\* The presence ladder of evaluate_locked, on the install the pass has read.
Ladder(install, found, seen) ==
    IF install = "absent" THEN "ABSENT"
    ELSE IF install = "incompatible" THEN "INCOMPATIBLE"
    ELSE IF install = "stopped" THEN "NOT_RUNNING"
    ELSE IF found # NoPanel \/ (~seen /\ Identified) THEN "READY"
    ELSE "NO_DISPLAY"

\* g_lock is taken, and evaluate_locked runs on the panel an enumeration found, up
\* to and including the geometry it drops.  The presence ladder below that runs, and
\* is published, when the lock is given up, after the watcher was re-armed: on the
\* install read before, and on SR's count as it then is.
EvaluateLocked(t, found) ==
    LET drops == matched # NoPanel /\ found # matched
    IN  /\ plock = "free" /\ plock' = t
        /\ matched' = found
        /\ hit' = (hit \/ found # NoPanel)
        /\ geom' = IF drops THEN NoPanel ELSE geom
        /\ Goto(t, IF drops /\ geom # NoPanel /\ Bound THEN "rearm" ELSE "unlock")
        /\ UNCHANGED <<env, state, kept, hmd, attached, budget, wmu, watch, on, spc>>

Evaluate(t, stale) ==
    /\ pc[t] = "lock"
    /\ stale => t \in Refreshers
    /\ edid' = EdidAfter(stale)
    /\ read' = [read EXCEPT ![t] = platform]
    /\ EvaluateLocked(t, EdidAfter(stale).panel)
    /\ UNCHANGED got

\* leia_platform_state_evaluate: its caller enumerated the EDIDs before the lock;
\* the topology signature is taken under it.
ProbeEvaluate(t) ==
    /\ pc[t] = "probed"
    /\ edid' = [edid EXCEPT !.signature = SignatureOf[panel]]
    /\ EvaluateLocked(t, got[t])
    /\ got' = [got EXCEPT ![t] = NoPanel]
    /\ UNCHANGED read

Rearm(t) ==
    /\ pc[t] = "rearm"
    /\ WatcherStart(t, "unlock")
    /\ UNCHANGED <<plock, plat, cache, attached, budget, data, spc>>

RefreshUnlock(t) ==
    /\ pc[t] = "unlock"
    /\ state' = Ladder(read[t], matched, hit)
    /\ read' = [read EXCEPT ![t] = "unread"]
    /\ plock' = "free"
    /\ \/ t \in Watchers /\ Goto(t, "watchReady")
       \/ t \in Refreshers /\ \E next \in {"snapshot", "idle"} : Goto(t, next)
    /\ UNCHANGED <<env, edid, matched, hit, cache, attached, budget, wmu, watch,
                   got, on, spc>>

\* pending_refresh_once: the attached panel, for the pending getters.
Snapshot(t) ==
    /\ pc[t] = "snapshot"
    /\ plock = "free"
    /\ attached' = matched
    /\ Goto(t, "idle")
    /\ UNCHANGED <<env, plock, plat, cache, budget, wmu, watch, data, spc>>

-----------------------------------------------------------------------------
(* The watcher: watcher_body.                                              *)

WatcherWakes(w) ==
    /\ pc[w] = "sleep"
    /\ Goto(w, IF wevents.stop THEN "leave" ELSE "watchCheck")
    /\ UNCHANGED <<env, plock, plat, cache, attached, budget, wmu, watch, data, spc>>

WatcherCheck(w) ==  \* someone else got there first
    /\ pc[w] = "watchCheck"
    /\ Goto(w, IF geom # NoPanel THEN "leave" ELSE "watchIdent")
    /\ UNCHANGED <<env, plock, plat, cache, attached, budget, wmu, watch, data, spc>>

WatcherIdentified(w) ==
    /\ pc[w] = "watchIdent"
    /\ Goto(w, IF Identified THEN "lock" ELSE "sleep")
    /\ UNCHANGED <<env, plock, plat, cache, attached, budget, wmu, watch, data, spc>>

\* SR may keep a device identified after the unplug: the state must be READY too.
WatcherReady(w) ==
    /\ pc[w] = "watchReady"
    /\ Goto(w, IF state = "READY" THEN "check" ELSE "sleep")
    /\ UNCHANGED <<env, plock, plat, cache, attached, budget, wmu, watch, data, spc>>

WatcherLeave(w) ==
    /\ pc[w] = "leave"
    /\ running' = FALSE
    /\ Goto(w, "signal")
    /\ UNCHANGED <<env, plock, plat, cache, attached, budget, wmu, wshutdown, wevents,
                   lost, data, spc>>

WatcherSignal(w) ==
    /\ pc[w] = "signal"
    /\ wevents' = [wevents EXCEPT !.done = (wevents.made = "both")]
    /\ Goto(w, "idle")
    /\ UNCHANGED <<env, plock, plat, cache, attached, budget, wmu, running, wshutdown,
                   lost, data, spc>>

-----------------------------------------------------------------------------
(* Calls from outside.                                                     *)

ClientResolves(c) ==  \* the runtime has probed the plug-in before it uses it
    /\ pc[c] = "idle" /\ state # "UNKNOWN"
    /\ Goto(c, "check")
    /\ UNCHANGED <<env, plock, plat, cache, attached, budget, wmu, watch, data, spc>>

\* leia_plugin_probe and the claims' re-probe: the EDID enumeration, which the EDID
\* module also caches, with the install it reads.
Probe(r) ==
    /\ pc[r] = "idle"
    /\ edid' = [edid EXCEPT !.panel = panel]
    /\ got' = [got EXCEPT ![r] = panel]
    /\ read' = [read EXCEPT ![r] = platform]
    /\ Goto(r, "probed")
    /\ UNCHANGED <<env, plock, matched, hit, state, cache, attached, budget, wmu, watch, on, spc>>

RefresherPass(r) ==
    /\ pc[r] = "idle"
    /\ Goto(r, "lock")
    /\ UNCHANGED <<env, plock, plat, cache, attached, budget, wmu, watch, data, spc>>

\* Mutants: the cached geometry is not applied, or applied when it is not valid.
HmdGeometry_NotApplied == "fallback"
HmdGeometry_Unchecked  == geom

HmdGeometry == IF geom # NoPanel THEN geom ELSE "fallback"

\* leiasr_ready_hmd_register: a device built from the fallback is made current.
HmdRegister ==
    /\ hmd = "none"
    /\ hmd' = HmdGeometry
    /\ UNCHANGED <<env, plock, plat, geom, kept, attached, budget, wmu, watch,
                   locals, spc>>

HmdUnregister ==
    /\ hmd # "none"
    /\ hmd' = "none"
    /\ UNCHANGED <<env, plock, plat, geom, kept, attached, budget, wmu, watch,
                   locals, spc>>

\* leiasr_ready_shutdown, the watcher's half: it waits holding g_watcher_mu.
ShutdownBegin ==
    /\ spc = "no" /\ wmu = "free"
    /\ wshutdown' = TRUE
    /\ wmu' = IF running THEN "shutdown" ELSE "free"
    /\ spc' = IF running THEN "waiting" ELSE "done"
    /\ wevents' = [wevents EXCEPT !.stop = @ \/ running]
    /\ UNCHANGED <<env, plock, plat, cache, attached, budget, running, lost, locals>>

ShutdownEnd(how) ==
    /\ spc = "waiting"
    /\ how = "done" => wevents.done
    /\ spc' = how
    /\ wmu' = "free"
    /\ UNCHANGED <<env, plock, plat, cache, attached, budget, watch, locals>>

\* leiasr_geometry_get_pending, by leiasr_pending_geometry_pick; a snapshot that is
\* too old reads as no panel attached.
PendingGeometry ==
    IF attached = NoPanel THEN NoPanel
    ELSE IF geom # NoPanel THEN geom
    ELSE IF kept.on = attached THEN kept.geom
    ELSE NoPanel

-----------------------------------------------------------------------------
ResolveStep(t) ==
    \/ ResolveCheck(t) \/ ResolveGate(t) \/ ReadyWait(t) \/ ReadyPoll(t)
    \/ ReadyExpired(t) \/ Query(t) \/ QueryFails(t) \/ PublishMatch(t) \/ Publish(t)

RefreshStep(t) ==
    \/ (\E stale \in BOOLEAN : Evaluate(t, stale))
    \/ ProbeEvaluate(t) \/ Rearm(t) \/ RefreshUnlock(t) \/ Snapshot(t)

WatcherStep(w) ==
    \/ WatcherWakes(w) \/ WatcherCheck(w) \/ WatcherIdentified(w) \/ WatcherReady(w)
    \/ WatcherLeave(w) \/ WatcherSignal(w)

ThreadStep(t) == ResolveStep(t) \/ RefreshStep(t) \/ (t \in Watchers /\ WatcherStep(t))

Environment ==
    \/ \E p \in OptPanel : Replug(p)
    \/ SrIdentifies
    \/ \E p \in {"stopped", "running"} : PlatformChanges(p)

Next ==
    \/ Environment \/ BudgetEnds
    \/ \E t \in Threads : ThreadStep(t)
    \/ \E c \in Clients : ClientResolves(c)
    \/ \E r \in Refreshers : RefresherPass(r) \/ Probe(r)
    \/ HmdRegister \/ HmdUnregister
    \/ ShutdownBegin \/ ShutdownEnd("done") \/ ShutdownEnd("timedOut")

Spec == Init /\ [][Next]_vars

\* Threads run, waits time out, and a fresh-handle query that the watcher repeats
\* once a second on an identified panel succeeds in the end.  That a client resolves
\* again, or that another pass runs, is not assumed.
Fairness ==
    /\ WF_vars(BudgetEnds)
    /\ WF_vars(ShutdownEnd("done") \/ ShutdownEnd("timedOut"))
    /\ \A r \in Refreshers : WF_vars(ThreadStep(r))
    /\ \A c \in Clients : SF_vars(ThreadStep(c))
    /\ SF_vars(\E w \in Watchers : ThreadStep(w))
    /\ SF_vars(\E w \in Watchers : Query(w))

FairSpec == Spec /\ Fairness

-----------------------------------------------------------------------------
(* Properties.                                                             *)

\* At most one watcher is between its start and the clearing of its flag.
OneWatcher ==
    \A v, w \in Watchers :
        pc[v] \notin {"idle", "signal"} /\ pc[w] \notin {"idle", "signal"} => v = w

\* A registered head device always carries the verified geometry, whether it was
\* published before the device was created, at the same time, or later.
HmdCurrent == hmd # "none" /\ geom # NoPanel => hmd = geom

\* After an unplug nothing is claimed, even if SR still reports the device: once a
\* table-known panel was seen, READY needs an EDID match.
NoClaimAfterUnplug ==
    plock = "free" /\ hit /\ state = "READY" => matched # NoPanel

\* Whatever shut down, no watcher is brought to life after the shutdown flag.
NoWatcherAfterShutdown ==
    [][wshutdown => \A w \in Watchers : pc[w] = "idle" => pc'[w] = "idle"]_vars

\* get_display_info and its like return: the wait is bounded by the one budget,
\* and no lock order keeps a resolver from finishing.
ResolvesReturn == \A c \in Clients : pc[c] # "idle" ~> pc[c] = "idle"

\* The watcher owns the late re-derivation (leiasr_ready_wait), and an invalidation
\* starts it again: once SR and P-c agree for good on the attached panel, a geometry
\* is published after every wait that expired, every invalidation and every watcher
\* that is up, with no help of a later call.  Only a start that was lost, to the flag
\* of a watcher that was leaving or to a failure, and the shutdown end it.
GeometryDerived ==
    <>[](Identified /\ panel = sr /\ matched = sr /\ ~wshutdown /\ ~lost)
        => ((Watching \/ \E t \in Threads : pc[t] \in {"expired", "rearm"}) ~> geom # NoPanel)

\* leia_sr_ready_rules.h: what a pending display processor reports was verified on
\* the attached panel, now or earlier; the snapshot it reads may lag, so only when
\* the two panels on record are the same.
PendingIsAttached ==
    plock = "free" /\ attached = matched /\ PendingGeometry # NoPanel
        => PendingGeometry = attached

\* leia_sr_ready.cpp: shutdown waits on g_watcher_done instead of joining.
DoneMeansGone ==
    spc = "done" => \A w \in Watchers : pc[w] \in {"idle", "signal"}
=============================================================================
