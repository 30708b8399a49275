----------------------------- MODULE BgCapture -----------------------------
(***************************************************************************)
(* The live desktop behind a transparent window on Linux: how the display  *)
(* processor of src/src/drv_leia_linux/leia_display_processor_linux.c      *)
(* starts, shows, loses, re-creates and stops its ScreenCast captures.     *)
(*                                                                         *)
(* The frame thread (process_atlas and the two transparency setters) never *)
(* blocks: starts and stops run as jobs of the thread of                   *)
(* leia_bg_capture_worker_linux.c, a capture handed back rests in a        *)
(* graveyard until the GPU cannot be sampling it, and a capture the        *)
(* compositor closed is re-created on the schedule of                      *)
(* leia_bg_capture_recovery_linux.h (#364).  dp_capture_reconcile is one   *)
(* step per access to the worker: what lies between touches the frame      *)
(* thread's own fields only, and the place after a step is the next one    *)
(* where the worker is asked something.                                    *)
(*                                                                         *)
(* Abstracted: LEIA_DP_DISABLE_BG_CAPTURE is unset, the worker thread can  *)
(* be created, the compose pipeline can be built, the window is on the     *)
(* panel.  Times are the flags of what is due.  The held copy of the last  *)
(* trusted frame, which only the compositing reads, is left out.           *)
(***************************************************************************)
EXTENDS Integers, Sequences, FiniteSets

CONSTANTS
    Captures,       \* identities of captures (addresses; reused once freed)
    None,           \* NULL
    Slots,          \* slots of the graveyard (4)
    Grace,          \* frames a buried capture rests (3)
    QueueSize,      \* WORKER_QUEUE (8)
    InFlight,       \* frames the compositor lets the GPU lag behind
    MaxCalls,       \* bound: setter calls between two frames
    MaxEvents       \* bound: locks, layout changes, stream errors, refusals

ASSUME CaptureAssumption ==
    /\ None \notin Captures
    /\ Slots \subseteq Nat /\ Grace \in Nat \ {0} /\ InFlight \in 1..Grace
    /\ QueueSize \in Nat \ {0}
    /\ MaxCalls \in Nat /\ MaxEvents \in Nat

\* The queue has room for a stop of every capture that can exist at once, one
\* more than the graveyard holds, and for a start (8 > 4 + 2).
ASSUME QueueAssumption ==
    IsFiniteSet(Slots) /\ Cardinality(Slots) + 2 < QueueSize

VARIABLES
    \* the desktop
    locked,         \* the session is locked, the shell extension disabled
    events,         \* events left (bound)
    news,           \* per capture: signals waiting in its D-Bus connection
    flags,          \* per capture: "lost" (session_closed, stream_failed), "restart"
    good,           \* captures with a frame recorded under exclusion
    live,           \* captures that exist: created and not yet destroyed
    gpu,            \* per capture: frames until no command samples it
    \* the display processor (frame thread)
    enabled,        \* transparent_enabled
    active,         \* content_active
    capture,        \* bg_capture
    inflight,       \* bg_create_inflight
    declined,       \* bg_create_declined
    retryDue,       \* now >= bg_capture_retry_ns
    rec,            \* bg_recovery
    awaiting,       \* bg_recovery_awaiting_frame
    grave,          \* bg_graveyard
    at,             \* place of the frame thread
    frame,          \* it is inside process_atlas
    calls,          \* setter calls since the last frame (bound)
    earned,         \* history: a start was posted since the last activation
    \* the capture worker
    worker,         \* "none" before the first start, "up", "quit", "gone"
    queue,          \* jobs
    wpc, hand,      \* place of its thread; the capture it works on
    result,         \* created_done, created
    watch,          \* watch_wanted
    unlockSeen,     \* unlock_seen
    conn, signal,   \* the watch connection is open; an unlock signal waits in it
    heard           \* the pump read an unlock, not yet noted in unlock_seen

desktop  == <<locked, events, news, flags, good>>
wishes   == <<enabled, active, calls, earned>>
start    == <<capture, inflight, declined, retryDue>>
recovery == <<rec, awaiting>>
place    == <<at, frame>>
jobs     == <<worker, queue, wpc, hand, result>>
pump     == <<watch, unlockSeen, conn, signal, heard>>
vars == <<desktop, live, gpu, wishes, start, recovery, grave, place, jobs, pump>>

-----------------------------------------------------------------------------
Create    == [type |-> "create", capture |-> None]
Destroy(c) == [type |-> "destroy", capture |-> c]
Jobs      == {Create} \cup {Destroy(c) : c \in Captures}
NoResult  == [done |-> FALSE, capture |-> None]
NoLoss    == [active |-> FALSE, pending |-> FALSE, due |-> TRUE]
Empty     == [capture |-> None, left |-> 0]

DesktopType ==
    /\ locked \in BOOLEAN /\ events \in 0..MaxEvents
    /\ news \in [Captures -> SUBSET {"lost", "restart"}]
    /\ flags \in [Captures -> SUBSET {"lost", "restart"}]
    /\ good \subseteq Captures

FrameType ==
    /\ enabled \in BOOLEAN /\ active \in BOOLEAN
    /\ calls \in 0..MaxCalls /\ earned \in BOOLEAN
    /\ capture \in Captures \cup {None} /\ inflight \in BOOLEAN
    /\ declined \in BOOLEAN /\ retryDue \in BOOLEAN
    /\ rec \in [active : BOOLEAN, pending : BOOLEAN, due : BOOLEAN]
    /\ awaiting \in BOOLEAN
    /\ at \in {"out", "retire", "lost", "unlock", "poll", "settle", "compose", "stop",
               "join", "end"}
    /\ frame \in BOOLEAN

GraveType == grave \in [Slots -> [capture : Captures \cup {None}, left : 0..Grace]]

WorkerType ==
    /\ worker \in {"none", "up", "quit", "gone"}
    /\ queue \in Seq(Jobs)
    /\ wpc \in {"loop", "pumped", "create", "publish", "destroy", "orphan",
               "exit"}
    /\ hand \in Captures \cup {None}
    /\ result \in [done : BOOLEAN, capture : Captures \cup {None}]

PumpType ==
    /\ watch \in BOOLEAN /\ unlockSeen \in BOOLEAN
    /\ conn \in BOOLEAN /\ signal \in BOOLEAN /\ heard \in BOOLEAN

TypeOK ==
    /\ live \subseteq Captures /\ gpu \in [Captures -> 0..InFlight]
    /\ DesktopType /\ FrameType /\ GraveType /\ WorkerType /\ PumpType

Init ==
    /\ locked = FALSE /\ events = MaxEvents
    /\ news = [c \in Captures |-> {}] /\ flags = [c \in Captures |-> {}]
    /\ good = {} /\ live = {} /\ gpu = [c \in Captures |-> 0]
    /\ enabled = FALSE /\ active = TRUE /\ calls = 0 /\ earned = FALSE
    /\ capture = None /\ inflight = FALSE /\ declined = FALSE /\ retryDue = TRUE
    /\ rec = NoLoss /\ awaiting = FALSE
    /\ grave = [s \in Slots |-> Empty]
    /\ at = "out" /\ frame = FALSE
    /\ worker = "none" /\ queue = <<>> /\ wpc = "loop" /\ hand = None
    /\ result = NoResult
    /\ watch = FALSE /\ unlockSeen = FALSE /\ conn = FALSE /\ signal = FALSE
    /\ heard = FALSE

-----------------------------------------------------------------------------
(* Who holds a capture.                                                     *)

Resting  == {grave[s].capture : s \in Slots} \ {None}
Queued   == {queue[i].capture : i \in 1..Len(queue)} \ {None}
Stopped  == IF wpc \in {"destroy", "orphan"} THEN {hand} ELSE {}
InHand   == IF wpc \in {"publish", "destroy", "orphan"} THEN {hand} \ {None} ELSE {}
Started  == {result.capture} \ {None}
Shown    == {capture} \ {None}

\* An allocation: identities are alike, the first free one stands for any.
Fresh == CHOOSE c \in Captures : c \notin live

-----------------------------------------------------------------------------
(* The desktop (external).                                                  *)

\* What happens to a capture that was handed back is read by nobody.
Read == (Shown \cup Started \cup InHand) \ Stopped

Event(next) == events > 0 /\ events' = events - next
DesktopOnly == UNCHANGED <<live, gpu, wishes, start, recovery, grave, place, jobs>>

\* The session locks: GNOME closes every ScreenCast session and disables the
\* extension, so that no frame is excluded any more.
Lock ==
    /\ ~locked /\ Event(1) /\ locked' = TRUE
    /\ news' = [c \in Captures |-> IF c \in Read THEN news[c] \cup {"lost"} ELSE {}]
    /\ good' = {} /\ UNCHANGED <<flags, pump>> /\ DesktopOnly

Unlock ==
    /\ locked /\ locked' = FALSE /\ signal' = (signal \/ conn)
    /\ UNCHANGED <<events, news, flags, good, watch, unlockSeen, conn, heard>>
    /\ DesktopOnly

LayoutChanges ==
    /\ Event(1)
    /\ news' = [c \in Captures |-> IF c \in Read THEN news[c] \cup {"restart"} ELSE {}]
    /\ UNCHANGED <<locked, flags, good, pump>> /\ DesktopOnly

StreamFails(c) ==
    /\ c \in Read /\ Event(1) /\ flags' = [flags EXCEPT ![c] = @ \cup {"lost"}]
    /\ UNCHANGED <<locked, news, good, pump>> /\ DesktopOnly

FrameArrives(c) ==
    /\ c \in Read \ good /\ ~locked /\ "lost" \notin news[c] \cup flags[c]
    /\ good' = good \cup {c}
    /\ UNCHANGED <<locked, events, news, flags, pump>> /\ DesktopOnly

\* One second after a restart; the recovery's wait.
RetryDue ==
    /\ ~retryDue /\ retryDue' = TRUE
    /\ UNCHANGED <<desktop, live, gpu, wishes, capture, inflight, declined, recovery, 
                   grave, place, jobs, pump>>

WaitOver ==
    /\ ~rec.due /\ rec' = [rec EXCEPT !.due = TRUE]
    /\ UNCHANGED <<desktop, live, gpu, wishes, start, awaiting, grave, place, jobs,
                   pump>>

-----------------------------------------------------------------------------
(* Calls of the frame thread into the worker, each one critical section.    *)

Full == Len(queue) = QueueSize

\* post of a JOB_CREATE: a full queue drops it.
RequestCreate == queue' = IF Full THEN queue ELSE Append(queue, Create)

\* post of a JOB_DESTROY: a full queue stops the capture in line.
Retire(c) ==
    /\ queue' = IF Full THEN queue ELSE Append(queue, Destroy(c))
    /\ live' = IF Full THEN live \ {c} ELSE live

WatchUnlock(on) ==
    IF worker = "none" \/ watch = on THEN UNCHANGED <<watch, unlockSeen>>
    ELSE watch' = on /\ unlockSeen' = FALSE

\* Mutant: a capture handed back is stopped at once.
Bury_AtOnce(c) == Retire(c) /\ UNCHANGED grave

\* dp_capture_bury: a free slot, or the worker at once when there is none.
Bury(c) ==
    \/ \E s \in Slots :
          /\ grave[s].capture = None
          /\ \A t \in Slots : t < s => grave[t].capture # None
          /\ grave' = [grave EXCEPT ![s] = [capture |-> c, left |-> Grace]]
          /\ UNCHANGED <<queue, live>>
    \/ /\ \A s \in Slots : grave[s].capture # None
       /\ Retire(c) /\ UNCHANGED grave

KeepGrave == UNCHANGED <<grave, queue, live>>

-----------------------------------------------------------------------------
(* leia_bg_recovery_*: the schedule of the re-creation.  The wait after a      *)
(* failure doubles from 2 s to 30 s; here it is over at WaitOver.             *)

Begin == [NoLoss EXCEPT !.active = TRUE]

AttemptFailed(r) ==
    IF ~r.active THEN r
    ELSE [r EXCEPT !.pending = FALSE, !.due = r.pending]

Unlocked(r, attemptInFlight) ==
    IF ~r.active THEN r
    ELSE IF attemptInFlight THEN [r EXCEPT !.pending = TRUE]
    ELSE [r EXCEPT !.due = TRUE]

Due(r) == ~r.active \/ r.due

-----------------------------------------------------------------------------
(* dp_capture_reconcile.                                                    *)

Wanted == enabled /\ active

Expired(g) == {s \in Slots : g[s].capture # None /\ g[s].left = 0}

\* Mutant: a rested capture is never handed to the worker.
AfterAge_Forgets(g, next) == next

\* Where reconcile starts, once the graveyard g has aged.
AfterAge(g, next) == IF Expired(g) = {} THEN next ELSE "retire"

\* process_atlas: the fence of an older frame was waited for; the graveyard ages.
ProcessAtlas ==
    /\ at = "out" /\ frame' = TRUE /\ calls' = 0
    /\ gpu' = [c \in Captures |-> IF gpu[c] = 0 THEN 0 ELSE gpu[c] - 1]
    /\ grave' = [s \in Slots |-> IF grave[s].capture = None THEN Empty
                                 ELSE [grave[s] EXCEPT !.left = @ - 1]]
    /\ at' = AfterAge(grave', "lost")
    /\ UNCHANGED <<desktop, live, enabled, active, earned, start, recovery, jobs,
                   pump>>

\* A buried capture whose frames are over goes to the worker.
Expire(s) ==
    /\ at = "retire" /\ s \in Expired(grave)
    /\ Retire(grave[s].capture) /\ grave' = [grave EXCEPT ![s] = Empty]
    /\ at' = AfterAge(grave', IF frame THEN "lost" ELSE "stop")
    /\ UNCHANGED <<desktop, gpu, wishes, start, recovery, frame, worker, wpc, hand,
                   result, pump>>

AfterUnlock == IF inflight THEN "poll" ELSE "settle"

\* The live capture was lost: bury it and start, or go on with, the recovery.
NoticeLoss ==
    /\ at = "lost"
    /\ IF Wanted /\ capture # None /\ "lost" \in flags[capture]
       THEN /\ rec' = IF rec.active THEN AttemptFailed(rec) ELSE Begin
            /\ Bury(capture) /\ capture' = None
            /\ awaiting' = FALSE /\ declined' = FALSE
            /\ WatchUnlock(TRUE)
       ELSE /\ KeepGrave /\ UNCHANGED <<rec, capture, awaiting, declined, watch, unlockSeen>>
    /\ at' = IF rec'.active THEN "unlock" ELSE AfterUnlock
    /\ UNCHANGED <<desktop, gpu, wishes, inflight, retryDue, frame, worker, wpc,
                   hand, result, conn, signal, heard>>

\* take_unlock: asked, and the flag cleared, whenever a recovery is active.
TakeUnlock ==
    /\ at = "unlock" /\ at' = AfterUnlock /\ unlockSeen' = FALSE
    /\ rec' = IF unlockSeen /\ ~awaiting /\ capture = None
              THEN Unlocked(rec, inflight) ELSE rec
    /\ UNCHANGED <<desktop, live, gpu, wishes, start, awaiting, grave, frame, jobs,
                   watch, conn, signal, heard>>

\* Mutant: the result's pointer is not cleared.
Claim_Keeps ==
    /\ inflight' = FALSE /\ result' = [result EXCEPT !.done = FALSE]
    /\ IF result.capture # None /\ Wanted /\ capture = None
       THEN capture' = result.capture /\ awaiting' = (awaiting \/ rec.active)
       ELSE UNCHANGED <<capture, awaiting>>
    /\ KeepGrave /\ UNCHANGED <<rec, declined>>

\* Mutant: every failed start counts as declined.
Claim_Declines ==
    /\ inflight' = FALSE /\ result' = NoResult
    /\ LET c == result.capture IN
       IF c = None THEN declined' = TRUE /\ KeepGrave /\ UNCHANGED <<rec, capture, awaiting>>
       ELSE IF Wanted /\ capture = None
       THEN capture' = c /\ awaiting' = (awaiting \/ rec.active)
            /\ KeepGrave /\ UNCHANGED <<rec, declined>>
       ELSE Bury(c) /\ UNCHANGED <<rec, declined, capture, awaiting>>

\* poll_created: the finished start is a failed attempt, a refusal, the live
\* capture, or one that nobody wants any more.
Claim ==
    /\ inflight' = FALSE /\ result' = NoResult
    /\ LET c == result.capture IN
       IF c = None
       THEN /\ rec' = AttemptFailed(rec)
            /\ declined' = (declined \/ ~rec.active)
            /\ KeepGrave /\ UNCHANGED <<capture, awaiting>>
       ELSE IF Wanted /\ capture = None
       THEN /\ capture' = c /\ awaiting' = (awaiting \/ rec.active)
            /\ KeepGrave /\ UNCHANGED <<rec, declined>>
       ELSE Bury(c) /\ UNCHANGED <<rec, declined, capture, awaiting>>

PollCreated ==
    /\ at = "poll" /\ at' = "settle"
    /\ IF result.done THEN Claim
       ELSE KeepGrave /\ UNCHANGED <<inflight, result, rec, declined, capture, awaiting>>
    /\ UNCHANGED <<desktop, gpu, wishes, retryDue, frame, worker, wpc, hand, pump>>

Return == IF frame THEN "compose" ELSE "out"

\* Mutant: the recovery ends, its watch goes on.
GoIdle_KeepsWatch ==
    /\ at = "settle" /\ ~Wanted /\ at' = Return
    /\ IF capture = None THEN KeepGrave ELSE Bury(capture)
    /\ capture' = None /\ rec' = NoLoss /\ awaiting' = FALSE
    /\ UNCHANGED <<desktop, gpu, wishes, inflight, declined, retryDue, frame, worker, wpc,
                   hand, result, pump>>

\* Nothing is wanted: bury the live capture, end the recovery and its watch.
GoIdle ==
    /\ at = "settle" /\ ~Wanted /\ at' = Return
    /\ IF capture = None THEN KeepGrave ELSE Bury(capture)
    /\ capture' = None
    /\ IF rec.active THEN rec' = NoLoss /\ awaiting' = FALSE /\ WatchUnlock(FALSE)
       ELSE UNCHANGED <<rec, awaiting, watch, unlockSeen>>
    /\ UNCHANGED <<desktop, gpu, wishes, inflight, declined, retryDue, frame, worker, wpc,
                   hand, result, conn, signal, heard>>

\* Mutant: a start is posted while one is in flight.
MayPost_TwoStarts == capture = None /\ ~declined /\ retryDue /\ Due(rec)

\* Mutant: a start is posted beside the live capture.
MayPost_Beside == ~inflight /\ ~declined /\ retryDue /\ Due(rec)

MayPost == capture = None /\ ~inflight /\ ~declined /\ retryDue /\ Due(rec)

PostStart ==
    /\ at = "settle" /\ Wanted /\ MayPost /\ at' = Return
    /\ worker' = IF worker = "none" THEN "up" ELSE worker
    /\ RequestCreate /\ inflight' = TRUE /\ earned' = TRUE
    /\ UNCHANGED <<desktop, live, gpu, enabled, active, calls, capture, declined,
                   retryDue, recovery, grave, frame, wpc, hand, result, pump>>

PostNone ==
    /\ at = "settle" /\ Wanted /\ ~MayPost /\ at' = Return
    /\ UNCHANGED <<desktop, live, gpu, wishes, start, recovery, grave, frame, jobs,
                   pump>>

-----------------------------------------------------------------------------
(* compose_pre_weave.  A frame of one view is blitted flat and skips it.    *)

LeaveFrame == at' = "out" /\ frame' = FALSE

\* Not transparent, a flat frame, or no capture: nothing of it is sampled.
SkipCompose ==
    /\ at = "compose" /\ LeaveFrame
    /\ UNCHANGED <<desktop, live, gpu, wishes, start, recovery, grave, jobs, pump>>

NeedsRestart == "restart" \in flags[capture] /\ retryDue

\* The panel moved under the recorded area: bury the capture and start anew,
\* once a second.
Restart ==
    /\ at = "compose" /\ Wanted /\ capture # None /\ NeedsRestart /\ LeaveFrame
    /\ Bury(capture) /\ capture' = None
    /\ declined' = FALSE /\ retryDue' = FALSE
    /\ UNCHANGED <<desktop, gpu, wishes, inflight, recovery, worker, wpc, hand, result,
                   pump>>

\* leia_bg_capture_linux_poll: its mutter_pump reads the waiting signals first.
Trusted(c) == c \in good /\ flags'[c] = {}

\* A trusted frame is sampled, and ends a recovery.
Sample ==
    /\ at = "compose" /\ Wanted /\ capture # None /\ ~NeedsRestart /\ LeaveFrame
    /\ flags' = [flags EXCEPT ![capture] = @ \cup news[capture]]
    /\ news' = [news EXCEPT ![capture] = {}]
    /\ IF Trusted(capture)
       THEN /\ gpu' = [gpu EXCEPT ![capture] = InFlight]
            /\ IF rec.active /\ awaiting
               THEN rec' = NoLoss /\ awaiting' = FALSE /\ WatchUnlock(FALSE)
               ELSE UNCHANGED <<rec, awaiting, watch, unlockSeen>>
       ELSE UNCHANGED <<gpu, rec, awaiting, watch, unlockSeen>>
    /\ UNCHANGED <<locked, events, good, live, wishes, start, grave, jobs, conn, signal,
                   heard>>

-----------------------------------------------------------------------------
(* The other entry points of the frame thread.                              *)

Setter == at = "out" /\ calls < MaxCalls /\ calls' = calls + 1 /\ at' = "lost"

SetTransparentBackground(want) ==
    /\ Setter /\ enabled # want /\ enabled' = want
    /\ declined' = FALSE /\ earned' = (earned /\ ~want)
    /\ UNCHANGED <<desktop, live, gpu, active, capture, inflight, retryDue, recovery,
                   grave, frame, jobs, pump>>

SetTransparencyActive(on) ==
    /\ Setter /\ active # on /\ active' = on
    /\ declined' = (declined /\ ~on) /\ earned' = (earned /\ ~on)
    /\ UNCHANGED <<desktop, live, gpu, enabled, capture, inflight, retryDue, recovery,
                   grave, frame, jobs, pump>>

\* leia_lnx_dp_destroy; the device is idle by then.
DestroyDp ==
    /\ at = "out"
    /\ IF capture = None THEN UNCHANGED <<queue, live>> ELSE Retire(capture)
    /\ capture' = None /\ gpu' = [c \in Captures |-> 0]
    /\ grave' = [s \in Slots |-> [grave[s] EXCEPT !.left = 0]]
    /\ at' = AfterAge(grave', "stop")
    /\ UNCHANGED <<desktop, wishes, inflight, declined, retryDue, recovery, frame,
                   worker, wpc, hand, result, pump>>

StopWorker ==
    /\ at = "stop"
    /\ at' = IF worker = "none" THEN "end" ELSE "join"
    /\ worker' = IF worker = "none" THEN "none" ELSE "quit"
    /\ UNCHANGED <<desktop, live, gpu, wishes, start, recovery, grave, frame, queue,
                   wpc, hand, result, pump>>

Joined ==
    /\ at = "join" /\ wpc = "exit" /\ at' = "end" /\ worker' = "gone"
    /\ UNCHANGED <<desktop, live, gpu, wishes, start, recovery, grave, frame, queue,
                   wpc, hand, result, pump>>

FrameThread ==
    \/ ProcessAtlas \/ (\E s \in Slots : Expire(s))
    \/ NoticeLoss \/ TakeUnlock \/ PollCreated \/ GoIdle \/ PostStart \/ PostNone
    \/ SkipCompose \/ Restart \/ Sample \/ StopWorker \/ Joined

-----------------------------------------------------------------------------
(* worker_main.                                                             *)

Running == worker \in {"up", "quit"}
DpOnly  == UNCHANGED <<gpu, wishes, start, recovery, grave, place, worker>>

TakeJob ==
    /\ Running /\ wpc = "loop" /\ queue # <<>>
    /\ queue' = Tail(queue) /\ wpc' = Head(queue).type /\ hand' = Head(queue).capture
    /\ UNCHANGED <<desktop, live, result, pump>> /\ DpOnly

DestroyCapture ==
    /\ wpc = "destroy" /\ wpc' = "loop" /\ hand' = None
    /\ live' = live \ {hand}
    /\ news' = [news EXCEPT ![hand] = {}] /\ flags' = [flags EXCEPT ![hand] = {}]
    /\ good' = good \ {hand}
    /\ UNCHANGED <<locked, events, queue, result, pump>> /\ DpOnly

CreateSucceeds ==
    /\ wpc = "create" /\ ~locked /\ live # Captures
    /\ hand' = Fresh /\ live' = live \cup {Fresh} /\ wpc' = "publish"
    /\ UNCHANGED <<desktop, queue, result, pump>> /\ DpOnly

\* Mutant: a refused start is not reported.
CreateFails_Silent ==
    /\ wpc = "create" /\ Event(IF locked THEN 0 ELSE 1)
    /\ hand' = None /\ wpc' = "loop"
    /\ UNCHANGED <<locked, news, flags, good, live, queue, result, pump>> /\ DpOnly

\* No extension behind the shield; or the compositor refuses.
CreateFails ==
    /\ wpc = "create" /\ Event(IF locked THEN 0 ELSE 1)
    /\ hand' = None /\ wpc' = "publish"
    /\ UNCHANGED <<locked, news, flags, good, live, queue, result, pump>> /\ DpOnly

\* An unclaimed older result is stopped first.
Publish ==
    /\ wpc = "publish" /\ wpc' = "loop" /\ hand' = None
    /\ live' = live \ Started
    /\ result' = [done |-> TRUE, capture |-> hand]
    /\ UNCHANGED <<desktop, queue, pump>> /\ DpOnly

\* No job: watch_service closes, opens or reads the watch connection, outside
\* the lock; opening may fail and an open connection may break.
Service(wanted, unlocked) ==
    /\ worker = "up" /\ wpc = "loop" /\ queue = <<>>
    /\ wpc' = "pumped" /\ conn' = wanted /\ signal' = FALSE /\ heard' = unlocked
    /\ UNCHANGED <<desktop, live, queue, hand, result, watch, unlockSeen>> /\ DpOnly

WatchService ==
    \/ ~watch /\ conn /\ Service(FALSE, FALSE)
    \/ watch /\ ~conn /\ \E opened \in BOOLEAN : Service(opened, FALSE)
    \/ watch /\ conn /\ (Service(FALSE, FALSE) \/ Service(TRUE, signal))

Pumped ==
    /\ wpc = "pumped" /\ wpc' = "loop"
    /\ unlockSeen' = (unlockSeen \/ heard) /\ heard' = FALSE
    /\ UNCHANGED <<desktop, live, queue, hand, result, watch, conn, signal>> /\ DpOnly

\* Quitting with nothing left to do: a start nobody will claim is stopped here.
Quit ==
    /\ worker = "quit" /\ wpc = "loop" /\ queue = <<>> /\ wpc' = "orphan"
    /\ hand' = result.capture /\ result' = NoResult
    /\ UNCHANGED <<desktop, live, queue, pump>> /\ DpOnly

\* Mutant: the unclaimed start is left running.
StopOrphan_Leaks ==
    /\ wpc = "orphan" /\ wpc' = "exit" /\ hand' = None
    /\ conn' = FALSE /\ signal' = FALSE
    /\ UNCHANGED <<desktop, live, queue, result, watch, unlockSeen, heard>> /\ DpOnly

StopOrphan ==
    /\ wpc = "orphan" /\ wpc' = "exit" /\ hand' = None /\ live' = live \ {hand}
    /\ conn' = FALSE /\ signal' = FALSE
    /\ UNCHANGED <<desktop, queue, result, watch, unlockSeen, heard>> /\ DpOnly

WorkerThread ==
    \/ TakeJob \/ DestroyCapture \/ CreateSucceeds \/ CreateFails \/ Publish
    \/ WatchService \/ Pumped \/ Quit \/ StopOrphan

-----------------------------------------------------------------------------
Environment ==
    \/ Lock \/ Unlock \/ LayoutChanges \/ RetryDue \/ WaitOver
    \/ \E c \in Captures : StreamFails(c) \/ FrameArrives(c)

Calls ==
    \/ \E b \in BOOLEAN : SetTransparentBackground(b) \/ SetTransparencyActive(b)
    \/ DestroyDp

Next == FrameThread \/ Calls \/ WorkerThread \/ Environment

\* Frames go on coming until the destroy, the worker is scheduled, clocks run,
\* mutter delivers frames, and the application weaves again and again.
Fairness ==
    /\ WF_vars(FrameThread) /\ WF_vars(WorkerThread)
    /\ WF_vars(RetryDue) /\ WF_vars(WaitOver)
    /\ \A c \in Captures : WF_vars(FrameArrives(c))
    /\ SF_vars(Restart \/ Sample)

Spec == Init /\ [][Next]_vars /\ Fairness

-----------------------------------------------------------------------------
(* Safety.                                                                  *)

Job(type) == {i \in 1..Len(queue) : queue[i].type = type}

\* A capture that exists has one holder: the frame thread, a graveyard slot, a
\* stop in the queue, the worker, or the result waiting to be claimed.  Nothing
\* is stopped twice and no ScreenCast session is left running without a holder.
OneHolder ==
    /\ live = Shown \cup Resting \cup Queued \cup InHand \cup Started
    /\ Shown \cap (Resting \cup Queued \cup InHand \cup Started) = {}
    /\ Resting \cap (Queued \cup InHand \cup Started) = {}
    /\ Queued \cap (InHand \cup Started) = {} /\ InHand \cap Started = {}
    /\ \A s, t \in Slots :
          grave[s].capture = grave[t].capture /\ grave[s].capture # None => s = t
    /\ \A i, j \in Job("destroy") : queue[i].capture = queue[j].capture => i = j

\* A capture some frame on the GPU may sample is neither on its way to be
\* stopped nor gone: it is shown, or it rests in the graveyard.
SampledNotStopped ==
    \A c \in Captures : gpu[c] > 0 => c \in Shown \cup Resting

\* bg_create_inflight says that one start is queued, running, or waiting to be
\* claimed, and never more: were it left set, no capture would start again.
InflightIsOneStart ==
    wpc \notin {"orphan", "exit"} =>
        Cardinality(Job("create")) + (IF wpc = "create" THEN 1 ELSE 0)
            + (IF wpc = "publish" THEN 1 ELSE 0) + (IF result.done THEN 1 ELSE 0)
          = IF inflight THEN 1 ELSE 0

\* The inline paths are never taken: a full job queue "cannot happen" and a full
\* graveyard is "not a real pattern".
NoInlineStop ==
    /\ Len(queue) < QueueSize
    /\ capture # None \/ (at = "poll" /\ Started # {})
          => \E s \in Slots : grave[s].capture = None

\* The worker watches for the unlock exactly while a lost capture is missed.
WatchedWhileLost == watch = rec.active

\* Once the display processor is gone, every capture has been stopped.
NothingLeft == at = "end" => live = {} /\ wpc \in {"loop", "exit"}

\* A start that was declined was posted by the present activation: "a new
\* activation earns a new attempt".
ActivationEarnsAttempt == declined => earned

-----------------------------------------------------------------------------
(* Liveness and refinement.                                                 *)

\* If the session does not stay locked, every recovery ends: a trusted frame is
\* shown again, or nothing wants a capture any more.
RecoveryEnds == <>[]~locked => [](rec.active => <>~(rec.active /\ at # "end"))

\* A window that stays transparent gets its capture, or the start was declined.
CaptureComes ==
    <>[](Wanted /\ ~locked /\ worker # "quit" /\ at # "end")
        => []<>(declined \/ (capture # None /\ capture \in good))

Stopping  == Queued \cup Stopped
Beginning == Started \cup (InHand \ Stopped)

stageOf == [c \in Captures |->
    CASE c \in Shown -> "shown"
      [] c \in Resting -> "resting"
      [] c \in Stopping -> "stopping"
      [] c \in Beginning -> "started"
      [] OTHER -> "none"]

Life == INSTANCE CaptureLifecycle
            WITH stage <- stageOf, busy <- {c \in Captures : gpu[c] > 0}

\* What the threads do is what CaptureLifecycle promises.
Lifecycle == Life!Spec
=============================================================================
