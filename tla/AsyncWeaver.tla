---------------------------- MODULE AsyncWeaver ----------------------------
(***************************************************************************)
(* The life of one D3D11 weaver, struct leiasr_d3d11 of                    *)
(* src/src/drv_leia/leia_sr_d3d11.cpp: created by a detached worker while  *)
(* the display processor flat-blits (#144), rebuilt in place when the SR   *)
(* platform restarts (#158), its lens switched by a short-lived thread fed *)
(* through a mailbox (#215, runtime#939), and freed by whichever thread    *)
(* the exchange of async_state left it to.                                 *)
(*                                                                         *)
(* Callers are the threads that call the leiasr_d3d11_* entry points;      *)
(* Workers are the identities of create / reconnect worker threads, at     *)
(* least two where a second worker is to be a state of the model.  Every   *)
(* atomic access that another thread can tell apart is a step; a call into *)
(* the SDK, with the look at the object's pointer right before it, is one. *)
(* lens_quit is left out: it only ends the 2D dwell early, and here the    *)
(* dwell may end at any step.                                              *)
(***************************************************************************)
EXTENDS Integers, FiniteSets

CONSTANTS
    Callers,    \* threads inside the entry points
    Workers,    \* identities of create / reconnect worker threads
    Windows,    \* window handles
    NoWindow,   \* handle 0
    MaxBoots    \* bound: incarnations of the SR platform

ASSUME WeaverAssumption ==
    /\ Callers \cap Workers = {} /\ Workers # {}
    /\ NoWindow \notin Windows
    /\ MaxBoots \in Nat \ {0}

Threads == Callers \cup Workers
Modes   == {"2D", "3D"}
Wishes  == Modes \cup {"none"}
Handles == Windows \cup {NoWindow}

\* What leia_sr_liveness_platform_generation_ex may answer: SR's own instance id or the
\* service process's identity, of one incarnation; 0 is Unknown.
Token(source, boot) == [source |-> source, boot |-> boot]
Unknown == Token("none", 0)
TokensOf(boot) == {Token("sdk", boot), Token("scm", boot)}
Tokens == {Unknown} \cup UNION {TokensOf(b) : b \in 1..MaxBoots}

VARIABLES
    up, boots,      \* environment: the SR platform runs; its incarnation
    recent,         \* it stopped or started less than a second ago
    handle,         \* the display processor still holds the pointer
    freed,          \* the struct was deleted
    state,          \* async_state
    weaver,         \* window the SDK weaver is bound to, NoWindow = no SDK objects
    lens,           \* what the lens object was last told; "absent" = no lens
    conn,           \* the platform incarnation the SDK objects belong to
    generation,     \* platform_generation, the token stamped at create
    bound,          \* bound_hwnd
    pendingHwnd,    \* pending_hwnd
    pendingWish,    \* pending_lens_wish
    lastWish,       \* last_lens_wish
    asyncLens,      \* async_lens
    mailbox,        \* lens_mailbox
    busy,           \* lens_worker_busy
    lpc, lwish,     \* the lens thread: place ("none" = not joinable), wish in hand
    pc, arg,        \* per thread: place; the argument of its call, or a value it read
    rebuild,        \* the last worker started is a reconnect's
    rpc             \* destroy past its hand-off (the caller, or the reaper thread)

platformVars == <<up, boots, recent>>
owner        == <<handle, freed, state>>
sdk          == <<weaver, lens, conn>>
records      == <<bound, pendingHwnd, pendingWish, lastWish, asyncLens>>
lensBox      == <<mailbox, busy>>
lensThread   == <<lpc, lwish>>
threadVars   == <<pc, arg, rebuild>>
vars == <<platformVars, owner, sdk, generation, records, lensBox, lensThread,
          threadVars, rpc>>

PostPlaces   == {"claim", "spawn", "fallTake", "fallSet"}
WindowPlaces == {"winCall", "winRecord"}
CallerPlaces == {"idle", "reqLoad", "reqStore", "reqRecheck", "reqTake", "reqReady", "reqSet",
                 "post", "winLoad", "winStore", "winRecheck", "winTake", "winReady",
                 "pollLoad", "pollRead", "arm"} \cup PostPlaces \cup WindowPlaces
WorkerPlaces == {"idle", "seed", "seedStore", "teardown", "top", "create", "retry", "window",
                 "wish", "stamp", "publish", "count", "report", "join", "reap"}
                     \cup PostPlaces \cup WindowPlaces
LensPlaces   == {"none", "take", "dwell", "set", "call", "drop", "recheck", "reclaim",
                 "exited", "aborted"}

TypeOK ==
    /\ up \in BOOLEAN /\ boots \in 1..MaxBoots /\ recent \in BOOLEAN
    /\ handle \in BOOLEAN /\ freed \in BOOLEAN
    /\ state \in {"READY", "PENDING", "CANCELLED"}
    /\ weaver \in Handles /\ lens \in Modes \cup {"absent"}
    /\ conn \in 0..MaxBoots /\ generation \in Tokens
    /\ bound \in Windows /\ pendingHwnd \in Handles
    /\ pendingWish \in Wishes /\ lastWish \in Wishes /\ asyncLens \in BOOLEAN
    /\ mailbox \in Wishes /\ busy \in BOOLEAN
    /\ lpc \in LensPlaces /\ lwish \in Wishes
    /\ pc \in [Threads -> CallerPlaces \cup WorkerPlaces]
    /\ \A c \in Callers : pc[c] \in CallerPlaces
    /\ \A w \in Workers : pc[w] \in WorkerPlaces
    /\ arg \in [Threads -> Modes \cup Handles] /\ rebuild \in BOOLEAN
    /\ rpc \in {"none", "join", "teardown"}

-----------------------------------------------------------------------------
Goto(t, place) == pc' = [pc EXCEPT ![t] = place]

Arg(t, value) == arg' = [arg EXCEPT ![t] = value]

\* The caller's call is over, and its argument gone.
Return(c) == Goto(c, "idle") /\ Arg(c, NoWindow)

\* leia_sr_liveness_platform_generation_ex: the SDK's id, or the SCM probe when the SDK
\* does not answer; each is cached for a second, the id under the address of an SDK
\* instance, which the next instance may have again.  SR's id may outlive its platform.
PlatformGeneration ==
    IF recent THEN {Unknown} \cup UNION {TokensOf(b) : b \in 1..boots}
    ELSE IF up THEN TokensOf(boots)
    ELSE {Unknown, Token("sdk", boots)}

LensPresent == lens # "absent"

\* Mutant: an empty mailbox (-1) is applied like a wish.
LensSet_AnyWish(wish) == lens' = IF LensPresent THEN wish ELSE lens

\* lens_set, where a lens is present.
LensSet(wish) == lens' = IF LensPresent /\ wish \in Modes THEN wish ELSE lens

\* std::thread::join returns, or there is nothing to join.
LensJoinable == lpc \in {"none", "exited", "aborted"}

\* lens_thread_mtx: a poster that could not make a thread has it until it returns.
LensMutexFree == \A t \in Threads : pc[t] \notin {"fallTake", "fallSet"}

\* destroy_sdk_objects
NoObjects == weaver' = NoWindow /\ lens' = "absent" /\ conn' = 0

-----------------------------------------------------------------------------
\* The objects of a successful create_weaver_attempt against window h; whether
\* the panel has a switchable lens is the platform's answer.
CreatedFor(h, l) == weaver = h /\ lens = l /\ conn = boots

Init ==
    /\ up \in BOOLEAN /\ boots = 1 /\ recent = FALSE
    /\ handle = TRUE /\ freed = FALSE
    /\ bound \in Windows /\ pendingHwnd = NoWindow
    /\ pendingWish = "none" /\ lastWish = "none" /\ asyncLens \in BOOLEAN
    /\ mailbox = "none" /\ busy = FALSE /\ lpc = "none" /\ lwish = "none"
    /\ arg = [t \in Threads |-> NoWindow] /\ rebuild = FALSE
    /\ rpc = "none"
    /\ \/ /\ state = "PENDING"              \* leiasr_d3d11_create_async, _for_screen
          /\ weaver = NoWindow /\ lens = "absent" /\ conn = 0 /\ generation = Unknown
          /\ \E w \in Workers : pc = [t \in Threads |-> IF t = w THEN "top" ELSE "idle"]
       \/ /\ state = "READY" /\ up          \* leiasr_d3d11_create
          /\ \E l \in {"2D", "absent"} : CreatedFor(bound, l)
          /\ generation \in TokensOf(1)
          /\ pc = [t \in Threads |-> "idle"]

PlatformStops ==
    /\ up
    /\ up' = FALSE /\ recent' = TRUE
    /\ UNCHANGED <<boots, owner, sdk, generation, records, lensBox, lensThread,
                   threadVars, rpc>>

PlatformStarts ==
    /\ ~up
    /\ boots < MaxBoots
    /\ up' = TRUE /\ recent' = TRUE
    /\ boots' = boots + 1
    /\ UNCHANGED <<owner, sdk, generation, records, lensBox, lensThread, threadVars,
                   rpc>>

SecondPasses ==  \* kGenerationCacheMs
    /\ recent
    /\ recent' = FALSE
    /\ UNCHANGED <<up, boots, owner, sdk, generation, records, lensBox, lensThread,
                   threadVars, rpc>>

-----------------------------------------------------------------------------
(* leiasr_d3d11_request_display_mode.                                      *)

Request(c, wish) ==  \* last_lens_wish is stored before anything is read
    /\ handle /\ pc[c] = "idle"
    /\ lastWish' = wish
    /\ Goto(c, "reqLoad") /\ Arg(c, wish)
    /\ UNCHANGED <<platformVars, owner, sdk, generation, bound, pendingHwnd,
                   pendingWish, asyncLens, lensBox, lensThread, rebuild, rpc>>

RequestLoad(c) ==
    /\ pc[c] = "reqLoad"
    /\ Goto(c, IF state = "PENDING" THEN "reqStore" ELSE "reqReady")
    /\ UNCHANGED <<platformVars, owner, sdk, generation, records, lensBox,
                   lensThread, arg, rebuild, rpc>>

RequestStore(c) ==
    /\ pc[c] = "reqStore"
    /\ pendingWish' = arg[c]
    /\ Goto(c, "reqRecheck")
    /\ UNCHANGED <<platformVars, owner, sdk, generation, bound, pendingHwnd, lastWish,
                   asyncLens, lensBox, lensThread, arg, rebuild, rpc>>

RequestRecheck(c) ==
    /\ pc[c] = "reqRecheck"
    /\ IF state = "READY"
       THEN Goto(c, "reqTake") /\ UNCHANGED arg
       ELSE Return(c)
    /\ UNCHANGED <<platformVars, owner, sdk, generation, records, lensBox,
                   lensThread, rebuild, rpc>>

RequestTake(c) ==  \* pending_lens_wish.exchange(-1), applied on this thread
    /\ pc[c] = "reqTake"
    /\ pendingWish' = "none"
    /\ IF pendingWish # "none" /\ LensPresent
       THEN Goto(c, "reqSet") /\ Arg(c, pendingWish)
       ELSE Return(c)
    /\ UNCHANGED <<platformVars, owner, sdk, generation, bound, pendingHwnd,
                   lastWish, asyncLens, lensBox, lensThread, rebuild, rpc>>

RequestReady(c) ==  \* no lens: refused; async: through the mailbox; else a call here
    /\ pc[c] = "reqReady"
    /\ IF ~LensPresent THEN Return(c)
       ELSE Goto(c, IF asyncLens THEN "post" ELSE "reqSet") /\ UNCHANGED arg
    /\ UNCHANGED <<platformVars, owner, sdk, generation, records, lensBox,
                   lensThread, rebuild, rpc>>

RequestSet(c) ==
    /\ pc[c] = "reqSet"
    /\ LensSet(arg[c])
    /\ Return(c)
    /\ UNCHANGED <<platformVars, owner, weaver, conn, generation, records, lensBox,
                   lensThread, rebuild, rpc>>

-----------------------------------------------------------------------------
(* lens_post, on a caller's thread or the worker's.                        *)

\* Where lens_post returns to.
Posted(t) == Goto(t, IF t \in Workers THEN "stamp" ELSE "idle") /\ Arg(t, NoWindow)

Post(c) ==  \* lens_mailbox.store(wish): the latest wish wins
    /\ pc[c] = "post"
    /\ mailbox' = arg[c]
    /\ Goto(c, "claim")
    /\ UNCHANGED <<platformVars, owner, sdk, generation, records, busy, lensThread,
                   arg, rebuild, rpc>>

Claim(t) ==  \* lens_worker_busy.exchange(true)
    /\ pc[t] = "claim"
    /\ busy' = TRUE
    /\ IF busy THEN Posted(t) ELSE Goto(t, "spawn") /\ UNCHANGED arg
    /\ UNCHANGED <<platformVars, owner, sdk, generation, records, mailbox, lensThread,
                   rebuild, rpc>>

Spawn(t) ==  \* the previous lens thread is joined first
    /\ pc[t] = "spawn" /\ LensMutexFree /\ LensJoinable
    /\ lpc' = "take"
    /\ Posted(t)
    /\ UNCHANGED <<platformVars, owner, sdk, generation, records, lensBox, lwish,
                   rebuild, rpc>>

SpawnFails(t) ==  \* no thread: drop the claim, and make the call here
    /\ pc[t] = "spawn" /\ LensMutexFree /\ LensJoinable
    /\ lpc' = "none"
    /\ busy' = FALSE
    /\ Goto(t, "fallTake")
    /\ UNCHANGED <<platformVars, owner, sdk, generation, records, mailbox, lwish, arg,
                   rebuild, rpc>>

FallTake(t) ==  \* what is in the mailbox by now
    /\ pc[t] = "fallTake"
    /\ mailbox' = "none"
    /\ IF mailbox = "none" THEN Posted(t) ELSE Goto(t, "fallSet") /\ Arg(t, mailbox)
    /\ UNCHANGED <<platformVars, owner, sdk, generation, records, busy, lensThread,
                   rebuild, rpc>>

FallSet(t) ==
    /\ pc[t] = "fallSet"
    /\ LensSet(arg[t])
    /\ Posted(t)
    /\ UNCHANGED <<platformVars, owner, weaver, conn, generation, records, lensBox,
                   lensThread, rebuild, rpc>>

-----------------------------------------------------------------------------
(* lens_worker_body.  ~freed: the destroys join this thread before they    *)
(* delete, and deleting the struct of a thread nobody joined ends the      *)
(* process (std::terminate in ~thread), so none of it runs afterwards.     *)

LensGoto(place) == lpc' = place

\* Both exchanges of the mailbox: the first one of a round and the one after a call.
LensTake ==
    /\ ~freed /\ lpc = "take"
    /\ mailbox' = "none"
    /\ lwish' = mailbox
    /\ LensGoto(CASE mailbox = "none" -> "drop" [] mailbox = "2D" -> "dwell"
                  [] OTHER -> "set")
    /\ UNCHANGED <<platformVars, owner, sdk, generation, records, busy, threadVars, rpc>>

LensDwell ==  \* one turn of the dwell: a 3D wish replaces the 2D one in hand
    /\ ~freed /\ lpc = "dwell"
    /\ mailbox # "none"
    /\ mailbox' = "none"
    /\ lwish' = mailbox
    /\ LensGoto(IF mailbox = "3D" THEN "set" ELSE "dwell")
    /\ UNCHANGED <<platformVars, owner, sdk, generation, records, busy, threadVars, rpc>>

LensDwelt ==  \* the deadline passed, or lens_quit
    /\ ~freed /\ lpc = "dwell"
    /\ LensGoto("set")
    /\ UNCHANGED <<platformVars, owner, sdk, generation, records, lensBox, lwish,
                   threadVars, rpc>>

LensLooks ==  \* lens_present; what it saw may be gone when the call is made
    /\ ~freed /\ lpc = "set"
    /\ LensGoto(IF LensPresent THEN "call" ELSE "take")
    /\ lwish' = IF LensPresent THEN lwish ELSE "none"
    /\ UNCHANGED <<platformVars, owner, sdk, generation, records, lensBox, threadVars,
                   rpc>>

LensCall ==
    /\ ~freed /\ lpc = "call"
    /\ LensSet(lwish)
    /\ lwish' = "none"
    /\ LensGoto("take")
    /\ UNCHANGED <<platformVars, owner, weaver, conn, generation, records, lensBox,
                   threadVars, rpc>>

LensAborts ==  \* an exception got past the call's own handler
    /\ ~freed /\ lpc \in {"dwell", "set", "call"}
    /\ busy' = FALSE
    /\ lwish' = "none"
    /\ LensGoto("aborted")
    /\ UNCHANGED <<platformVars, owner, sdk, generation, records, mailbox, threadVars,
                   rpc>>

LensDrop ==
    /\ ~freed /\ lpc = "drop"
    /\ busy' = FALSE
    /\ LensGoto("recheck")
    /\ UNCHANGED <<platformVars, owner, sdk, generation, records, mailbox, lwish,
                   threadVars, rpc>>

\* Mutant: the thread leaves without looking at the mailbox again.
LensRecheck_Leaves ==
    /\ ~freed /\ lpc = "recheck"
    /\ LensGoto("exited")
    /\ UNCHANGED <<platformVars, owner, sdk, generation, records, lensBox, lwish,
                   threadVars, rpc>>

LensRecheck ==  \* a wish posted since the last exchange saw busy and did not spawn
    /\ ~freed /\ lpc = "recheck"
    /\ LensGoto(IF mailbox = "none" THEN "exited" ELSE "reclaim")
    /\ UNCHANGED <<platformVars, owner, sdk, generation, records, lensBox, lwish,
                   threadVars, rpc>>

\* Mutant: the claim is stored, not exchanged.
LensReclaim_Stores ==
    /\ ~freed /\ lpc = "reclaim"
    /\ busy' = TRUE
    /\ LensGoto("take")
    /\ UNCHANGED <<platformVars, owner, sdk, generation, records, mailbox, lwish,
                   threadVars, rpc>>

LensReclaim ==  \* ... unless its poster took over meanwhile
    /\ ~freed /\ lpc = "reclaim"
    /\ busy' = TRUE
    /\ LensGoto(IF busy THEN "exited" ELSE "take")
    /\ UNCHANGED <<platformVars, owner, sdk, generation, records, mailbox, lwish,
                   threadVars, rpc>>

-----------------------------------------------------------------------------
(* leiasr_d3d11_set_window.                                                *)

SetWindow(c, h) ==
    /\ handle /\ pc[c] = "idle"
    /\ Goto(c, "winLoad") /\ Arg(c, h)
    /\ UNCHANGED <<platformVars, owner, sdk, generation, records, lensBox, lensThread,
                   rebuild, rpc>>

SetWindowLoad(c) ==
    /\ pc[c] = "winLoad"
    /\ Goto(c, IF state = "PENDING" THEN "winStore" ELSE "winReady")
    /\ UNCHANGED <<platformVars, owner, sdk, generation, records, lensBox, lensThread,
                   arg, rebuild, rpc>>

SetWindowStore(c) ==
    /\ pc[c] = "winStore"
    /\ pendingHwnd' = arg[c]
    /\ Goto(c, "winRecheck")
    /\ UNCHANGED <<platformVars, owner, sdk, generation, bound, pendingWish, lastWish,
                   asyncLens, lensBox, lensThread, arg, rebuild, rpc>>

SetWindowRecheck(c) ==
    /\ pc[c] = "winRecheck"
    /\ IF state = "READY"
       THEN Goto(c, "winTake") /\ UNCHANGED arg
       ELSE Return(c)
    /\ UNCHANGED <<platformVars, owner, sdk, generation, records, lensBox,
                   lensThread, rebuild, rpc>>

SetWindowTake(c) ==  \* pending_hwnd.exchange(0)
    /\ pc[c] = "winTake"
    /\ pendingHwnd' = NoWindow
    /\ IF pendingHwnd = NoWindow THEN Return(c)
       ELSE Goto(c, "winCall") /\ Arg(c, pendingHwnd)
    /\ UNCHANGED <<platformVars, owner, sdk, generation, bound, pendingWish, lastWish,
                   asyncLens, lensBox, lensThread, rebuild, rpc>>

SetWindowReady(c) ==  \* w_ready
    /\ pc[c] = "winReady"
    /\ IF state = "READY" THEN Goto(c, "winCall") /\ UNCHANGED arg ELSE Return(c)
    /\ UNCHANGED <<platformVars, owner, sdk, generation, records, lensBox, lensThread,
                   rebuild, rpc>>

\* w_set_window, on a caller's thread or the worker's: where it returns to.
Rebound(t) == Goto(t, IF t \in Workers THEN "wish" ELSE "idle") /\ Arg(t, NoWindow)

WindowCall(t) ==  \* the SDK call, on a weaver there is
    /\ pc[t] = "winCall" /\ weaver # NoWindow
    /\ weaver' = arg[t]
    /\ Goto(t, "winRecord")
    /\ UNCHANGED <<platformVars, owner, lens, conn, generation, records, lensBox,
                   lensThread, arg, rebuild, rpc>>

WindowRefused(t) ==  \* no weaver, or the SDK says no
    /\ pc[t] = "winCall"
    /\ Rebound(t)
    /\ UNCHANGED <<platformVars, owner, sdk, generation, records, lensBox, lensThread,
                   rebuild, rpc>>

WindowRecord(t) ==  \* bound_hwnd.store
    /\ pc[t] = "winRecord"
    /\ bound' = arg[t]
    /\ Rebound(t)
    /\ UNCHANGED <<platformVars, owner, sdk, generation, pendingHwnd, pendingWish,
                   lastWish, asyncLens, lensBox, lensThread, rebuild, rpc>>

-----------------------------------------------------------------------------
(* leiasr_d3d11_poll_backend_state and arm_reconnect.                      *)

Poll(c) ==
    /\ handle /\ pc[c] = "idle"
    /\ Goto(c, "pollLoad")
    /\ UNCHANGED <<platformVars, owner, sdk, generation, records, lensBox, lensThread,
                   arg, rebuild, rpc>>

PollLoad(c) ==  \* a create or a reconnect in flight: nothing to detect
    /\ pc[c] = "pollLoad"
    /\ Goto(c, IF state = "READY" THEN "pollRead" ELSE "idle")
    /\ UNCHANGED <<platformVars, owner, sdk, generation, records, lensBox, lensThread,
                   arg, rebuild, rpc>>

\* The SDK may call the connection dead once its end of it is gone.
MayBeDead == ~up \/ conn # boots

\* The token that was read is not the one of the last create, and both are known.
Restarted(token) == Unknown \notin {token, generation} /\ token # generation

\* Mutant: only what the SDK says of the connection counts.
PollRead_SdkOnly(c) ==
    /\ pc[c] = "pollRead"
    /\ \E token \in PlatformGeneration :
         \/ token # Unknown /\ MayBeDead /\ Goto(c, "arm")
         \/ Goto(c, "idle")
    /\ UNCHANGED <<platformVars, owner, sdk, generation, records, lensBox, lensThread,
                   arg, rebuild, rpc>>

PollRead(c) ==  \* an unknown token is a platform that is down: wait
    /\ pc[c] = "pollRead"
    /\ \E token \in PlatformGeneration :
         \/ token # Unknown /\ (MayBeDead \/ Restarted(token)) /\ Goto(c, "arm")
         \/ ~Restarted(token) /\ Goto(c, "idle")
    /\ UNCHANGED <<platformVars, owner, sdk, generation, records, lensBox, lensThread,
                   arg, rebuild, rpc>>

\* Mutant: PENDING is stored, not exchanged for READY.
Arm_Stores(c) ==
    /\ pc[c] = "arm"
    /\ state' = "PENDING"
    /\ rebuild' = TRUE
    /\ \E w \in Workers :
         pc[w] = "idle" /\ pc' = [pc EXCEPT ![c] = "idle", ![w] = "seed"]
    /\ UNCHANGED <<platformVars, handle, freed, sdk, generation, records, lensBox,
                   lensThread, arg, rpc>>

Arm(c) ==  \* winning READY -> PENDING is the right to spawn the worker
    /\ pc[c] = "arm"
    /\ IF state = "READY"
       THEN /\ state' = "PENDING"
            /\ rebuild' = TRUE
            /\ \E w \in Workers :
                 /\ pc[w] = "idle"
                 /\ pc' = [pc EXCEPT ![c] = "idle", ![w] = "seed"]
       ELSE Goto(c, "idle") /\ UNCHANGED <<state, rebuild>>
    /\ UNCHANGED <<platformVars, handle, freed, sdk, generation, records, lensBox,
                   lensThread, arg, rpc>>

-----------------------------------------------------------------------------
(* reconnect_worker_body and async_create_worker_body.                     *)

ReconnectSeed(w) ==  \* after 100 ms, in which a call let through before may end
    /\ pc[w] = "seed"
    /\ IF lastWish = "none"
       THEN Goto(w, "teardown") /\ UNCHANGED arg
       ELSE Goto(w, "seedStore") /\ Arg(w, lastWish)
    /\ UNCHANGED <<platformVars, owner, sdk, generation, records, lensBox, lensThread,
                   rebuild, rpc>>

ReconnectSeedStore(w) ==  \* last_lens_wish is re-asserted on the rebuilt weaver
    /\ pc[w] = "seedStore"
    /\ pendingWish' = arg[w]
    /\ Goto(w, "teardown") /\ Arg(w, NoWindow)
    /\ UNCHANGED <<platformVars, owner, sdk, generation, bound, pendingHwnd, lastWish,
                   asyncLens, lensBox, lensThread, rebuild, rpc>>

ReconnectTeardown(w) ==
    /\ pc[w] = "teardown"
    /\ NoObjects
    /\ Goto(w, "top")
    /\ UNCHANGED <<platformVars, owner, generation, records, lensBox, lensThread, arg,
                   rebuild, rpc>>

\* The two checkpoints of the loop, its top and its retry wait: the struct was
\* handed over, and is torn down and deleted without a join.
WorkerCancelled(w) ==
    /\ pc[w] \in {"top", "retry"}
    /\ state = "CANCELLED"
    /\ NoObjects
    /\ freed' = TRUE
    /\ Goto(w, "idle")
    /\ UNCHANGED <<platformVars, handle, state, generation, records, lensBox, lensThread,
                   arg, rebuild, rpc>>

WorkerAttempt(w) ==  \* bound_hwnd.load
    /\ pc[w] = "top"
    /\ state # "CANCELLED"
    /\ Goto(w, "create") /\ Arg(w, bound)
    /\ UNCHANGED <<platformVars, owner, sdk, generation, records, lensBox, lensThread,
                   rebuild, rpc>>

WorkerCreates(w) ==  \* create_weaver_attempt
    /\ pc[w] = "create" /\ up
    /\ \E l \in {"2D", "absent"} : weaver' = arg[w] /\ lens' = l /\ conn' = boots
    /\ Goto(w, "window") /\ Arg(w, NoWindow)
    /\ UNCHANGED <<platformVars, owner, generation, records, lensBox, lensThread,
                   rebuild, rpc>>

WorkerCreateFails(w) ==  \* what it created is destroyed again
    /\ pc[w] = "create"
    /\ NoObjects
    /\ Goto(w, "retry") /\ Arg(w, NoWindow)
    /\ UNCHANGED <<platformVars, owner, generation, records, lensBox, lensThread,
                   rebuild, rpc>>

WorkerRetries(w) ==  \* 5 s went by, or SR identified the panel
    /\ pc[w] = "retry"
    /\ Goto(w, "top")
    /\ UNCHANGED <<platformVars, owner, sdk, generation, records, lensBox, lensThread,
                   arg, rebuild, rpc>>

WorkerWindow(w) ==  \* pending_hwnd.exchange(0): a re-bind recorded while creating
    /\ pc[w] = "window"
    /\ pendingHwnd' = NoWindow
    /\ IF pendingHwnd = NoWindow
       THEN Goto(w, "wish") /\ UNCHANGED arg
       ELSE Goto(w, "winCall") /\ Arg(w, pendingHwnd)
    /\ UNCHANGED <<platformVars, owner, sdk, generation, bound, pendingWish, lastWish,
                   asyncLens, lensBox, lensThread, rebuild, rpc>>

WorkerWish(w) ==  \* pending_lens_wish.exchange(-1): a 2D goes through the mailbox
    /\ pc[w] = "wish"
    /\ pendingWish' = "none"
    /\ IF pendingWish = "2D" /\ asyncLens /\ LensPresent
       THEN mailbox' = "2D" /\ Goto(w, "claim") /\ UNCHANGED lens
       ELSE LensSet(pendingWish) /\ Goto(w, "stamp") /\ UNCHANGED mailbox
    /\ UNCHANGED <<platformVars, owner, weaver, conn, generation, bound, pendingHwnd,
                   lastWish, asyncLens, busy, lensThread, arg, rebuild, rpc>>

\* Mutant: a stamp that is there already is kept.
WorkerStamp_Keeps(w) ==
    /\ pc[w] = "stamp"
    /\ IF generation = Unknown THEN generation' \in PlatformGeneration
                               ELSE UNCHANGED generation
    /\ Goto(w, "publish")
    /\ UNCHANGED <<platformVars, owner, sdk, records, lensBox, lensThread, arg, rebuild,
                   rpc>>

WorkerStamp(w) ==  \* after the create, before READY
    /\ pc[w] = "stamp"
    /\ generation' \in PlatformGeneration
    /\ Goto(w, "publish")
    /\ UNCHANGED <<platformVars, owner, sdk, records, lensBox, lensThread, arg, rebuild,
                   rpc>>

\* A reconnect's worker still counts it, and reports the tokens.
Published == IF rebuild THEN "count" ELSE "idle"

\* Mutant: READY is stored, not exchanged for PENDING.
WorkerPublish_Stores(w) ==
    /\ pc[w] = "publish"
    /\ state' = "READY"
    /\ Goto(w, Published)
    /\ UNCHANGED <<platformVars, handle, freed, sdk, generation, records, lensBox,
                   lensThread, arg, rebuild, rpc>>

WorkerPublish(w) ==  \* PENDING -> READY, or the struct is the worker's to reap
    /\ pc[w] = "publish"
    /\ state' = IF state = "PENDING" THEN "READY" ELSE state
    /\ Goto(w, IF state = "PENDING" THEN Published ELSE "join")
    /\ UNCHANGED <<platformVars, handle, freed, sdk, generation, records, lensBox,
                   lensThread, arg, rebuild, rpc>>

\* reconnect_count.fetch_add, then the read of platform_generation for the log: both
\* after the exchange, of a struct that may be gone by then.
WorkerReports(w) ==
    /\ pc[w] \in {"count", "report"}
    /\ Goto(w, IF pc[w] = "count" THEN "report" ELSE "idle")
    /\ UNCHANGED <<platformVars, owner, sdk, generation, records, lensBox, lensThread,
                   arg, rebuild, rpc>>

\* Mutant: the mailbox is emptied and the thread not waited for.
LensWorkerJoin_NoWait == mailbox' = "none" /\ UNCHANGED lpc

\* lens_worker_join, by the worker or by a destroy.
LensWorkerJoin ==
    /\ LensMutexFree /\ LensJoinable
    /\ lpc' = "none"
    /\ mailbox' = "none"

WorkerJoins(w) ==
    /\ pc[w] = "join"
    /\ LensWorkerJoin
    /\ Goto(w, "reap")
    /\ UNCHANGED <<platformVars, owner, sdk, generation, records, busy, lwish, arg,
                   rebuild, rpc>>

WorkerReaps(w) ==
    /\ pc[w] = "reap"
    /\ NoObjects
    /\ freed' = TRUE
    /\ Goto(w, "idle")
    /\ UNCHANGED <<platformVars, handle, state, generation, records, lensBox, lensThread,
                   arg, rebuild, rpc>>

-----------------------------------------------------------------------------
(* leiasr_d3d11_destroy and leiasr_d3d11_destroy_async: the display        *)
(* processor destroys when none of its calls is running.  The reaper       *)
(* thread of the second one does what the first one does in place.         *)

Destroy ==
    /\ handle /\ \A c \in Callers : pc[c] = "idle"
    /\ handle' = FALSE
    /\ IF state = "PENDING"
       THEN state' = "CANCELLED" /\ UNCHANGED rpc
       ELSE rpc' = "join" /\ UNCHANGED state
    /\ UNCHANGED <<platformVars, freed, sdk, generation, records, lensBox, lensThread,
                   threadVars>>

DestroyJoins ==
    /\ rpc = "join"
    /\ LensWorkerJoin
    /\ rpc' = "teardown"
    /\ UNCHANGED <<platformVars, owner, sdk, generation, records, busy, lwish, threadVars>>

DestroyFrees ==
    /\ rpc = "teardown"
    /\ NoObjects
    /\ freed' = TRUE
    /\ rpc' = "none"
    /\ UNCHANGED <<platformVars, handle, state, generation, records, lensBox, lensThread,
                   threadVars>>

-----------------------------------------------------------------------------
\* lens_post and w_set_window, which callers and the worker both call.
PostStep(t)   == Claim(t) \/ Spawn(t) \/ SpawnFails(t) \/ FallTake(t) \/ FallSet(t)
WindowStep(t) == WindowCall(t) \/ WindowRefused(t) \/ WindowRecord(t)

\* A caller between its call and its return; new calls are the environment's.
CallerStep(c) ==
    \/ RequestLoad(c) \/ RequestStore(c) \/ RequestRecheck(c) \/ RequestTake(c)
    \/ RequestReady(c) \/ RequestSet(c) \/ Post(c) \/ PostStep(c)
    \/ SetWindowLoad(c) \/ SetWindowStore(c) \/ SetWindowRecheck(c) \/ SetWindowTake(c)
    \/ SetWindowReady(c) \/ WindowStep(c)
    \/ PollLoad(c) \/ PollRead(c) \/ Arm(c)

WorkerStep(w) ==
    \/ ReconnectSeed(w) \/ ReconnectSeedStore(w) \/ ReconnectTeardown(w)
    \/ WorkerCancelled(w) \/ WorkerAttempt(w) \/ WorkerCreates(w) \/ WorkerCreateFails(w)
    \/ WorkerRetries(w) \/ WorkerWindow(w) \/ WindowStep(w) \/ WorkerWish(w)
    \/ PostStep(w) \/ WorkerStamp(w) \/ WorkerPublish(w) \/ WorkerReports(w)
    \/ WorkerJoins(w) \/ WorkerReaps(w)

LensStep ==
    \/ LensTake \/ LensDwell \/ LensDwelt \/ LensLooks \/ LensCall \/ LensAborts
    \/ LensDrop \/ LensRecheck \/ LensReclaim

DestroyStep == DestroyJoins \/ DestroyFrees

PlatformStep == PlatformStops \/ PlatformStarts \/ SecondPasses

Next ==
    \/ PlatformStep
    \/ \E c \in Callers :
         \/ \E wish \in Modes : Request(c, wish)
         \/ \E h \in Windows : SetWindow(c, h)
         \/ Poll(c)
         \/ CallerStep(c)
    \/ \E w \in Workers : WorkerStep(w)
    \/ LensStep
    \/ Destroy \/ DestroyStep

Spec == Init /\ [][Next]_vars

\* The threads run, the clock too, the display processor polls about once a second,
\* and a create that can succeed again and again does in the end.
Fairness ==
    /\ \A c \in Callers : WF_vars(CallerStep(c)) /\ SF_vars(Poll(c))
    /\ \A w \in Workers : WF_vars(WorkerStep(w)) /\ SF_vars(WorkerCreates(w))
    /\ WF_vars(LensStep)
    /\ WF_vars(DestroyStep)
    /\ WF_vars(SecondPasses)

FairSpec == Spec /\ Fairness

-----------------------------------------------------------------------------
(* Properties.                                                             *)

\* The worker threads that have the struct to themselves: the CAS of the publish ends
\* that, two accesses before the worker's last one.
Alive == {w \in Workers : pc[w] \notin {"idle", "count", "report"}}

\* The struct has exactly one owner: the display processor while async_state is
\* READY, the one worker while it is PENDING or CANCELLED, a destroy past its
\* hand-off, or nobody once it was deleted.
OneOwner ==
    /\ \A v, w \in Alive : v = w
    /\ Alive # {} <=> state \in {"PENDING", "CANCELLED"} /\ ~freed
    /\ ~handle /\ ~freed => Alive # {} \/ rpc # "none"
    /\ state = "CANCELLED" => ~handle /\ rpc = "none"
    /\ rpc # "none" => ~handle /\ ~freed /\ state = "READY"
    /\ ~handle => \A c \in Callers : pc[c] = "idle"
    /\ handle => ~freed

\* lens_worker_busy is the claim of exactly one thread: the lens thread, or the
\* poster that is about to start it.
Posters == {t \in Threads : pc[t] = "spawn"}
Drains  == lpc \in {"take", "dwell", "set", "call", "drop"}
BusyIsOneClaim ==
    /\ busy <=> Drains \/ Posters # {}
    /\ Drains => Posters = {}
    /\ \A s, t \in Posters : s = t

\* A wish in the mailbox always has a thread that will look at it, although its
\* poster does not start one when it sees a claim that is being dropped.  Only a lens
\* thread that an exception ended leaves one behind.
MailboxServed ==
    mailbox # "none" =>
        \/ busy
        \/ lpc \in {"recheck", "reclaim", "aborted"}
        \/ \E t \in Threads : pc[t] \in {"claim", "fallTake"}

\* No destroy that joins tears the SDK objects down under a live lens thread.
JoinedBeforeTeardown ==
    rpc = "teardown" \/ (\E w \in Workers : pc[w] = "reap") => lpc = "none"

\* A weaver given up is freed, whichever thread it was handed to.
DestroyedIsFreed == ~handle ~> freed

\* A weaver stamped with a token of an earlier incarnation of the SR platform, by a
\* restart after its create or by a token that was old already, is stamped anew; a
\* stamp that could not be read is 0, and switches the comparison off.
Stale == generation # Unknown /\ generation.boot < boots
RestartRepaired == handle /\ state = "READY" /\ up /\ Stale ~> ~handle \/ ~up \/ ~Stale

\* The struct's comment: "latest wish wins".  At rest, with a lens, nothing recorded
\* and nothing in the mailbox, the lens was last told what was last asked for.
LatestWishWins ==
    /\ handle /\ state = "READY" /\ LensPresent /\ lastWish # "none"
    /\ \A c \in Callers : pc[c] = "idle"
    /\ pendingWish = "none" /\ mailbox = "none" /\ lpc \in {"none", "exited"}
    => lens = lastWish

\* "Accepted: whichever weaver publishes will be bound to this window": with no call
\* running, a published weaver has no accepted window left to bind.
AcceptedIsBound ==
    /\ handle /\ state = "READY" /\ weaver # NoWindow
    /\ \A c \in Callers : pc[c] = "idle"
    => pendingHwnd \in {NoWindow, weaver}

\* The hand-over to the worker "needs no join", and the publishing exchange is the
\* worker's "last access": no thread of a deleted struct is joinable, and no worker
\* still has to read it.
DeletedIsUnused ==
    freed => lpc = "none" /\ \A w \in Workers : pc[w] \notin {"count", "report"}
=============================================================================
