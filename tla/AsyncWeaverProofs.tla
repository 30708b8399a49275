------------------------- MODULE AsyncWeaverProofs -------------------------
(***************************************************************************)
(* Proofs about AsyncWeaver, for any callers, workers, windows and number  *)
(* of platform incarnations.  Three invariants over the types, each kept   *)
(* by every step: who owns the struct (OwnInv), whose claim the lens       *)
(* mailbox is (LensInv), and what a destroy has joined, which rests on the *)
(* owner: while a destroy tears down, nobody else can post.                *)
(***************************************************************************)
EXTENDS AsyncWeaver, TLAPS

-----------------------------------------------------------------------------
(* Types.                                                                  *)

\* A thread on its way carries an argument of its own kind.
ArgInv ==
    \A t \in Threads :
        /\ pc[t] \in {"reqLoad", "reqStore", "reqReady", "post", "seedStore"} => arg[t] \in Modes
        /\ pc[t] \in {"winLoad", "winStore", "winReady", "winCall", "winRecord", "create"} =>
             arg[t] \in Windows

Typed == TypeOK /\ ArgInv

\* Callers stay in a caller's code, workers in a worker's.
Places(t) == IF t \in Workers THEN WorkerPlaces ELSE CallerPlaces

\* A move of one thread moves no other.
LEMMA Moves ==
    ASSUME TypeOK, NEW t \in Threads, NEW place \in Places(t), Goto(t, place)
    PROVE  /\ pc' \in [Threads -> CallerPlaces \cup WorkerPlaces]
           /\ \A c \in Callers : pc'[c] \in CallerPlaces
           /\ \A w \in Workers : pc'[w] \in WorkerPlaces
           /\ \A s \in Threads : pc'[s] = IF s = t THEN place ELSE pc[s]
BY WeaverAssumption DEF TypeOK, Goto, Threads, Places

\* An argument written by one thread is no other's.
LEMMA Args ==
    ASSUME TypeOK, NEW t \in Threads, NEW value \in Modes \cup Handles, Arg(t, value)
    PROVE  /\ arg' \in [Threads -> Modes \cup Handles]
           /\ \A s \in Threads : arg'[s] = IF s = t THEN value ELSE arg[s]
BY DEF TypeOK, Arg

\* Where a thread goes, with which argument, keeps the places and the arguments.
LEMMA StepArgs ==
    ASSUME Typed, NEW t \in Threads, NEW place \in Places(t), Goto(t, place),
           \/ UNCHANGED arg
           \/ \E value \in Modes \cup Handles : Arg(t, value),
           place \in {"reqLoad", "reqStore", "reqReady", "post", "seedStore"} => arg'[t] \in Modes,
           place \in {"winLoad", "winStore", "winReady", "winCall", "winRecord", "create"} =>
             arg'[t] \in Windows
    PROVE  /\ pc' \in [Threads -> CallerPlaces \cup WorkerPlaces]
           /\ \A c \in Callers : pc'[c] \in CallerPlaces
           /\ \A w \in Workers : pc'[w] \in WorkerPlaces
           /\ arg' \in [Threads -> Modes \cup Handles]
           /\ ArgInv'
<1>1. /\ arg' \in [Threads -> Modes \cup Handles]
      /\ \A s \in Threads : s # t => arg'[s] = arg[s]
  BY Args DEF Typed, TypeOK
<1>2. /\ pc' \in [Threads -> CallerPlaces \cup WorkerPlaces]
      /\ \A c \in Callers : pc'[c] \in CallerPlaces
      /\ \A w \in Workers : pc'[w] \in WorkerPlaces
      /\ \A s \in Threads : pc'[s] = IF s = t THEN place ELSE pc[s]
  BY Moves DEF Typed
<1>3. ArgInv'
  BY <1>1, <1>2 DEF Typed, ArgInv
<1> QED
  BY <1>1, <1>2, <1>3

\* The types of everything but the threads.
RestOK ==
    /\ up \in BOOLEAN /\ boots \in 1..MaxBoots /\ recent \in BOOLEAN
    /\ handle \in BOOLEAN /\ freed \in BOOLEAN
    /\ state \in {"READY", "PENDING", "CANCELLED"}
    /\ weaver \in Handles /\ lens \in Modes \cup {"absent"}
    /\ conn \in 0..MaxBoots /\ generation \in Tokens
    /\ bound \in Windows /\ pendingHwnd \in Handles
    /\ pendingWish \in Wishes /\ lastWish \in Wishes /\ asyncLens \in BOOLEAN
    /\ mailbox \in Wishes /\ busy \in BOOLEAN
    /\ lpc \in LensPlaces /\ lwish \in Wishes
    /\ rebuild \in BOOLEAN /\ rpc \in {"none", "join", "teardown"}

LEMMA TypedSplit ==
    ASSUME RestOK', pc' \in [Threads -> CallerPlaces \cup WorkerPlaces],
           \A c \in Callers : pc'[c] \in CallerPlaces,
           \A w \in Workers : pc'[w] \in WorkerPlaces,
           arg' \in [Threads -> Modes \cup Handles], ArgInv'
    PROVE  Typed'
BY DEF Typed, TypeOK, RestOK

LEMMA TypedRest == Typed => RestOK
BY DEF Typed, TypeOK, RestOK

\* A thread's step is well typed when its place and argument are, and the rest is.
LEMMA ThreadTyped ==
    ASSUME Typed, NEW t \in Threads, NEW place \in Places(t), Goto(t, place),
           \/ UNCHANGED arg
           \/ \E value \in Modes \cup Handles : Arg(t, value),
           place \in {"reqLoad", "reqStore", "reqReady", "post", "seedStore"} => arg'[t] \in Modes,
           place \in {"winLoad", "winStore", "winReady", "winCall", "winRecord", "create"} =>
             arg'[t] \in Windows,
           RestOK'
    PROVE  Typed'
BY StepArgs, TypedSplit

\* What the platform answers is a token of it.
LEMMA GenerationTyped == TypeOK => PlatformGeneration \subseteq Tokens
<1> SUFFICES ASSUME TypeOK PROVE PlatformGeneration \subseteq Tokens
  OBVIOUS
<1>1. boots \in 1..MaxBoots /\ MaxBoots \in Nat
  BY WeaverAssumption DEF TypeOK
<1>2. \A b \in 1..boots : b \in 1..MaxBoots
  BY <1>1
<1>3. \A b \in 1..MaxBoots : TokensOf(b) \subseteq Tokens
  BY DEF Tokens
<1>4. Unknown \in Tokens
  BY DEF Tokens
<1>5. Token("sdk", boots) \in TokensOf(boots)
  BY DEF TokensOf
<1>6. TokensOf(boots) \subseteq Tokens
  BY <1>1, <1>3
<1>7. UNION {TokensOf(b) : b \in 1..boots} \subseteq Tokens
  BY <1>2, <1>3
<1> QED
  BY <1>4, <1>5, <1>6, <1>7 DEF PlatformGeneration

\* A lens call leaves the lens in a mode, or absent.
LEMMA LensSetTyped ==
    ASSUME TypeOK, NEW wish, LensSet(wish)
    PROVE  lens' \in Modes \cup {"absent"}
<1>1. lens' \in {wish, lens} /\ (lens' = wish => wish \in Modes \/ lens' = lens)
  BY DEF LensSet
<1> QED
  BY <1>1 DEF TypeOK

\* Both creates start well typed; every step of a caller, a worker, the lens thread
\* and the rest keeps the types.
LEMMA InitTyped == Init => Typed
<1> SUFFICES ASSUME Init PROVE Typed
  OBVIOUS
<1> USE DEF Init
<1>1. boots = 1 /\ boots \in 1..MaxBoots /\ {0, 1} \subseteq 0..MaxBoots
  BY WeaverAssumption
<1>2. pc \in [Threads -> CallerPlaces \cup WorkerPlaces]
  BY DEF CallerPlaces, WorkerPlaces
<1>3. /\ \A c \in Callers : pc[c] = "idle"
      /\ \A w \in Workers : pc[w] \in {"idle", "top"}
  BY WeaverAssumption DEF Threads
<1>4. generation \in Tokens
  BY <1>1 DEF Tokens
<1>5. arg \in [Threads -> Modes \cup Handles]
  BY DEF Handles
<1>6. conn \in 0..MaxBoots /\ weaver \in Handles /\ lens \in Modes \cup {"absent"}
  BY <1>1 DEF CreatedFor, Handles, Modes
<1>7. TypeOK
  BY <1>1, <1>2, <1>3, <1>4, <1>5, <1>6 DEF TypeOK, CallerPlaces, WorkerPlaces, LensPlaces, Wishes,
     Handles
<1>8. \A t \in Threads : pc[t] \in {"idle", "top"}
  BY <1>3 DEF Threads
<1> QED
  BY <1>7, <1>8 DEF Typed, ArgInv

\* lens_post and w_set_window, whoever runs them.
LEMMA SharedTyped ==
    ASSUME Typed, NEW t \in Threads, PostStep(t) \/ WindowStep(t)
    PROVE  Typed'
<1> USE TypedRest DEF platformVars, owner, sdk, records, lensBox, lensThread, threadVars
<1>1. /\ {"idle", "claim", "spawn", "fallTake", "fallSet", "winCall", "winRecord"} \subseteq Places(t)
      /\ t \in Workers => {"stamp", "wish"} \subseteq Places(t)
      /\ NoWindow \in Modes \cup Handles /\ Wishes \ {"none"} = Modes /\ Windows \subseteq Handles
  BY DEF Places, CallerPlaces, WorkerPlaces, PostPlaces, WindowPlaces, Handles, Wishes, Modes
<1>2. ASSUME RestOK', Posted(t) \/ Rebound(t) PROVE Typed'
  BY <1>1, <1>2, ThreadTyped DEF Posted, Rebound
<1>3. CASE Claim(t)
  <2>1. RestOK'
    BY <1>3 DEF Claim, RestOK
  <2>2. CASE busy
    BY <1>2, <1>3, <2>1, <2>2 DEF Claim
  <2>3. CASE ~busy
    BY <1>1, <1>3, <2>1, <2>3, ThreadTyped DEF Claim
  <2> QED
    BY <2>2, <2>3
<1>4. CASE Spawn(t)
  BY <1>2, <1>4 DEF Spawn, RestOK, LensPlaces
<1>5. CASE SpawnFails(t)
  <2>1. busy' \in BOOLEAN
    BY <1>5 DEF SpawnFails
  <2>2. RestOK'
    BY <1>5, <2>1 DEF SpawnFails, RestOK, LensPlaces
  <2> QED
    BY <1>1, <1>5, <2>2, ThreadTyped DEF SpawnFails
<1>6. CASE FallTake(t)
  <2>1. RestOK' /\ mailbox \in Wishes
    BY <1>6 DEF FallTake, RestOK, Wishes
  <2>2. CASE mailbox = "none"
    BY <1>2, <1>6, <2>1, <2>2 DEF FallTake
  <2>3. CASE mailbox # "none"
    BY <1>1, <1>6, <2>1, <2>3, ThreadTyped DEF FallTake
  <2> QED
    BY <2>2, <2>3
<1>7. CASE FallSet(t)
  <2>1. lens' \in Modes \cup {"absent"}
    BY <1>7, LensSetTyped DEF FallSet, Typed
  <2>2. RestOK' /\ Posted(t)
    BY <1>7, <2>1 DEF FallSet, RestOK
  <2> QED
    BY <1>2, <2>2
<1>8. CASE WindowCall(t)
  <2>1. arg[t] \in Windows
    BY <1>8 DEF WindowCall, Typed, ArgInv
  <2>2. RestOK'
    BY <1>1, <1>8, <2>1 DEF WindowCall, RestOK
  <2> QED
    BY <1>1, <1>8, <2>1, <2>2, ThreadTyped DEF WindowCall
<1>9. CASE WindowRefused(t)
  BY <1>2, <1>9 DEF WindowRefused, RestOK
<1>10. CASE WindowRecord(t)
  <2>1. arg[t] \in Windows
    BY <1>10 DEF WindowRecord, Typed, ArgInv
  <2> QED
    BY <1>2, <1>10, <2>1 DEF WindowRecord, RestOK
<1> QED
  BY <1>3, <1>4, <1>5, <1>6, <1>7, <1>8, <1>9, <1>10 DEF PostStep, WindowStep

LEMMA CallerTyped ==
    ASSUME Typed, NEW c \in Callers, CallerStep(c)
    PROVE  Typed'
<1> USE TypedRest DEF platformVars, owner, sdk, records, lensBox, lensThread, threadVars
<1>1. /\ c \in Threads /\ Places(c) = CallerPlaces /\ "idle" \in Places(c)
      /\ NoWindow \in Modes \cup Handles /\ Windows \subseteq Handles
      /\ Modes \subseteq Wishes /\ Wishes \ {"none"} = Modes
  BY WeaverAssumption DEF Threads, Places, CallerPlaces, Handles, Wishes, Modes
<1>2. ASSUME RestOK', Return(c) PROVE Typed'
  BY <1>1, <1>2, ThreadTyped DEF Return
<1>3. ASSUME RestOK', UNCHANGED arg, NEW place \in CallerPlaces, Goto(c, place),
             place \in {"reqLoad", "reqStore", "reqReady", "post"} => arg[c] \in Modes,
             place \in {"winLoad", "winStore", "winReady", "winCall", "winRecord"} => arg[c] \in Windows
      PROVE  Typed'
  BY <1>1, <1>3, ThreadTyped DEF CallerPlaces, PostPlaces, WindowPlaces
<1>4. CASE RequestLoad(c)
  BY <1>3, <1>4, <1>1 DEF RequestLoad, RestOK, CallerPlaces, Typed, ArgInv
<1>5. CASE RequestStore(c)
  <2>1. arg[c] \in Modes
    BY <1>1, <1>5 DEF RequestStore, Typed, ArgInv
  <2> QED
    BY <1>1, <1>3, <1>5, <2>1 DEF RequestStore, RestOK, CallerPlaces
<1>6. CASE RequestRecheck(c)
  BY <1>2, <1>3, <1>6 DEF RequestRecheck, RestOK, CallerPlaces
<1>7. CASE RequestTake(c)
  <2>1. RestOK' /\ pendingWish \in Wishes
    BY <1>7 DEF RequestTake, RestOK, Wishes
  <2>2. CASE Return(c)
    BY <1>2, <2>1, <2>2
  <2>3. CASE ~Return(c)
    <3>1. Goto(c, "reqSet") /\ Arg(c, pendingWish) /\ pendingWish \in Modes
      BY <1>1, <1>7, <2>1, <2>3 DEF RequestTake
    <3> QED
      BY <1>1, <2>1, <3>1, ThreadTyped DEF CallerPlaces
  <2> QED
    BY <2>2, <2>3
<1>8. CASE RequestReady(c)
  <2>1. RestOK' /\ arg[c] \in Modes
    BY <1>1, <1>8 DEF RequestReady, RestOK, Typed, ArgInv
  <2> QED
    BY <1>2, <1>3, <1>8, <2>1 DEF RequestReady, CallerPlaces, PostPlaces
<1>9. CASE RequestSet(c)
  <2>1. lens' \in Modes \cup {"absent"}
    BY <1>9, LensSetTyped DEF RequestSet, Typed
  <2> QED
    BY <1>2, <1>9, <2>1 DEF RequestSet, RestOK
<1>10. CASE Post(c)
  <2>1. arg[c] \in Modes
    BY <1>1, <1>10 DEF Post, Typed, ArgInv
  <2> QED
    BY <1>1, <1>3, <1>10, <2>1 DEF Post, RestOK, CallerPlaces, PostPlaces
<1>11. CASE PostStep(c) \/ WindowStep(c)
  BY <1>1, <1>11, SharedTyped
<1>12. CASE SetWindowLoad(c)
  BY <1>1, <1>3, <1>12 DEF SetWindowLoad, RestOK, CallerPlaces, Typed, ArgInv
<1>13. CASE SetWindowStore(c)
  <2>1. arg[c] \in Windows
    BY <1>1, <1>13 DEF SetWindowStore, Typed, ArgInv
  <2> QED
    BY <1>1, <1>3, <1>13, <2>1 DEF SetWindowStore, RestOK, CallerPlaces
<1>14. CASE SetWindowRecheck(c)
  BY <1>2, <1>3, <1>14 DEF SetWindowRecheck, RestOK, CallerPlaces
<1>15. CASE SetWindowTake(c)
  <2>1. RestOK' /\ pendingHwnd \in Handles
    BY <1>15 DEF SetWindowTake, RestOK, Handles
  <2>2. CASE pendingHwnd = NoWindow
    BY <1>2, <1>15, <2>1, <2>2 DEF SetWindowTake
  <2>3. CASE pendingHwnd # NoWindow
    <3>1. Goto(c, "winCall") /\ Arg(c, pendingHwnd) /\ pendingHwnd \in Windows
      BY <1>15, <2>1, <2>3 DEF SetWindowTake, Handles
    <3> QED
      BY <1>1, <2>1, <3>1, Args, ThreadTyped DEF CallerPlaces, WindowPlaces, Typed
  <2> QED
    BY <2>2, <2>3
<1>16. CASE SetWindowReady(c)
  <2>1. RestOK' /\ arg[c] \in Windows
    BY <1>1, <1>16 DEF SetWindowReady, RestOK, Typed, ArgInv
  <2> QED
    BY <1>2, <1>3, <1>16, <2>1 DEF SetWindowReady, CallerPlaces, WindowPlaces
<1>17. CASE PollLoad(c)
  BY <1>3, <1>17 DEF PollLoad, RestOK, CallerPlaces
<1>18. CASE PollRead(c)
  BY <1>3, <1>18 DEF PollRead, RestOK, CallerPlaces
<1>19. CASE Arm(c) /\ state # "READY"
  BY <1>3, <1>19 DEF Arm, RestOK, CallerPlaces
<1>20. CASE Arm(c) /\ state = "READY"
  <2>1. RestOK' /\ UNCHANGED arg
    BY <1>20 DEF Arm, RestOK
  <2>2. PICK w \in Workers : pc' = [pc EXCEPT ![c] = "idle", ![w] = "seed"]
    BY <1>20 DEF Arm
  <2>3. c \notin Workers /\ w \in Threads /\ w # c
    BY WeaverAssumption DEF Threads
  <2>4. \A s \in Threads : pc'[s] = IF s = w THEN "seed" ELSE IF s = c THEN "idle" ELSE pc[s]
    BY <1>1, <2>2, <2>3 DEF Typed, TypeOK
  <2>5. /\ pc' \in [Threads -> CallerPlaces \cup WorkerPlaces]
        /\ \A d \in Callers : pc'[d] \in CallerPlaces
        /\ \A v \in Workers : pc'[v] \in WorkerPlaces
    BY <1>1, <2>2, <2>4, WeaverAssumption DEF Typed, TypeOK, Threads, CallerPlaces, WorkerPlaces
  <2>6. ArgInv'
    BY <2>1, <2>4 DEF Typed, ArgInv
  <2>7. arg' \in [Threads -> Modes \cup Handles]
    BY <2>1 DEF Typed, TypeOK
  <2> QED
    BY <2>1, <2>5, <2>6, <2>7, TypedSplit
<1> QED
  BY <1>4, <1>5, <1>6, <1>7, <1>8, <1>9, <1>10, <1>11, <1>12, <1>13, <1>14, <1>15, <1>16, <1>17,
     <1>18, <1>19, <1>20 DEF CallerStep

LEMMA WorkerTyped ==
    ASSUME Typed, NEW w \in Workers, WorkerStep(w)
    PROVE  Typed'
<1> USE TypedRest DEF platformVars, owner, sdk, records, lensBox, lensThread, threadVars
<1>1. /\ w \in Threads /\ Places(w) = WorkerPlaces
      /\ NoWindow \in Modes \cup Handles /\ NoWindow \in Handles /\ Windows \subseteq Handles
      /\ Modes \subseteq Wishes /\ "none" \in Wishes /\ Wishes \ {"none"} = Modes
      /\ 0 \in 0..MaxBoots
  BY WeaverAssumption DEF Threads, Places, Handles, Wishes, Modes
<1>2. ASSUME RestOK', NEW place \in WorkerPlaces \ {"seedStore", "create", "winCall", "winRecord"},
             Goto(w, place), UNCHANGED arg \/ Arg(w, NoWindow)
      PROVE  Typed'
  BY <1>1, <1>2, ThreadTyped DEF WorkerPlaces, PostPlaces, WindowPlaces
<1>3. CASE ReconnectSeed(w)
  <2>1. RestOK' /\ lastWish \in Wishes
    BY <1>3 DEF ReconnectSeed, RestOK
  <2>2. CASE lastWish = "none"
    BY <1>2, <1>3, <2>1, <2>2 DEF ReconnectSeed, WorkerPlaces
  <2>3. CASE lastWish # "none"
    <3>1. Goto(w, "seedStore") /\ Arg(w, lastWish) /\ lastWish \in Modes
      BY <1>1, <1>3, <2>1, <2>3 DEF ReconnectSeed
    <3> QED
      BY <1>1, <2>1, <3>1, Args, ThreadTyped DEF WorkerPlaces, Typed
  <2> QED
    BY <2>2, <2>3
<1>4. CASE ReconnectSeedStore(w)
  <2>1. arg[w] \in Modes
    BY <1>1, <1>4 DEF ReconnectSeedStore, Typed, ArgInv
  <2> QED
    BY <1>1, <1>2, <1>4, <2>1 DEF ReconnectSeedStore, RestOK, WorkerPlaces
<1>5. CASE ReconnectTeardown(w)
  BY <1>1, <1>2, <1>5 DEF ReconnectTeardown, NoObjects, RestOK, WorkerPlaces
<1>6. CASE WorkerCancelled(w)
  BY <1>1, <1>2, <1>6 DEF WorkerCancelled, NoObjects, RestOK, WorkerPlaces
<1>7. CASE WorkerAttempt(w)
  <2>1. RestOK' /\ bound \in Windows
    BY <1>7 DEF WorkerAttempt, RestOK
  <2> QED
    BY <1>1, <1>7, <2>1, Args, ThreadTyped DEF WorkerAttempt, WorkerPlaces, Typed
<1>8. CASE WorkerCreates(w)
  <2>1. arg[w] \in Windows
    BY <1>1, <1>8 DEF WorkerCreates, Typed, ArgInv
  <2>2. conn' \in 0..MaxBoots
    BY <1>8, WeaverAssumption DEF WorkerCreates, RestOK
  <2>3. weaver' \in Handles /\ lens' \in Modes \cup {"absent"}
    BY <1>1, <1>8, <2>1 DEF WorkerCreates, Modes
  <2>4. RestOK'
    BY <1>8, <2>2, <2>3 DEF WorkerCreates, RestOK
  <2> QED
    BY <1>2, <1>8, <2>4 DEF WorkerCreates, WorkerPlaces
<1>9. CASE WorkerCreateFails(w)
  BY <1>1, <1>2, <1>9 DEF WorkerCreateFails, NoObjects, RestOK, WorkerPlaces
<1>10. CASE WorkerRetries(w)
  BY <1>2, <1>10 DEF WorkerRetries, RestOK, WorkerPlaces
<1>11. CASE WorkerWindow(w)
  <2>1. RestOK' /\ pendingHwnd \in Handles
    BY <1>1, <1>11 DEF WorkerWindow, RestOK
  <2>2. CASE pendingHwnd = NoWindow
    BY <1>2, <1>11, <2>1, <2>2 DEF WorkerWindow, WorkerPlaces
  <2>3. CASE pendingHwnd # NoWindow
    <3>1. Goto(w, "winCall") /\ Arg(w, pendingHwnd) /\ pendingHwnd \in Windows
      BY <1>11, <2>1, <2>3 DEF WorkerWindow, Handles
    <3> QED
      BY <1>1, <2>1, <3>1, Args, ThreadTyped DEF WorkerPlaces, WindowPlaces, Typed
  <2> QED
    BY <2>2, <2>3
<1>12. CASE WorkerWish(w)
  <2>1. lens' \in Modes \cup {"absent"}
    BY <1>12, LensSetTyped DEF WorkerWish, Typed, TypeOK
  <2>2. mailbox' \in Wishes
    BY <1>12 DEF WorkerWish, RestOK, Wishes, Modes
  <2>3. RestOK'
    BY <1>1, <1>12, <2>1, <2>2 DEF WorkerWish, RestOK
  <2>4. UNCHANGED arg /\ (Goto(w, "claim") \/ Goto(w, "stamp"))
    BY <1>12 DEF WorkerWish
  <2> QED
    BY <1>2, <2>3, <2>4 DEF WorkerPlaces, PostPlaces
<1>13. CASE PostStep(w) \/ WindowStep(w)
  BY <1>1, <1>13, SharedTyped
<1>14. CASE WorkerStamp(w)
  <2>1. generation' \in Tokens
    BY <1>14, GenerationTyped DEF WorkerStamp, Typed
  <2> QED
    BY <1>2, <1>14, <2>1 DEF WorkerStamp, RestOK, WorkerPlaces
<1>15. CASE WorkerPublish(w)
  <2>1. RestOK' /\ UNCHANGED arg
    BY <1>15 DEF WorkerPublish, RestOK
  <2>2. Goto(w, "count") \/ Goto(w, "idle") \/ Goto(w, "join")
    BY <1>15 DEF WorkerPublish, Published
  <2> QED
    BY <1>2, <2>1, <2>2 DEF WorkerPlaces
<1>16. CASE WorkerReports(w)
  BY <1>2, <1>16 DEF WorkerReports, RestOK, WorkerPlaces
<1>17. CASE WorkerJoins(w)
  BY <1>1, <1>2, <1>17 DEF WorkerJoins, LensWorkerJoin, LensPlaces, RestOK, WorkerPlaces
<1>18. CASE WorkerReaps(w)
  BY <1>1, <1>2, <1>18 DEF WorkerReaps, NoObjects, RestOK, WorkerPlaces
<1> QED
  BY <1>3, <1>4, <1>5, <1>6, <1>7, <1>8, <1>9, <1>10, <1>11, <1>12, <1>13, <1>14, <1>15, <1>16,
     <1>17, <1>18 DEF WorkerStep

LEMMA LensTyped == Typed /\ LensStep => Typed'
<1> SUFFICES ASSUME Typed, LensStep PROVE Typed'
  OBVIOUS
<1> USE DEF Typed, LensGoto, platformVars, owner, sdk, records, lensBox, lensThread, threadVars
<1>1. CASE LensTake
  BY <1>1 DEF LensTake, TypeOK, ArgInv, LensPlaces, Wishes, Modes
<1>2. CASE LensDwell
  BY <1>2 DEF LensDwell, TypeOK, ArgInv, LensPlaces, Wishes, Modes
<1>3. CASE LensDwelt
  BY <1>3 DEF LensDwelt, TypeOK, ArgInv, LensPlaces, Wishes, Modes
<1>4. CASE LensLooks
  BY <1>4 DEF LensLooks, TypeOK, ArgInv, LensPlaces, Wishes, Modes
<1>5. CASE LensCall
  BY <1>5, LensSetTyped DEF LensCall, TypeOK, ArgInv, LensPlaces, Wishes
<1>6. CASE LensAborts
  <2>1. busy' \in BOOLEAN
    BY <1>6 DEF LensAborts
  <2> QED
    BY <1>6, <2>1 DEF LensAborts, TypeOK, ArgInv, LensPlaces, Wishes
<1>7. CASE LensDrop
  <2>1. busy' \in BOOLEAN
    BY <1>7 DEF LensDrop
  <2> QED
    BY <1>7, <2>1 DEF LensDrop, TypeOK, ArgInv, LensPlaces
<1>8. CASE LensRecheck
  BY <1>8 DEF LensRecheck, TypeOK, ArgInv, LensPlaces, Wishes, Modes
<1>9. CASE LensReclaim
  BY <1>9 DEF LensReclaim, TypeOK, ArgInv, LensPlaces, Wishes, Modes
<1> QED
  BY <1>1, <1>2, <1>3, <1>4, <1>5, <1>6, <1>7, <1>8, <1>9 DEF LensStep

LEMMA TypedStep == Typed /\ [Next]_vars => Typed'
<1> SUFFICES ASSUME Typed, [Next]_vars PROVE Typed'
  OBVIOUS
<1> USE DEF platformVars, owner, sdk, records, lensBox, lensThread, threadVars
<1>1. CASE PlatformStep
  <2>1. boots' \in 1..MaxBoots
    BY <1>1, WeaverAssumption
       DEF PlatformStep, PlatformStops, PlatformStarts, SecondPasses, Typed, TypeOK
  <2>2. up' \in BOOLEAN
    BY <1>1 DEF PlatformStep, PlatformStops, PlatformStarts, SecondPasses, Typed, TypeOK
  <2>3. recent' \in BOOLEAN
    BY <1>1 DEF PlatformStep, PlatformStops, PlatformStarts, SecondPasses
  <2>4. UNCHANGED <<owner, sdk, generation, records, lensBox, lensThread, threadVars, rpc>>
    BY <1>1 DEF PlatformStep, PlatformStops, PlatformStarts, SecondPasses
  <2> QED
    BY <2>1, <2>2, <2>3, <2>4 DEF Typed, TypeOK, ArgInv
<1>2. ASSUME NEW c \in Callers, NEW wish \in Modes, Request(c, wish) PROVE Typed'
  <2>1. RestOK' /\ c \in Threads /\ "reqLoad" \in Places(c)
    BY <1>2, TypedRest, WeaverAssumption DEF Request, RestOK, Wishes, Threads, Places, CallerPlaces
  <2> QED
    BY <1>2, <2>1, Args, ThreadTyped DEF Request, Typed
<1>3. ASSUME NEW c \in Callers, NEW h \in Windows, SetWindow(c, h) PROVE Typed'
  <2>1. RestOK' /\ c \in Threads /\ "winLoad" \in Places(c) /\ h \in Handles
    BY <1>3, TypedRest, WeaverAssumption DEF SetWindow, RestOK, Threads, Places, CallerPlaces, Handles
  <2> QED
    BY <1>3, <2>1, Args, ThreadTyped DEF SetWindow, Typed
<1>4. ASSUME NEW c \in Callers, Poll(c) PROVE Typed'
  <2>1. RestOK' /\ c \in Threads /\ "pollLoad" \in Places(c)
    BY <1>4, TypedRest, WeaverAssumption DEF Poll, RestOK, Threads, Places, CallerPlaces
  <2> QED
    BY <1>4, <2>1, ThreadTyped DEF Poll
<1>5. CASE Destroy
  BY <1>5 DEF Destroy, Typed, TypeOK, ArgInv
<1>6. CASE DestroyJoins
  BY <1>6 DEF DestroyJoins, LensWorkerJoin, Typed, TypeOK, ArgInv, LensPlaces, Wishes
<1>7. CASE DestroyFrees
  BY <1>7, WeaverAssumption DEF DestroyFrees, NoObjects, Typed, TypeOK, ArgInv, Handles
<1>8. CASE UNCHANGED vars
  BY <1>8 DEF vars, Typed, TypeOK, ArgInv
<1> QED
  BY <1>1, <1>2, <1>3, <1>4, <1>5, <1>6, <1>7, <1>8, CallerTyped, WorkerTyped, LensTyped
     DEF Next, DestroyStep

-----------------------------------------------------------------------------
(* Ownership.                                                              *)

\* One owner, and two facts about who reached what: a pending weaver has not been
\* given up, and a worker frees the struct only after a destroy cancelled it.
OwnInv ==
    /\ OneOwner
    /\ state = "PENDING" => handle
    /\ \A w \in Workers : pc[w] \in {"join", "reap"} => state = "CANCELLED"

\* Places of a worker that no longer has the struct, or not yet.
Gone == {"idle", "count", "report"}

\* lens_post and w_set_window only move their thread.
LEMMA SharedPath ==
    ASSUME NEW t \in Threads, PostStep(t) \/ WindowStep(t)
    PROVE  /\ UNCHANGED <<owner, rpc>> /\ pc[t] \in PostPlaces \cup WindowPlaces
           /\ \E place \in PostPlaces \cup WindowPlaces
                              \cup IF t \in Workers THEN {"stamp", "wish"} ELSE {"idle"} :
                Goto(t, place)
BY DEF PostStep, Claim, Spawn, SpawnFails, FallTake, FallSet, Posted, WindowStep, WindowCall,
   WindowRefused, WindowRecord, Rebound, PostPlaces, WindowPlaces

\* Every step of a call but the one that wins READY -> PENDING only moves its caller.
LEMMA CallerPath ==
    ASSUME NEW c \in Callers, CallerStep(c), ~Arm(c)
    PROVE  /\ UNCHANGED <<owner, rpc>> /\ pc[c] # "idle"
           /\ \E place \in CallerPlaces : Goto(c, place)
<1> USE DEF Return, CallerPlaces, PostPlaces, WindowPlaces
<1>1. CASE RequestLoad(c) \/ RequestStore(c) \/ RequestRecheck(c) \/ RequestTake(c)
           \/ RequestReady(c) \/ RequestSet(c) \/ Post(c)
  BY <1>1 DEF RequestLoad, RequestStore, RequestRecheck, RequestTake, RequestReady, RequestSet, Post
<1>2. CASE PostStep(c) \/ WindowStep(c)
  BY <1>2, SharedPath, WeaverAssumption DEF Threads
<1>3. CASE SetWindowLoad(c) \/ SetWindowStore(c) \/ SetWindowRecheck(c)
           \/ SetWindowTake(c) \/ SetWindowReady(c)
  BY <1>3 DEF SetWindowLoad, SetWindowStore, SetWindowRecheck, SetWindowTake, SetWindowReady
<1>4. CASE PollLoad(c)
  BY <1>4 DEF PollLoad
<1>5. CASE PollRead(c)
  BY <1>5 DEF PollRead
<1> QED
  BY <1>1, <1>2, <1>3, <1>4, <1>5 DEF CallerStep

\* A caller that only moves keeps the owner: it moves while the DP holds the handle.
LEMMA CallerKeepsOwner ==
    ASSUME Typed, OwnInv, NEW c \in Callers, NEW place \in CallerPlaces, Goto(c, place),
           pc[c] # "idle" \/ handle, UNCHANGED <<owner, rpc>>
    PROVE  OwnInv'
<1>1. /\ \A w \in Workers : pc'[w] = pc[w]
      /\ \A d \in Callers : d # c => pc'[d] = pc[d]
  BY Moves, WeaverAssumption DEF Typed, Threads, Places
<1>2. Alive' = Alive
  BY <1>1 DEF Alive
<1>3. handle
  BY DEF OwnInv, OneOwner, Typed, TypeOK
<1> QED
  BY <1>1, <1>2, <1>3 DEF OwnInv, OneOwner, owner

\* A worker moves no caller and no other worker.
LEMMA WorkerMoves ==
    ASSUME Typed, NEW w \in Workers, NEW place \in WorkerPlaces, Goto(w, place)
    PROVE  /\ \A v \in Workers : pc'[v] = IF v = w THEN place ELSE pc[v]
           /\ \A c \in Callers : pc'[c] = pc[c]
BY Moves, WeaverAssumption DEF Typed, Threads, Places

\* The worker that goes on with its work keeps the owner too.
LEMMA WorkerKeepsOwner ==
    ASSUME Typed, OwnInv, NEW w \in Workers, NEW place \in WorkerPlaces \ Gone,
           pc[w] \notin Gone, Goto(w, place), place \in {"join", "reap"} => state = "CANCELLED",
           UNCHANGED <<owner, rpc>>
    PROVE  OwnInv'
<1>1. /\ \A v \in Workers : pc'[v] = IF v = w THEN place ELSE pc[v]
      /\ \A c \in Callers : pc'[c] = pc[c]
  BY WorkerMoves
<1>2. Alive' = Alive
  BY <1>1 DEF Alive, Gone
<1> QED
  BY <1>1, <1>2 DEF OwnInv, OneOwner, owner

LEMMA InitOwn == Init => OwnInv
<1> SUFFICES ASSUME Init PROVE OwnInv
  OBVIOUS
<1>1. /\ handle /\ ~freed /\ rpc = "none" /\ state \in {"PENDING", "READY"}
      /\ \A w \in Workers : pc[w] \in {"idle", "top"}
  BY WeaverAssumption DEF Init, Threads
<1>2. CASE state = "PENDING"
  <2>1. PICK w \in Workers : pc = [t \in Threads |-> IF t = w THEN "top" ELSE "idle"]
    BY <1>2 DEF Init
  <2>2. Alive = {w}
    BY <2>1 DEF Alive, Threads
  <2> QED
    BY <1>1, <1>2, <2>2 DEF OwnInv, OneOwner
<1>3. CASE state = "READY"
  <2>1. Alive = {}
    BY <1>3 DEF Init, Alive, Threads
  <2> QED
    BY <1>1, <1>3, <2>1 DEF OwnInv, OneOwner
<1> QED
  BY <1>1, <1>2, <1>3

\* Arming a reconnect is the one step of a call that changes the owner: READY becomes
\* PENDING, and one worker comes to life where there was none.
LEMMA CallerOwn ==
    ASSUME Typed, OwnInv, NEW c \in Callers, CallerStep(c)
    PROVE  OwnInv'
<1>1. CASE ~Arm(c)
  BY <1>1, CallerPath, CallerKeepsOwner
<1>2. CASE Arm(c) /\ state # "READY"
  BY <1>2, CallerKeepsOwner DEF Arm, owner, CallerPlaces
<1>3. CASE Arm(c) /\ state = "READY"
  <2>1. Alive = {} /\ handle /\ ~freed /\ rpc = "none"
    BY <1>3 DEF Arm, OwnInv, OneOwner, Typed, TypeOK
  <2>2. PICK w \in Workers : pc[w] = "idle" /\ pc' = [pc EXCEPT ![c] = "idle", ![w] = "seed"]
    BY <1>3 DEF Arm
  <2>3. /\ \A v \in Workers : pc'[v] = IF v = w THEN "seed" ELSE pc[v]
        /\ c \notin Workers
    BY <2>2, WeaverAssumption DEF Typed, TypeOK, Threads
  <2>4. Alive' = {w}
    BY <2>1, <2>3 DEF Alive
  <2>5. state' = "PENDING" /\ handle' /\ ~freed' /\ rpc' = "none"
    BY <1>3, <2>1 DEF Arm
  <2>6. \A v \in Workers : pc'[v] \notin {"join", "reap"}
    BY <2>1, <2>3 DEF Alive
  <2> QED
    BY <2>4, <2>5, <2>6 DEF OwnInv, OneOwner
<1> QED
  BY <1>1, <1>2, <1>3

\* The worker that has the struct hands it on by its publish or its reaping; one that
\* published only reports.
LEMMA WorkerOwn ==
    ASSUME Typed, OwnInv, NEW w \in Workers, WorkerStep(w)
    PROVE  OwnInv'
<1>1. CASE WorkerReports(w)
  <2>1. UNCHANGED <<owner, rpc>> /\ pc[w] \in Gone
    BY <1>1 DEF WorkerReports, Gone
  <2>2. PICK place \in Gone : Goto(w, place)
    BY <1>1 DEF WorkerReports, Gone
  <2>3. /\ \A v \in Workers : pc'[v] = IF v = w THEN place ELSE pc[v]
        /\ \A c \in Callers : pc'[c] = pc[c]
    BY <2>2, WorkerMoves DEF Gone, WorkerPlaces
  <2>4. Alive' = Alive
    BY <2>1, <2>3 DEF Alive, Gone
  <2> QED
    BY <2>1, <2>2, <2>3, <2>4 DEF OwnInv, OneOwner, owner, Gone
<1>2. CASE ~WorkerReports(w)
  <2>1. /\ pc[w] \notin Gone /\ Alive = {w} /\ state \in {"PENDING", "CANCELLED"}
        /\ ~freed /\ rpc = "none"
    <3>1. pc[w] \notin Gone
      BY <1>2, SharedPath
         DEF WorkerStep, ReconnectSeed, ReconnectSeedStore, ReconnectTeardown, WorkerCancelled,
             WorkerAttempt, WorkerCreates, WorkerCreateFails, WorkerRetries, WorkerWindow,
             WorkerWish, WorkerStamp, WorkerPublish, WorkerJoins, WorkerReaps, PostPlaces,
             WindowPlaces, Gone, Threads
    <3> QED
      BY <3>1 DEF OwnInv, OneOwner, Alive, Gone
  <2>2. CASE WorkerCancelled(w) \/ WorkerReaps(w)
    <3>1. state = "CANCELLED" /\ ~handle
      BY <2>2 DEF WorkerCancelled, WorkerReaps, OwnInv, OneOwner
    <3>2. freed' /\ UNCHANGED <<handle, state, rpc>> /\ Goto(w, "idle")
      BY <2>2 DEF WorkerCancelled, WorkerReaps
    <3>3. /\ \A v \in Workers : pc'[v] = IF v = w THEN "idle" ELSE pc[v]
          /\ \A c \in Callers : pc'[c] = pc[c]
      BY <3>2, WorkerMoves DEF WorkerPlaces
    <3>4. Alive' = {}
      BY <2>1, <3>3 DEF Alive
    <3> QED
      BY <2>1, <3>1, <3>2, <3>3, <3>4 DEF OwnInv, OneOwner
  <2>3. CASE WorkerPublish(w) /\ state = "PENDING"
    <3>1. handle /\ state' = "READY" /\ UNCHANGED <<handle, freed, rpc>>
      BY <2>3 DEF WorkerPublish, OwnInv
    <3>2. PICK place \in Gone : Goto(w, place)
      BY <2>3 DEF WorkerPublish, Published, Gone
    <3>3. /\ \A v \in Workers : pc'[v] = IF v = w THEN place ELSE pc[v]
          /\ \A c \in Callers : pc'[c] = pc[c]
      BY <3>2, WorkerMoves DEF Gone, WorkerPlaces
    <3>4. Alive' = {} /\ \A v \in Workers : pc'[v] \in Gone
      BY <2>1, <3>2, <3>3 DEF Alive, Gone
    <3> QED
      BY <2>1, <3>1, <3>3, <3>4 DEF OwnInv, OneOwner, Gone
  <2>4. CASE WorkerPublish(w) /\ state # "PENDING"
    BY <2>1, <2>4, WorkerKeepsOwner DEF WorkerPublish, owner, WorkerPlaces, Gone
  <2>5. CASE WorkerJoins(w)
    BY <2>1, <2>5, WorkerKeepsOwner DEF WorkerJoins, OwnInv, WorkerPlaces, Gone
  <2>6. CASE PostStep(w) \/ WindowStep(w)
    BY <2>1, <2>6, SharedPath, WorkerKeepsOwner
       DEF Threads, PostPlaces, WindowPlaces, WorkerPlaces, Gone
  <2>7. CASE ReconnectSeed(w) \/ ReconnectSeedStore(w) \/ ReconnectTeardown(w)
             \/ WorkerAttempt(w) \/ WorkerCreates(w) \/ WorkerCreateFails(w) \/ WorkerRetries(w)
    BY <2>1, <2>7, WorkerKeepsOwner
       DEF ReconnectSeed, ReconnectSeedStore, ReconnectTeardown, WorkerAttempt, WorkerCreates,
           WorkerCreateFails, WorkerRetries, WorkerPlaces, Gone
  <2>8. CASE WorkerWindow(w) \/ WorkerWish(w) \/ WorkerStamp(w)
    <3>1. UNCHANGED <<owner, rpc>>
      BY <2>8 DEF WorkerWindow, WorkerWish, WorkerStamp
    <3>2. \E place \in {"wish", "winCall", "claim", "stamp", "publish"} : Goto(w, place)
      BY <2>8 DEF WorkerWindow, WorkerWish, WorkerStamp
    <3> QED
      BY <2>1, <3>1, <3>2, WorkerKeepsOwner DEF WorkerPlaces, PostPlaces, WindowPlaces, Gone
  <2> QED
    BY <1>2, <2>2, <2>3, <2>4, <2>5, <2>6, <2>7, <2>8 DEF WorkerStep
<1> QED
  BY <1>1, <1>2

LEMMA OwnStep == Typed /\ OwnInv /\ [Next]_vars => OwnInv'
<1> SUFFICES ASSUME Typed, OwnInv, [Next]_vars PROVE OwnInv'
  OBVIOUS
<1>1. CASE UNCHANGED <<owner, rpc, pc>>
  BY <1>1 DEF OwnInv, OneOwner, owner, Alive
<1>2. ASSUME NEW c \in Callers,
             (\E wish \in Modes : Request(c, wish)) \/ (\E h \in Windows : SetWindow(c, h)) \/ Poll(c)
      PROVE  OwnInv'
  BY <1>2, CallerKeepsOwner DEF Request, SetWindow, Poll, CallerPlaces
<1>3. CASE PlatformStep \/ LensStep \/ UNCHANGED vars
  <2>1. UNCHANGED <<owner, rpc, pc>>
    BY <1>3 DEF PlatformStep, PlatformStops, PlatformStarts, SecondPasses, LensStep, LensTake,
       LensDwell, LensDwelt, LensLooks, LensCall, LensAborts, LensDrop, LensRecheck, LensReclaim,
       vars, threadVars
  <2> QED
    BY <1>1, <2>1
<1>4. CASE Destroy
  <2>1. handle /\ ~freed /\ rpc = "none" /\ state \in {"READY", "PENDING"}
    BY <1>4 DEF Destroy, OwnInv, OneOwner, Typed, TypeOK
  <2>2. ~handle' /\ UNCHANGED <<freed, pc>> /\ \A c \in Callers : pc[c] = "idle"
    BY <1>4 DEF Destroy, threadVars
  <2>3. Alive' = Alive
    BY <2>2 DEF Alive
  <2>4. CASE state = "PENDING"
    BY <1>4, <2>1, <2>2, <2>3, <2>4 DEF Destroy, OwnInv, OneOwner
  <2>5. CASE state = "READY"
    BY <1>4, <2>1, <2>2, <2>3, <2>5 DEF Destroy, OwnInv, OneOwner
  <2> QED
    BY <2>1, <2>4, <2>5
<1>5. CASE DestroyJoins
  BY <1>5 DEF DestroyJoins, OwnInv, OneOwner, owner, threadVars, Alive
<1>6. CASE DestroyFrees
  BY <1>6 DEF DestroyFrees, OwnInv, OneOwner, threadVars, Alive
<1> QED
  BY <1>2, <1>3, <1>4, <1>5, <1>6, CallerOwn, WorkerOwn DEF Next, DestroyStep

-----------------------------------------------------------------------------
(* The lens mailbox and its thread.                                        *)

\* Together they are inductive: who drops the claim looks at the box again, and a
\* wish is stored before its poster tries the claim.
LensInv == BusyIsOneClaim /\ MailboxServed

\* Places from which a poster will still look at the box.
Looking == {"claim", "fallTake"}

LEMMA ThreadMoves ==
    ASSUME TypeOK, NEW t \in Threads, NEW place, Goto(t, place)
    PROVE  \A s \in Threads : pc'[s] = IF s = t THEN place ELSE pc[s]
BY DEF TypeOK, Goto

\* What keeps the box and who posts keeps the invariant.
LEMMA LensFrame ==
    ASSUME LensInv, UNCHANGED <<mailbox, busy, lpc>>,
           \A t \in Threads : /\ pc'[t] = "spawn" <=> pc[t] = "spawn"
                              /\ pc'[t] \in Looking <=> pc[t] \in Looking
    PROVE  LensInv'
<1>1. Posters' = Posters
  BY DEF Posters
<1> QED
  BY <1>1 DEF LensInv, BusyIsOneClaim, MailboxServed, Drains, Looking

\* So does a thread that moves neither from nor to a place of lens_post's.
LEMMA LensMove ==
    ASSUME TypeOK, LensInv, NEW t \in Threads, NEW place, Goto(t, place),
           {place, pc[t]} \cap {"claim", "spawn", "fallTake"} = {},
           UNCHANGED <<mailbox, busy, lpc>>
    PROVE  LensInv'
BY ThreadMoves, LensFrame DEF Looking

\* lens_post: store, claim, spawn or give the claim back and take the wish.
LEMMA PostLens ==
    ASSUME Typed, LensInv, NEW t \in Threads, PostStep(t)
    PROVE  LensInv'
<1> USE DEF LensInv, Typed
<1>1. ASSUME Posted(t)
      PROVE  \E place \in {"idle", "stamp"} : \A s \in Threads : pc'[s] = IF s = t THEN place ELSE pc[s]
  BY <1>1, ThreadMoves DEF Posted
<1>2. CASE Claim(t) /\ busy
  <2>1. Posters' = Posters
    BY <1>1, <1>2 DEF Claim, Posters
  <2> QED
    BY <1>2, <2>1 DEF Claim, lensThread, BusyIsOneClaim, MailboxServed, Drains
<1>3. CASE Claim(t) /\ ~busy
  <2>1. Goto(t, "spawn") /\ busy' /\ UNCHANGED lpc
    BY <1>3 DEF Claim, lensThread
  <2>2. ~Drains /\ Posters = {}
    BY <1>3 DEF BusyIsOneClaim
  <2>3. Posters' = {t}
    BY <2>1, <2>2, ThreadMoves DEF Posters
  <2> QED
    BY <2>1, <2>2, <2>3 DEF BusyIsOneClaim, MailboxServed, Drains
<1>4. CASE Spawn(t)
  <2>1. Posters = {t} /\ busy
    BY <1>4 DEF Spawn, Posters, BusyIsOneClaim
  <2>2. Posters' = {}
    BY <1>1, <1>4, <2>1 DEF Spawn, Posters
  <2> QED
    BY <1>4, <2>1, <2>2 DEF Spawn, lensBox, BusyIsOneClaim, MailboxServed, Drains
<1>5. CASE SpawnFails(t)
  <2>1. Posters = {t}
    BY <1>5 DEF SpawnFails, Posters, BusyIsOneClaim
  <2>2. \A s \in Threads : pc'[s] = IF s = t THEN "fallTake" ELSE pc[s]
    BY <1>5, ThreadMoves DEF SpawnFails
  <2>3. Posters' = {}
    BY <2>1, <2>2 DEF Posters
  <2>4. ~busy' /\ lpc' = "none"
    BY <1>5 DEF SpawnFails
  <2> QED
    BY <2>2, <2>3, <2>4 DEF BusyIsOneClaim, MailboxServed, Drains
<1>6. CASE FallTake(t)
  <2>1. PICK place \in {"idle", "stamp", "fallSet"} :
          \A s \in Threads : pc'[s] = IF s = t THEN place ELSE pc[s]
    BY <1>1, <1>6, ThreadMoves DEF FallTake
  <2>2. Posters' = Posters
    BY <1>6, <2>1 DEF FallTake, Posters
  <2> QED
    BY <1>6, <2>2 DEF FallTake, lensThread, BusyIsOneClaim, MailboxServed, Drains
<1>7. CASE FallSet(t)
  <2>1. PICK place \in {"idle", "stamp"} : Goto(t, place)
    BY <1>7 DEF FallSet, Posted
  <2> QED
    BY <1>7, <2>1, LensMove DEF FallSet, lensBox, lensThread
<1> QED
  BY <1>2, <1>3, <1>4, <1>5, <1>6, <1>7 DEF PostStep

LEMMA WindowLens ==
    ASSUME Typed, LensInv, NEW t \in Threads, WindowStep(t)
    PROVE  LensInv'
<1>1. PICK place \in {"winRecord", "wish", "idle"} : Goto(t, place)
  BY DEF WindowStep, WindowCall, WindowRefused, WindowRecord, Rebound
<1>2. pc[t] \in {"winCall", "winRecord"} /\ UNCHANGED <<mailbox, busy, lpc>>
  BY DEF WindowStep, WindowCall, WindowRefused, WindowRecord, lensBox, lensThread
<1> QED
  BY <1>1, <1>2, LensMove DEF Typed

LEMMA CallerLens ==
    ASSUME Typed, LensInv, NEW c \in Callers, CallerStep(c)
    PROVE  LensInv'
<1> c \in Threads
  BY DEF Threads
<1> USE DEF lensBox, lensThread, Return
<1>1. CASE RequestLoad(c) \/ RequestStore(c) \/ RequestRecheck(c) \/ RequestTake(c)
           \/ RequestReady(c) \/ RequestSet(c)
  <2>1. PICK place \in {"reqStore", "reqReady", "reqRecheck", "reqTake", "reqSet", "post", "idle"} :
          Goto(c, place)
    BY <1>1 DEF RequestLoad, RequestStore, RequestRecheck, RequestTake, RequestReady, RequestSet
  <2>2. /\ pc[c] \in {"reqLoad", "reqStore", "reqRecheck", "reqTake", "reqReady", "reqSet"}
        /\ UNCHANGED <<mailbox, busy, lpc>>
    BY <1>1 DEF RequestLoad, RequestStore, RequestRecheck, RequestTake, RequestReady, RequestSet
  <2> QED
    BY <2>1, <2>2, LensMove DEF Typed
<1>2. CASE SetWindowLoad(c) \/ SetWindowStore(c) \/ SetWindowRecheck(c)
           \/ SetWindowTake(c) \/ SetWindowReady(c)
  <2>1. PICK place \in {"winStore", "winReady", "winRecheck", "winTake", "winCall", "idle"} :
          Goto(c, place)
    BY <1>2 DEF SetWindowLoad, SetWindowStore, SetWindowRecheck, SetWindowTake, SetWindowReady
  <2>2. /\ pc[c] \in {"winLoad", "winStore", "winRecheck", "winTake", "winReady"}
        /\ UNCHANGED <<mailbox, busy, lpc>>
    BY <1>2 DEF SetWindowLoad, SetWindowStore, SetWindowRecheck, SetWindowTake, SetWindowReady
  <2> QED
    BY <2>1, <2>2, LensMove DEF Typed
<1>3. CASE PollLoad(c) \/ PollRead(c)
  <2>1. PICK place \in {"pollRead", "arm", "idle"} : Goto(c, place)
    BY <1>3 DEF PollLoad, PollRead
  <2>2. pc[c] \in {"pollLoad", "pollRead"} /\ UNCHANGED <<mailbox, busy, lpc>>
    BY <1>3 DEF PollLoad, PollRead
  <2> QED
    BY <2>1, <2>2, LensMove DEF Typed
<1>4. CASE Arm(c) /\ state # "READY"
  BY <1>4, LensMove DEF Arm, Typed
<1>5. CASE Arm(c) /\ state = "READY"
  <2>1. PICK w \in Workers : pc[w] = "idle" /\ pc' = [pc EXCEPT ![c] = "idle", ![w] = "seed"]
    BY <1>5 DEF Arm
  <2>2. \A s \in Threads : pc'[s] = IF s = w THEN "seed" ELSE IF s = c THEN "idle" ELSE pc[s]
    BY <2>1 DEF Typed, TypeOK, Threads
  <2>3. pc[w] = "idle" /\ pc[c] = "arm" /\ UNCHANGED <<mailbox, busy, lpc>>
    BY <1>5, <2>1 DEF Arm
  <2>4. \A s \in Threads : /\ pc'[s] = "spawn" <=> pc[s] = "spawn"
                           /\ pc'[s] \in Looking <=> pc[s] \in Looking
    BY <2>2, <2>3 DEF Looking
  <2> QED
    BY <2>3, <2>4, LensFrame
<1>6. CASE Post(c)
  <2>1. \A s \in Threads : pc'[s] = IF s = c THEN "claim" ELSE pc[s]
    BY <1>6, ThreadMoves DEF Post, Typed
  <2>2. Posters' = Posters
    BY <1>6, <2>1 DEF Post, Posters
  <2> QED
    BY <1>6, <2>1, <2>2 DEF Post, LensInv, BusyIsOneClaim, MailboxServed, Drains
<1> QED
  BY <1>1, <1>2, <1>3, <1>4, <1>5, <1>6, PostLens, WindowLens DEF CallerStep

LEMMA WorkerLens ==
    ASSUME Typed, LensInv, NEW w \in Workers, WorkerStep(w)
    PROVE  LensInv'
<1> w \in Threads
  BY DEF Threads
<1> USE DEF lensBox, lensThread
<1>1. CASE ReconnectSeed(w) \/ ReconnectSeedStore(w) \/ ReconnectTeardown(w) \/ WorkerCancelled(w)
           \/ WorkerAttempt(w) \/ WorkerCreates(w) \/ WorkerCreateFails(w) \/ WorkerRetries(w)
  <2>1. PICK place \in {"seedStore", "teardown", "top", "idle", "create", "window", "retry"} :
          Goto(w, place)
    BY <1>1 DEF ReconnectSeed, ReconnectSeedStore, ReconnectTeardown, WorkerCancelled, WorkerAttempt,
       WorkerCreates, WorkerCreateFails, WorkerRetries
  <2>2. /\ pc[w] \in {"seed", "seedStore", "teardown", "top", "create", "retry"}
        /\ UNCHANGED <<mailbox, busy, lpc>>
    BY <1>1 DEF ReconnectSeed, ReconnectSeedStore, ReconnectTeardown, WorkerCancelled, WorkerAttempt,
       WorkerCreates, WorkerCreateFails, WorkerRetries
  <2> QED
    BY <2>1, <2>2, LensMove DEF Typed
<1>2. CASE WorkerWindow(w) \/ WorkerStamp(w) \/ WorkerPublish(w) \/ WorkerReports(w) \/ WorkerReaps(w)
  <2>1. PICK place \in {"wish", "winCall", "publish", "count", "report", "idle", "join"} :
          Goto(w, place)
    BY <1>2 DEF WorkerWindow, WorkerStamp, WorkerPublish, Published, WorkerReports, WorkerReaps
  <2>2. /\ pc[w] \in {"window", "stamp", "publish", "count", "report", "reap"}
        /\ UNCHANGED <<mailbox, busy, lpc>>
    BY <1>2 DEF WorkerWindow, WorkerStamp, WorkerPublish, WorkerReports, WorkerReaps
  <2> QED
    BY <2>1, <2>2, LensMove DEF Typed
<1>3. CASE WorkerWish(w)
  <2>1. PICK place : Goto(w, place) /\ (mailbox' = mailbox \/ place = "claim") /\ place # "spawn"
    BY <1>3 DEF WorkerWish
  <2>2. \A s \in Threads : pc'[s] = IF s = w THEN place ELSE pc[s]
    BY <2>1, ThreadMoves DEF Typed
  <2>3. Posters' = Posters
    BY <1>3, <2>1, <2>2 DEF WorkerWish, Posters
  <2>4. pc[w] = "wish" /\ UNCHANGED <<busy, lpc>>
    BY <1>3 DEF WorkerWish
  <2> QED
    BY <2>1, <2>2, <2>3, <2>4 DEF LensInv, BusyIsOneClaim, MailboxServed, Drains
<1>4. CASE WorkerJoins(w)
  <2>1. \A s \in Threads : pc'[s] = IF s = w THEN "reap" ELSE pc[s]
    BY <1>4, ThreadMoves DEF WorkerJoins, Typed
  <2>2. Posters' = Posters
    BY <1>4, <2>1 DEF WorkerJoins, Posters
  <2> QED
    BY <1>4, <2>2
       DEF WorkerJoins, LensWorkerJoin, LensJoinable, LensInv, BusyIsOneClaim, MailboxServed, Drains
<1> QED
  BY <1>1, <1>2, <1>3, <1>4, PostLens, WindowLens DEF WorkerStep

LEMMA LensLens == LensInv /\ LensStep => LensInv'
<1> SUFFICES ASSUME LensInv, LensStep PROVE LensInv'
  OBVIOUS
<1>1. UNCHANGED pc
  BY DEF LensStep, LensTake, LensDwell, LensDwelt, LensLooks, LensCall, LensAborts, LensDrop,
     LensRecheck, LensReclaim, threadVars
<1>2. Posters' = Posters
  BY <1>1 DEF Posters
<1> USE DEF LensInv, BusyIsOneClaim, MailboxServed, Drains, LensGoto, lensBox
<1>3. CASE LensTake
  BY <1>1, <1>2, <1>3 DEF LensTake
<1>4. CASE LensDwell
  BY <1>1, <1>2, <1>4 DEF LensDwell
<1>5. CASE LensDwelt
  BY <1>1, <1>2, <1>5 DEF LensDwelt
<1>6. CASE LensLooks
  BY <1>1, <1>2, <1>6 DEF LensLooks
<1>7. CASE LensCall
  BY <1>1, <1>2, <1>7 DEF LensCall
<1>8. CASE LensAborts
  BY <1>1, <1>2, <1>8 DEF LensAborts
<1>9. CASE LensDrop
  BY <1>1, <1>2, <1>9 DEF LensDrop
<1>10. CASE LensRecheck
  BY <1>1, <1>2, <1>10 DEF LensRecheck
<1>11. CASE LensReclaim
  BY <1>1, <1>2, <1>11 DEF LensReclaim
<1> QED
  BY <1>3, <1>4, <1>5, <1>6, <1>7, <1>8, <1>9, <1>10, <1>11 DEF LensStep

LEMMA InitLens == Init => LensInv
<1> SUFFICES ASSUME Init PROVE LensInv
  OBVIOUS
<1>1. Posters = {}
  BY DEF Init, Posters
<1> QED
  BY <1>1 DEF Init, LensInv, BusyIsOneClaim, MailboxServed, Drains

LEMMA LensInvStep == Typed /\ LensInv /\ [Next]_vars => LensInv'
<1> SUFFICES ASSUME Typed, LensInv, [Next]_vars PROVE LensInv'
  OBVIOUS
<1>1. CASE UNCHANGED <<mailbox, busy, lpc, pc>>
  BY <1>1, LensFrame
<1>2. ASSUME NEW c \in Callers,
             (\E wish \in Modes : Request(c, wish)) \/ (\E h \in Windows : SetWindow(c, h)) \/ Poll(c)
      PROVE  LensInv'
  <2>1. PICK place \in {"reqLoad", "winLoad", "pollLoad"} : Goto(c, place)
    BY <1>2 DEF Request, SetWindow, Poll
  <2>2. c \in Threads /\ pc[c] = "idle" /\ UNCHANGED <<mailbox, busy, lpc>>
    BY <1>2 DEF Request, SetWindow, Poll, lensBox, lensThread, Threads
  <2> QED
    BY <2>1, <2>2, LensMove DEF Typed
<1>3. CASE PlatformStep \/ Destroy \/ DestroyFrees \/ UNCHANGED vars
  BY <1>1, <1>3 DEF PlatformStep, PlatformStops, PlatformStarts, SecondPasses, Destroy, DestroyFrees,
     vars, lensBox, lensThread, threadVars
<1>4. CASE DestroyJoins
  <2>1. Posters' = Posters
    BY <1>4 DEF DestroyJoins, Posters, threadVars
  <2> QED
    BY <1>4, <2>1
       DEF DestroyJoins, LensWorkerJoin, LensJoinable, LensInv, BusyIsOneClaim, MailboxServed, Drains
<1> QED
  BY <1>2, <1>3, <1>4, CallerLens, WorkerLens, LensLens DEF Next, DestroyStep

-----------------------------------------------------------------------------
(* The join before a teardown.                                             *)

\* While a teardown or a reap is on its way no one posts: the handle is given up and the
\* only worker is the one that reaps.
LEMMA JoinStep ==
    Typed /\ OwnInv /\ JoinedBeforeTeardown /\ [Next]_vars => JoinedBeforeTeardown'
<1> SUFFICES ASSUME Typed, OwnInv, JoinedBeforeTeardown, [Next]_vars PROVE JoinedBeforeTeardown'
  OBVIOUS
<1> USE DEF JoinedBeforeTeardown
<1>1. ASSUME UNCHANGED <<lpc, rpc>>, NEW t \in Threads, NEW place, place # "reap", Goto(t, place)
      PROVE  JoinedBeforeTeardown'
  BY <1>1, ThreadMoves DEF Typed, Threads
<1>2. ASSUME NEW t \in Threads, PostStep(t) \/ WindowStep(t) PROVE JoinedBeforeTeardown'
  <2>1. pc[t] \in PostPlaces \cup WindowPlaces /\ UNCHANGED rpc
    BY <1>2, SharedPath
  <2>2. PICK place : Goto(t, place) /\ place # "reap"
    BY <1>2, SharedPath DEF PostPlaces, WindowPlaces
  <2>3. rpc # "teardown"
    BY <2>1, WeaverAssumption DEF OwnInv, OneOwner, Alive, Threads, PostPlaces, WindowPlaces
  <2>4. \A w \in Workers : pc[w] # "reap"
    BY <2>1, WeaverAssumption DEF OwnInv, OneOwner, Alive, Threads, PostPlaces, WindowPlaces
  <2> QED
    BY <2>1, <2>2, <2>3, <2>4, ThreadMoves DEF Typed, Threads
<1>3. ASSUME NEW c \in Callers, CallerStep(c) PROVE JoinedBeforeTeardown'
  <2>1. c \in Threads
    BY DEF Threads
  <2>2. CASE PostStep(c) \/ WindowStep(c)
    BY <1>2, <2>1, <2>2
  <2>3. CASE Arm(c)
    <3>1. UNCHANGED <<lpc, rpc>> /\ \A w \in Workers : pc'[w] = "reap" => pc[w] = "reap"
      BY <2>3, WeaverAssumption DEF Arm, Goto, lensThread, Typed, TypeOK, Threads
    <3> QED
      BY <3>1
  <2>4. CASE ~PostStep(c) /\ ~WindowStep(c) /\ ~Arm(c)
    <3>1. UNCHANGED lpc
      BY <1>3, <2>4
         DEF CallerStep, RequestLoad, RequestStore, RequestRecheck, RequestTake, RequestReady,
             RequestSet, Post, SetWindowLoad, SetWindowStore, SetWindowRecheck, SetWindowTake,
             SetWindowReady, PollLoad, PollRead, lensThread
    <3>2. UNCHANGED rpc /\ \E place \in CallerPlaces : Goto(c, place)
      BY <1>3, <2>4, CallerPath
    <3> QED
      BY <1>1, <2>1, <3>1, <3>2 DEF CallerPlaces, PostPlaces, WindowPlaces
  <2> QED
    BY <2>2, <2>3, <2>4
<1>4. ASSUME NEW w \in Workers, WorkerStep(w) PROVE JoinedBeforeTeardown'
  <2>1. w \in Threads
    BY DEF Threads
  <2>2. CASE WorkerJoins(w)
    BY <2>2 DEF WorkerJoins, LensWorkerJoin
  <2>3. CASE PostStep(w) \/ WindowStep(w)
    BY <1>2, <2>1, <2>3
  <2>4. CASE ReconnectSeed(w) \/ ReconnectSeedStore(w) \/ ReconnectTeardown(w)
             \/ WorkerCancelled(w) \/ WorkerAttempt(w) \/ WorkerCreates(w)
             \/ WorkerCreateFails(w) \/ WorkerRetries(w)
    BY <1>1, <2>1, <2>4
       DEF ReconnectSeed, ReconnectSeedStore, ReconnectTeardown, WorkerCancelled, WorkerAttempt,
           WorkerCreates, WorkerCreateFails, WorkerRetries, lensThread
  <2>5. CASE WorkerWindow(w) \/ WorkerWish(w) \/ WorkerStamp(w) \/ WorkerPublish(w)
             \/ WorkerReports(w) \/ WorkerReaps(w)
    <3>1. UNCHANGED <<lpc, rpc>>
      BY <2>5 DEF WorkerWindow, WorkerWish, WorkerStamp, WorkerPublish, WorkerReports, WorkerReaps,
         lensThread
    <3>2. PICK place : Goto(w, place) /\ place # "reap"
      BY <2>5 DEF WorkerWindow, WorkerWish, WorkerStamp, WorkerPublish, Published, WorkerReports,
         WorkerReaps
    <3> QED
      BY <1>1, <2>1, <3>1, <3>2
  <2> QED
    BY <1>4, <2>2, <2>3, <2>4, <2>5 DEF WorkerStep
<1>5. CASE LensStep
  <2>1. lpc # "none" /\ UNCHANGED <<rpc, pc>>
    BY <1>5 DEF LensStep, LensTake, LensDwell, LensDwelt, LensLooks, LensCall, LensAborts, LensDrop,
       LensRecheck, LensReclaim, threadVars
  <2> QED
    BY <2>1
<1>6. ASSUME NEW c \in Callers,
             (\E wish \in Modes : Request(c, wish)) \/ (\E h \in Windows : SetWindow(c, h)) \/ Poll(c)
      PROVE  JoinedBeforeTeardown'
  BY <1>1, <1>6 DEF Request, SetWindow, Poll, lensThread, Threads
<1>7. CASE PlatformStep \/ UNCHANGED vars
  BY <1>7 DEF PlatformStep, PlatformStops, PlatformStarts, SecondPasses, vars, lensThread, threadVars
<1>8. CASE Destroy \/ DestroyJoins \/ DestroyFrees
  BY <1>8 DEF Destroy, DestroyJoins, LensWorkerJoin, DestroyFrees, lensThread, threadVars
<1> QED
  BY <1>3, <1>4, <1>5, <1>6, <1>7, <1>8 DEF Next, DestroyStep

-----------------------------------------------------------------------------
IInv == Typed /\ OwnInv /\ LensInv /\ JoinedBeforeTeardown

LEMMA InitIInv == Init => IInv
<1> SUFFICES ASSUME Init PROVE IInv
  OBVIOUS
<1>1. rpc = "none" /\ \A w \in Workers : pc[w] \in {"idle", "top"}
  BY DEF Init, Threads
<1>2. JoinedBeforeTeardown
  BY <1>1 DEF JoinedBeforeTeardown
<1> QED
  BY <1>2, InitTyped, InitOwn, InitLens DEF IInv

\* Every reachable state of the weaver satisfies the inductive invariant.
THEOREM Invariance == Spec => []IInv
<1>1. IInv /\ [Next]_vars => IInv'
  BY TypedStep, OwnStep, LensInvStep, JoinStep DEF IInv
<1> QED
  BY InitIInv, <1>1, PTL DEF Spec

\* The fields of struct leiasr_d3d11 and its threads keep their types.
THEOREM TypeCorrect == Spec => []TypeOK
<1>1. IInv => TypeOK
  BY DEF IInv, Typed
<1> QED
  BY Invariance, <1>1, PTL

\* async_state leaves the struct to exactly one owner: what else a worker still does to
\* it after its publish is outside the exchange, and not excluded here.
THEOREM OwnerUnique == Spec => []OneOwner
<1>1. IInv => OneOwner
  BY DEF IInv, OwnInv
<1> QED
  BY Invariance, <1>1, PTL

\* lens_worker_busy is one thread's claim of the mailbox (lens_post, lens_worker_body).
THEOREM ClaimUnique == Spec => []BusyIsOneClaim
<1>1. IInv => BusyIsOneClaim
  BY DEF IInv, LensInv
<1> QED
  BY Invariance, <1>1, PTL

\* No wish is left in the mailbox by a worker that gives its claim up.
THEOREM WishesServed == Spec => []MailboxServed
<1>1. IInv => MailboxServed
  BY DEF IInv, LensInv
<1> QED
  BY Invariance, <1>1, PTL

\* A destroy that joins has no lens thread left when it tears the SDK objects down.
THEOREM TeardownJoined == Spec => []JoinedBeforeTeardown
BY Invariance, PTL DEF IInv

=============================================================================
