-------------------------- MODULE BgCaptureProofs --------------------------
(***************************************************************************)
(* Proofs about BgCapture, for any captures, graveyard, queue and number   *)
(* of desktop events and setter calls.  The invariant says where the frame *)
(* thread is when what is buried (GraveInv, PlaceInv), what the worker has *)
(* while it does not run yet or no more (WorkerInv), and that each capture *)
(* has one holder (OneHolder).  What the two inline paths would break is   *)
(* shown step by step for a step that takes neither: one start in flight,  *)
(* no stop under the GPU, a step of CaptureLifecycle; BgCaptureBounds      *)
(* shows that no step takes one, and has the theorems.                     *)
(***************************************************************************)
EXTENDS BgCapture, FiniteSetTheorems, TLAPS

-----------------------------------------------------------------------------
\* A buried capture rests for some more frames, unless its time is over and the
\* frame thread is handing it to the worker, or the display processor goes away.
GraveInv ==
    /\ at # "retire" => \A s \in Slots : grave[s].capture # None => grave[s].left > 0
    /\ at = "retire" /\ ~frame =>
          \A s \in Slots : grave[s].capture # None => grave[s].left = 0

Leaving == at \in {"stop", "join", "end"}

PlaceInv ==
    /\ at = "out" => ~frame
    /\ at = "compose" => frame
    /\ Leaving => \A s \in Slots : grave[s].capture = None
    /\ Leaving \/ (at = "retire" /\ ~frame) => capture = None
    /\ at = "join" => worker = "quit"
    /\ at = "end" => worker \in {"none", "gone"}
    /\ worker \in {"quit", "gone"} => at \in {"join", "end"}
    /\ worker = "gone" => wpc = "exit"

\* Before it is created the worker has nothing; after its loop it has no job and
\* no result; in between an unfinished start has no capture.
WorkerInv ==
    /\ worker = "none" =>
          live = {} /\ queue = <<>> /\ wpc = "loop" /\ ~rec.active /\ ~watch
    /\ worker = "none" => ~result.done
    /\ wpc \in {"orphan", "exit"} =>
          worker \in {"quit", "gone"} /\ queue = <<>> /\ result.capture = None
    /\ wpc = "destroy" => hand \in Captures
    /\ ~result.done => result.capture = None
    /\ WatchedWhileLost

IInv == TypeOK /\ GraveInv /\ PlaceInv /\ WorkerInv /\ OneHolder

-----------------------------------------------------------------------------
(* The queue and the graveyard.                                            *)

QueueDistinct ==
    \A i, j \in Job("destroy") : queue[i].capture = queue[j].capture => i = j

GraveDistinct ==
    \A s, t \in Slots :
       grave[s].capture = grave[t].capture /\ grave[s].capture # None => s = t

\* A job holds a capture if and only if it stops one.
LEMMA JobShape ==
    ASSUME NEW j \in Jobs
    PROVE  /\ j.type \in {"create", "destroy"} /\ j.capture \in Captures \cup {None}
           /\ j.type = "destroy" <=> j.capture # None
BY CaptureAssumption DEF Jobs, Create, Destroy

\* A stop goes to the end of the queue, or is done in line.
LEMMA RetireEffect ==
    ASSUME queue \in Seq(Jobs), QueueDistinct, NEW c \in Captures, c \notin Queued,
           Retire(c)
    PROVE  /\ queue' \in Seq(Jobs) /\ QueueDistinct'
           /\ \/ Queued' = Queued \cup {c} /\ live' = live
              \/ Queued' = Queued /\ live' = live \ {c}
<1>1. CASE Full
  BY <1>1 DEF Retire, QueueDistinct, Queued, Job
<1>2. CASE ~Full
  <2>1. queue' = Append(queue, Destroy(c)) /\ live' = live /\ Destroy(c) \in Jobs
    BY <1>2 DEF Retire, Jobs
  <2>2. /\ queue' \in Seq(Jobs) /\ Len(queue') = Len(queue) + 1
        /\ \A i \in 1..Len(queue) : queue'[i] = queue[i]
        /\ queue'[Len(queue) + 1] = Destroy(c)
    BY <2>1
  <2>3. /\ 1..Len(queue') = (1..Len(queue)) \cup {Len(queue) + 1}
        /\ Len(queue) + 1 \notin 1..Len(queue)
    BY <2>2
  <2>4. Queued' = Queued \cup {c}
    BY <2>2, <2>3, CaptureAssumption DEF Queued, Destroy
  <2>5. \A i \in 1..Len(queue) : queue[i].capture # c
    BY CaptureAssumption DEF Queued
  <2>6. QueueDistinct'
    BY <2>2, <2>3, <2>5 DEF QueueDistinct, Job, Destroy
  <2> QED
    BY <2>1, <2>2, <2>4, <2>6
<1> QED
  BY <1>1, <1>2

\* A capture is laid into a free slot, or stopped when there is none.
LEMMA BuryEffect ==
    ASSUME TypeOK, QueueDistinct, GraveDistinct, NEW c \in Captures,
           c \notin Queued, c \notin Resting, Bury(c)
    PROVE  /\ GraveType'
           /\ queue' \in Seq(Jobs) /\ QueueDistinct' /\ GraveDistinct'
           /\ \A s \in Slots : grave'[s] = grave[s] \/ grave'[s].left = Grace
           /\ \/ Resting' = Resting \cup {c} /\ queue' = queue /\ live' = live
              \/ Resting' = Resting /\ Queued' = Queued \cup {c} /\ live' = live
              \/ Resting' = Resting /\ Queued' = Queued /\ live' = live \ {c}
<1>1. CASE Retire(c) /\ UNCHANGED grave
  BY <1>1, RetireEffect DEF Resting, GraveDistinct, TypeOK, GraveType, WorkerType
<1>2. ASSUME NEW s \in Slots, grave[s].capture = None,
             grave' = [grave EXCEPT ![s] = [capture |-> c, left |-> Grace]],
             UNCHANGED <<queue, live>>
      PROVE  /\ GraveType'
             /\ GraveDistinct' /\ Resting' = Resting \cup {c}
             /\ \A t \in Slots : grave'[t] = grave[t] \/ grave'[t].left = Grace
  <2>1. /\ grave'[s] = [capture |-> c, left |-> Grace]
        /\ \A t \in Slots \ {s} : grave'[t] = grave[t]
        /\ GraveType'
    BY <1>2, CaptureAssumption DEF TypeOK, GraveType
  <2>2. \A t \in Slots : grave[t].capture # c
    BY CaptureAssumption DEF Resting
  <2>3. Resting' = Resting \cup {c}
    BY <1>2, <2>1, CaptureAssumption DEF Resting
  <2> QED
    BY <2>1, <2>2, <2>3 DEF GraveDistinct
<1> QED
  BY <1>1, <1>2 DEF Bury, QueueDistinct, Job, TypeOK, WorkerType

\* The worker takes the first job.
LEMMA TakeEffect ==
    ASSUME queue \in Seq(Jobs), QueueDistinct, queue # <<>>, queue' = Tail(queue)
    PROVE  /\ Head(queue) \in Jobs /\ queue' \in Seq(Jobs) /\ QueueDistinct'
           /\ Queued = Queued' \cup ({Head(queue).capture} \ {None})
           /\ Head(queue).capture \notin Queued'
<1>1. /\ Len(queue) \in Nat \ {0} /\ Len(queue') = Len(queue) - 1
      /\ Head(queue) = queue[1] /\ queue' \in Seq(Jobs)
      /\ \A i \in 1..Len(queue') : queue'[i] = queue[i + 1] /\ i + 1 \in 1..Len(queue)
      /\ \A i \in 1..Len(queue) : queue[i] \in Jobs
      /\ \A i \in 1..Len(queue) : i # 1 => i - 1 \in 1..Len(queue')
  OBVIOUS
<1>2. \A i \in 1..Len(queue) : i # 1 => queue[i] = queue'[i - 1]
  BY <1>1
<1>3. Head(queue) \in Jobs /\ 1 \in 1..Len(queue)
  BY <1>1
<1>4. QueueDistinct'
  BY <1>1 DEF QueueDistinct, Job
<1>5. Queued = Queued' \cup ({queue[1].capture} \ {None})
  <2>1. ASSUME NEW i \in 1..Len(queue), queue[i].capture # None, i # 1
        PROVE  queue[i].capture \in Queued'
    <3>1. i - 1 \in 1..Len(queue') /\ queue'[i - 1].capture = queue[i].capture
      BY <1>1, <1>2, <2>1
    <3> QED
      BY <2>1, <3>1 DEF Queued
  <2>2. ASSUME NEW i \in 1..Len(queue'), queue'[i].capture # None
        PROVE  queue'[i].capture \in Queued
    BY <1>1, <2>2 DEF Queued
  <2>3. Queued \subseteq Queued' \cup ({queue[1].capture} \ {None})
    BY <2>1 DEF Queued
  <2>4. Queued' \subseteq Queued
    BY <2>2 DEF Queued
  <2>5. {queue[1].capture} \ {None} \subseteq Queued
    BY <1>3 DEF Queued
  <2> QED
    BY <2>3, <2>4, <2>5
<1>6. ASSUME NEW i \in 1..Len(queue'), queue'[i].capture = queue[1].capture,
             queue[1].capture # None
      PROVE  FALSE
  <2>1. i + 1 \in Job("destroy") /\ 1 \in Job("destroy")
    BY <1>1, <1>6, JobShape DEF Job
  <2> QED
    BY <1>1, <1>6, <2>1 DEF QueueDistinct
<1> QED
  <2>1. Head(queue).capture \notin Queued'
    BY <1>1, <1>6 DEF Queued
  <2> QED
    BY <1>1, <1>3, <1>4, <1>5, <2>1

-----------------------------------------------------------------------------
(* Each step keeps the invariant.                                          *)

\* A step that leaves the holders alone leaves each capture with its one holder.
LEMMA HoldersKept ==
    ASSUME OneHolder, UNCHANGED <<live, capture, grave, queue, InHand, Started>>
    PROVE  OneHolder'
BY DEF OneHolder, Shown, Resting, Queued, Job

\* The invariant but OneHolder: what the frame thread's place says of the rest.
Rest == GraveInv /\ PlaceInv /\ WorkerInv

\* The same for a step that moves nothing this is about.
LEMMA RestKept ==
    ASSUME Rest, UNCHANGED <<at, frame, grave, capture, worker, wpc, hand, live, queue,
                             rec.active, watch, result>>
    PROVE  Rest'
BY DEF Rest, GraveInv, PlaceInv, Leaving, WorkerInv, WatchedWhileLost

LEMMA InitInv == Init => IInv
<1> SUFFICES ASSUME Init PROVE IInv
  OBVIOUS
<1> USE DEF Init
<1>1. TypeOK
  <2>1. MaxEvents \in 0..MaxEvents /\ 0 \in 0..MaxCalls /\ 0 \in 0..InFlight /\ 0 \in 0..Grace
    BY CaptureAssumption
  <2>2. DesktopType /\ PumpType
    BY <2>1 DEF DesktopType, PumpType
  <2>3. FrameType
    BY <2>1 DEF FrameType, NoLoss
  <2>4. GraveType
    BY <2>1 DEF GraveType, Empty
  <2>5. WorkerType
    BY DEF WorkerType, NoResult
  <2>6. gpu \in [Captures -> 0..InFlight]
    BY <2>1
  <2> QED
    BY <2>2, <2>3, <2>4, <2>5, <2>6 DEF TypeOK
<1>2. Rest
  BY DEF Rest, GraveInv, PlaceInv, Leaving, WorkerInv, WatchedWhileLost, Empty, NoLoss, NoResult
<1>3. OneHolder
  BY DEF OneHolder, Shown, Resting, Queued, InHand, Started, Job, Empty, NoResult
<1> QED
  BY <1>1, <1>2, <1>3 DEF IInv, Rest

\* Types of the parts a step does not touch.
LEMMA TypesKept ==
    /\ DesktopType /\ UNCHANGED desktop => DesktopType'
    /\ GraveType /\ UNCHANGED grave => GraveType'
    /\ WorkerType /\ UNCHANGED jobs => WorkerType'
    /\ PumpType /\ UNCHANGED pump => PumpType'
    /\ FrameType /\ UNCHANGED <<wishes, start, recovery, place>> => FrameType'
BY DEF DesktopType, GraveType, WorkerType, PumpType, FrameType, desktop, jobs, pump, wishes,
       start, recovery, place

\* Signals of a capture are of the two kinds.
LEMMA SignalTypes ==
    ASSUME NEW w \in {"lost", "restart"}, NEW S, NEW c \in Captures,
           NEW f \in [Captures -> SUBSET {"lost", "restart"}],
           NEW T \in SUBSET {"lost", "restart"}
    PROVE  /\ [d \in Captures |-> IF d \in S THEN f[d] \cup {w} ELSE {}]
                 \in [Captures -> SUBSET {"lost", "restart"}]
           /\ [f EXCEPT ![c] = @ \cup T] \in [Captures -> SUBSET {"lost", "restart"}]
           /\ [f EXCEPT ![c] = {}] \in [Captures -> SUBSET {"lost", "restart"}]
<1>1. \A d \in Captures : f[d] \cup {w} \in SUBSET {"lost", "restart"}
  OBVIOUS
<1>2. {} \in SUBSET {"lost", "restart"} /\ f[c] \cup T \in SUBSET {"lost", "restart"}
  OBVIOUS
<1> QED
  BY <1>1, <1>2

LEMMA EnvironmentInv ==
    ASSUME IInv, Environment
    PROVE  IInv'
<1> USE DEF DesktopOnly
<1>0. rec \in [active : BOOLEAN, pending : BOOLEAN, due : BOOLEAN]
  BY DEF IInv, TypeOK, FrameType
<1>1. /\ UNCHANGED <<live, gpu, wishes, capture, inflight, declined, awaiting, grave,
                     place, jobs, watch, unlockSeen, conn, heard>>
      /\ retryDue' \in {retryDue, TRUE} /\ rec' \in {rec, [rec EXCEPT !.due = TRUE]}
  <2>1. CASE Lock \/ Unlock \/ LayoutChanges
    BY <2>1 DEF Lock, Unlock, LayoutChanges, start, recovery, pump
  <2>2. CASE \E c \in Captures : StreamFails(c) \/ FrameArrives(c)
    BY <2>2 DEF StreamFails, FrameArrives, start, recovery, pump
  <2>3. CASE RetryDue \/ WaitOver
    BY <2>3 DEF RetryDue, WaitOver, start, recovery, pump
  <2> QED
    BY <2>1, <2>2, <2>3 DEF Environment
<1>2. TypeOK'
  <2>1. DesktopType'
    <3>0. ASSUME NEW next \in {0, 1}, Event(next)
          PROVE  events' \in 0..MaxEvents
      BY <3>0, CaptureAssumption DEF Event, IInv, TypeOK, DesktopType
    <3>1. CASE Lock \/ LayoutChanges
      <4>1. news' \in [Captures -> SUBSET {"lost", "restart"}]
        BY <3>1, SignalTypes, CaptureAssumption DEF IInv, TypeOK, DesktopType, Lock, LayoutChanges
      <4> QED
        BY <3>0, <3>1, <4>1 DEF IInv, TypeOK, DesktopType, Lock, LayoutChanges
    <3>2. CASE Unlock
      BY <3>2 DEF IInv, TypeOK, DesktopType, Unlock
    <3>3. ASSUME NEW c \in Captures, StreamFails(c) \/ FrameArrives(c)
          PROVE  DesktopType'
      <4>1. flags' \in [Captures -> SUBSET {"lost", "restart"}]
        BY <3>3, SignalTypes DEF IInv, TypeOK, DesktopType, StreamFails, FrameArrives
      <4> QED
        BY <3>0, <3>3, <4>1 DEF IInv, TypeOK, DesktopType, StreamFails, FrameArrives
    <3>4. CASE RetryDue \/ WaitOver
      BY <3>4, TypesKept DEF IInv, TypeOK, RetryDue, WaitOver
    <3> QED
      BY <3>1, <3>2, <3>3, <3>4 DEF Environment
  <2>2. PumpType'
    <3>1. signal' \in BOOLEAN
      BY DEF Environment, Lock, Unlock, LayoutChanges, StreamFails, FrameArrives, RetryDue,
             WaitOver, pump, IInv, TypeOK, PumpType
    <3> QED
      BY <1>1, <3>1 DEF IInv, TypeOK, PumpType
  <2>3. FrameType'
    <3>1. [rec EXCEPT !.due = TRUE] \in [active : BOOLEAN, pending : BOOLEAN, due : BOOLEAN]
      BY <1>0
    <3>2. rec' \in [active : BOOLEAN, pending : BOOLEAN, due : BOOLEAN]
      BY <1>0, <1>1, <3>1
    <3>3. retryDue' \in BOOLEAN
      <4>1. CASE retryDue' = TRUE
        BY <4>1
      <4> QED
        BY <1>1, <4>1 DEF IInv, TypeOK, FrameType
    <3> QED
      BY <1>1, <3>2, <3>3 DEF IInv, TypeOK, FrameType, wishes, place
  <2> QED
    BY <1>1, <2>1, <2>2, <2>3, TypesKept DEF IInv, TypeOK
<1>3. OneHolder'
  BY <1>1, HoldersKept DEF IInv, InHand, Started, jobs
<1>4. Rest'
  BY <1>0, <1>1, RestKept DEF IInv, Rest, jobs, place
<1> QED
  BY <1>2, <1>3, <1>4 DEF IInv, Rest

\* The steps of the frame thread that touch no capture.
FrameMoves ==
    \/ TakeUnlock \/ PostNone \/ SkipCompose \/ Sample \/ StopWorker \/ Joined
    \/ \E b \in BOOLEAN : SetTransparentBackground(b) \/ SetTransparencyActive(b)

LEMMA WatchEffect ==
    ASSUME NEW on \in BOOLEAN, WatchUnlock(on), worker # "none"
    PROVE  watch' = on /\ unlockSeen' \in {unlockSeen, FALSE}
BY DEF WatchUnlock

LEMMA FrameMovesInv ==
    ASSUME IInv, FrameMoves
    PROVE  IInv'
<1>1. UNCHANGED <<live, capture, grave, queue, wpc, hand, result>>
  BY DEF FrameMoves, TakeUnlock, PostNone, SkipCompose, Sample, StopWorker, Joined,
         SetTransparentBackground, SetTransparencyActive, start, jobs
<1>2. OneHolder'
  BY <1>1, HoldersKept DEF IInv, InHand, Started
<1>3. TypeOK' /\ Rest'
  <2>1. CASE TakeUnlock
    <3>0. rec' \in [active : BOOLEAN, pending : BOOLEAN, due : BOOLEAN]
      <4>1. rec' \in {rec, Unlocked(rec, inflight)}
        BY <2>1 DEF TakeUnlock
      <4>2. Unlocked(rec, inflight) \in [active : BOOLEAN, pending : BOOLEAN, due : BOOLEAN]
        BY DEF Unlocked, IInv, TypeOK, FrameType
      <4> QED
        BY <4>1, <4>2 DEF IInv, TypeOK, FrameType
    <3>1. FrameType'
      BY <2>1, <3>0 DEF IInv, TypeOK, FrameType, TakeUnlock, AfterUnlock, wishes, start
    <3>2. PumpType'
      BY <2>1 DEF IInv, TypeOK, PumpType, TakeUnlock
    <3>3. TypeOK'
      BY <2>1, <3>1, <3>2, TypesKept DEF IInv, TypeOK, TakeUnlock
    <3> QED
      BY <2>1, <1>1, <3>3 DEF IInv, TypeOK, FrameType, Rest, GraveInv, PlaceInv, Leaving,
         WorkerInv, WatchedWhileLost, TakeUnlock, AfterUnlock, Unlocked, jobs, start
  <2>2. CASE PostNone \/ SkipCompose
    <3>1. FrameType'
      BY <2>2 DEF IInv, TypeOK, FrameType, PostNone, SkipCompose, LeaveFrame, Return,
         wishes, start, recovery
    <3>2. TypeOK'
      BY <2>2, <3>1, TypesKept DEF IInv, TypeOK, PostNone, SkipCompose
    <3> QED
      BY <2>2, <1>1, <3>2 DEF IInv, Rest, GraveInv, PlaceInv, Leaving, WorkerInv,
         WatchedWhileLost, PostNone, SkipCompose, LeaveFrame, Return, jobs, start, recovery, pump
  <2>3. CASE Sample
    <3>1. capture \in Captures /\ worker # "none"
      BY <2>3 DEF IInv, TypeOK, FrameType, WorkerInv, Sample, OneHolder, Shown
    <3>2. DesktopType' /\ gpu' \in [Captures -> 0..InFlight]
      <4>1. /\ flags' \in [Captures -> SUBSET {"lost", "restart"}]
            /\ news' \in [Captures -> SUBSET {"lost", "restart"}]
        BY <2>3, <3>1, SignalTypes DEF IInv, TypeOK, DesktopType, Sample
      <4>2. gpu' \in [Captures -> 0..InFlight]
        <5>1. InFlight \in 0..InFlight /\ gpu \in [Captures -> 0..InFlight]
          BY CaptureAssumption DEF IInv, TypeOK
        <5>2. [gpu EXCEPT ![capture] = InFlight] \in [Captures -> 0..InFlight]
          BY <5>1
        <5> QED
          BY <2>3, <5>1, <5>2 DEF Sample
      <4> QED
        BY <2>3, <4>1, <4>2 DEF IInv, TypeOK, DesktopType, Sample
    <3>3. /\ watch' = rec'.active /\ watch' \in BOOLEAN /\ unlockSeen' \in BOOLEAN
          /\ rec' \in {rec, NoLoss} /\ awaiting' \in {awaiting, FALSE}
      <4>1. CASE rec' = NoLoss /\ awaiting' = FALSE /\ WatchUnlock(FALSE)
        <5>1. watch' = FALSE /\ unlockSeen' \in {unlockSeen, FALSE}
          BY <3>1, <4>1, WatchEffect
        <5> QED
          BY <4>1, <5>1 DEF IInv, TypeOK, PumpType, NoLoss
      <4>2. CASE UNCHANGED <<rec, awaiting, watch, unlockSeen>>
        BY <4>2 DEF IInv, TypeOK, PumpType, WorkerInv, WatchedWhileLost
      <4> QED
        BY <2>3, <4>1, <4>2 DEF Sample
    <3>4. FrameType'
      <4>1. /\ rec' \in [active : BOOLEAN, pending : BOOLEAN, due : BOOLEAN]
            /\ awaiting' \in BOOLEAN
        <5>1. NoLoss \in [active : BOOLEAN, pending : BOOLEAN, due : BOOLEAN] /\ FALSE \in BOOLEAN
          BY DEF NoLoss
        <5> QED
          BY <3>3, <5>1 DEF IInv, TypeOK, FrameType
      <4> QED
        BY <2>3, <4>1 DEF IInv, TypeOK, FrameType, Sample, LeaveFrame, wishes, start
    <3>5. PumpType'
      BY <2>3, <3>3 DEF IInv, TypeOK, PumpType, Sample
    <3>6. TypeOK'
      BY <2>3, <1>1, <3>2, <3>4, <3>5, TypesKept DEF IInv, TypeOK, Sample
    <3> QED
      BY <2>3, <1>1, <3>1, <3>3, <3>6 DEF IInv, Rest, GraveInv, PlaceInv, Leaving, WorkerInv,
         WatchedWhileLost, Sample, LeaveFrame, jobs
  <2>4. CASE StopWorker \/ Joined
    <3>1. FrameType' /\ WorkerType'
      BY <2>4 DEF IInv, TypeOK, FrameType, WorkerType, StopWorker, Joined, wishes, start, recovery
    <3>2. TypeOK'
      BY <2>4, <3>1, TypesKept DEF IInv, TypeOK, StopWorker, Joined
    <3> QED
      BY <2>4, <1>1, <3>2 DEF IInv, TypeOK, WorkerType, Rest, GraveInv, PlaceInv, Leaving,
         WorkerInv, WatchedWhileLost, StopWorker, Joined, start, recovery, pump
  <2>5. CASE \E b \in BOOLEAN : SetTransparentBackground(b) \/ SetTransparencyActive(b)
    <3>1. FrameType'
      <4>1. calls' \in 0..MaxCalls /\ at' = "lost"
        BY <2>5, CaptureAssumption DEF IInv, TypeOK, FrameType, SetTransparentBackground,
           SetTransparencyActive, Setter
      <4>2. enabled' \in BOOLEAN /\ active' \in BOOLEAN
        BY <2>5 DEF IInv, TypeOK, FrameType, SetTransparentBackground, SetTransparencyActive
      <4>3. declined' \in BOOLEAN /\ earned' \in BOOLEAN
        BY <2>5 DEF IInv, TypeOK, FrameType, SetTransparentBackground, SetTransparencyActive
      <4> QED
        BY <2>5, <4>1, <4>2, <4>3 DEF IInv, TypeOK, FrameType, SetTransparentBackground,
           SetTransparencyActive, recovery
    <3>2. TypeOK'
      BY <2>5, <3>1, TypesKept DEF IInv, TypeOK, SetTransparentBackground, SetTransparencyActive
    <3> QED
      BY <2>5, <1>1, <3>2 DEF IInv, Rest, GraveInv, PlaceInv, Leaving, WorkerInv,
         WatchedWhileLost, SetTransparentBackground, SetTransparencyActive, Setter, jobs,
         recovery, pump
  <2> QED
    BY <2>1, <2>2, <2>3, <2>4, <2>5 DEF FrameMoves
<1> QED
  BY <1>2, <1>3 DEF IInv, Rest

-----------------------------------------------------------------------------
(* The steps of the frame thread that move a capture.                      *)

RecType == [active : BOOLEAN, pending : BOOLEAN, due : BOOLEAN]

HolderSets ==
    /\ live = Shown \cup Resting \cup Queued \cup InHand \cup Started
    /\ Shown \cap (Resting \cup Queued \cup InHand \cup Started) = {}
    /\ Resting \cap (Queued \cup InHand \cup Started) = {}
    /\ Queued \cap (InHand \cup Started) = {} /\ InHand \cap Started = {}

LEMMA HolderParts ==
    /\ OneHolder <=> HolderSets /\ GraveDistinct /\ QueueDistinct
    /\ OneHolder' <=> HolderSets' /\ GraveDistinct' /\ QueueDistinct'
BY DEF OneHolder, HolderSets, GraveDistinct, QueueDistinct

\* A capture that was shown, or started, and is buried, gets a new holder or ends.
LEMMA BuryHolders ==
    ASSUME TypeOK, OneHolder, NEW c \in Captures, Bury(c), UNCHANGED InHand,
           \/ c \in Shown /\ Shown' = {} /\ UNCHANGED Started
           \/ c \in Started /\ Started' = {} /\ UNCHANGED Shown
    PROVE  /\ OneHolder' /\ GraveType' /\ queue' \in Seq(Jobs) /\ live' \subseteq Captures
           /\ \A s \in Slots : grave'[s] = grave[s] \/ grave'[s].left = Grace
<1>1. Shown \subseteq {c} \/ Started \subseteq {c}
  BY DEF Shown, Started
<1>2. HolderSets /\ GraveDistinct /\ QueueDistinct
  BY HolderParts
<1>3. c \notin Queued /\ c \notin Resting
  BY <1>2 DEF HolderSets
<1>4. /\ GraveType' /\ queue' \in Seq(Jobs) /\ QueueDistinct' /\ GraveDistinct'
      /\ \A s \in Slots : grave'[s] = grave[s] \/ grave'[s].left = Grace
      /\ \/ Resting' = Resting \cup {c} /\ queue' = queue /\ live' = live
         \/ Resting' = Resting /\ Queued' = Queued \cup {c} /\ live' = live
         \/ Resting' = Resting /\ Queued' = Queued /\ live' = live \ {c}
  BY <1>2, <1>3, BuryEffect
<1>5. queue' = queue => Queued' = Queued
  BY DEF Queued
<1>6. (c \in Shown => Shown = {c}) /\ (c \in Started => Started = {c})
  BY DEF Shown, Started
<1>7. HolderSets'
  BY <1>2, <1>3, <1>4, <1>5, <1>6 DEF HolderSets
<1> QED
  BY <1>4, <1>7, HolderParts DEF TypeOK

LEMMA ProcessAtlasInv ==
    ASSUME IInv, ProcessAtlas
    PROVE  IInv'
<1>1. /\ at = "out" /\ frame' = TRUE /\ calls' = 0 /\ UNCHANGED <<desktop, live, enabled,
         active, earned, start, recovery, jobs, pump>>
      /\ at' = AfterAge(grave', "lost")
  BY DEF ProcessAtlas
<1>2. /\ GraveType' /\ GraveDistinct' /\ Resting' = Resting
      /\ \A s \in Slots : grave'[s].capture = grave[s].capture
  <2>1. ASSUME NEW s \in Slots
        PROVE  /\ grave'[s] \in [capture : Captures \cup {None}, left : 0..Grace]
               /\ grave'[s].capture = grave[s].capture
    <3>1. CASE grave[s].capture = None
      BY <3>1, CaptureAssumption DEF ProcessAtlas, Empty
    <3>2. CASE grave[s].capture # None
      <4>1. grave[s].left > 0 /\ grave[s].left - 1 \in 0..Grace
        BY <1>1, <3>2, CaptureAssumption DEF IInv, TypeOK, GraveType, GraveInv
      <4>2. grave'[s] = [grave[s] EXCEPT !.left = grave[s].left - 1]
        BY <3>2 DEF ProcessAtlas
      <4> QED
        BY <4>1, <4>2 DEF IInv, TypeOK, GraveType
    <3> QED
      BY <3>1, <3>2
  <2>2. GraveType'
    BY <2>1 DEF ProcessAtlas, GraveType
  <2>3. Resting' = Resting
    BY <2>1 DEF Resting
  <2> QED
    BY <2>1, <2>2, <2>3 DEF GraveDistinct, IInv, OneHolder
<1>3. gpu' \in [Captures -> 0..InFlight]
  <2>1. \A c \in Captures : (IF gpu[c] = 0 THEN 0 ELSE gpu[c] - 1) \in 0..InFlight
    BY CaptureAssumption DEF IInv, TypeOK
  <2> QED
    BY <2>1 DEF ProcessAtlas
<1>4. at' \in {"retire", "lost"} /\ (at' = "lost" => Expired(grave') = {})
  BY <1>1 DEF AfterAge
<1>5. TypeOK'
  <2>1. calls' \in 0..MaxCalls
    BY <1>1, CaptureAssumption
  <2>2. FrameType'
    BY <1>1, <1>4, <2>1 DEF IInv, TypeOK, FrameType, start, recovery
  <2> QED
    BY <1>1, <1>2, <1>3, <2>2, TypesKept DEF IInv, TypeOK
<1>6. OneHolder'
  <2>1. HolderSets' /\ QueueDistinct'
    BY <1>1, <1>2, HolderParts DEF IInv, HolderSets, QueueDistinct, Shown, Queued, InHand, Started,
       Job, start, jobs
  <2> QED
    BY <1>2, <2>1, HolderParts
<1>7. Rest'
  <2>1. at' = "lost" => \A s \in Slots : grave'[s].capture # None => grave'[s].left > 0
    BY <1>2, <1>4, CaptureAssumption DEF GraveType, Expired
  <2> QED
    BY <1>1, <1>4, <2>1 DEF IInv, Rest, GraveInv, PlaceInv, Leaving, WorkerInv, WatchedWhileLost,
       start, recovery, jobs, pump
<1> QED
  BY <1>5, <1>6, <1>7 DEF IInv, Rest

LEMMA ExpireInv ==
    ASSUME IInv, NEW s \in Slots, Expire(s)
    PROVE  IInv'
<1> DEFINE c == grave[s].capture
           next == IF frame THEN "lost" ELSE "stop"
<1>1. /\ at = "retire" /\ c \in Captures /\ c \in Resting /\ Retire(c)
      /\ grave' = [grave EXCEPT ![s] = Empty] /\ at' = AfterAge(grave', next)
      /\ UNCHANGED <<desktop, gpu, wishes, start, recovery, frame, worker, wpc, hand,
                     result, pump>>
  BY DEF Expire, Expired, IInv, TypeOK, GraveType, Resting
<1>2. HolderSets /\ GraveDistinct /\ QueueDistinct
  BY HolderParts DEF IInv
<1>3. /\ queue' \in Seq(Jobs) /\ QueueDistinct'
      /\ \/ Queued' = Queued \cup {c} /\ live' = live
         \/ Queued' = Queued /\ live' = live \ {c}
  <2>1. c \notin Queued /\ queue \in Seq(Jobs)
    BY <1>1, <1>2 DEF HolderSets, IInv, TypeOK, WorkerType
  <2> QED
    BY <1>1, <1>2, <2>1, RetireEffect
<1>4. /\ GraveType' /\ GraveDistinct' /\ Resting' = Resting \ {c}
      /\ \A t \in Slots : grave'[t].capture # None => grave'[t] = grave[t]
  <2>1. /\ grave'[s] = Empty /\ \A t \in Slots \ {s} : grave'[t] = grave[t]
        /\ Empty \in [capture : Captures \cup {None}, left : 0..Grace]
    BY <1>1, CaptureAssumption DEF IInv, TypeOK, GraveType, Empty
  <2>2. GraveType'
    BY <1>1, <2>1 DEF IInv, TypeOK, GraveType
  <2>3. Resting' = Resting \ {c}
    BY <1>1, <1>2, <2>1, CaptureAssumption DEF Resting, GraveDistinct, Empty
  <2> QED
    BY <1>2, <2>1, <2>2, <2>3 DEF GraveDistinct, Empty
<1>5. at' \in {"retire", next} /\ (at' = next => Expired(grave') = {})
  BY <1>1 DEF AfterAge
<1>6. TypeOK'
  <2>1. FrameType'
    BY <1>1, <1>5 DEF IInv, TypeOK, FrameType, wishes, start, recovery
  <2>2. WorkerType' /\ live' \subseteq Captures
    BY <1>1, <1>3 DEF IInv, TypeOK, WorkerType
  <2> QED
    BY <1>1, <1>4, <2>1, <2>2, TypesKept DEF IInv, TypeOK
<1>7. OneHolder'
  <2>1. UNCHANGED <<Shown, InHand, Started>>
    BY <1>1 DEF Shown, InHand, Started, start
  <2>2. HolderSets'
    BY <1>1, <1>2, <1>3, <1>4, <2>1 DEF HolderSets
  <2> QED
    BY <1>3, <1>4, <2>2, HolderParts
<1>8. Rest'
  <2>1. at' # "retire" => \A t \in Slots : grave'[t].capture # None => grave'[t].left > 0
    BY <1>4, <1>5, CaptureAssumption DEF GraveType, Expired
  <2>2. worker # "none"
    BY <1>1, <1>2 DEF IInv, WorkerInv, HolderSets
  <2>3. ~frame => \A t \in Slots : grave'[t].capture # None => grave'[t].left = 0
    BY <1>1, <1>4 DEF IInv, GraveInv
  <2>4. GraveInv'
    BY <1>1, <2>1, <2>3 DEF GraveInv
  <2>5. PlaceInv'
    <3>1. at' # "retire" /\ ~frame => \A t \in Slots : grave'[t].capture = None
      BY <2>1, <2>3
    <3> QED
      BY <1>1, <1>5, <3>1 DEF IInv, PlaceInv, Leaving, start
  <2>6. WorkerInv'
    BY <1>1, <2>2 DEF IInv, WorkerInv, PlaceInv, WatchedWhileLost, recovery, pump
  <2> QED
    BY <2>4, <2>5, <2>6 DEF Rest
<1> QED
  BY <1>6, <1>7, <1>8 DEF IInv, Rest

\* Where a capture is handed back, the worker is running, and will be.
LEMMA BurySafe ==
    ASSUME IInv, NEW c \in Captures, c \in Shown \cup Started
    PROVE  worker # "none"
BY HolderParts DEF IInv, WorkerInv, HolderSets

\* What a burial leaves of the frame thread's own invariants.
LEMMA GraveKept ==
    ASSUME IInv, at \in {"lost", "poll", "settle", "compose"}, at' # "retire", at' # "stop",
           at' # "join", at' # "end",
           \A s \in Slots : grave'[s] = grave[s] \/ grave'[s].left = Grace
    PROVE  GraveInv'
BY CaptureAssumption DEF IInv, GraveInv

LEMMA NoticeLossInv ==
    ASSUME IInv, NoticeLoss
    PROVE  IInv'
<1> DEFINE lost == Wanted /\ capture # None /\ "lost" \in flags[capture]
<1>1. /\ at = "lost" /\ at' \in {"unlock", "poll", "settle"}
      /\ UNCHANGED <<desktop, gpu, wishes, inflight, retryDue, frame, worker, wpc,
                     hand, result, conn, signal, heard>>
  BY DEF NoticeLoss, AfterUnlock
<1>2. CASE lost
  <2>1. /\ capture \in Captures /\ capture \in Shown /\ Bury(capture) /\ capture' = None
        /\ awaiting' = FALSE /\ declined' = FALSE /\ WatchUnlock(TRUE)
        /\ rec' = IF rec.active THEN AttemptFailed(rec) ELSE Begin
    BY <1>2 DEF NoticeLoss, IInv, TypeOK, FrameType, Shown
  <2>2. worker # "none"
    BY <2>1, BurySafe
  <2>3. /\ watch' = TRUE /\ unlockSeen' \in {unlockSeen, FALSE}
        /\ rec' \in RecType /\ rec'.active = TRUE
    <3>1. watch' = TRUE /\ unlockSeen' \in {unlockSeen, FALSE}
      BY <2>1, <2>2, WatchEffect
    <3>2. CASE rec.active
      BY <2>1, <3>1, <3>2 DEF AttemptFailed, RecType, IInv, TypeOK, FrameType
    <3>3. CASE ~rec.active
      BY <2>1, <3>1, <3>3 DEF Begin, NoLoss, RecType
    <3> QED
      BY <3>1, <3>2, <3>3
  <2>4. /\ OneHolder' /\ GraveType' /\ queue' \in Seq(Jobs) /\ live' \subseteq Captures
        /\ \A s \in Slots : grave'[s] = grave[s] \/ grave'[s].left = Grace
    <3>1. UNCHANGED <<InHand, Started>> /\ Shown' = {}
      BY <1>1, <2>1 DEF InHand, Started, Shown
    <3> QED
      BY <2>1, <3>1, BuryHolders DEF IInv
  <2>5. TypeOK'
    <3>1. FrameType'
      BY <1>1, <2>1, <2>3 DEF IInv, TypeOK, FrameType, RecType, wishes
    <3>2. WorkerType'
      BY <1>1, <2>4 DEF IInv, TypeOK, WorkerType
    <3>3. PumpType'
      <4>1. unlockSeen' \in BOOLEAN
        <5>1. CASE unlockSeen' = FALSE
          BY <5>1
        <5> QED
          BY <2>3, <5>1 DEF IInv, TypeOK, PumpType
      <4> QED
        BY <1>1, <2>3, <4>1 DEF IInv, TypeOK, PumpType
    <3> QED
      BY <1>1, <2>4, <3>1, <3>2, <3>3, TypesKept DEF IInv, TypeOK
  <2>6. Rest'
    <3>1. GraveInv'
      BY <1>1, <2>4, GraveKept
    <3>2. PlaceInv' /\ WorkerInv'
      BY <1>1, <2>1, <2>2, <2>3 DEF IInv, PlaceInv, Leaving, WorkerInv, WatchedWhileLost
    <3> QED
      BY <3>1, <3>2 DEF Rest
  <2> QED
    BY <2>4, <2>5, <2>6 DEF IInv, Rest
<1>3. CASE ~lost
  <2>1. UNCHANGED <<grave, queue, live, rec, capture, awaiting, declined, watch, unlockSeen>>
    BY <1>3 DEF NoticeLoss, KeepGrave
  <2>2. TypeOK'
    <3>1. FrameType'
      BY <1>1, <2>1 DEF IInv, TypeOK, FrameType, wishes
    <3> QED
      BY <1>1, <2>1, <3>1, TypesKept DEF IInv, TypeOK, jobs, pump
  <2>3. OneHolder'
    BY <1>1, <2>1, HoldersKept DEF IInv, InHand, Started
  <2>4. Rest'
    BY <1>1, <2>1 DEF IInv, Rest, GraveInv, PlaceInv, Leaving, WorkerInv, WatchedWhileLost
  <2> QED
    BY <2>2, <2>3, <2>4 DEF IInv, Rest
<1> QED
  BY <1>2, <1>3

LEMMA PollCreatedInv ==
    ASSUME IInv, PollCreated
    PROVE  IInv'
<1>1. /\ at = "poll" /\ at' = "settle"
      /\ UNCHANGED <<desktop, gpu, wishes, retryDue, frame, worker, wpc, hand, pump>>
  BY DEF PollCreated
<1> DEFINE c == result.capture
<1>2. result \in [done : BOOLEAN, capture : Captures \cup {None}] /\ rec \in RecType
  BY DEF IInv, TypeOK, WorkerType, FrameType, RecType
<1>3. /\ rec' \in RecType /\ rec'.active = rec.active
      /\ awaiting' \in BOOLEAN /\ declined' \in BOOLEAN
      /\ inflight' \in BOOLEAN /\ result' \in {result, NoResult}
      /\ capture' \in Captures \cup {None}
  <2>1. CASE ~result.done
    BY <1>2, <2>1 DEF PollCreated, IInv, TypeOK, FrameType
  <2>2. CASE result.done /\ c = None
    <3>1. /\ rec' = AttemptFailed(rec) /\ declined' = (declined \/ ~rec.active) /\ inflight' = FALSE
          /\ UNCHANGED <<capture, awaiting>> /\ result' = NoResult
      BY <2>2 DEF PollCreated, Claim
    <3>2. rec' \in RecType /\ rec'.active = rec.active
      BY <1>2, <3>1 DEF AttemptFailed, RecType
    <3>3. declined' \in BOOLEAN
      BY <1>2, <3>1 DEF IInv, TypeOK, FrameType, RecType
    <3> QED
      BY <3>1, <3>2, <3>3 DEF IInv, TypeOK, FrameType
  <2>3. CASE result.done /\ c # None
    <3>1. /\ UNCHANGED <<rec, declined>> /\ inflight' = FALSE /\ result' = NoResult
          /\ capture' \in {capture, c}
      BY <2>3 DEF PollCreated, Claim
    <3>2. awaiting' \in {awaiting, awaiting \/ rec.active}
      BY <2>3 DEF PollCreated, Claim
    <3>3. awaiting' \in BOOLEAN
      BY <1>2, <3>2 DEF IInv, TypeOK, FrameType, RecType
    <3> QED
      BY <1>2, <3>1, <3>3 DEF IInv, TypeOK, FrameType
  <2> QED
    BY <1>2, <2>1, <2>2, <2>3
<1>4. /\ OneHolder' /\ GraveType' /\ queue' \in Seq(Jobs) /\ live' \subseteq Captures
      /\ \A s \in Slots : grave'[s] = grave[s] \/ grave'[s].left = Grace
      /\ worker = "none" => UNCHANGED <<live, queue, result, capture>>
  <2>0. UNCHANGED InHand
    BY <1>1 DEF InHand
  <2>1. CASE ~result.done \/ c = None
    <3>1. /\ UNCHANGED <<grave, queue, live, capture>>
          /\ result' = result \/ (c = None /\ result' = NoResult)
      <4>1. CASE ~result.done
        BY <4>1 DEF PollCreated, KeepGrave
      <4>2. CASE result.done /\ c = None
        BY <4>2 DEF PollCreated, Claim, KeepGrave
      <4> QED
        BY <2>1, <4>1, <4>2
    <3>2. UNCHANGED Started
      BY <3>1 DEF Started, NoResult
    <3>3. OneHolder'
      BY <2>0, <3>1, <3>2, HoldersKept DEF IInv
    <3> QED
      BY <2>1, <3>1, <3>3, TypesKept DEF IInv, TypeOK, WorkerType, WorkerInv, NoResult, PollCreated
  <2>2. CASE result.done /\ c # None /\ Wanted /\ capture = None
    <3>1. capture' = c /\ UNCHANGED <<grave, queue, live>> /\ result' = NoResult
      BY <2>2 DEF PollCreated, Claim, KeepGrave
    <3>2. /\ Shown' = Started /\ Started' = {} /\ Shown = {}
          /\ Resting' = Resting /\ Queued' = Queued
          /\ (GraveDistinct /\ QueueDistinct => GraveDistinct' /\ QueueDistinct')
      BY <2>2, <3>1 DEF Shown, Started, NoResult, Resting, Queued, GraveDistinct, QueueDistinct, Job
    <3>3. OneHolder'
      BY <2>0, <3>1, <3>2, HolderParts DEF IInv, HolderSets
    <3>4. worker # "none"
      BY <1>2, <2>2, BurySafe DEF Started
    <3> QED
      BY <3>1, <3>3, <3>4, TypesKept DEF IInv, TypeOK, WorkerType
  <2>3. CASE result.done /\ c # None /\ ~(Wanted /\ capture = None)
    <3>1. Bury(c) /\ UNCHANGED capture /\ result' = NoResult /\ c \in Captures /\ c \in Started
      BY <1>2, <2>3 DEF PollCreated, Claim, Started
    <3>2. UNCHANGED Shown /\ Started' = {}
      BY <3>1 DEF Shown, Started, NoResult
    <3>3. worker # "none"
      BY <3>1, BurySafe
    <3> QED
      BY <2>0, <3>1, <3>2, <3>3, BuryHolders DEF IInv
  <2> QED
    BY <2>1, <2>2, <2>3
<1>5. TypeOK'
  <2>1. FrameType'
    BY <1>1, <1>3 DEF IInv, TypeOK, FrameType, RecType, wishes
  <2>2. WorkerType'
    <3>1. NoResult \in [done : BOOLEAN, capture : Captures \cup {None}]
      BY DEF NoResult
    <3>2. result' \in [done : BOOLEAN, capture : Captures \cup {None}]
      BY <1>2, <1>3, <3>1
    <3> QED
      BY <1>1, <1>4, <3>2 DEF IInv, TypeOK, WorkerType
  <2> QED
    BY <1>1, <1>4, <2>1, <2>2, TypesKept DEF IInv, TypeOK
<1>6. Rest'
  <2>1. GraveInv'
    BY <1>1, <1>4, GraveKept
  <2>2. PlaceInv'
    BY <1>1 DEF IInv, PlaceInv, Leaving
  <2>3. WorkerInv'
    <3>1. ~result'.done => result'.capture = None
      BY <1>3 DEF IInv, WorkerInv, NoResult
    <3>2. wpc \in {"orphan", "exit"} => queue' = <<>> /\ result'.capture = None
      BY <1>1, <1>3 DEF IInv, WorkerInv, PlaceInv
    <3> QED
      BY <1>1, <1>3, <1>4, <3>1, <3>2 DEF IInv, WorkerInv, WatchedWhileLost, pump
  <2> QED
    BY <2>1, <2>2, <2>3 DEF Rest
<1> QED
  BY <1>4, <1>5, <1>6 DEF IInv, Rest

LEMMA GoIdleInv ==
    ASSUME IInv, GoIdle
    PROVE  IInv'
<1>1. /\ at = "settle" /\ at' = Return /\ capture' = None
      /\ UNCHANGED <<desktop, gpu, wishes, inflight, declined, retryDue, frame, worker, wpc,
                     hand, result, conn, signal, heard>>
  BY DEF GoIdle
<1>2. /\ OneHolder' /\ GraveType' /\ queue' \in Seq(Jobs) /\ live' \subseteq Captures
      /\ \A s \in Slots : grave'[s] = grave[s] \/ grave'[s].left = Grace
      /\ worker = "none" => UNCHANGED <<live, queue>>
  <2>0. UNCHANGED <<InHand, Started>>
    BY <1>1 DEF InHand, Started
  <2>1. CASE capture = None
    <3>1. UNCHANGED <<grave, queue, live, capture>>
      BY <1>1, <2>1 DEF GoIdle, KeepGrave
    <3> QED
      BY <2>0, <3>1, HoldersKept, TypesKept DEF IInv, TypeOK, WorkerType
  <2>2. CASE capture # None
    <3>1. Bury(capture) /\ capture \in Captures /\ capture \in Shown /\ Shown' = {}
      BY <1>1, <2>2 DEF GoIdle, Shown, IInv, TypeOK, FrameType
    <3>2. worker # "none"
      BY <3>1, BurySafe
    <3> QED
      BY <2>0, <3>1, <3>2, BuryHolders DEF IInv
  <2> QED
    BY <2>1, <2>2
<1>3. /\ rec' \in RecType /\ rec'.active = watch' /\ awaiting' \in BOOLEAN
      /\ watch' \in BOOLEAN /\ unlockSeen' \in BOOLEAN
      /\ worker = "none" => ~rec'.active
  <2>1. CASE rec.active
    <3>1. worker # "none" /\ rec' = NoLoss /\ awaiting' = FALSE /\ WatchUnlock(FALSE)
      BY <2>1 DEF GoIdle, IInv, WorkerInv
    <3>2. watch' = FALSE /\ unlockSeen' \in {unlockSeen, FALSE}
      BY <3>1, WatchEffect
    <3> QED
      BY <3>1, <3>2 DEF NoLoss, RecType, IInv, TypeOK, PumpType
  <2>2. CASE ~rec.active
    BY <2>2 DEF GoIdle, IInv, TypeOK, FrameType, PumpType, RecType, WorkerInv, WatchedWhileLost
  <2> QED
    BY <2>1, <2>2
<1>4. TypeOK'
  <2>1. FrameType'
    BY <1>1, <1>3 DEF IInv, TypeOK, FrameType, RecType, wishes, Return
  <2>2. WorkerType'
    BY <1>1, <1>2 DEF IInv, TypeOK, WorkerType
  <2>3. PumpType'
    BY <1>1, <1>3 DEF IInv, TypeOK, PumpType
  <2> QED
    BY <1>1, <1>2, <2>1, <2>2, <2>3, TypesKept DEF IInv, TypeOK
<1>5. Rest'
  <2>1. GraveInv'
    BY <1>1, <1>2, GraveKept DEF Return
  <2>2. PlaceInv'
    BY <1>1 DEF IInv, PlaceInv, Leaving, Return
  <2>3. WorkerInv'
    <3>1. wpc \notin {"orphan", "exit"}
      BY <1>1 DEF IInv, WorkerInv, PlaceInv
    <3> QED
      BY <1>1, <1>2, <1>3, <3>1 DEF IInv, WorkerInv, WatchedWhileLost
  <2> QED
    BY <2>1, <2>2, <2>3 DEF Rest
<1> QED
  BY <1>2, <1>4, <1>5 DEF IInv, Rest

\* A start goes to the end of the queue, or is dropped.
LEMMA RequestEffect ==
    ASSUME queue \in Seq(Jobs), QueueDistinct, RequestCreate
    PROVE  queue' \in Seq(Jobs) /\ QueueDistinct' /\ Queued' = Queued
<1>1. CASE Full
  BY <1>1 DEF RequestCreate, QueueDistinct, Job, Queued
<1>2. CASE ~Full
  <2>1. queue' = Append(queue, Create) /\ Create \in Jobs
    BY <1>2 DEF RequestCreate, Jobs
  <2>2. /\ queue' \in Seq(Jobs) /\ Len(queue') = Len(queue) + 1
        /\ \A i \in 1..Len(queue) : queue'[i] = queue[i]
        /\ queue'[Len(queue) + 1] = Create
    BY <2>1
  <2>3. 1..Len(queue') = (1..Len(queue)) \cup {Len(queue) + 1}
    BY <2>2
  <2>4. Queued' = Queued
    BY <2>2, <2>3 DEF Queued, Create
  <2> QED
    BY <2>2, <2>3, <2>4 DEF QueueDistinct, Job, Create
<1> QED
  BY <1>1, <1>2

LEMMA PostStartInv ==
    ASSUME IInv, PostStart
    PROVE  IInv'
<1>1. /\ at = "settle" /\ at' = Return /\ inflight' = TRUE /\ earned' = TRUE /\ RequestCreate
      /\ worker' = IF worker = "none" THEN "up" ELSE worker
      /\ UNCHANGED <<desktop, live, gpu, enabled, active, calls, capture, declined,
                     retryDue, recovery, grave, frame, wpc, hand, result, pump>>
  BY DEF PostStart
<1>2. queue' \in Seq(Jobs) /\ QueueDistinct' /\ Queued' = Queued
  BY <1>1, RequestEffect, HolderParts DEF IInv, TypeOK, WorkerType
<1>3. TypeOK'
  <2>1. FrameType'
    BY <1>1 DEF IInv, TypeOK, FrameType, recovery, Return
  <2>2. WorkerType'
    BY <1>1, <1>2 DEF IInv, TypeOK, WorkerType
  <2> QED
    BY <1>1, <2>1, <2>2, TypesKept DEF IInv, TypeOK
<1>4. OneHolder'
  <2>1. UNCHANGED <<Shown, Resting, InHand, Started>> /\ (GraveDistinct => GraveDistinct')
    BY <1>1 DEF Shown, Resting, InHand, Started, GraveDistinct
  <2> QED
    BY <1>1, <1>2, <2>1, HolderParts DEF IInv, HolderSets
<1>5. Rest'
  <2>1. GraveInv' /\ PlaceInv'
    BY <1>1 DEF IInv, GraveInv, PlaceInv, Leaving, Return
  <2>2. wpc \notin {"orphan", "exit"} /\ worker' # "none"
    BY <1>1 DEF IInv, WorkerInv, PlaceInv
  <2>3. WorkerInv'
    BY <1>1, <2>2 DEF IInv, WorkerInv, WatchedWhileLost, recovery, pump
  <2> QED
    BY <2>1, <2>3 DEF Rest
<1> QED
  BY <1>3, <1>4, <1>5 DEF IInv, Rest

LEMMA RestartInv ==
    ASSUME IInv, Restart
    PROVE  IInv'
<1>1. /\ at = "compose" /\ at' = "out" /\ frame' = FALSE /\ Bury(capture) /\ capture' = None
      /\ declined' = FALSE /\ retryDue' = FALSE
      /\ UNCHANGED <<desktop, gpu, wishes, inflight, recovery, worker, wpc, hand, result,
                     pump>>
  BY DEF Restart, LeaveFrame
<1>2. capture \in Captures /\ capture \in Shown /\ Shown' = {}
  BY <1>1 DEF Restart, IInv, TypeOK, FrameType, Shown
<1>3. /\ OneHolder' /\ GraveType' /\ queue' \in Seq(Jobs) /\ live' \subseteq Captures
      /\ \A s \in Slots : grave'[s] = grave[s] \/ grave'[s].left = Grace
  <2>1. UNCHANGED <<InHand, Started>>
    BY <1>1 DEF InHand, Started
  <2> QED
    BY <1>1, <1>2, <2>1, BuryHolders DEF IInv
<1>4. TypeOK'
  <2>1. FrameType'
    BY <1>1 DEF IInv, TypeOK, FrameType, wishes, recovery
  <2>2. WorkerType'
    BY <1>1, <1>3 DEF IInv, TypeOK, WorkerType
  <2> QED
    BY <1>1, <1>3, <2>1, <2>2, TypesKept DEF IInv, TypeOK
<1>5. Rest'
  <2>1. GraveInv'
    BY <1>1, <1>3, GraveKept
  <2>2. PlaceInv'
    BY <1>1 DEF IInv, PlaceInv, Leaving
  <2>3. worker # "none" /\ wpc \notin {"orphan", "exit"}
    BY <1>1, <1>2, BurySafe DEF IInv, WorkerInv, PlaceInv
  <2>4. WorkerInv'
    BY <1>1, <2>3 DEF IInv, WorkerInv, WatchedWhileLost, recovery, pump
  <2> QED
    BY <2>1, <2>2, <2>4 DEF Rest
<1> QED
  BY <1>3, <1>4, <1>5 DEF IInv, Rest

LEMMA DestroyDpInv ==
    ASSUME IInv, DestroyDp
    PROVE  IInv'
<1>1. /\ at = "out" /\ ~frame /\ capture' = None /\ gpu' = [c \in Captures |-> 0]
      /\ grave' = [s \in Slots |-> [grave[s] EXCEPT !.left = 0]]
      /\ at' = AfterAge(grave', "stop")
      /\ UNCHANGED <<desktop, wishes, inflight, declined, retryDue, recovery, frame,
                     worker, wpc, hand, result, pump>>
  BY DEF DestroyDp, IInv, PlaceInv
<1>2. HolderSets /\ GraveDistinct /\ QueueDistinct
  BY HolderParts DEF IInv
<1>3. /\ queue' \in Seq(Jobs) /\ QueueDistinct' /\ live' \subseteq Captures
      /\ \/ Queued' = Queued \cup Shown /\ live' = live
         \/ Queued' = Queued /\ live' = live \ Shown
      /\ worker = "none" => UNCHANGED <<live, queue>>
  <2>1. CASE capture = None
    BY <2>1, <1>2 DEF DestroyDp, IInv, TypeOK, WorkerType, QueueDistinct, Job, Queued, Shown
  <2>2. CASE capture # None
    <3>1. capture \in Captures /\ Shown = {capture} /\ Retire(capture) /\ queue \in Seq(Jobs)
      BY <2>2 DEF DestroyDp, IInv, TypeOK, FrameType, WorkerType, Shown
    <3>2. capture \notin Queued /\ worker # "none"
      BY <1>2, <3>1, BurySafe DEF HolderSets
    <3> QED
      BY <1>2, <3>1, <3>2, RetireEffect DEF IInv, TypeOK
  <2> QED
    BY <2>1, <2>2
<1>4. /\ GraveType' /\ GraveDistinct' /\ Resting' = Resting
      /\ \A s \in Slots : grave'[s].capture = grave[s].capture /\ grave'[s].left = 0
  <2>1. ASSUME NEW s \in Slots
        PROVE  /\ grave'[s] \in [capture : Captures \cup {None}, left : 0..Grace]
               /\ grave'[s].capture = grave[s].capture /\ grave'[s].left = 0
    <3>1. grave[s] \in [capture : Captures \cup {None}, left : 0..Grace] /\ 0 \in 0..Grace
      BY CaptureAssumption DEF IInv, TypeOK, GraveType
    <3> QED
      BY <1>1, <3>1
  <2>2. GraveType'
    BY <1>1, <2>1 DEF GraveType
  <2>3. Resting' = Resting
    BY <2>1 DEF Resting
  <2> QED
    BY <1>2, <2>1, <2>2, <2>3 DEF GraveDistinct
<1>5. /\ at' \in {"retire", "stop"}
      /\ at' = "stop" => \A s \in Slots : grave'[s].capture = None
  BY <1>1, <1>4 DEF AfterAge, Expired
<1>6. TypeOK'
  <2>1. FrameType'
    BY <1>1, <1>5 DEF IInv, TypeOK, FrameType, wishes, recovery
  <2>2. WorkerType'
    BY <1>1, <1>3 DEF IInv, TypeOK, WorkerType
  <2>3. gpu' \in [Captures -> 0..InFlight]
    BY <1>1, CaptureAssumption
  <2> QED
    BY <1>1, <1>3, <1>4, <2>1, <2>2, <2>3, TypesKept DEF IInv, TypeOK
<1>7. OneHolder'
  <2>1. UNCHANGED <<InHand, Started>> /\ Shown' = {}
    BY <1>1 DEF Shown, InHand, Started
  <2>2. HolderSets'
    BY <1>2, <1>3, <1>4, <2>1 DEF HolderSets
  <2> QED
    BY <1>3, <1>4, <2>2, HolderParts
<1>8. Rest'
  <2>1. GraveInv'
    BY <1>1, <1>4, <1>5 DEF GraveInv
  <2>2. PlaceInv'
    BY <1>1, <1>5 DEF IInv, PlaceInv, Leaving
  <2>3. wpc \notin {"orphan", "exit"}
    BY <1>1 DEF IInv, WorkerInv, PlaceInv
  <2>4. WorkerInv'
    BY <1>1, <1>3, <2>3 DEF IInv, WorkerInv, WatchedWhileLost, recovery, pump
  <2> QED
    BY <2>1, <2>2, <2>4 DEF Rest
<1> QED
  BY <1>6, <1>7, <1>8 DEF IInv, Rest

-----------------------------------------------------------------------------
(* The steps of the worker thread.                                         *)

\* They leave the frame thread's fields alone.
LEMMA WorkerLeaves ==
    ASSUME WorkerThread
    PROVE  UNCHANGED <<gpu, wishes, start, recovery, grave, place, worker>>
BY DEF WorkerThread, TakeJob, DestroyCapture, CreateSucceeds, CreateFails, Publish,
       WatchService, Service, Pumped, Quit, StopOrphan, DpOnly

\* What they must keep of the invariant once the types and the holders are shown.
LEMMA WorkerRest ==
    ASSUME IInv, worker # "none", UNCHANGED <<rec, watch, grave, capture, at, frame, worker>>,
           worker = "gone" => wpc' = "exit",
           wpc' \in {"orphan", "exit"} =>
               worker \in {"quit", "gone"} /\ queue' = <<>> /\ result'.capture = None,
           wpc' = "destroy" => hand' \in Captures,
           ~result'.done => result'.capture = None
    PROVE  Rest'
BY DEF IInv, Rest, GraveInv, PlaceInv, Leaving, WorkerInv, WatchedWhileLost

\* The frame thread's part of the types and the holders.
LEMMA WorkerTypes ==
    ASSUME IInv, WorkerThread, DesktopType', PumpType', live' \subseteq Captures,
           queue' \in Seq(Jobs), hand' \in Captures \cup {None},
           wpc' \in {"loop", "pumped", "create", "publish", "destroy", "orphan", "exit"},
           result' \in [done : BOOLEAN, capture : Captures \cup {None}]
    PROVE  TypeOK'
<1>1. FrameType' /\ GraveType' /\ UNCHANGED gpu
  BY WorkerLeaves, TypesKept DEF IInv, TypeOK
<1>2. WorkerType'
  BY WorkerLeaves DEF IInv, TypeOK, WorkerType
<1> QED
  BY <1>1, <1>2 DEF IInv, TypeOK

LEMMA WorkerHolders ==
    ASSUME IInv, WorkerThread
    PROVE  /\ UNCHANGED <<Shown, Resting>> /\ (GraveDistinct => GraveDistinct')
           /\ queue' = queue => Queued' = Queued /\ (QueueDistinct => QueueDistinct')
BY WorkerLeaves DEF start, Shown, Resting, GraveDistinct, Queued, QueueDistinct, Job

LEMMA TakeJobInv ==
    ASSUME IInv, TakeJob
    PROVE  IInv'
<1>1. /\ Running /\ wpc = "loop" /\ queue # <<>> /\ queue' = Tail(queue)
      /\ wpc' = Head(queue).type /\ hand' = Head(queue).capture
      /\ UNCHANGED <<desktop, live, result, pump>> /\ DpOnly /\ WorkerThread
  BY DEF TakeJob, WorkerThread
<1>2. /\ Head(queue) \in Jobs /\ queue' \in Seq(Jobs) /\ QueueDistinct'
      /\ Queued = Queued' \cup ({Head(queue).capture} \ {None})
      /\ Head(queue).capture \notin Queued'
  BY <1>1, TakeEffect, HolderParts DEF IInv, TypeOK, WorkerType
<1>3. /\ wpc' \in {"create", "destroy"} /\ hand' \in Captures \cup {None}
      /\ wpc' = "destroy" <=> hand' # None
  BY <1>1, <1>2, JobShape
<1>4. TypeOK'
  BY <1>1, <1>2, <1>3, WorkerTypes, TypesKept DEF IInv, TypeOK, WorkerType
<1>5. OneHolder'
  <2>1. /\ InHand = {} /\ InHand' = {hand'} \ {None} /\ Started' = Started
        /\ Queued = Queued' \cup InHand' /\ Queued' \cap InHand' = {}
    BY <1>1, <1>2, <1>3 DEF InHand, Started
  <2>2. HolderSets /\ GraveDistinct /\ UNCHANGED <<Shown, Resting>> /\ GraveDistinct'
    BY <1>1, WorkerHolders, HolderParts DEF IInv
  <2>3. HolderSets'
    BY <1>1, <2>1, <2>2 DEF HolderSets
  <2> QED
    BY <1>2, <2>2, <2>3, HolderParts
<1>6. Rest'
  BY <1>1, <1>3, WorkerRest DEF Running, DpOnly, IInv, WorkerInv, start, recovery, place, pump
<1> QED
  BY <1>4, <1>5, <1>6 DEF IInv, Rest

LEMMA DestroyCaptureInv ==
    ASSUME IInv, DestroyCapture
    PROVE  IInv'
<1>1. /\ wpc = "destroy" /\ wpc' = "loop" /\ hand' = None /\ live' = live \ {hand}
      /\ news' = [news EXCEPT ![hand] = {}] /\ flags' = [flags EXCEPT ![hand] = {}]
      /\ good' = good \ {hand}
      /\ UNCHANGED <<locked, events, queue, result, pump>> /\ DpOnly /\ WorkerThread
  BY DEF DestroyCapture, WorkerThread
<1>2. hand \in Captures /\ worker \notin {"none", "gone"}
  BY <1>1 DEF IInv, WorkerInv, PlaceInv
<1>3. DesktopType'
  BY <1>1, <1>2, SignalTypes DEF IInv, TypeOK, DesktopType
<1>4. TypeOK'
  BY <1>1, <1>3, WorkerTypes, TypesKept DEF IInv, TypeOK, WorkerType
<1>5. OneHolder'
  <2>1. InHand = {hand} /\ InHand' = {} /\ Started' = Started
    BY <1>1, <1>2, CaptureAssumption DEF InHand, Started
  <2>2. /\ HolderSets /\ UNCHANGED <<Shown, Resting, Queued>> /\ GraveDistinct' /\ QueueDistinct'
    BY <1>1, WorkerHolders, HolderParts DEF IInv
  <2>3. HolderSets'
    BY <1>1, <2>1, <2>2 DEF HolderSets
  <2> QED
    BY <2>2, <2>3, HolderParts
<1>6. Rest'
  BY <1>1, <1>2, WorkerRest DEF DpOnly, IInv, WorkerInv, start, recovery, place, pump
<1> QED
  BY <1>4, <1>5, <1>6 DEF IInv, Rest

LEMMA FreshIsNew ==
    ASSUME live \subseteq Captures, live # Captures
    PROVE  Fresh \in Captures \ live
BY DEF Fresh

LEMMA CreateInv ==
    ASSUME IInv, CreateSucceeds \/ CreateFails
    PROVE  IInv'
<1>1. /\ wpc = "create" /\ wpc' = "publish" /\ UNCHANGED <<queue, result, pump>>
      /\ DpOnly /\ WorkerThread
  BY DEF CreateSucceeds, CreateFails, WorkerThread
<1>2. /\ hand' \in Captures \cup {None} /\ live' = live \cup ({hand'} \ {None})
      /\ hand' \notin live /\ DesktopType'
  <2>1. CASE CreateSucceeds
    BY <2>1, FreshIsNew, TypesKept, CaptureAssumption DEF CreateSucceeds, IInv, TypeOK
  <2>2. CASE CreateFails
    <3>1. events' \in 0..MaxEvents
      <4>1. events \in 0..MaxEvents /\ events > 0 /\ events' \in {events, events - 1}
        BY <2>2 DEF CreateFails, Event, IInv, TypeOK, DesktopType
      <4> QED
        BY <4>1, CaptureAssumption
    <3> QED
      BY <2>2, <3>1, CaptureAssumption DEF CreateFails, IInv, TypeOK, DesktopType
  <2> QED
    BY <2>1, <2>2
<1>3. worker \notin {"none", "gone"}
  BY <1>1 DEF IInv, WorkerInv, PlaceInv
<1>4. TypeOK'
  BY <1>1, <1>2, WorkerTypes, TypesKept DEF IInv, TypeOK, WorkerType
<1>5. OneHolder'
  <2>1. InHand = {} /\ InHand' = {hand'} \ {None} /\ Started' = Started
    BY <1>1 DEF InHand, Started
  <2>2. /\ HolderSets /\ UNCHANGED <<Shown, Resting, Queued>> /\ GraveDistinct' /\ QueueDistinct'
    BY <1>1, WorkerHolders, HolderParts DEF IInv
  <2>3. HolderSets'
    BY <1>2, <2>1, <2>2 DEF HolderSets
  <2> QED
    BY <2>2, <2>3, HolderParts
<1>6. Rest'
  BY <1>1, <1>3, WorkerRest DEF DpOnly, IInv, WorkerInv, start, recovery, place, pump
<1> QED
  BY <1>4, <1>5, <1>6 DEF IInv, Rest

LEMMA PublishInv ==
    ASSUME IInv, Publish
    PROVE  IInv'
<1>1. /\ wpc = "publish" /\ wpc' = "loop" /\ hand' = None /\ live' = live \ Started
      /\ result' = [done |-> TRUE, capture |-> hand]
      /\ UNCHANGED <<desktop, queue, pump>> /\ DpOnly /\ WorkerThread
  BY DEF Publish, WorkerThread
<1>2. hand \in Captures \cup {None} /\ worker \notin {"none", "gone"}
  BY <1>1 DEF IInv, TypeOK, WorkerType, WorkerInv, PlaceInv
<1>3. TypeOK'
  BY <1>1, <1>2, WorkerTypes, TypesKept DEF IInv, TypeOK, WorkerType
<1>4. OneHolder'
  <2>1. InHand' = {} /\ Started' = InHand
    BY <1>1 DEF InHand, Started
  <2>2. /\ HolderSets /\ UNCHANGED <<Shown, Resting, Queued>> /\ GraveDistinct' /\ QueueDistinct'
    BY <1>1, WorkerHolders, HolderParts DEF IInv
  <2>3. HolderSets'
    BY <1>1, <2>1, <2>2 DEF HolderSets
  <2> QED
    BY <2>2, <2>3, HolderParts
<1>5. Rest'
  BY <1>1, <1>2, WorkerRest DEF DpOnly, start, recovery, place, pump
<1> QED
  BY <1>3, <1>4, <1>5 DEF IInv, Rest

LEMMA WatchInv ==
    ASSUME IInv, WatchService \/ Pumped
    PROVE  IInv'
<1>1. /\ wpc \in {"loop", "pumped"} /\ wpc' \in {"loop", "pumped"}
      /\ wpc' = "loop" \/ worker = "up"
      /\ UNCHANGED <<desktop, live, queue, hand, result, watch>> /\ DpOnly /\ WorkerThread
  BY DEF WatchService, Service, Pumped, WorkerThread
<1>2. worker # "none" /\ worker # "gone"
  BY <1>1 DEF IInv, WorkerInv, PlaceInv, WatchService, Service, Pumped
<1>3. PumpType'
  <2>1. CASE WatchService
    <3>1. \E w \in BOOLEAN, u \in BOOLEAN : Service(w, u)
      BY <2>1 DEF WatchService, IInv, TypeOK, PumpType
    <3> QED
      BY <3>1 DEF Service, IInv, TypeOK, PumpType
  <2>2. CASE Pumped
    <3>1. (unlockSeen \/ heard) \in BOOLEAN
      OBVIOUS
    <3> QED
      BY <2>2, <3>1 DEF Pumped, IInv, TypeOK, PumpType
  <2> QED
    BY <2>1, <2>2
<1>4. TypeOK'
  BY <1>1, <1>3, WorkerTypes, TypesKept DEF IInv, TypeOK, WorkerType
<1>5. OneHolder'
  <2>1. UNCHANGED <<InHand, Started>>
    BY <1>1 DEF InHand, Started
  <2> QED
    BY <1>1, <2>1, HoldersKept DEF DpOnly, IInv, start
<1>6. Rest'
  BY <1>1, <1>2, WorkerRest DEF DpOnly, IInv, WorkerInv, start, recovery, place
<1> QED
  BY <1>4, <1>5, <1>6 DEF IInv, Rest

LEMMA QuitInv ==
    ASSUME IInv, Quit \/ StopOrphan
    PROVE  IInv'
<1>1. WorkerThread /\ UNCHANGED <<queue, watch, desktop>> /\ DpOnly
  BY DEF Quit, StopOrphan, WorkerThread, pump
<1>2. CASE Quit
  <2>1. /\ worker = "quit" /\ wpc = "loop" /\ queue = <<>> /\ wpc' = "orphan"
        /\ hand' = result.capture /\ result' = NoResult /\ UNCHANGED <<live, pump>>
    BY <1>2 DEF Quit
  <2>2. hand' \in Captures \cup {None}
        /\ result' \in [done : BOOLEAN, capture : Captures \cup {None}]
    BY <2>1 DEF IInv, TypeOK, WorkerType, NoResult
  <2>3. TypeOK'
    BY <1>1, <2>1, <2>2, WorkerTypes, TypesKept DEF IInv, TypeOK, WorkerType
  <2>4. OneHolder'
    <3>1. InHand = {} /\ InHand' = Started /\ Started' = {}
      BY <2>1 DEF InHand, Started, NoResult
    <3>2. /\ HolderSets /\ UNCHANGED <<Shown, Resting, Queued>> /\ GraveDistinct' /\ QueueDistinct'
      BY <1>1, WorkerHolders, HolderParts DEF IInv
    <3>3. HolderSets'
      BY <2>1, <3>1, <3>2 DEF HolderSets
    <3> QED
      BY <3>2, <3>3, HolderParts
  <2>5. Rest'
    BY <1>1, <2>1, WorkerRest DEF DpOnly, start, recovery, place, NoResult
  <2> QED
    BY <2>3, <2>4, <2>5 DEF IInv, Rest
<1>3. CASE StopOrphan
  <2>1. /\ wpc = "orphan" /\ wpc' = "exit" /\ hand' = None /\ live' = live \ {hand}
        /\ conn' = FALSE /\ signal' = FALSE /\ UNCHANGED <<result, unlockSeen, heard>>
    BY <1>3 DEF StopOrphan
  <2>2. worker \in {"quit", "gone"} /\ queue = <<>> /\ result.capture = None
    BY <2>1 DEF IInv, WorkerInv
  <2>3. PumpType'
    BY <1>1, <2>1 DEF IInv, TypeOK, PumpType
  <2>4. TypeOK'
    BY <1>1, <2>1, <2>3, WorkerTypes, TypesKept DEF IInv, TypeOK, WorkerType
  <2>5. OneHolder'
    <3>1. InHand = {hand} \ {None} /\ InHand' = {} /\ Started' = Started /\ None \notin live
      BY <2>1, CaptureAssumption DEF InHand, Started, IInv, TypeOK
    <3>2. /\ HolderSets /\ UNCHANGED <<Shown, Resting, Queued>> /\ GraveDistinct' /\ QueueDistinct'
      BY <1>1, WorkerHolders, HolderParts DEF IInv
    <3>3. HolderSets'
      BY <2>1, <3>1, <3>2 DEF HolderSets
    <3> QED
      BY <3>2, <3>3, HolderParts
  <2>6. Rest'
    BY <1>1, <2>1, <2>2, WorkerRest DEF DpOnly, IInv, WorkerInv, start, recovery, place
  <2> QED
    BY <2>4, <2>5, <2>6 DEF IInv, Rest
<1> QED
  BY <1>2, <1>3

LEMMA StepInv == IInv /\ [Next]_vars => IInv'
<1> SUFFICES ASSUME IInv, [Next]_vars PROVE IInv'
  OBVIOUS
<1>1. CASE Environment
  BY <1>1, EnvironmentInv
<1>2. CASE FrameThread
  <2>1. CASE \E s \in Slots : Expire(s)
    BY <2>1, ExpireInv
  <2> QED
    BY <1>2, <2>1, ProcessAtlasInv, NoticeLossInv, PollCreatedInv, GoIdleInv, PostStartInv,
       RestartInv, FrameMovesInv DEF FrameThread, FrameMoves
<1>3. CASE Calls
  BY <1>3, DestroyDpInv, FrameMovesInv DEF Calls, FrameMoves
<1>4. CASE WorkerThread
  BY <1>4, TakeJobInv, DestroyCaptureInv, CreateInv, PublishInv, WatchInv, QuitInv
     DEF WorkerThread
<1>5. CASE UNCHANGED vars
  <2>1. UNCHANGED <<desktop, live, gpu, wishes, start, recovery, grave, place, jobs, pump>>
    BY <1>5 DEF vars
  <2>2. TypeOK'
    BY <2>1, TypesKept DEF IInv, TypeOK
  <2>3. OneHolder'
    BY <2>1, HoldersKept DEF IInv, InHand, Started, start, jobs
  <2>4. Rest'
    BY <2>1, RestKept DEF IInv, Rest, start, recovery, place, jobs, pump
  <2> QED
    BY <2>2, <2>3, <2>4 DEF IInv, Rest
<1> QED
  BY <1>1, <1>2, <1>3, <1>4, <1>5 DEF Next

-----------------------------------------------------------------------------
\* The invariant holds in every reachable state.
THEOREM Invariance == Spec => []IInv
BY InitInv, StepInv, PTL DEF Spec

\* Every variable keeps its type.
THEOREM TypeCorrect == Spec => []TypeOK
<1>1. IInv => TypeOK
  BY DEF IInv
<1> QED
  BY <1>1, Invariance, PTL

\* A capture that exists has exactly one holder, and is stopped once: through
\* dp_capture_bury, leia_bg_capture_worker_destroy, the result and the quit path.
THEOREM HolderUnique == Spec => []OneHolder
<1>1. IInv => OneHolder
  BY DEF IInv
<1> QED
  BY <1>1, Invariance, PTL

\* The watch for the unlock runs exactly while a recovery does.
THEOREM WatchKept == Spec => []WatchedWhileLost
<1>1. IInv => WatchedWhileLost
  BY DEF IInv, WorkerInv
<1> QED
  BY <1>1, Invariance, PTL

\* leia_lnx_dp_destroy leaves no capture behind: what was shown, buried, queued,
\* in the worker's hand or waiting to be claimed has been stopped.
THEOREM AllStopped == Spec => []NothingLeft
<1>1. IInv => NothingLeft
  <2> SUFFICES ASSUME IInv, at = "end" PROVE live = {} /\ wpc \in {"loop", "exit"}
    BY DEF NothingLeft
  <2>1. worker \in {"none", "gone"} /\ capture = None /\ Resting = {}
    BY DEF IInv, PlaceInv, Leaving, Resting
  <2>2. CASE worker = "none"
    BY <2>2 DEF IInv, WorkerInv
  <2>3. CASE worker = "gone"
    <3>1. wpc = "exit" /\ queue = <<>> /\ result.capture = None
      BY <2>3 DEF IInv, PlaceInv, WorkerInv
    <3>2. Shown = {} /\ Queued = {} /\ InHand = {} /\ Started = {}
      BY <2>1, <3>1 DEF Shown, Queued, InHand, Started
    <3> QED
      BY <2>1, <3>1, <3>2, HolderParts DEF IInv, HolderSets
  <2> QED
    BY <2>1, <2>2, <2>3
<1> QED
  BY <1>1, Invariance, PTL

-----------------------------------------------------------------------------
(* One start in flight, over a step that drops no job.                     *)

\* The worker has a start: it is queued, running, or waiting to be claimed.
\* Exactly one of the three while bg_create_inflight is set, and none while it is
\* not; meanwhile no capture is shown.
Waiting  == Job("create") # {}
Making   == wpc \in {"create", "publish"}

StartInv ==
    /\ \A i, j \in Job("create") : i = j
    /\ ~(Waiting /\ Making) /\ ~(Waiting /\ result.done) /\ ~(Making /\ result.done)
    /\ Waiting \/ Making \/ result.done => inflight
    /\ inflight => Waiting \/ Making \/ result.done \/ wpc \in {"orphan", "exit"}
    /\ inflight => capture = None

\* A start in the queue stays there when a stop is added.
LEMMA RetireJobs ==
    ASSUME queue \in Seq(Jobs), NEW c \in Captures, Retire(c)
    PROVE  Job("create")' = Job("create")
<1>1. CASE Full
  BY <1>1 DEF Retire, Job
<1>2. CASE ~Full
  <2>1. queue' = Append(queue, Destroy(c)) /\ Destroy(c) \in Jobs
    BY <1>2 DEF Retire, Jobs
  <2>2. /\ Len(queue') = Len(queue) + 1
        /\ \A i \in 1..Len(queue) : queue'[i] = queue[i]
        /\ queue'[Len(queue) + 1] = Destroy(c)
    BY <2>1
  <2>3. 1..Len(queue') = (1..Len(queue)) \cup {Len(queue) + 1}
    BY <2>2
  <2> QED
    BY <2>2, <2>3 DEF Job, Destroy
<1> QED
  BY <1>1, <1>2

LEMMA BuryJobs ==
    ASSUME TypeOK, NEW c \in Captures, Bury(c)
    PROVE  Job("create")' = Job("create")
<1>1. CASE Retire(c)
  BY <1>1, RetireJobs DEF TypeOK, WorkerType
<1>2. CASE UNCHANGED queue
  BY <1>2 DEF Job
<1> QED
  BY <1>1, <1>2 DEF Bury

LEMMA RequestJobs ==
    ASSUME queue \in Seq(Jobs), RequestCreate, ~Full
    PROVE  Job("create")' = Job("create") \cup {Len(queue) + 1}
<1>1. queue' = Append(queue, Create) /\ Create \in Jobs
  BY DEF RequestCreate, Jobs
<1>2. /\ Len(queue') = Len(queue) + 1
      /\ \A i \in 1..Len(queue) : queue'[i] = queue[i]
      /\ queue'[Len(queue) + 1] = Create
  BY <1>1
<1>3. 1..Len(queue') = (1..Len(queue)) \cup {Len(queue) + 1}
  BY <1>2
<1> QED
  BY <1>2, <1>3 DEF Job, Create

LEMMA TakeJobs ==
    ASSUME queue \in Seq(Jobs), queue # <<>>, queue' = Tail(queue),
           \A i, j \in Job("create") : i = j
    PROVE  /\ \A i, j \in Job("create")' : i = j
           /\ Head(queue).type = "create" => Waiting /\ ~Waiting'
           /\ Head(queue).type # "create" => (Waiting' <=> Waiting)
<1>1. /\ Len(queue) \in Nat \ {0} /\ Len(queue') = Len(queue) - 1
      /\ Head(queue) = queue[1]
      /\ \A i \in 1..Len(queue') : queue'[i] = queue[i + 1] /\ i + 1 \in 1..Len(queue)
      /\ \A i \in 1..Len(queue) : i # 1 => i - 1 \in 1..Len(queue')
  OBVIOUS
<1>2. \A i \in Job("create")' : i + 1 \in Job("create") /\ i + 1 # 1 /\ i \in Nat
  BY <1>1 DEF Job
<1>3. 1 \in Job("create") <=> Head(queue).type = "create"
  BY <1>1 DEF Job
<1>4. \A i, j \in Job("create")' : i = j
  BY <1>2
<1>5. CASE Head(queue).type = "create"
  BY <1>2, <1>3, <1>4, <1>5 DEF Waiting
<1>6. CASE Head(queue).type # "create"
  <2>1. Waiting' => Waiting
    BY <1>2 DEF Waiting
  <2>2. ASSUME Waiting PROVE Waiting'
    <3>1. PICK i \in Job("create") : i # 1
      BY <1>3, <1>6, <2>2 DEF Waiting
    <3>2. i - 1 \in 1..Len(queue') /\ queue'[i - 1] = queue[i] /\ i \in 1..Len(queue)
      <4>1. i \in 1..Len(queue) /\ i - 1 \in 1..Len(queue') /\ (i - 1) + 1 = i
        BY <1>1, <3>1 DEF Job
      <4> QED
        BY <1>1, <4>1
    <3>3. i - 1 \in Job("create")'
      BY <3>1, <3>2 DEF Job
    <3> QED
      BY <3>3 DEF Waiting
  <2> QED
    BY <1>4, <1>6, <2>1, <2>2
<1> QED
  BY <1>5, <1>6

\* A step keeps it that keeps what it is about.
LEMMA StartKept ==
    ASSUME StartInv, UNCHANGED <<Job("create"), result, inflight>>, capture' \in {capture, None},
           Making' <=> Making, wpc' \in {"orphan", "exit"} <=> wpc \in {"orphan", "exit"}
    PROVE  StartInv'
BY DEF StartInv, Waiting

LEMMA StartFrame ==
    ASSUME IInv, StartInv, Len(queue) < QueueSize, FrameThread \/ Calls
    PROVE  StartInv'
<1>0. UNCHANGED wpc /\ (Making' <=> Making)
  BY DEF FrameThread, Calls, ProcessAtlas, Expire, NoticeLoss, TakeUnlock, PollCreated, GoIdle,
         PostStart, PostNone, SkipCompose, Restart, Sample, StopWorker, Joined,
         SetTransparentBackground, SetTransparencyActive, DestroyDp, jobs, Making
<1>1. CASE ProcessAtlas \/ FrameMoves
  <2>1. UNCHANGED <<queue, result, inflight, capture>>
    BY <1>1 DEF FrameMoves, ProcessAtlas, TakeUnlock, PostNone, SkipCompose, Sample,
       StopWorker, Joined, SetTransparentBackground, SetTransparencyActive, jobs, start
  <2> QED
    BY <1>0, <2>1, StartKept DEF Job
<1>2. CASE \E s \in Slots : Expire(s)
  <2>1. PICK s \in Slots : Expire(s)
    BY <1>2
  <2>2. grave[s].capture \in Captures /\ Retire(grave[s].capture)
        /\ UNCHANGED <<result, inflight, capture>>
    BY <2>1 DEF Expire, Expired, IInv, TypeOK, GraveType, start
  <2>3. UNCHANGED Job("create")
    BY <2>2, RetireJobs DEF IInv, TypeOK, WorkerType
  <2> QED
    BY <1>0, <2>2, <2>3, StartKept
<1>3. CASE NoticeLoss \/ GoIdle \/ Restart
  <2>1. UNCHANGED <<result, inflight>> /\ capture' \in {capture, None}
    BY <1>3 DEF NoticeLoss, GoIdle, Restart
  <2>2. UNCHANGED queue \/ (capture \in Captures /\ Bury(capture))
    BY <1>3 DEF NoticeLoss, GoIdle, Restart, KeepGrave, IInv, TypeOK, FrameType
  <2>3. UNCHANGED Job("create")
    BY <2>2, BuryJobs DEF Job, IInv
  <2> QED
    BY <1>0, <2>1, <2>3, StartKept
<1>4. CASE DestroyDp
  <2>1. UNCHANGED <<result, inflight>> /\ capture' = None
    BY <1>4 DEF DestroyDp
  <2>2. UNCHANGED queue \/ (capture \in Captures /\ Retire(capture))
    BY <1>4 DEF DestroyDp, IInv, TypeOK, FrameType
  <2>3. UNCHANGED Job("create")
    BY <2>2, RetireJobs DEF Job, IInv, TypeOK, WorkerType
  <2> QED
    BY <1>0, <2>1, <2>3, StartKept
<1>5. CASE PollCreated
  <2>1. CASE ~result.done
    <3>1. UNCHANGED <<result, inflight, capture, queue>>
      BY <1>5, <2>1 DEF PollCreated, KeepGrave
    <3> QED
      BY <1>0, <3>1, StartKept DEF Job
  <2>2. CASE result.done
    <3>1. inflight' = FALSE /\ ~result'.done
      BY <1>5, <2>2 DEF PollCreated, Claim, NoResult
    <3>2. UNCHANGED queue \/ (result.capture \in Captures /\ Bury(result.capture))
      BY <1>5, <2>2 DEF PollCreated, Claim, KeepGrave, IInv, TypeOK, WorkerType
    <3>3. UNCHANGED Job("create")
      BY <3>2, BuryJobs DEF Job, IInv
    <3> QED
      BY <1>0, <2>2, <3>1, <3>3 DEF StartInv, Waiting
  <2> QED
    BY <2>1, <2>2
<1>6. CASE PostStart
  <2>1. ~inflight /\ capture = None /\ inflight' = TRUE /\ UNCHANGED <<result, capture>>
    BY <1>6 DEF PostStart, MayPost
  <2>2. Job("create")' = Job("create") \cup {Len(queue) + 1}
    BY <1>6, RequestJobs DEF PostStart, Full, IInv, TypeOK, WorkerType
  <2>3. Job("create") = {} /\ ~Making /\ ~result.done
    BY <2>1 DEF StartInv, Waiting
  <2>4. Waiting' /\ (\A i, j \in Job("create")' : i = j)
    BY <2>2, <2>3 DEF Waiting
  <2> QED
    BY <1>0, <2>1, <2>3, <2>4 DEF StartInv
<1> QED
  BY <1>1, <1>2, <1>3, <1>4, <1>5, <1>6 DEF FrameThread, Calls, FrameMoves

LEMMA StartWorker ==
    ASSUME IInv, StartInv, WorkerThread
    PROVE  StartInv'
<1>0. UNCHANGED <<inflight, capture>>
  BY WorkerLeaves DEF start
<1>1. CASE TakeJob
  <2>1. /\ wpc = "loop" /\ queue \in Seq(Jobs) /\ queue # <<>> /\ queue' = Tail(queue)
        /\ wpc' = Head(queue).type /\ UNCHANGED result
    BY <1>1 DEF TakeJob, IInv, TypeOK, WorkerType
  <2>2. Head(queue).type \in {"create", "destroy"}
    BY <2>1, JobShape
  <2>3. /\ \A i, j \in Job("create")' : i = j
        /\ Head(queue).type = "create" => Waiting /\ ~Waiting'
        /\ Head(queue).type # "create" => (Waiting' <=> Waiting)
    BY <2>1, TakeJobs DEF StartInv
  <2> QED
    BY <1>0, <2>1, <2>2, <2>3 DEF StartInv, Making
<1>2. CASE DestroyCapture \/ CreateSucceeds \/ CreateFails \/ WatchService \/ Pumped
  <2>1. /\ UNCHANGED <<queue, result>> /\ (Making' <=> Making)
        /\ wpc \notin {"orphan", "exit"} /\ wpc' \notin {"orphan", "exit"}
    BY <1>2 DEF DestroyCapture, CreateSucceeds, CreateFails, WatchService, Service, Pumped, Making
  <2> QED
    BY <1>0, <2>1, StartKept DEF Job
<1>3. CASE Publish
  <2>1. UNCHANGED queue /\ wpc = "publish" /\ wpc' = "loop" /\ result'.done
    BY <1>3 DEF Publish
  <2> QED
    BY <1>0, <2>1 DEF StartInv, Making, Waiting, Job
<1>4. CASE Quit
  <2>1. UNCHANGED queue /\ wpc = "loop" /\ wpc' = "orphan" /\ ~result'.done /\ queue = <<>>
    BY <1>4 DEF Quit, NoResult
  <2> QED
    BY <1>0, <2>1 DEF StartInv, Making, Waiting, Job
<1>5. CASE StopOrphan
  <2>1. UNCHANGED <<queue, result>> /\ wpc = "orphan" /\ wpc' = "exit"
    BY <1>5 DEF StopOrphan
  <2> QED
    BY <1>0, <2>1, StartKept DEF Making, Job
<1> QED
  BY <1>1, <1>2, <1>3, <1>4, <1>5 DEF WorkerThread

LEMMA StartStep == IInv /\ StartInv /\ Len(queue) < QueueSize /\ [Next]_vars => StartInv'
<1> SUFFICES ASSUME IInv, StartInv, Len(queue) < QueueSize, [Next]_vars PROVE StartInv'
  OBVIOUS
<1>1. CASE Environment \/ UNCHANGED vars
  <2>1. UNCHANGED <<queue, result, inflight, capture, wpc>>
    BY <1>1 DEF Environment, Lock, Unlock, LayoutChanges, RetryDue, WaitOver, StreamFails,
       FrameArrives, DesktopOnly, start, jobs, vars
  <2> QED
    BY <2>1, StartKept DEF Making, Job
<1> QED
  BY <1>1, StartFrame, StartWorker DEF Next

LEMMA StartInit == Init => StartInv
BY DEF Init, StartInv, Waiting, Making, Job, NoResult

\* What InflightIsOneStart counts.
LEMMA StartCounted == IInv /\ StartInv => InflightIsOneStart
<1> SUFFICES ASSUME IInv, StartInv, wpc \notin {"orphan", "exit"}
    PROVE  Cardinality(Job("create")) + (IF wpc = "create" THEN 1 ELSE 0)
              + (IF wpc = "publish" THEN 1 ELSE 0) + (IF result.done THEN 1 ELSE 0)
            = IF inflight THEN 1 ELSE 0
  BY DEF InflightIsOneStart
<1>1. CASE Waiting
  <2>1. PICK i : Job("create") = {i}
    BY <1>1 DEF StartInv, Waiting
  <2>2. Cardinality(Job("create")) = 1
    BY <2>1, FS_Singleton
  <2> QED
    BY <1>1, <2>2 DEF StartInv, Making
<1>2. CASE ~Waiting
  <2>1. Cardinality(Job("create")) = 0
    BY <1>2, FS_EmptySet DEF Waiting
  <2> QED
    BY <1>2, <2>1 DEF StartInv, Making
<1> QED
  BY <1>1, <1>2

-----------------------------------------------------------------------------
(* No stop under the GPU, over a step that stops no capture in line.       *)

\* The captures a frame on the GPU samples are shown or buried, and a buried one
\* rests for at least as many frames as the GPU may lag behind.
LagInv ==
    /\ SampledNotStopped
    /\ \A s \in Slots : grave[s].capture # None => gpu[grave[s].capture] <= grave[s].left

\* What is handed back is laid into a free slot.
LEMMA BuryInSlot ==
    ASSUME NoInlineStop, NEW c \in Captures, Bury(c),
           capture # None \/ (at = "poll" /\ Started # {})
    PROVE  \E s \in Slots :
              /\ grave[s].capture = None /\ UNCHANGED <<queue, live>>
              /\ grave' = [grave EXCEPT ![s] = [capture |-> c, left |-> Grace]]
BY DEF NoInlineStop, Bury

LEMMA SlotEffect ==
    ASSUME TypeOK, NEW s \in Slots, NEW c \in Captures, grave[s].capture = None,
           grave' = [grave EXCEPT ![s] = [capture |-> c, left |-> Grace]]
    PROVE  /\ Resting' = Resting \cup {c}
           /\ grave'[s].capture = c /\ grave'[s].left = Grace
           /\ \A t \in Slots \ {s} : grave'[t] = grave[t]
<1>1. /\ grave'[s] = [capture |-> c, left |-> Grace]
      /\ \A t \in Slots \ {s} : grave'[t] = grave[t]
  BY DEF TypeOK, GraveType
<1> QED
  BY <1>1, CaptureAssumption DEF Resting

\* A capture that goes into a slot rests there long enough.
LEMMA LagBury ==
    ASSUME IInv, LagInv, NEW s \in Slots, NEW c \in Captures, grave[s].capture = None,
           grave' = [grave EXCEPT ![s] = [capture |-> c, left |-> Grace]],
           UNCHANGED gpu, Shown \subseteq Shown' \cup {c}
    PROVE  LagInv'
<1>1. /\ Resting' = Resting \cup {c}
      /\ grave'[s].capture = c /\ grave'[s].left = Grace
      /\ \A t \in Slots \ {s} : grave'[t] = grave[t]
  BY SlotEffect DEF IInv
<1>2. gpu[c] <= Grace
  BY CaptureAssumption DEF IInv, TypeOK
<1> QED
  BY <1>1, <1>2 DEF LagInv, SampledNotStopped

LEMMA LagKept ==
    ASSUME LagInv, UNCHANGED <<gpu, grave>>, Shown \subseteq Shown'
    PROVE  LagInv'
BY DEF LagInv, SampledNotStopped, Resting

LEMMA LagStep == IInv /\ LagInv /\ NoInlineStop /\ [Next]_vars => LagInv'
<1> SUFFICES ASSUME IInv, LagInv, NoInlineStop, [Next]_vars PROVE LagInv'
  OBVIOUS
<1>1. CASE Environment \/ WorkerThread \/ UNCHANGED vars
  <2>1. UNCHANGED <<gpu, grave, capture>>
    BY <1>1, WorkerLeaves DEF Environment, Lock, Unlock, LayoutChanges, RetryDue, WaitOver,
       StreamFails, FrameArrives, DesktopOnly, start, vars
  <2> QED
    BY <2>1, LagKept DEF Shown
<1>2. CASE \/ TakeUnlock \/ PostStart \/ PostNone \/ SkipCompose \/ StopWorker \/ Joined
           \/ \E b \in BOOLEAN : SetTransparentBackground(b) \/ SetTransparencyActive(b)
  <2>1. UNCHANGED <<gpu, grave, capture>>
    BY <1>2 DEF TakeUnlock, PostStart, PostNone, SkipCompose, StopWorker, Joined,
       SetTransparentBackground, SetTransparencyActive, start
  <2> QED
    BY <2>1, LagKept DEF Shown
<1>3. CASE Sample
  <2>1. capture \in Captures /\ capture \in Shown /\ UNCHANGED <<grave, capture>>
        /\ gpu' \in {gpu, [gpu EXCEPT ![capture] = InFlight]}
    BY <1>3 DEF Sample, IInv, TypeOK, FrameType, Shown, start
  <2>2. \A c \in Captures \ {capture} : gpu'[c] = gpu[c]
    BY <2>1 DEF IInv, TypeOK
  <2>3. capture \notin Resting
    BY <2>1, HolderParts DEF IInv, HolderSets
  <2>4. \A s \in Slots : grave[s].capture # None => grave[s].capture \in Captures \ {capture}
    BY <2>1, <2>3 DEF Resting, IInv, TypeOK, GraveType
  <2> QED
    BY <2>1, <2>2, <2>4 DEF LagInv, SampledNotStopped, Shown, Resting
<1>4. CASE ProcessAtlas
  <2>1. /\ gpu' = [c \in Captures |-> IF gpu[c] = 0 THEN 0 ELSE gpu[c] - 1]
        /\ grave' = [s \in Slots |-> IF grave[s].capture = None THEN Empty
                                     ELSE [grave[s] EXCEPT !.left = @ - 1]]
        /\ UNCHANGED capture /\ at = "out"
    BY <1>4 DEF ProcessAtlas, start
  <2>2. ASSUME NEW s \in Slots
        PROVE  /\ grave'[s].capture = grave[s].capture
               /\ grave[s].capture # None => grave'[s].left = grave[s].left - 1
    <3>1. CASE grave[s].capture = None
      BY <2>1, <3>1 DEF Empty
    <3>2. CASE grave[s].capture # None
      <4>1. grave'[s] = [grave[s] EXCEPT !.left = grave[s].left - 1]
        BY <2>1, <3>2
      <4> QED
        BY <3>2, <4>1 DEF IInv, TypeOK, GraveType
    <3> QED
      BY <3>1, <3>2
  <2>3. UNCHANGED <<Shown, Resting>>
    BY <2>1, <2>2 DEF Shown, Resting
  <2>4. \A c \in Captures : gpu'[c] > 0 => gpu[c] > 0
    BY <2>1, CaptureAssumption DEF IInv, TypeOK
  <2>5. ASSUME NEW s \in Slots, grave[s].capture # None
        PROVE  gpu'[grave[s].capture] <= grave[s].left - 1
    <3>1. /\ grave[s].capture \in Captures /\ grave[s].left > 0
          /\ grave[s].left \in Int /\ gpu[grave[s].capture] \in Int
          /\ gpu[grave[s].capture] <= grave[s].left
      BY <2>1, <2>5, CaptureAssumption DEF IInv, TypeOK, GraveType, GraveInv, LagInv
    <3> QED
      BY <2>1, <3>1
  <2> QED
    BY <2>2, <2>3, <2>4, <2>5 DEF LagInv, SampledNotStopped
<1>5. CASE \E s \in Slots : Expire(s)
  <2>1. PICK s \in Slots : Expire(s)
    BY <1>5
  <2>2. /\ grave[s].capture \in Captures /\ grave[s].left = 0
        /\ grave' = [grave EXCEPT ![s] = Empty] /\ UNCHANGED <<gpu, capture>>
    BY <2>1 DEF Expire, Expired, IInv, TypeOK, GraveType, start
  <2>3. grave'[s] = Empty /\ \A t \in Slots \ {s} : grave'[t] = grave[t]
    BY <2>2 DEF IInv, TypeOK, GraveType
  <2>4. gpu[grave[s].capture] = 0
    BY <2>2, CaptureAssumption DEF LagInv, IInv, TypeOK
  <2>5. Resting \ {grave[s].capture} \subseteq Resting'
    BY <2>3 DEF Resting
  <2> QED
    BY <2>2, <2>3, <2>4, <2>5 DEF LagInv, SampledNotStopped, Shown, Empty
<1>6. CASE NoticeLoss \/ GoIdle \/ Restart
  <2>1. CASE UNCHANGED <<grave, capture>>
    <3>1. UNCHANGED gpu
      BY <1>6 DEF NoticeLoss, GoIdle, Restart
    <3> QED
      BY <2>1, <3>1, LagKept DEF Shown
  <2>2. CASE ~UNCHANGED <<grave, capture>>
    <3>1. capture \in Captures /\ Bury(capture) /\ capture' = None /\ UNCHANGED gpu
      BY <1>6, <2>2 DEF NoticeLoss, GoIdle, Restart, KeepGrave, IInv, TypeOK, FrameType
    <3>2. PICK s \in Slots :
              /\ grave[s].capture = None
              /\ grave' = [grave EXCEPT ![s] = [capture |-> capture, left |-> Grace]]
      BY <3>1, BuryInSlot, CaptureAssumption
    <3> QED
      BY <3>1, <3>2, LagBury DEF Shown
  <2> QED
    BY <2>1, <2>2
<1>7. CASE PollCreated
  <2> DEFINE c == result.capture
  <2>0. UNCHANGED gpu /\ at = "poll"
    BY <1>7 DEF PollCreated
  <2>1. CASE UNCHANGED <<grave, capture>>
    BY <2>0, <2>1, LagKept DEF Shown
  <2>2. CASE result.done /\ c # None /\ Wanted /\ capture = None
    <3>1. UNCHANGED grave /\ Shown = {}
      BY <1>7, <2>2 DEF PollCreated, Claim, KeepGrave, Shown
    <3> QED
      BY <2>0, <3>1, LagKept
  <2>3. CASE result.done /\ c # None /\ ~(Wanted /\ capture = None)
    <3>1. c \in Captures /\ Bury(c) /\ UNCHANGED capture /\ Started # {}
      BY <1>7, <2>3 DEF PollCreated, Claim, Started, IInv, TypeOK, WorkerType
    <3>2. PICK s \in Slots :
              /\ grave[s].capture = None
              /\ grave' = [grave EXCEPT ![s] = [capture |-> c, left |-> Grace]]
      BY <2>0, <3>1, BuryInSlot
    <3> QED
      BY <2>0, <3>1, <3>2, LagBury DEF Shown
  <2> QED
    BY <1>7, <2>1, <2>2, <2>3 DEF PollCreated, Claim, KeepGrave
<1>8. CASE DestroyDp
  <2>1. /\ gpu' = [c \in Captures |-> 0]
        /\ grave' = [s \in Slots |-> [grave[s] EXCEPT !.left = 0]]
    BY <1>8 DEF DestroyDp
  <2>2. ASSUME NEW s \in Slots
        PROVE  grave'[s].capture = grave[s].capture /\ grave'[s].left = 0
    BY <2>1 DEF IInv, TypeOK, GraveType
  <2>3. \A s \in Slots : grave[s].capture # None => grave[s].capture \in Captures
    BY DEF IInv, TypeOK, GraveType
  <2> QED
    BY <2>1, <2>2, <2>3 DEF LagInv, SampledNotStopped
<1> QED
  BY <1>1, <1>2, <1>3, <1>4, <1>5, <1>6, <1>7, <1>8 DEF Next, FrameThread, Calls

LEMMA LagInit == Init => LagInv
BY CaptureAssumption DEF Init, LagInv, SampledNotStopped, Empty

-----------------------------------------------------------------------------
(* The threads implement CaptureLifecycle, over a step that stops no        *)
(* capture in line and drops no start.                                     *)

Busy == {c \in Captures : gpu[c] > 0}

\* The holder of a capture tells its stage.
StageAt(c) ==
    /\ stageOf[c] \in {"none", "started", "shown", "resting", "stopping"}
    /\ stageOf[c] = "shown" <=> c \in Shown
    /\ stageOf[c] = "resting" <=> c \in Resting
    /\ stageOf[c] = "stopping" <=> c \in Stopping
    /\ stageOf[c] = "started" <=> c \in Beginning

LEMMA StageIs ==
    /\ IInv => \A c \in Captures : StageAt(c)
    /\ IInv' => \A c \in Captures : StageAt(c)'
<1>1. ASSUME IInv, NEW c \in Captures PROVE StageAt(c)
  <2>1. HolderSets /\ Stopped \cap Captures \subseteq InHand
    BY <1>1, CaptureAssumption, HolderParts DEF IInv, Stopped, InHand
  <2>2. /\ ~(c \in Shown /\ c \in Resting) /\ ~(c \in Shown /\ c \in Stopping)
        /\ ~(c \in Shown /\ c \in Beginning) /\ ~(c \in Resting /\ c \in Stopping)
        /\ ~(c \in Resting /\ c \in Beginning) /\ ~(c \in Stopping /\ c \in Beginning)
    BY <1>1, <2>1 DEF HolderSets, Stopping, Beginning
  <2> QED
    BY <2>2 DEF StageAt, stageOf
<1>2. IInv => \A c \in Captures : StageAt(c)
  BY <1>1
<1>3. (IInv => \A c \in Captures : StageAt(c))'
  BY <1>2, PTL
<1> QED
  BY <1>2, <1>3

\* A capture whose holders are the same is in the same stage.
LEMMA StageKept ==
    ASSUME IInv, IInv', NEW c \in Captures,
           c \in Shown' <=> c \in Shown, c \in Resting' <=> c \in Resting,
           c \in Stopping' <=> c \in Stopping, c \in Beginning' <=> c \in Beginning
    PROVE  stageOf'[c] = stageOf[c]
BY StageIs DEF StageAt

LEMMA MoveIs ==
    ASSUME NEW S \in SUBSET Captures, NEW s,
           \A c \in Captures \ S : stageOf'[c] = stageOf[c],
           \A c \in S : stageOf'[c] = s
    PROVE  Life!Move(S, s)
<1>1. stageOf' = [c \in Captures |-> stageOf'[c]]
  BY DEF stageOf
<1>2. stageOf' = [c \in Captures |-> IF c \in S THEN s ELSE stageOf[c]]
  BY <1>1
<1> QED
  BY <1>2 DEF Life!Move

LEMMA LifeKept ==
    ASSUME IInv, IInv', UNCHANGED <<Shown, Resting, Stopping, Beginning>>
    PROVE  UNCHANGED stageOf /\ (UNCHANGED gpu => UNCHANGED Life!lifeVars)
<1>1. \A c \in Captures : stageOf'[c] = stageOf[c]
  BY StageKept
<1>2. stageOf' = [c \in Captures |-> stageOf'[c]] /\ stageOf = [c \in Captures |-> stageOf[c]]
  BY DEF stageOf
<1>3. UNCHANGED stageOf
  BY <1>1, <1>2
<1> QED
  BY <1>3 DEF Life!lifeVars

\* One capture goes to another stage.
LEMMA OneMoves ==
    ASSUME IInv, IInv', NEW c \in Captures, NEW s,
           \A d \in Captures \ {c} :
              /\ d \in Shown' <=> d \in Shown
              /\ d \in Resting' <=> d \in Resting
              /\ d \in Stopping' <=> d \in Stopping
              /\ d \in Beginning' <=> d \in Beginning,
           stageOf'[c] = s
    PROVE  Life!Move({c}, s)
<1>1. \A d \in Captures \ {c} : stageOf'[d] = stageOf[d]
  BY StageKept
<1> QED
  BY <1>1, MoveIs

\* Where the queue has room a stop is queued.
LEMMA RetireQueued ==
    ASSUME IInv, NoInlineStop, NEW c \in Captures, c \in live, c \notin Queued, Retire(c)
    PROVE  Queued' = Queued \cup {c} /\ live' = live
<1>1. live' = live
  BY DEF Retire, Full, NoInlineStop, IInv, TypeOK, WorkerType
<1> QED
  BY <1>1, RetireEffect, HolderParts DEF IInv, TypeOK, WorkerType

LEMMA LifeFrame ==
    ASSUME IInv, IInv', StartInv, LagInv, NoInlineStop, FrameThread \/ Calls
    PROVE  [Life!Next]_Life!lifeVars
<1>0. UNCHANGED <<wpc, hand, InHand, Stopped>>
  BY DEF FrameThread, Calls, ProcessAtlas, Expire, NoticeLoss, TakeUnlock, PollCreated, GoIdle,
         PostStart, PostNone, SkipCompose, Restart, Sample, StopWorker, Joined,
         SetTransparentBackground, SetTransparencyActive, DestroyDp, jobs, InHand, Stopped
<1>1. HolderSets /\ HolderSets'
  BY HolderParts DEF IInv
<1>2. CASE \/ TakeUnlock \/ PostStart \/ PostNone \/ SkipCompose \/ StopWorker \/ Joined
           \/ \E b \in BOOLEAN : SetTransparentBackground(b) \/ SetTransparencyActive(b)
  <2>1. UNCHANGED <<gpu, grave, capture, result>> /\ (RequestCreate \/ UNCHANGED queue)
    BY <1>2 DEF TakeUnlock, PostStart, PostNone, SkipCompose, StopWorker, Joined,
       SetTransparentBackground, SetTransparencyActive, start, jobs
  <2>2. UNCHANGED Queued
    BY <2>1, RequestEffect, HolderParts DEF Queued, IInv, TypeOK, WorkerType
  <2>3. UNCHANGED <<Shown, Resting, Stopping, Beginning>>
    BY <1>0, <2>1, <2>2 DEF Shown, Resting, Stopping, Beginning, Started
  <2> QED
    BY <2>1, <2>3, LifeKept
<1>3. CASE Sample
  <2>1. UNCHANGED <<grave, capture, result, queue>> /\ capture \in Captures /\ capture \in Shown
        /\ gpu' \in {gpu, [gpu EXCEPT ![capture] = InFlight]}
    BY <1>3 DEF Sample, start, jobs, Shown, IInv, TypeOK, FrameType
  <2>2. UNCHANGED <<Shown, Resting, Stopping, Beginning>>
    BY <1>0, <2>1 DEF Shown, Resting, Stopping, Beginning, Started, Queued
  <2>3. CASE gpu' = gpu
    BY <2>2, <2>3, LifeKept
  <2>4. CASE gpu' = [gpu EXCEPT ![capture] = InFlight]
    <3>1. Busy' = Busy \cup {capture}
      BY <2>1, <2>4, CaptureAssumption DEF Busy, IInv, TypeOK
    <3>2. PICK c \in Captures : c = capture
      BY <2>1
    <3>3. stageOf[c] = "shown" /\ UNCHANGED stageOf /\ Busy' = Busy \cup {c}
      BY <2>1, <2>2, <3>1, <3>2, StageIs, LifeKept DEF StageAt
    <3>4. Life!Sample(c)
      BY <3>3 DEF Life!Sample, Busy
    <3> QED
      BY <3>4 DEF Life!Next
  <2> QED
    BY <2>1, <2>3, <2>4
<1>4. CASE ProcessAtlas
  <2>1. UNCHANGED <<queue, capture, result>> /\ Resting' = Resting /\ Busy' \subseteq Busy
    <3>1. /\ UNCHANGED <<queue, capture, result>>
          /\ gpu' = [c \in Captures |-> IF gpu[c] = 0 THEN 0 ELSE gpu[c] - 1]
          /\ grave' = [s \in Slots |-> IF grave[s].capture = None THEN Empty
                                       ELSE [grave[s] EXCEPT !.left = @ - 1]]
      BY <1>4 DEF ProcessAtlas, start, jobs
    <3>2. \A s \in Slots : grave'[s].capture = grave[s].capture
      BY <3>1 DEF Empty, IInv, TypeOK, GraveType
    <3>3. Busy' \subseteq Busy
      BY <3>1, CaptureAssumption DEF Busy, IInv, TypeOK
    <3> QED
      BY <3>1, <3>2, <3>3 DEF Resting
  <2>2. UNCHANGED <<Shown, Stopping, Beginning>>
    BY <1>0, <2>1 DEF Shown, Stopping, Beginning, Started, Queued
  <2>3. UNCHANGED stageOf
    BY <2>1, <2>2, LifeKept
  <2>4. {} \in SUBSET Life!In("resting") /\ Life!Move({}, "stopping")
    BY <2>3, MoveIs
  <2> QED
    BY <2>1, <2>4 DEF Life!Next, Life!NewFrame, Busy
<1>5. CASE \E s \in Slots : Expire(s)
  <2>1. PICK s \in Slots : Expire(s)
    BY <1>5
  <2> DEFINE c == grave[s].capture
  <2>2. /\ c \in Captures /\ c \in Resting /\ Retire(c)
        /\ grave' = [grave EXCEPT ![s] = Empty] /\ UNCHANGED <<gpu, capture, result>>
    BY <2>1 DEF Expire, Expired, IInv, TypeOK, GraveType, start, Resting
  <2>3. Queued' = Queued \cup {c}
    BY <1>1, <2>2, RetireQueued DEF HolderSets
  <2>4. Resting' \subseteq Resting /\ Resting \ {c} \subseteq Resting'
    <3>1. grave'[s] = Empty /\ \A t \in Slots \ {s} : grave'[t] = grave[t]
      BY <2>2 DEF IInv, TypeOK, GraveType
    <3> QED
      BY <3>1 DEF Resting, Empty
  <2>5. UNCHANGED <<Shown, Beginning>> /\ Stopping' = Stopping \cup {c}
    BY <1>0, <2>2, <2>3 DEF Shown, Stopping, Beginning, Started
  <2>6. stageOf[c] = "resting" /\ stageOf'[c] = "stopping"
    BY <2>2, <2>5, StageIs DEF StageAt
  <2>7. Life!Move({c}, "stopping")
    BY <2>2, <2>4, <2>5, <2>6, OneMoves
  <2>8. {c} \in SUBSET Life!In("resting")
    BY <2>2, <2>6 DEF Life!In
  <2> QED
    BY <2>2, <2>7, <2>8 DEF Life!Next, Life!NewFrame
<1>6. CASE NoticeLoss \/ GoIdle \/ Restart
  <2>0. UNCHANGED <<gpu, result>>
    BY <1>6 DEF NoticeLoss, GoIdle, Restart
  <2>1. CASE UNCHANGED <<grave, capture, queue>>
    <3>1. UNCHANGED <<Shown, Resting, Stopping, Beginning>>
      BY <1>0, <2>0, <2>1 DEF Shown, Resting, Stopping, Beginning, Started, Queued
    <3> QED
      BY <2>0, <3>1, LifeKept
  <2>2. CASE ~UNCHANGED <<grave, capture, queue>>
    <3>1. capture \in Captures /\ Bury(capture) /\ capture' = None
      BY <1>6, <2>2 DEF NoticeLoss, GoIdle, Restart, KeepGrave, IInv, TypeOK, FrameType
    <3>2. PICK s \in Slots :
              /\ grave[s].capture = None /\ UNCHANGED <<queue, live>>
              /\ grave' = [grave EXCEPT ![s] = [capture |-> capture, left |-> Grace]]
      BY <3>1, BuryInSlot, CaptureAssumption
    <3>3. /\ Resting' = Resting \cup {capture} /\ Shown = {capture} /\ Shown' = {}
          /\ UNCHANGED <<Stopping, Beginning>>
      <4>1. Resting' = Resting \cup {capture}
        BY <3>1, <3>2, SlotEffect DEF IInv
      <4>2. UNCHANGED <<Stopping, Beginning>>
        BY <1>0, <2>0, <3>2 DEF Stopping, Beginning, Started, Queued
      <4>3. Shown = {capture} /\ Shown' = {}
        BY <3>1, CaptureAssumption DEF Shown
      <4> QED
        BY <4>1, <4>2, <4>3
    <3>4. stageOf[capture] = "shown" /\ stageOf'[capture] = "resting"
      BY <3>1, <3>3, StageIs DEF StageAt
    <3>5. Life!Move({capture}, "resting")
      BY <3>1, <3>3, <3>4, OneMoves
    <3> QED
      BY <2>0, <3>1, <3>4, <3>5 DEF Life!Next, Life!Rest
  <2> QED
    BY <2>1, <2>2
<1>7. CASE PollCreated
  <2> DEFINE c == result.capture
  <2>0. UNCHANGED gpu /\ at = "poll"
    BY <1>7 DEF PollCreated
  <2>1. CASE ~result.done \/ c = None
    <3>1. UNCHANGED <<grave, queue, capture>>
      BY <1>7, <2>1 DEF PollCreated, Claim, KeepGrave
    <3>2. UNCHANGED Started
      BY <1>7, <2>1 DEF PollCreated, Claim, Started, NoResult
    <3>3. UNCHANGED <<Shown, Resting, Stopping, Beginning>>
      BY <1>0, <3>1, <3>2 DEF Shown, Resting, Stopping, Beginning, Queued
    <3> QED
      BY <2>0, <3>3, LifeKept
  <2>2. CASE result.done /\ c # None /\ Wanted /\ capture = None
    <3>1. c \in Captures /\ capture' = c /\ UNCHANGED <<grave, queue>> /\ result' = NoResult
      BY <1>7, <2>2 DEF PollCreated, Claim, KeepGrave, IInv, TypeOK, WorkerType
    <3>2. /\ Started = {c} /\ Started' = {} /\ Shown = {} /\ Shown' = {c}
          /\ UNCHANGED <<Resting, Stopping>>
      BY <1>0, <2>2, <3>1, CaptureAssumption
         DEF Shown, Resting, Stopping, Started, Queued, NoResult
    <3>3. Beginning = (InHand \ Stopped) \cup {c} /\ Beginning' = InHand \ Stopped
      BY <1>0, <3>2 DEF Beginning
    <3>4. stageOf[c] = "started" /\ stageOf'[c] = "shown"
      BY <3>1, <3>2, <3>3, StageIs DEF StageAt
    <3>5. Life!Move({c}, "shown")
      BY <3>1, <3>2, <3>3, <3>4, OneMoves
    <3> QED
      BY <2>0, <3>1, <3>4, <3>5 DEF Life!Next, Life!Show
  <2>3. CASE result.done /\ c # None /\ ~(Wanted /\ capture = None)
    <3>1. /\ c \in Captures /\ Bury(c) /\ UNCHANGED capture /\ result' = NoResult
          /\ Started = {c} /\ Started' = {}
      BY <1>7, <2>3 DEF PollCreated, Claim, Started, NoResult, IInv, TypeOK, WorkerType
    <3>2. PICK s \in Slots :
              /\ grave[s].capture = None /\ UNCHANGED <<queue, live>>
              /\ grave' = [grave EXCEPT ![s] = [capture |-> c, left |-> Grace]]
      BY <2>0, <3>1, BuryInSlot
    <3>3. Resting' = Resting \cup {c} /\ UNCHANGED <<Shown, Stopping>>
      <4>1. Resting' = Resting \cup {c}
        BY <3>1, <3>2, SlotEffect DEF IInv
      <4> QED
        BY <1>0, <3>1, <3>2, <4>1 DEF Shown, Stopping, Queued
    <3>4. Beginning = (InHand \ Stopped) \cup {c} /\ Beginning' = InHand \ Stopped
      BY <1>0, <3>1 DEF Beginning
    <3>5. stageOf[c] = "started" /\ stageOf'[c] = "resting"
      BY <3>1, <3>3, <3>4, StageIs DEF StageAt
    <3>6. Life!Move({c}, "resting")
      BY <3>1, <3>3, <3>4, <3>5, OneMoves
    <3> QED
      BY <2>0, <3>1, <3>5, <3>6 DEF Life!Next, Life!Rest
  <2> QED
    BY <2>1, <2>2, <2>3
<1>8. CASE DestroyDp
  <2>1. /\ gpu' = [c \in Captures |-> 0] /\ capture' = None /\ UNCHANGED result
        /\ grave' = [s \in Slots |-> [grave[s] EXCEPT !.left = 0]]
    BY <1>8 DEF DestroyDp
  <2>2. Busy' = {} /\ Resting' = Resting /\ Shown' = {} /\ UNCHANGED Beginning
    <3>1. \A s \in Slots : grave'[s].capture = grave[s].capture
      BY <2>1 DEF IInv, TypeOK, GraveType
    <3> QED
      BY <1>0, <2>1, <3>1 DEF Busy, Resting, Shown, Beginning, Started
  <2>3. Queued' = Queued \cup Shown
    <3>1. CASE capture = None
      BY <1>8, <3>1 DEF DestroyDp, Queued, Shown
    <3>2. CASE capture # None
      <4>1. capture \in Captures /\ Retire(capture) /\ Shown = {capture}
        BY <1>8, <3>2 DEF DestroyDp, IInv, TypeOK, FrameType, Shown
      <4> QED
        BY <1>1, <4>1, RetireQueued DEF HolderSets
    <3> QED
      BY <3>1, <3>2
  <2>4. Stopping' = Stopping \cup Shown /\ Shown \subseteq Captures
    BY <1>0, <2>3 DEF Stopping, Shown, IInv, TypeOK, FrameType
  <2>5. Life!In("shown") = Shown
    BY <2>4, StageIs DEF Life!In, StageAt
  <2>6. \A c \in Shown : stageOf'[c] = "stopping"
    BY <2>4, StageIs DEF StageAt
  <2>7. \A c \in Captures \ Shown : stageOf'[c] = stageOf[c]
    BY <2>2, <2>4, StageKept
  <2>8. Life!Move(Life!In("shown"), "stopping")
    BY <2>4, <2>5, <2>6, <2>7, MoveIs
  <2> QED
    BY <2>2, <2>8 DEF Life!Next, Life!Close, Busy
<1> QED
  BY <1>2, <1>3, <1>4, <1>5, <1>6, <1>7, <1>8 DEF FrameThread, Calls

LEMMA LifeWorker ==
    ASSUME IInv, IInv', StartInv, LagInv, WorkerThread
    PROVE  [Life!Next]_Life!lifeVars
<1>0. UNCHANGED <<gpu, Shown, Resting>>
  BY WorkerLeaves, WorkerHolders
<1>1. HolderSets /\ HolderSets' /\ (queue' = queue => Queued' = Queued)
  BY HolderParts, WorkerHolders DEF IInv
<1>2. CASE TakeJob
  <2>1. /\ wpc = "loop" /\ queue \in Seq(Jobs) /\ queue # <<>> /\ queue' = Tail(queue)
        /\ wpc' = Head(queue).type /\ hand' = Head(queue).capture /\ UNCHANGED result
    BY <1>2 DEF TakeJob, IInv, TypeOK, WorkerType
  <2>2. /\ Queued = Queued' \cup ({hand'} \ {None})
        /\ wpc' \in {"create", "destroy"} /\ (wpc' = "destroy" <=> hand' # None)
    BY <2>1, TakeEffect, JobShape, HolderParts DEF IInv
  <2>3. UNCHANGED <<Stopping, Beginning>>
    BY <2>1, <2>2 DEF Stopping, Beginning, Stopped, InHand, Started
  <2> QED
    BY <1>0, <2>3, LifeKept
<1>3. CASE CreateFails \/ WatchService \/ Pumped
  <2>1. /\ UNCHANGED <<queue, result>>
        /\ wpc \in {"create", "loop", "pumped"}
        /\ wpc' \in {"loop", "pumped"} \/ (wpc' = "publish" /\ hand' = None)
    BY <1>3 DEF CreateFails, WatchService, Service, Pumped
  <2>2. UNCHANGED <<Stopping, Beginning>>
    BY <1>1, <2>1 DEF Stopping, Beginning, Stopped, InHand, Started
  <2> QED
    BY <1>0, <2>2, LifeKept
<1>4. CASE Publish
  <2>1. /\ wpc = "publish" /\ wpc' = "loop" /\ result'.capture = hand /\ UNCHANGED queue
        /\ result.capture = None
    BY <1>4 DEF Publish, StartInv, Making, IInv, WorkerInv
  <2>2. UNCHANGED <<Stopping, Beginning>>
    BY <1>1, <2>1 DEF Stopping, Beginning, Stopped, InHand, Started
  <2> QED
    BY <1>0, <2>2, LifeKept
<1>5. CASE CreateSucceeds
  <2> DEFINE c == Fresh
  <2>1. /\ wpc = "create" /\ wpc' = "publish" /\ hand' = c /\ UNCHANGED <<queue, result>>
        /\ c \in Captures /\ c \notin live
    BY <1>5, FreshIsNew DEF CreateSucceeds, IInv, TypeOK
  <2>2. /\ Shown = {} /\ Beginning = {} /\ Beginning' = {c} /\ UNCHANGED Stopping
        /\ c \notin Resting /\ c \notin Stopping
    <3>1. capture = None /\ result.capture = None
      BY <2>1 DEF StartInv, Making, IInv, WorkerInv
    <3> QED
      BY <1>1, <2>1, <3>1, CaptureAssumption
         DEF HolderSets, Shown, Stopping, Beginning, Stopped, InHand, Started
  <2>3. stageOf[c] = "none" /\ stageOf'[c] = "started"
    BY <2>1, <2>2, StageIs DEF StageAt
  <2>4. Life!In("started") = {} /\ Life!In("shown") = {}
    BY <2>2, StageIs DEF Life!In, StageAt
  <2>5. Life!Move({c}, "started")
    BY <1>0, <2>1, <2>2, <2>3, OneMoves
  <2> QED
    BY <1>0, <2>1, <2>3, <2>4, <2>5 DEF Life!Next, Life!Start
<1>6. CASE DestroyCapture \/ StopOrphan
  <2>1. /\ wpc \in {"destroy", "orphan"} /\ wpc' \in {"loop", "exit"} /\ hand' = None
        /\ UNCHANGED <<queue, result>> /\ hand \in Captures \cup {None}
    BY <1>6 DEF DestroyCapture, StopOrphan, IInv, TypeOK, WorkerType
  <2>2. Beginning' = Beginning /\ Stopping = Queued \cup {hand} /\ Stopping' = Queued
    BY <1>1, <2>1 DEF Stopping, Beginning, Stopped, InHand, Started
  <2>3. CASE hand = None
    <3>1. \A c \in Captures : c \in Stopping' <=> c \in Stopping
      BY <2>2, <2>3, CaptureAssumption
    <3>2. \A c \in Captures : stageOf'[c] = stageOf[c]
      BY <1>0, <2>2, <3>1, StageKept
    <3>3. UNCHANGED stageOf
      <4>1. stageOf' = [c \in Captures |-> stageOf'[c]] /\ stageOf = [c \in Captures |-> stageOf[c]]
        BY DEF stageOf
      <4> QED
        BY <3>2, <4>1
    <3> QED
      BY <1>0, <3>3 DEF Life!lifeVars
  <2>4. CASE hand # None
    <3>1. /\ hand \in Captures /\ InHand = {hand} /\ hand \notin Shown /\ hand \notin Resting
          /\ hand \notin Queued /\ hand \notin Beginning
      BY <1>1, <2>1, <2>4 DEF InHand, HolderSets, Beginning, Stopped
    <3>2. hand \notin Busy
      BY <3>1 DEF LagInv, SampledNotStopped, Busy
    <3>3. stageOf[hand] = "stopping" /\ stageOf'[hand] = "none"
      BY <1>0, <2>2, <3>1, StageIs DEF StageAt
    <3>4. Life!Move({hand}, "none")
      BY <1>0, <2>2, <3>1, <3>3, OneMoves
    <3> QED
      BY <1>0, <3>1, <3>2, <3>3, <3>4 DEF Life!Next, Life!End, Busy
  <2> QED
    BY <2>3, <2>4
<1>7. CASE Quit
  <2> DEFINE c == result.capture
  <2>1. /\ wpc = "loop" /\ wpc' = "orphan" /\ hand' = c /\ result' = NoResult /\ UNCHANGED queue
        /\ c \in Captures \cup {None}
    BY <1>7 DEF Quit, IInv, TypeOK, WorkerType
  <2>2. /\ Beginning = Started /\ Beginning' = {} /\ Stopping = Queued
        /\ Stopping' = Queued \cup {c} /\ Started = {c} \ {None}
    BY <1>1, <2>1 DEF Stopping, Beginning, Stopped, InHand, Started, NoResult
  <2>3. CASE c = None
    <3>1. \A d \in Captures : (d \in Stopping' <=> d \in Stopping) /\ (d \in Beginning' <=> d \in Beginning)
      BY <2>2, <2>3, CaptureAssumption
    <3>2. \A d \in Captures : stageOf'[d] = stageOf[d]
      BY <1>0, <3>1, StageKept
    <3>3. UNCHANGED stageOf
      <4>1. stageOf' = [d \in Captures |-> stageOf'[d]] /\ stageOf = [d \in Captures |-> stageOf[d]]
        BY DEF stageOf
      <4> QED
        BY <3>2, <4>1
    <3> QED
      BY <1>0, <3>3 DEF Life!lifeVars
  <2>4. CASE c # None
    <3>1. c \in Captures /\ Started = {c}
      BY <2>1, <2>2, <2>4
    <3>2. stageOf[c] = "started" /\ stageOf'[c] = "stopping"
      BY <2>2, <3>1, StageIs DEF StageAt
    <3>3. Life!Move({c}, "stopping")
      BY <1>0, <2>2, <3>1, <3>2, OneMoves
    <3> QED
      BY <1>0, <3>1, <3>2, <3>3 DEF Life!Next, Life!Abandon
  <2> QED
    BY <2>3, <2>4
<1> QED
  BY <1>2, <1>3, <1>4, <1>5, <1>6, <1>7 DEF WorkerThread

LEMMA LifeStep ==
    IInv /\ IInv' /\ StartInv /\ LagInv /\ NoInlineStop /\ [Next]_vars
        => [Life!Next]_Life!lifeVars
<1> SUFFICES ASSUME IInv, IInv', StartInv, LagInv, NoInlineStop, [Next]_vars
    PROVE  [Life!Next]_Life!lifeVars
  OBVIOUS
<1>1. CASE Environment \/ UNCHANGED vars
  <2>1. UNCHANGED <<gpu, grave, capture, queue, result, wpc, hand>>
    BY <1>1 DEF Environment, Lock, Unlock, LayoutChanges, RetryDue, WaitOver, StreamFails,
       FrameArrives, DesktopOnly, start, jobs, vars
  <2>2. UNCHANGED <<Shown, Resting, Stopping, Beginning>>
    BY <2>1 DEF Shown, Resting, Stopping, Beginning, Queued, Stopped, InHand, Started
  <2> QED
    BY <2>1, <2>2, LifeKept
<1> QED
  BY <1>1, LifeFrame, LifeWorker DEF Next

LEMMA LifeInit == Init => Life!Init
<1> SUFFICES ASSUME Init PROVE Life!Init
  OBVIOUS
<1>1. Shown = {} /\ Resting = {} /\ Stopping = {} /\ Beginning = {}
  BY DEF Init, Shown, Resting, Stopping, Beginning, Queued, Stopped, InHand, Started, NoResult,
         Empty
<1>2. \A c \in Captures : stageOf[c] = "none"
  BY <1>1, InitInv, StageIs DEF StageAt
<1>3. stageOf = [c \in Captures |-> stageOf[c]]
  BY DEF stageOf
<1>4. {c \in Captures : gpu[c] > 0} = {}
  BY DEF Init
<1> QED
  BY <1>2, <1>3, <1>4 DEF Life!Init
=============================================================================
