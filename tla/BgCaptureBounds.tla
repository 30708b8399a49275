-------------------------- MODULE BgCaptureBounds --------------------------
(***************************************************************************)
(* The two bounds the inline paths of BgCapture rest on, and what follows  *)
(* once neither path is taken.                                             *)
(*                                                                         *)
(* The job queue: everything that lives when a start begins had a place in *)
(* the graveyard when the start was posted, since the worker stops what    *)
(* was queued before it first; so one capture more than the graveyard      *)
(* holds is alive at most, and the queue holds a stop of each and a start. *)
(*                                                                         *)
(* The graveyard: a frame buries one capture at most, a setter call too,   *)
(* and after a burial it takes a start and its claim before the next; a    *)
(* balance (Credit) of the captures buried against the frames and calls    *)
(* that passed bounds the captures resting at one time.                    *)
(***************************************************************************)
EXTENDS BgCaptureProofs

-----------------------------------------------------------------------------
(* The queue has room.                                                      *)

\* The stops that wait behind the start, and what they and the graveyard hold.
LateJobs ==
    {j \in Job("destroy") : wpc = "create" \/ \E i \in Job("create") : i < j}

Late == Resting \cup {queue[j].capture : j \in LateJobs}

Starting == Waiting \/ wpc = "create"

CrowdInv ==
    /\ IsFiniteSet(live) /\ Cardinality(live) <= Cardinality(Slots) + 1
    /\ Starting => IsFiniteSet(Late) /\ Cardinality(Late) <= Cardinality(Slots)

\* Fewer captures, or the same, and a start that was there before.
LEMMA CrowdKept ==
    ASSUME CrowdInv, live' \subseteq live, Starting' => Starting /\ Late' \subseteq Late
    PROVE  CrowdInv'
<1>1. IsFiniteSet(live') /\ Cardinality(live') <= Cardinality(live)
  BY FS_Subset DEF CrowdInv
<1>2. Starting' => IsFiniteSet(Late') /\ Cardinality(Late') <= Cardinality(Late)
  BY FS_Subset DEF CrowdInv
<1>3. /\ Cardinality(live) \in Nat /\ Cardinality(live') \in Nat /\ Cardinality(Slots) \in Nat
      /\ Starting' => Cardinality(Late) \in Nat /\ Cardinality(Late') \in Nat
  BY <1>1, <1>2, FS_CardinalityType, QueueAssumption DEF CrowdInv
<1> QED
  BY <1>1, <1>2, <1>3 DEF CrowdInv

\* The graveyard and the jobs are left alone.
LEMMA LateKept ==
    ASSUME CrowdInv, live' \subseteq live, UNCHANGED queue, Resting' \subseteq Resting,
           wpc' = "create" => wpc = "create"
    PROVE  CrowdInv'
<1>1. UNCHANGED <<Job("create"), Job("destroy")>>
  BY DEF Job
<1>2. LateJobs' \subseteq LateJobs
  BY <1>1 DEF LateJobs
<1>3. Late' \subseteq Late
  BY <1>2 DEF Late
<1> QED
  BY <1>1, <1>3, CrowdKept DEF Starting, Waiting

\* A rested capture is queued behind the start, or stopped in line.
LEMMA LateExpire ==
    ASSUME IInv, CrowdInv, NEW s \in Slots, Expire(s), UNCHANGED wpc
    PROVE  CrowdInv'
<1> DEFINE c == grave[s].capture
<1>1. /\ c \in Captures /\ c \in Resting /\ Retire(c)
      /\ grave' = [grave EXCEPT ![s] = Empty] /\ queue \in Seq(Jobs)
  BY DEF Expire, Expired, IInv, TypeOK, GraveType, WorkerType, Resting
<1>2. Resting' \subseteq Resting
  BY <1>1 DEF IInv, TypeOK, GraveType, Resting, Empty
<1>3. CASE Full
  <2>1. UNCHANGED queue /\ live' \subseteq live
    BY <1>1, <1>3 DEF Retire
  <2> QED
    BY <1>2, <2>1, LateKept
<1>4. CASE ~Full
  <2>1. UNCHANGED live /\ queue' = Append(queue, Destroy(c)) /\ Destroy(c) \in Jobs
    BY <1>1, <1>4 DEF Retire, Jobs
  <2>2. /\ Len(queue') = Len(queue) + 1 /\ Len(queue) \in Nat
        /\ \A i \in 1..Len(queue) : queue'[i] = queue[i]
        /\ queue'[Len(queue) + 1] = Destroy(c)
    BY <1>1, <2>1
  <2>3. UNCHANGED Job("create")
    BY <1>1, RetireJobs
  <2>4. ASSUME NEW j \in LateJobs'
        PROVE  queue'[j].capture \in Late
    <3>1. j \in 1..Len(queue') /\ queue'[j].type = "destroy"
      BY DEF LateJobs, Job
    <3>2. CASE j = Len(queue) + 1
      BY <1>1, <2>2, <3>2 DEF Late, Destroy
    <3>3. CASE j # Len(queue) + 1
      <4>1. j \in 1..Len(queue) /\ queue'[j] = queue[j]
        BY <2>2, <3>1, <3>3
      <4>2. j \in Job("destroy")
        BY <3>1, <4>1 DEF Job
      <4>3. wpc = "create" \/ \E i \in Job("create") : i < j
        BY <2>3 DEF LateJobs
      <4>4. j \in LateJobs
        BY <4>2, <4>3 DEF LateJobs
      <4> QED
        BY <4>1, <4>4 DEF Late
    <3> QED
      BY <3>2, <3>3
  <2>5. Late' \subseteq Late
    BY <1>2, <2>4 DEF Late
  <2> QED
    BY <2>1, <2>3, <2>5, CrowdKept DEF Starting, Waiting
<1> QED
  BY <1>3, <1>4

\* The slots hold one capture each.
LEMMA RestingFits == IsFiniteSet(Resting) /\ Cardinality(Resting) <= Cardinality(Slots)
<1> DEFINE Held == {grave[s].capture : s \in Slots}
<1> DEFINE holds == [s \in Slots |-> grave[s].capture]
<1>0. holds \in Surjection(Slots, Held)
  BY DEF Surjection
<1>1. IsFiniteSet(Held) /\ Cardinality(Held) <= Cardinality(Slots)
  BY <1>0, FS_Surjection, QueueAssumption
<1>2. IsFiniteSet(Resting) /\ Cardinality(Resting) <= Cardinality(Held)
  BY <1>1, FS_Subset DEF Resting
<1> QED
  BY <1>1, <1>2, FS_CardinalityType, QueueAssumption

\* A start goes behind everything that is queued.
LEMMA CrowdPost ==
    ASSUME IInv, StartInv, CrowdInv, PostStart, Len(queue) < QueueSize
    PROVE  CrowdInv'
<1>1. /\ ~inflight /\ RequestCreate /\ ~Full /\ queue \in Seq(Jobs)
      /\ UNCHANGED <<live, grave, wpc>>
  BY DEF PostStart, MayPost, Full, IInv, TypeOK, WorkerType
<1>2. /\ Len(queue') = Len(queue) + 1 /\ Len(queue) \in Nat
      /\ Job("create")' = Job("create") \cup {Len(queue) + 1}
  BY <1>1, RequestJobs DEF RequestCreate
<1>3. Job("create") = {} /\ wpc # "create"
  BY <1>1 DEF StartInv, Waiting, Making
<1>4. \A j \in Job("destroy")' : ~(Len(queue) + 1 < j)
  BY <1>2 DEF Job
<1>5. LateJobs' = {}
  BY <1>1, <1>2, <1>3, <1>4 DEF LateJobs
<1>6. Late' = Resting'
  BY <1>5 DEF Late
<1>7. UNCHANGED Resting
  BY <1>1 DEF Resting
<1> QED
  BY <1>1, <1>6, <1>7, RestingFits DEF CrowdInv

\* The worker takes what is in front of the start, and then the start.
LEMMA CrowdTake ==
    ASSUME IInv, StartInv, CrowdInv, TakeJob
    PROVE  CrowdInv'
<1>1. /\ wpc = "loop" /\ queue \in Seq(Jobs) /\ queue # <<>> /\ queue' = Tail(queue)
      /\ wpc' = Head(queue).type /\ UNCHANGED <<live, grave>>
  BY DEF TakeJob, DpOnly, IInv, TypeOK, WorkerType
<1>2. /\ Len(queue) \in Nat \ {0} /\ Len(queue') = Len(queue) - 1
      /\ Head(queue) = queue[1]
      /\ \A i \in 1..Len(queue') : queue'[i] = queue[i + 1] /\ i + 1 \in 1..Len(queue)
  BY <1>1
<1>3. 1 \in Job("create") <=> wpc' = "create"
  BY <1>1, <1>2 DEF Job
<1>4. \A i \in Job("create")' : i + 1 \in Job("create")
  BY <1>2 DEF Job
<1>5. \A j \in Job("destroy")' : j + 1 \in Job("destroy")
  BY <1>2 DEF Job
<1>6. ASSUME NEW j \in LateJobs' PROVE queue'[j].capture \in Late
  <2>1. j \in Job("destroy")' /\ j \in 1..Len(queue') /\ j \in Nat /\ j > 0
    BY <1>2 DEF LateJobs, Job
  <2>2. PICK i \in Job("create") : i < j + 1
    <3>1. CASE wpc' = "create"
      BY <1>3, <2>1, <3>1
    <3>2. CASE wpc' # "create"
      <4>1. PICK i \in Job("create")' : i < j
        BY <3>2 DEF LateJobs
      <4>2. i \in Nat
        BY <1>2 DEF Job
      <4> QED
        BY <1>4, <2>1, <4>1, <4>2
    <3> QED
      BY <3>1, <3>2
  <2>3. j + 1 \in LateJobs
    BY <1>5, <2>1, <2>2 DEF LateJobs
  <2> QED
    BY <1>2, <2>1, <2>3 DEF Late
<1>7. Late' \subseteq Late
  BY <1>1, <1>6 DEF Late, Resting
<1>8. Starting' => Starting
  BY <1>3, <1>4 DEF Starting, Waiting
<1> QED
  BY <1>1, <1>7, <1>8, CrowdKept

\* What lives when the start begins is what waits behind it.
LEMMA CrowdCreate ==
    ASSUME IInv, StartInv, StartInv', CrowdInv, CreateSucceeds
    PROVE  CrowdInv'
<1>1. /\ wpc = "create" /\ wpc' = "publish" /\ live' = live \cup {Fresh} /\ UNCHANGED queue
  BY DEF CreateSucceeds
<1>2. capture = None /\ result.capture = None
  BY <1>1 DEF StartInv, Making, IInv, WorkerInv
<1>3. Shown = {} /\ Started = {} /\ InHand = {}
  BY <1>1, <1>2 DEF Shown, Started, InHand
<1>4. live = Resting \cup Queued
  BY <1>3, HolderParts DEF IInv, HolderSets
<1>5. ASSUME NEW c \in Queued PROVE c \in Late
  <2>1. PICK j \in 1..Len(queue) : queue[j].capture = c /\ c # None
    BY DEF Queued
  <2>2. queue[j] \in Jobs
    BY DEF IInv, TypeOK, WorkerType
  <2>3. j \in LateJobs
    BY <1>1, <2>1, <2>2, JobShape DEF LateJobs, Job
  <2> QED
    BY <2>1, <2>3 DEF Late
<1>6. live \subseteq Late
  BY <1>4, <1>5 DEF Late
<1>7. IsFiniteSet(Late) /\ Cardinality(Late) <= Cardinality(Slots)
  BY <1>1 DEF CrowdInv, Starting
<1>8. IsFiniteSet(live) /\ Cardinality(live) <= Cardinality(Late)
  BY <1>6, <1>7, FS_Subset
<1>9. /\ IsFiniteSet(live')
      /\ Cardinality(live') = IF Fresh \in live THEN Cardinality(live) ELSE Cardinality(live) + 1
  BY <1>1, <1>8, FS_AddElement
<1>10. /\ Cardinality(live) \in Nat /\ Cardinality(Late) \in Nat /\ Cardinality(Slots) \in Nat
  BY <1>7, <1>8, FS_CardinalityType, QueueAssumption
<1>11. Cardinality(live') <= Cardinality(Slots) + 1
  BY <1>7, <1>8, <1>9, <1>10
<1>12. ~Starting'
  BY <1>1 DEF StartInv, Making, Starting
<1> QED
  BY <1>9, <1>11, <1>12 DEF CrowdInv

\* Every step keeps the crowd small, as long as no start is dropped.
LEMMA CrowdStep ==
    IInv /\ StartInv /\ StartInv' /\ CrowdInv /\ Len(queue) < QueueSize /\ [Next]_vars
        => CrowdInv'
<1> SUFFICES ASSUME IInv, StartInv, StartInv', CrowdInv, Len(queue) < QueueSize, [Next]_vars
    PROVE  CrowdInv'
  OBVIOUS
<1>1. CASE ProcessAtlas \/ FrameMoves \/ Environment \/ UNCHANGED vars
  <2>1. UNCHANGED <<queue, live, wpc>>
    BY <1>1 DEF ProcessAtlas, FrameMoves, TakeUnlock, PostNone, SkipCompose, Sample,
       StopWorker, Joined, SetTransparentBackground, SetTransparencyActive, Environment, Lock,
       Unlock, LayoutChanges, RetryDue, WaitOver, StreamFails, FrameArrives, DesktopOnly,
       jobs, vars
  <2>2. UNCHANGED Resting
    <3>1. CASE ProcessAtlas
      <4>1. ASSUME NEW s \in Slots PROVE grave'[s].capture = grave[s].capture
        <5>1. CASE grave[s].capture = None
          BY <3>1, <5>1 DEF ProcessAtlas, Empty
        <5>2. CASE grave[s].capture # None
          <6>1. grave'[s] = [grave[s] EXCEPT !.left = grave[s].left - 1]
            BY <3>1, <5>2 DEF ProcessAtlas
          <6> QED
            BY <6>1 DEF IInv, TypeOK, GraveType
        <5> QED
          BY <5>1, <5>2
      <4> QED
        BY <4>1 DEF Resting
    <3>2. CASE ~ProcessAtlas
      <4>1. UNCHANGED grave
        BY <1>1, <3>2 DEF FrameMoves, TakeUnlock, PostNone, SkipCompose, Sample,
           StopWorker, Joined, SetTransparentBackground, SetTransparencyActive, Environment,
           Lock, Unlock, LayoutChanges, RetryDue, WaitOver, StreamFails, FrameArrives,
           DesktopOnly, vars
      <4> QED
        BY <4>1 DEF Resting
    <3> QED
      BY <3>1, <3>2
  <2> QED
    BY <2>1, <2>2, LateKept
<1>2. ASSUME NEW s \in Slots, Expire(s) PROVE CrowdInv'
  BY <1>2, LateExpire DEF Expire
<1>3. CASE NoticeLoss \/ GoIdle \/ Restart \/ DestroyDp \/ PollCreated
  <2>0. UNCHANGED wpc
    BY <1>3 DEF NoticeLoss, GoIdle, Restart, DestroyDp, PollCreated
  <2>1. CASE UNCHANGED <<queue, live, grave>>
    BY <2>0, <2>1, LateKept DEF Resting
  <2>2. CASE ~UNCHANGED <<queue, live, grave>>
    <3>1. CASE inflight'
      <4>1. DestroyDp /\ capture = None /\ UNCHANGED <<queue, live>>
        BY <1>3, <2>2, <3>1 DEF NoticeLoss, GoIdle, Restart, DestroyDp, PollCreated, Claim,
           KeepGrave, StartInv
      <4>2. ASSUME NEW s \in Slots PROVE grave'[s].capture = grave[s].capture
        BY <4>1 DEF DestroyDp, IInv, TypeOK, GraveType
      <4>3. UNCHANGED Resting
        BY <4>2 DEF Resting
      <4> QED
        BY <2>0, <4>1, <4>3, LateKept
    <3>2. CASE ~inflight'
      <4>1. ~Starting'
        BY <3>2 DEF StartInv, Starting, Making
      <4>2. live' \subseteq live
        BY <1>3 DEF NoticeLoss, GoIdle, Restart, DestroyDp, PollCreated, Claim, KeepGrave,
           Bury, Retire
      <4> QED
        BY <4>1, <4>2, CrowdKept
    <3> QED
      BY <3>1, <3>2
  <2> QED
    BY <2>1, <2>2
<1>4. CASE PostStart
  BY <1>4, CrowdPost
<1>5. CASE TakeJob
  BY <1>5, CrowdTake
<1>6. CASE CreateSucceeds
  BY <1>6, CrowdCreate
<1>7. CASE DestroyCapture \/ CreateFails \/ Publish \/ WatchService \/ Pumped \/ Quit
           \/ StopOrphan
  <2>1. UNCHANGED <<queue, grave>> /\ live' \subseteq live /\ wpc' # "create"
    BY <1>7 DEF DestroyCapture, CreateFails, Publish, WatchService, Service, Pumped, Quit,
       StopOrphan, DpOnly
  <2> QED
    BY <2>1, LateKept DEF Resting
<1> QED
  BY <1>1, <1>2, <1>3, <1>4, <1>5, <1>6, <1>7
     DEF Next, FrameThread, Calls, FrameMoves, WorkerThread

\* A set whose elements are told apart in T is no larger than T.
LEMMA DistinctFits ==
    ASSUME NEW S, NEW T, NEW f, IsFiniteSet(T), f \in [S -> T],
           \A i, j \in S : f[i] = f[j] => i = j
    PROVE  IsFiniteSet(S) /\ Cardinality(S) <= Cardinality(T)
<1>1. f \in Injection(S, T)
  BY DEF Injection, IsInjective
<1> QED
  BY <1>1, FS_Injection

\* A union is no larger than its parts together.
LEMMA UnionFits ==
    ASSUME NEW S, NEW T, IsFiniteSet(S), IsFiniteSet(T)
    PROVE  Cardinality(S \cup T) <= Cardinality(S) + Cardinality(T)
<1>1. Cardinality(S \cup T) = Cardinality(S) + Cardinality(T) - Cardinality(S \cap T)
  BY FS_Union
<1>2. IsFiniteSet(S \cap T)
  BY FS_Intersection
<1>3. Cardinality(S) \in Nat /\ Cardinality(T) \in Nat /\ Cardinality(S \cap T) \in Nat
  BY <1>2, FS_CardinalityType
<1> QED
  BY <1>1, <1>3

\* The stops in the queue are of different captures, and there is one start.
LEMMA QueueFits ==
    ASSUME IInv, StartInv, CrowdInv
    PROVE  Len(queue) < QueueSize
<1>1. queue \in Seq(Jobs) /\ Len(queue) \in Nat
  BY DEF IInv, TypeOK, WorkerType
<1>2. 1..Len(queue) = Job("create") \cup Job("destroy")
  BY <1>1, JobShape DEF Job
<1>3. IsFiniteSet(Job("create")) /\ Cardinality(Job("create")) <= 1
  <2>1. CASE Job("create") = {}
    BY <2>1, FS_EmptySet
  <2>2. CASE Job("create") # {}
    <3>1. PICK i : Job("create") = {i}
      BY <2>2 DEF StartInv
    <3>2. IsFiniteSet({i}) /\ Cardinality({i}) = 1
      BY FS_Singleton
    <3> QED
      BY <3>1, <3>2
  <2> QED
    BY <2>1, <2>2
<1>4. IsFiniteSet(Job("destroy")) /\ Cardinality(Job("destroy")) <= Cardinality(live)
  <2> DEFINE stops == [i \in Job("destroy") |-> queue[i].capture]
  <2>1. \A i \in Job("destroy") : queue[i].capture \in live
    <3>1. \A i \in Job("destroy") : queue[i].capture \in Queued
      BY <1>1, JobShape DEF Job, Queued
    <3> QED
      BY <3>1, HolderParts DEF IInv, HolderSets
  <2>2. stops \in [Job("destroy") -> live]
    BY <2>1
  <2>3. \A i, j \in Job("destroy") : stops[i] = stops[j] => i = j
    BY HolderParts DEF IInv, QueueDistinct
  <2>4. IsFiniteSet(live)
    BY DEF CrowdInv
  <2> QED
    <3> DEFINE D == Job("destroy")
    <3> HIDE DEF stops, D
    <3>1. stops \in [D -> live] /\ \A i, j \in D : stops[i] = stops[j] => i = j
      BY <2>2, <2>3 DEF D
    <3>2. IsFiniteSet(D) /\ Cardinality(D) <= Cardinality(live)
      BY <2>4, <3>1, DistinctFits
    <3> QED
      BY <3>2 DEF D
<1>5. Len(queue) = Cardinality(Job("create") \cup Job("destroy"))
  <2>1. Cardinality(1..Len(queue)) = Len(queue)
    <3>1. Cardinality(1..Len(queue)) = IF 1 > Len(queue) THEN 0 ELSE Len(queue) - 1 + 1
      BY <1>1, FS_Interval
    <3> QED
      BY <1>1, <3>1
  <2> QED
    BY <1>2, <2>1
<1>6. Len(queue) <= Cardinality(Job("create")) + Cardinality(Job("destroy"))
  BY <1>3, <1>4, <1>5, UnionFits
<1>7. /\ Cardinality(Job("create")) \in Nat /\ Cardinality(Job("destroy")) \in Nat
      /\ Cardinality(live) \in Nat /\ Cardinality(Slots) \in Nat
  BY <1>3, <1>4, FS_CardinalityType, QueueAssumption DEF CrowdInv
<1>8. Cardinality(live) <= Cardinality(Slots) + 1
  BY DEF CrowdInv
<1>9. Len(queue) <= Cardinality(Slots) + 2
  BY <1>1, <1>3, <1>4, <1>6, <1>7, <1>8
<1> QED
  BY <1>1, <1>7, <1>9, QueueAssumption, CaptureAssumption

\* Nothing lives at first.
LEMMA CrowdInit == Init => CrowdInv
<1> SUFFICES ASSUME Init PROVE CrowdInv
  OBVIOUS
<1>1. live = {} /\ Job("create") = {} /\ wpc = "loop"
  BY DEF Init, Job
<1>2. IsFiniteSet(live) /\ Cardinality(live) = 0 /\ Cardinality(Slots) \in Nat
  BY <1>1, FS_EmptySet, FS_CardinalityType, QueueAssumption
<1> QED
  BY <1>1, <1>2 DEF CrowdInv, Starting, Waiting

\* The invariant of the two threads with the start and the crowd: each needs the
\* others, since a dropped start would leave bg_create_inflight set for good.
JInv == IInv /\ StartInv /\ CrowdInv

\* The start needs a queue with room, the crowd needs one start.
LEMMA JStep == JInv /\ [Next]_vars => JInv'
<1> SUFFICES ASSUME JInv, [Next]_vars PROVE JInv'
  OBVIOUS
<1>1. Len(queue) < QueueSize
  BY QueueFits DEF JInv
<1>2. IInv' /\ StartInv'
  BY <1>1, StepInv, StartStep DEF JInv
<1> QED
  BY <1>1, <1>2, CrowdStep DEF JInv

\* Both hold in every state.
LEMMA JAlways == Spec => []JInv
<1>1. Init => JInv
  BY InitInv, StartInit, CrowdInit DEF JInv
<1> QED
  BY <1>1, JStep, PTL DEF Spec

\* leia_bg_capture_worker_linux.c's queue never fills: no start is dropped and no
\* stop is done on the frame thread because of it.
THEOREM QueueNeverFull == Spec => []~Full
<1>1. JInv => ~Full
  BY QueueFits DEF JInv, Full
<1> QED
  BY <1>1, JAlways, PTL

\* bg_create_inflight is the one start that is queued, running or unclaimed.
THEOREM OneStartInFlight == Spec => []InflightIsOneStart
<1>1. JInv => InflightIsOneStart
  BY StartCounted DEF JInv
<1> QED
  BY <1>1, JAlways, PTL

-----------------------------------------------------------------------------
(* The graveyard has room.                                                  *)

\* Where the frame thread is in dp_capture_reconcile before it has polled, and
\* where the display processor goes away.
Coming == at \in {"retire", "lost", "unlock", "poll"}
Ended  == Leaving \/ (at = "retire" /\ ~frame)

\* What a frame or a call begins with.  A capture is shown only while it is
\* wanted, except to the call that ends that.
CallInv ==
    /\ frame => calls = 0
    /\ at \in {"lost", "unlock", "poll", "settle"} /\ ~frame => calls > 0
    /\ at = "out" \/ frame => (capture # None => Wanted)
    /\ at \in {"lost", "unlock", "poll"} /\ ~frame => (capture # None => ~Wanted)
    /\ at = "poll" => inflight

\* What a frame or a call begins with is the frame thread's own.
LEMMA CallKept ==
    ASSUME CallInv, UNCHANGED <<frame, calls, capture, enabled, active, at, inflight>>
    PROVE  CallInv'
BY DEF CallInv, Wanted

\* No step of the frame thread breaks it.
LEMMA CallStep == JInv /\ CallInv /\ [Next]_vars => CallInv'
<1> SUFFICES ASSUME JInv, CallInv, [Next]_vars PROVE CallInv'
  OBVIOUS
<1> USE DEF CallInv, Wanted, wishes, start, place
<1>0. TypeOK /\ PlaceInv
  BY DEF JInv, IInv
<1>1. CASE Environment \/ WorkerThread \/ UNCHANGED vars
  <2>1. UNCHANGED <<frame, calls, capture, enabled, active, at, inflight>>
    BY <1>1, WorkerLeaves DEF Environment, Lock, Unlock, LayoutChanges, RetryDue, WaitOver,
       StreamFails, FrameArrives, DesktopOnly, vars
  <2> QED
    BY <2>1, CallKept
<1>2. CASE ProcessAtlas
  BY <1>0, <1>2 DEF ProcessAtlas, AfterAge
<1>3. ASSUME NEW s \in Slots, Expire(s) PROVE CallInv'
  <2>1. /\ at = "retire" /\ UNCHANGED <<frame, calls, capture, enabled, active, inflight>>
        /\ at' \in {"retire", "lost", "stop"} /\ (at' = "lost" => frame)
    BY <1>3 DEF Expire, AfterAge
  <2> QED
    BY <2>1
<1>4. CASE NoticeLoss
  <2>1. /\ at = "lost" /\ UNCHANGED <<frame, calls, enabled, active, inflight>>
        /\ capture' \in {capture, None}
        /\ at' \in {"unlock", "poll", "settle"} /\ (at' = "poll" => inflight)
    BY <1>4 DEF NoticeLoss, AfterUnlock
  <2> QED
    BY <2>1
<1>5. CASE TakeUnlock
  <2>1. /\ at = "unlock" /\ UNCHANGED <<frame, calls, enabled, active, inflight, capture>>
        /\ at' \in {"poll", "settle"} /\ (at' = "poll" => inflight)
    BY <1>5 DEF TakeUnlock, AfterUnlock
  <2> QED
    BY <2>1
<1>6. CASE PollCreated
  <2>1. /\ at = "poll" /\ at' = "settle" /\ UNCHANGED <<frame, calls, enabled, active>>
        /\ capture' = capture \/ Wanted
    BY <1>6 DEF PollCreated, Claim
  <2> QED
    BY <2>1
<1>7. CASE GoIdle \/ PostStart \/ PostNone
  <2>1. /\ at = "settle" /\ UNCHANGED <<frame, calls, enabled, active>> /\ at' \in {"compose", "out"}
        /\ at' = "compose" <=> frame
    BY <1>7 DEF GoIdle, PostStart, PostNone, Return
  <2>2. capture' = None \/ (capture' = capture /\ Wanted)
    BY <1>7 DEF GoIdle, PostStart, PostNone
  <2> QED
    BY <2>1, <2>2
<1>8. CASE SkipCompose \/ Restart \/ Sample
  <2>1. /\ at = "compose" /\ UNCHANGED <<calls, enabled, active>> /\ at' = "out" /\ ~frame'
        /\ capture' \in {capture, None}
    BY <1>8 DEF SkipCompose, Restart, Sample, LeaveFrame
  <2> QED
    BY <1>0, <2>1 DEF PlaceInv
<1>9. CASE StopWorker \/ Joined \/ DestroyDp
  <2>1. /\ at \in {"stop", "join", "out"} /\ UNCHANGED <<frame, calls, enabled, active, inflight>>
        /\ at' \in {"end", "join", "retire", "stop"} /\ capture' \in {capture, None}
    BY <1>9 DEF StopWorker, Joined, DestroyDp, AfterAge
  <2> QED
    BY <2>1
<1>10. ASSUME NEW b \in BOOLEAN, SetTransparentBackground(b) \/ SetTransparencyActive(b)
       PROVE  CallInv'
  <2>1. /\ at = "out" /\ at' = "lost" /\ calls' = calls + 1 /\ calls \in Nat
        /\ UNCHANGED <<frame, capture, inflight>>
    BY <1>0, <1>10 DEF SetTransparentBackground, SetTransparencyActive, Setter, TypeOK, FrameType
  <2>2. Wanted => ~Wanted'
    BY <1>0, <1>10 DEF SetTransparentBackground, SetTransparencyActive, TypeOK, FrameType
  <2> QED
    BY <1>0, <2>1, <2>2 DEF PlaceInv
<1> QED
  BY <1>1, <1>2, <1>3, <1>4, <1>5, <1>6, <1>7, <1>8, <1>9, <1>10
     DEF Next, FrameThread, Calls

-----------------------------------------------------------------------------
(* The balance of captures buried against frames and calls.                 *)

\* Twice the captures that may be buried between two frames: a burial and the
\* start and claim that make up for it take a frame, or two calls.
Pace == IF MaxCalls > 2 THEN MaxCalls ELSE 2

\* What may be buried before the next frame, doubled, and how far the frame
\* thread is from it.
Credit ==
    IF ~Wanted THEN (IF capture = None /\ ~inflight THEN 3 ELSE 1) + calls
    ELSE IF inflight THEN IF frame \/ at = "out" THEN 2 + calls ELSE calls
    ELSE IF capture # None
         THEN IF frame /\ Coming THEN 0 ELSE IF calls = 0 THEN 2 ELSE calls
    ELSE IF calls = 0 /\ at \in {"out", "compose"} THEN 4 ELSE 2 + calls

\* The slots that stay taken for h frames more.
Occupied(h) == {s \in Slots : grave[s].capture # None /\ grave[s].left >= h}

Room(h) == (Grace - h) * Pace

PaceInv == ~Ended => \A h \in 0..Grace : 2 * Cardinality(Occupied(h)) <= Room(h) + Credit

\* The pace is at least 2 and covers the setter calls of a frame.
LEMMA PaceType == Pace \in Nat /\ Pace >= 2 /\ MaxCalls \in Nat /\ MaxCalls <= Pace
BY CaptureAssumption DEF Pace

\* Each frame of rest takes one pace off the room.
LEMMA RoomShrinks ==
    /\ \A h \in 0..Grace : Room(h) \in Nat
    /\ \A h \in 0..Grace : h # Grace => h + 1 \in 0..Grace /\ Room(h) = Room(h + 1) + Pace
    /\ Room(Grace) = 0 /\ Room(0) = Grace * Pace /\ Room(1) = Grace * Pace - Pace
<1>1. Grace \in Nat /\ Pace \in Nat
  BY PaceType, CaptureAssumption
<1>2. ASSUME NEW h \in 0..Grace PROVE Room(h) \in Nat
  <2>1. Grace - h \in Nat
    BY <1>1
  <2> QED
    BY <1>1, <2>1 DEF Room
<1>3. ASSUME NEW h \in 0..Grace, h # Grace
      PROVE  h + 1 \in 0..Grace /\ Room(h) = Room(h + 1) + Pace
  <2>1. Grace - h \in Nat /\ Grace - (h + 1) \in Nat /\ Grace - h = (Grace - (h + 1)) + 1
        /\ h + 1 \in 0..Grace
    BY <1>1, <1>3
  <2> DEFINE n == Grace - (h + 1)
  <2>2. \A m, p \in Nat : (m + 1) * p = m * p + p
    OBVIOUS
  <2>3. (n + 1) * Pace = n * Pace + Pace
    BY <1>1, <2>1, <2>2
  <2> QED
    BY <2>1, <2>3 DEF Room
<1>4. Room(Grace) = 0 /\ Room(0) = Grace * Pace
  BY <1>1 DEF Room
<1>5. Room(1) = Grace * Pace - Pace
  <2>1. 0 # Grace /\ 0 \in 0..Grace
    BY CaptureAssumption
  <2>2. Room(0) = Room(1) + Pace
    BY <1>3, <2>1
  <2>3. Room(1) \in Nat
    BY <1>2, CaptureAssumption
  <2> QED
    BY <1>1, <1>4, <2>2, <2>3
<1> QED
  BY <1>2, <1>3, <1>4, <1>5

\* The arithmetic of a frame.
LEMMA FramePays ==
    ASSUME NEW a \in Nat, NEW b \in Nat, NEW r \in Nat, NEW s \in Nat, NEW c \in Nat,
           NEW d \in Nat, NEW p \in Nat, a <= b, 2 * b <= s + c, r = s + p, c <= d + p
    PROVE  2 * a <= r + d
OBVIOUS

\* The balance is a natural number, before and after a step.
LEMMA CreditType == (TypeOK => Credit \in Nat) /\ (TypeOK' => Credit' \in Nat)
<1>1. TypeOK => Credit \in Nat
  BY CaptureAssumption DEF TypeOK, FrameType, Credit
<1>2. TypeOK' => Credit' \in Nat
  <2>1. TypeOK' => calls' \in Nat
    BY CaptureAssumption DEF TypeOK, FrameType
  <2> QED
    BY <2>1 DEF Credit
<1> QED
  BY <1>1, <1>2

\* The taken slots can be counted, before and after a step.
LEMMA OccupiedFits ==
    /\ \A h \in 0..Grace : IsFiniteSet(Occupied(h)) /\ Cardinality(Occupied(h)) \in Nat
    /\ \A h \in 0..Grace : IsFiniteSet(Occupied(h)') /\ Cardinality(Occupied(h)') \in Nat
<1>1. ASSUME NEW h \in 0..Grace
      PROVE  IsFiniteSet(Occupied(h)) /\ Cardinality(Occupied(h)) \in Nat
  <2>1. Occupied(h) \subseteq Slots
    BY DEF Occupied
  <2> QED
    BY <2>1, FS_Subset, FS_CardinalityType, QueueAssumption
<1>2. ASSUME NEW h \in 0..Grace
      PROVE  IsFiniteSet(Occupied(h)') /\ Cardinality(Occupied(h)') \in Nat
  <2>1. Occupied(h)' \subseteq Slots
    BY DEF Occupied
  <2> QED
    BY <2>1, FS_Subset, FS_CardinalityType, QueueAssumption
<1> QED
  BY <1>1, <1>2

\* Nothing is buried, and the balance does not fall.
LEMMA PaceKept ==
    ASSUME TypeOK, TypeOK', PaceInv, Ended => Ended', ~Ended' => Credit <= Credit',
           \A h \in 0..Grace : Occupied(h)' \subseteq Occupied(h)
    PROVE  PaceInv'
<1> SUFFICES ASSUME ~Ended', NEW h \in 0..Grace
    PROVE  2 * Cardinality(Occupied(h)') <= Room(h) + Credit'
  BY DEF PaceInv, Room, Pace
<1>1. 2 * Cardinality(Occupied(h)) <= Room(h) + Credit
  BY DEF PaceInv
<1>2. Cardinality(Occupied(h)') <= Cardinality(Occupied(h))
  BY OccupiedFits, FS_Subset
<1>3. Cardinality(Occupied(h)') \in Nat /\ Cardinality(Occupied(h)) \in Nat
  BY OccupiedFits
<1>4. Credit \in Nat /\ Credit' \in Nat /\ Room(h) \in Nat
  BY CreditType, RoomShrinks
<1>5. Credit <= Credit'
  OBVIOUS
<1> QED
  BY <1>1, <1>2, <1>3, <1>4, <1>5

\* The graveyard is left alone, and the balance does not fall.
LEMMA PaceSame ==
    ASSUME TypeOK, TypeOK', PaceInv, UNCHANGED grave, Ended => Ended',
           ~Ended' => Credit <= Credit'
    PROVE  PaceInv'
<1>1. \A h \in 0..Grace : Occupied(h)' \subseteq Occupied(h)
  BY DEF Occupied
<1> QED
  BY <1>1, PaceKept

\* One capture is buried, and paid for.
LEMMA PaceBury ==
    ASSUME TypeOK, TypeOK', PaceInv, ~Ended, NEW c \in Captures, Bury(c),
           Credit + 2 <= Credit'
    PROVE  PaceInv'
<1> SUFFICES ASSUME NEW h \in 0..Grace
    PROVE  2 * Cardinality(Occupied(h)') <= Room(h) + Credit'
  BY DEF PaceInv, Room, Pace
<1>1. 2 * Cardinality(Occupied(h)) <= Room(h) + Credit
  BY DEF PaceInv
<1>2. Cardinality(Occupied(h)') <= Cardinality(Occupied(h)) + 1
  <2>1. CASE UNCHANGED grave
    <3>1. Occupied(h)' = Occupied(h)
      BY <2>1 DEF Occupied
    <3> QED
      BY <3>1, OccupiedFits
  <2>2. CASE ~UNCHANGED grave
    <3>1. PICK s \in Slots : grave' = [grave EXCEPT ![s] = [capture |-> c, left |-> Grace]]
      BY <2>2 DEF Bury
    <3>2. \A t \in Slots \ {s} : grave'[t] = grave[t]
      BY <3>1 DEF TypeOK, GraveType
    <3>3. Occupied(h)' \subseteq Occupied(h) \cup {s}
      BY <3>2 DEF Occupied
    <3>4. /\ IsFiniteSet(Occupied(h) \cup {s})
          /\ Cardinality(Occupied(h) \cup {s}) <= Cardinality(Occupied(h)) + 1
      <4>1. IsFiniteSet(Occupied(h)) /\ Cardinality(Occupied(h)) \in Nat
        BY OccupiedFits
      <4>2. /\ IsFiniteSet(Occupied(h) \cup {s})
            /\ Cardinality(Occupied(h) \cup {s})
                 = IF s \in Occupied(h) THEN Cardinality(Occupied(h))
                   ELSE Cardinality(Occupied(h)) + 1
        BY <4>1, FS_AddElement
      <4> QED
        BY <4>1, <4>2
    <3>5. Cardinality(Occupied(h)') <= Cardinality(Occupied(h) \cup {s})
      BY <3>3, <3>4, FS_Subset
    <3> QED
      BY <3>4, <3>5, OccupiedFits, FS_CardinalityType
  <2> QED
    BY <2>1, <2>2
<1>3. Cardinality(Occupied(h)') \in Nat /\ Cardinality(Occupied(h)) \in Nat
  BY OccupiedFits
<1>4. Credit \in Nat /\ Credit' \in Nat /\ Room(h) \in Nat
  BY CreditType, RoomShrinks
<1>5. Credit + 2 <= Credit'
  OBVIOUS
<1> QED
  BY <1>1, <1>2, <1>3, <1>4, <1>5

\* A frame pays its pace, and everything has one frame less to rest.
LEMMA PaceFrame ==
    ASSUME IInv, TypeOK', CallInv, PaceInv, ProcessAtlas
    PROVE  PaceInv'
<1>1. /\ at = "out" /\ frame' = TRUE /\ calls' = 0 /\ at' \in {"lost", "retire"}
      /\ UNCHANGED <<capture, enabled, active, inflight>>
  BY DEF ProcessAtlas, AfterAge, start
<1>2. ~Ended /\ ~frame /\ calls \in Nat /\ calls <= MaxCalls
  BY <1>1 DEF Ended, Leaving, IInv, PlaceInv, TypeOK, FrameType
<1>3. Credit <= Credit' + Pace
  <2>1. CASE ~Wanted
    <3>1. ~Wanted'
      BY <1>1, <2>1 DEF Wanted
    <3>2. Credit = (IF capture = None /\ ~inflight THEN 3 ELSE 1) + calls
      BY <2>1 DEF Credit
    <3>3. Credit' = (IF capture = None /\ ~inflight THEN 3 ELSE 1) + 0
      <4>1. capture' = capture /\ inflight' = inflight /\ calls' = 0
        BY <1>1
      <4>2. Credit' = (IF capture' = None /\ ~inflight' THEN 3 ELSE 1) + calls'
        BY <3>1 DEF Credit
      <4> QED
        BY <4>1, <4>2
    <3> QED
      BY <1>2, <3>2, <3>3, PaceType
  <2>2. CASE Wanted
    <3>1. Wanted' /\ Coming'
      BY <1>1, <2>2 DEF Wanted, Coming
    <3>2. Credit = IF inflight THEN 2 + calls
                   ELSE IF capture # None THEN IF calls = 0 THEN 2 ELSE calls
                   ELSE IF calls = 0 THEN 4 ELSE 2 + calls
      BY <1>1, <1>2, <2>2 DEF Credit
    <3>3. Credit' = IF inflight THEN 2 ELSE IF capture # None THEN 0 ELSE 2
      <4>1. CASE inflight
        <5>1. inflight' /\ frame' = TRUE /\ calls' = 0
          BY <1>1, <4>1
        <5> QED
          BY <3>1, <4>1, <5>1 DEF Credit
      <4>2. CASE ~inflight
        BY <1>1, <3>1, <4>2 DEF Credit
      <4> QED
        BY <4>1, <4>2
    <3> QED
      BY <1>2, <3>2, <3>3, PaceType
  <2> QED
    BY <2>1, <2>2
<1>4. ASSUME NEW s \in Slots
      PROVE  /\ grave'[s].capture = grave[s].capture
             /\ grave[s].capture # None =>
                   grave[s].left \in 0..Grace /\ grave'[s].left = grave[s].left - 1
  <2>1. CASE grave[s].capture = None
    BY <2>1 DEF ProcessAtlas, Empty
  <2>2. CASE grave[s].capture # None
    <3>1. grave'[s] = [grave[s] EXCEPT !.left = grave[s].left - 1]
      BY <2>2 DEF ProcessAtlas
    <3> QED
      BY <3>1 DEF IInv, TypeOK, GraveType
  <2> QED
    BY <2>1, <2>2
<1> SUFFICES ASSUME NEW h \in 0..Grace
    PROVE  2 * Cardinality(Occupied(h)') <= Room(h) + Credit'
  BY DEF PaceInv, Room, Pace
<1>5. Credit \in Nat /\ Credit' \in Nat /\ Pace \in Nat
  BY CreditType, PaceType DEF IInv
<1>6. CASE h = Grace
  <2>1. ASSUME NEW s \in Slots, grave'[s].capture # None
        PROVE  ~(grave'[s].left >= h)
    <3>1. grave[s].left \in 0..Grace /\ grave'[s].left = grave[s].left - 1
      BY <1>4, <2>1
    <3> QED
      BY <1>6, <3>1, CaptureAssumption
  <2>3. Occupied(h)' = {}
    BY <2>1 DEF Occupied
  <2>2. Cardinality(Occupied(h)') = 0
    BY <2>3, FS_EmptySet
  <2>4. Room(h) \in Nat
    BY RoomShrinks
  <2> QED
    BY <1>5, <2>2, <2>4
<1>7. CASE h # Grace
  <2>0. ASSUME NEW s \in Slots, grave'[s].capture # None, grave'[s].left >= h
        PROVE  s \in Occupied(h + 1)
    <3>1. /\ grave[s].left \in 0..Grace /\ grave'[s].left = grave[s].left - 1
          /\ grave[s].capture # None
      BY <1>4, <2>0
    <3>2. grave[s].left >= h + 1
      BY <2>0, <3>1, CaptureAssumption
    <3> QED
      BY <3>1, <3>2 DEF Occupied
  <2>1. Occupied(h)' \subseteq Occupied(h + 1)
    BY <2>0 DEF Occupied
  <2>2. h + 1 \in 0..Grace /\ Room(h) = Room(h + 1) + Pace
    BY <1>7, RoomShrinks
  <2>3. Cardinality(Occupied(h)') <= Cardinality(Occupied(h + 1))
    BY <2>1, <2>2, OccupiedFits, FS_Subset
  <2>4. 2 * Cardinality(Occupied(h + 1)) <= Room(h + 1) + Credit
    BY <1>2, <2>2 DEF PaceInv
  <2>5. /\ Cardinality(Occupied(h)') \in Nat /\ Cardinality(Occupied(h + 1)) \in Nat
        /\ Room(h) \in Nat /\ Room(h + 1) \in Nat
    BY <2>2, OccupiedFits, RoomShrinks
  <2> QED
    BY <1>3, <1>5, <2>2, <2>3, <2>4, <2>5, FramePays
<1> QED
  BY <1>6, <1>7

\* What a step of the frame thread does to the balance, place by place.
LEMMA PaceFrameMoves ==
    ASSUME JInv, JInv', CallInv, PaceInv, FrameMoves
    PROVE  PaceInv'
<1> USE DEF Credit, Wanted, Coming, Ended, Leaving, wishes, start, place
<1>0. TypeOK /\ TypeOK' /\ PlaceInv /\ calls \in Nat
  BY DEF JInv, IInv, TypeOK, FrameType
<1>1. CASE TakeUnlock
  <2>1. /\ at = "unlock" /\ at' \in {"poll", "settle"}
        /\ UNCHANGED <<frame, calls, enabled, active, inflight, capture, grave>>
    BY <1>1 DEF TakeUnlock, AfterUnlock
  <2>2. Credit <= Credit'
    BY <1>0, <2>1 DEF CallInv
  <2> QED
    BY <1>0, <2>1, <2>2, PaceSame
<1>2. CASE PostNone
  <2>1. /\ at = "settle" /\ at' = IF frame THEN "compose" ELSE "out"
        /\ UNCHANGED <<frame, calls, enabled, active, inflight, capture, grave>>
    BY <1>2 DEF PostNone, Return
  <2>2. Credit <= Credit'
    BY <1>0, <2>1 DEF CallInv
  <2> QED
    BY <1>0, <2>1, <2>2, PaceSame
<1>3. CASE SkipCompose \/ Sample
  <2>1. /\ at = "compose" /\ at' = "out" /\ frame' = FALSE
        /\ UNCHANGED <<calls, enabled, active, inflight, capture, grave>>
    BY <1>3 DEF SkipCompose, Sample, LeaveFrame
  <2>2. frame
    BY <1>0, <2>1 DEF PlaceInv
  <2>3. Credit <= Credit'
    BY <1>0, <2>1, <2>2
  <2> QED
    BY <1>0, <2>1, <2>3, PaceSame
<1>4. CASE StopWorker \/ Joined
  <2>1. Ended' /\ UNCHANGED grave
    BY <1>4 DEF StopWorker, Joined
  <2> QED
    BY <1>0, <2>1, PaceSame
<1>5. ASSUME NEW b \in BOOLEAN, SetTransparentBackground(b) \/ SetTransparencyActive(b)
      PROVE  PaceInv'
  <2>1. /\ at = "out" /\ ~frame /\ at' = "lost" /\ calls' = calls + 1
        /\ UNCHANGED <<frame, capture, inflight, grave>>
    BY <1>0, <1>5 DEF SetTransparentBackground, SetTransparencyActive, Setter, PlaceInv
  <2>2. Wanted => ~Wanted'
    BY <1>0, <1>5 DEF SetTransparentBackground, SetTransparencyActive, TypeOK, FrameType
  <2>3. Credit <= Credit'
    BY <1>0, <2>1, <2>2 DEF CallInv
  <2> QED
    BY <1>0, <2>1, <2>3, PaceSame
<1> QED
  BY <1>1, <1>2, <1>3, <1>4, <1>5 DEF FrameMoves

\* A lost capture is buried by a frame, which starts from a balance of 0.
LEMMA PaceLoss ==
    ASSUME JInv, JInv', CallInv, PaceInv, NoticeLoss
    PROVE  PaceInv'
<1> USE DEF Credit, Wanted, Coming, Ended, Leaving
<1>0. TypeOK /\ TypeOK' /\ calls \in Nat
  BY DEF JInv, IInv, TypeOK, FrameType
<1>1. /\ at = "lost" /\ at' \in {"unlock", "poll", "settle"} /\ ~Ended
      /\ UNCHANGED <<frame, calls, enabled, active, inflight>>
  BY DEF NoticeLoss, AfterUnlock, wishes
<1>2. CASE capture' # capture
  <2>1. Wanted /\ capture # None /\ capture' = None /\ Bury(capture)
    BY <1>2 DEF NoticeLoss
  <2>2. frame /\ ~inflight /\ calls = 0
    BY <1>1, <2>1 DEF CallInv, JInv, StartInv
  <2>3. Credit + 2 <= Credit'
    BY <1>1, <2>1, <2>2
  <2>4. capture \in Captures
    BY <1>0, <2>1 DEF TypeOK, FrameType
  <2> QED
    BY <1>0, <1>1, <2>1, <2>3, <2>4, PaceBury
<1>3. CASE capture' = capture
  <2>1. UNCHANGED grave
    BY <1>0, <1>3 DEF NoticeLoss, KeepGrave
  <2>2. Credit <= Credit'
    BY <1>0, <1>1, <1>3 DEF CallInv
  <2> QED
    BY <1>0, <1>1, <2>1, <2>2, PaceSame
<1> QED
  BY <1>2, <1>3

\* A claim buries only what nobody wants, in place of the start in flight.
LEMMA PacePoll ==
    ASSUME JInv, JInv', CallInv, PaceInv, PollCreated
    PROVE  PaceInv'
<1> USE DEF Credit, Wanted, Coming, Ended, Leaving
<1>0. TypeOK /\ TypeOK' /\ calls \in Nat
  BY DEF JInv, IInv, TypeOK, FrameType
<1>1. /\ at = "poll" /\ at' = "settle" /\ ~Ended /\ inflight /\ capture = None
      /\ UNCHANGED <<frame, calls, enabled, active>>
  BY DEF PollCreated, wishes, CallInv, JInv, StartInv
<1>2. CASE ~result.done
  <2>1. UNCHANGED <<inflight, capture, grave>>
    BY <1>2 DEF PollCreated, KeepGrave
  <2>2. Credit <= Credit'
    BY <1>0, <1>1, <2>1
  <2> QED
    BY <1>0, <1>1, <2>1, <2>2, PaceSame
<1>3. CASE result.done
  <2>1. ~inflight' /\ Claim
    BY <1>3 DEF PollCreated, Claim
  <2>2. CASE result.capture = None
    <3>1. UNCHANGED <<capture, grave>>
      BY <2>1, <2>2 DEF Claim, KeepGrave
    <3>2. Credit <= Credit'
      BY <1>0, <1>1, <2>1, <3>1
    <3> QED
      BY <1>0, <1>1, <3>1, <3>2, PaceSame
  <2>3. CASE result.capture # None /\ Wanted
    <3>1. capture' = result.capture /\ UNCHANGED grave
      BY <1>1, <2>1, <2>3 DEF Claim, KeepGrave
    <3>2. Credit <= Credit'
      BY <1>0, <1>1, <2>1, <2>3, <3>1 DEF CallInv
    <3> QED
      BY <1>0, <1>1, <3>1, <3>2, PaceSame
  <2>4. CASE result.capture # None /\ ~Wanted
    <3>1. Bury(result.capture) /\ UNCHANGED capture /\ result.capture \in Captures
      BY <1>0, <2>1, <2>4 DEF Claim, TypeOK, WorkerType
    <3>2. Credit + 2 <= Credit'
      BY <1>0, <1>1, <2>1, <2>4, <3>1
    <3> QED
      BY <1>0, <1>1, <3>1, <3>2, PaceBury
  <2> QED
    BY <2>2, <2>3, <2>4
<1> QED
  BY <1>2, <1>3

\* A capture nobody wants is buried, in place of the capture shown.
LEMMA PaceIdle ==
    ASSUME JInv, JInv', CallInv, PaceInv, GoIdle
    PROVE  PaceInv'
<1> USE DEF Credit, Wanted, Coming, Ended, Leaving
<1>0. TypeOK /\ TypeOK' /\ calls \in Nat
  BY DEF JInv, IInv, TypeOK, FrameType
<1>1. /\ at = "settle" /\ ~Wanted /\ ~Ended /\ capture' = None
      /\ UNCHANGED <<frame, calls, enabled, active, inflight>>
  BY DEF GoIdle, wishes
<1>2. CASE capture = None
  <2>1. UNCHANGED grave
    BY <1>2 DEF GoIdle, KeepGrave
  <2>2. Credit <= Credit'
    BY <1>0, <1>1, <1>2
  <2> QED
    BY <1>0, <1>1, <2>1, <2>2, PaceSame
<1>3. CASE capture # None
  <2>1. Bury(capture) /\ capture \in Captures /\ ~inflight
    BY <1>0, <1>3 DEF GoIdle, TypeOK, FrameType, JInv, StartInv
  <2>2. Credit + 2 <= Credit'
    BY <1>0, <1>1, <1>3, <2>1
  <2> QED
    BY <1>0, <1>1, <2>1, <2>2, PaceBury
<1> QED
  BY <1>2, <1>3

\* A start takes the place of the capture that is not there.
LEMMA PaceStart ==
    ASSUME JInv, JInv', CallInv, PaceInv, PostStart
    PROVE  PaceInv'
<1> USE DEF Credit, Wanted, Coming, Ended, Leaving
<1>0. TypeOK /\ TypeOK' /\ calls \in Nat
  BY DEF JInv, IInv, TypeOK, FrameType
<1>1. /\ at = "settle" /\ Wanted /\ ~Ended /\ capture = None /\ ~inflight /\ inflight'
      /\ at' = IF frame THEN "compose" ELSE "out"
      /\ UNCHANGED <<frame, calls, enabled, active, capture, grave>>
  BY DEF PostStart, MayPost, Return
<1>2. Credit = 2 + calls
  BY <1>1
<1>3. Credit' = 2 + calls
  <2>1. Wanted' /\ inflight' /\ (frame' \/ at' = "out") /\ calls' = calls
    BY <1>1
  <2> QED
    BY <2>1
<1> QED
  BY <1>0, <1>1, <1>2, <1>3, PaceSame

\* A restart buries at the end of a frame that has buried nothing else.
LEMMA PaceRestart ==
    ASSUME JInv, JInv', CallInv, PaceInv, Restart
    PROVE  PaceInv'
<1> USE DEF Credit, Wanted, Coming, Ended, Leaving
<1>0. TypeOK /\ TypeOK'
  BY DEF JInv, IInv
<1>1. /\ at = "compose" /\ at' = "out" /\ Wanted /\ ~Ended /\ capture # None /\ capture' = None
      /\ Bury(capture) /\ UNCHANGED <<calls, enabled, active, inflight>>
  BY DEF Restart, LeaveFrame, wishes
<1>2. frame /\ calls = 0 /\ ~inflight /\ capture \in Captures
  BY <1>0, <1>1 DEF JInv, IInv, PlaceInv, CallInv, StartInv, TypeOK, FrameType
<1>3. Credit = 2
  BY <1>1, <1>2
<1>4. Credit' = 4
  <2>1. Wanted' /\ ~inflight' /\ capture' = None /\ calls' = 0 /\ at' = "out"
    BY <1>1, <1>2
  <2> QED
    BY <2>1
<1> QED
  BY <1>0, <1>1, <1>2, <1>3, <1>4, PaceBury

\* Every step keeps the balance.
LEMMA PaceStep == JInv /\ JInv' /\ CallInv /\ PaceInv /\ [Next]_vars => PaceInv'
<1> SUFFICES ASSUME JInv, JInv', CallInv, PaceInv, [Next]_vars PROVE PaceInv'
  OBVIOUS
<1>0. TypeOK /\ TypeOK' /\ PlaceInv /\ IInv
  BY DEF JInv, IInv
<1>1. CASE Environment \/ WorkerThread \/ UNCHANGED vars
  <2>1. UNCHANGED <<frame, calls, capture, enabled, active, at, inflight, grave>>
    BY <1>1, WorkerLeaves DEF Environment, Lock, Unlock, LayoutChanges, RetryDue, WaitOver,
       StreamFails, FrameArrives, DesktopOnly, vars, wishes, start, place
  <2>2. Credit' = Credit /\ (Ended => Ended')
    BY <2>1 DEF Credit, Wanted, Coming, Ended, Leaving
  <2>3. Credit <= Credit'
    BY <1>0, <2>2, CreditType
  <2> QED
    BY <1>0, <2>1, <2>2, <2>3, PaceSame
<1>2. CASE ProcessAtlas
  BY <1>0, <1>2, PaceFrame
<1>3. ASSUME NEW s \in Slots, Expire(s) PROVE PaceInv'
  <2>1. /\ at = "retire" /\ UNCHANGED <<frame, calls, capture, enabled, active, inflight>>
        /\ grave' = [grave EXCEPT ![s] = Empty]
        /\ at' \in {"retire", IF frame THEN "lost" ELSE "stop"}
    BY <1>3 DEF Expire, AfterAge, wishes, start
  <2>2. \A t \in Slots : grave'[t] = grave[t] \/ grave'[t].capture = None
    BY <1>0, <2>1 DEF TypeOK, GraveType, Empty
  <2>3. \A h \in 0..Grace : Occupied(h)' \subseteq Occupied(h)
    BY <2>2 DEF Occupied
  <2>4. Ended => Ended'
    BY <2>1 DEF Ended, Leaving
  <2>5. ~Ended' => Credit <= Credit'
    <3>1. CASE ~frame
      BY <2>1, <3>1 DEF Ended, Leaving
    <3>2. CASE frame
      <4>1. Credit' = Credit
        BY <2>1, <3>2 DEF Credit, Wanted, Coming
      <4> QED
        BY <1>0, <4>1, CreditType
    <3> QED
      BY <3>1, <3>2
  <2> QED
    BY <1>0, <2>3, <2>4, <2>5, PaceKept
<1>4. CASE DestroyDp
  <2>1. Ended' /\ at = "out" /\ ~frame'
    BY <1>0, <1>4 DEF DestroyDp, AfterAge, Ended, Leaving, PlaceInv, place
  <2> QED
    BY <2>1 DEF PaceInv
<1> QED
  BY <1>1, <1>2, <1>3, <1>4, PaceLoss, PacePoll, PaceIdle, PaceStart, PaceRestart,
     PaceFrameMoves DEF Next, FrameThread, Calls, FrameMoves

-----------------------------------------------------------------------------
(* Neither path is taken.                                                   *)

\* The setters are rare enough for the graveyard: half of what is buried in the
\* Grace frames, and one half more, is less than the slots.  With the code's 3
\* frames and 4 slots: up to two setter calls between two frames.
SettersAreRare == Grace * Pace + 1 < 2 * Cardinality(Slots)

\* Where a capture is about to be buried there is a free slot.
LEMMA SlotFree ==
    ASSUME SettersAreRare, JInv, CallInv, PaceInv,
           capture # None \/ (at = "poll" /\ Started # {})
    PROVE  \E s \in Slots : grave[s].capture = None
<1> SUFFICES ASSUME \A s \in Slots : grave[s].capture # None PROVE FALSE
  OBVIOUS
<1>0. /\ TypeOK /\ GraveInv /\ PlaceInv /\ calls \in Nat /\ calls <= MaxCalls
      /\ inflight => capture = None
  BY DEF JInv, IInv, StartInv, TypeOK, FrameType
<1>1. ~Ended
  BY <1>0 DEF Ended, Leaving, PlaceInv
<1>2. /\ Room(1) = Grace * Pace - Pace /\ Room(0) = Grace * Pace
      /\ 0 \in 0..Grace /\ 1 \in 0..Grace
  BY RoomShrinks, CaptureAssumption
<1>3. /\ Grace * Pace \in Nat /\ Pace \in Nat /\ Cardinality(Slots) \in Nat /\ Credit \in Nat
      /\ Grace * Pace + 1 < 2 * Cardinality(Slots)
  <2>1. Room(0) \in Nat
    BY <1>2, RoomShrinks
  <2> QED
    BY <1>0, <1>2, <2>1, PaceType, CreditType, FS_CardinalityType, QueueAssumption
       DEF SettersAreRare
<1>4. CASE at = "retire"
  <2>1. Occupied(0) = Slots
    BY <1>0 DEF Occupied, TypeOK, GraveType
  <2>2. 2 * Cardinality(Slots) <= Grace * Pace + Credit
    BY <1>1, <1>2, <2>1 DEF PaceInv
  <2>3. frame /\ capture # None
    BY <1>1, <1>4 DEF Ended
  <2>4. Wanted /\ ~inflight
    BY <1>0, <2>3 DEF CallInv
  <2>5. Credit = 0
    BY <1>4, <2>3, <2>4 DEF Credit, Coming
  <2> QED
    BY <1>3, <2>2, <2>5
<1>5. CASE at # "retire"
  <2>1. ASSUME NEW s \in Slots PROVE grave[s].left >= 1
    <3>1. grave[s].left \in 0..Grace /\ grave[s].left > 0
      BY <1>0, <1>5 DEF GraveInv, TypeOK, GraveType
    <3> QED
      BY <3>1, CaptureAssumption
  <2>2. Occupied(1) = Slots
    BY <2>1 DEF Occupied
  <2>3. 2 * Cardinality(Slots) <= (Grace * Pace - Pace) + Credit
    BY <1>1, <1>2, <2>2 DEF PaceInv
  <2>4. Credit <= Pace + 1
    <3>1. CASE ~Wanted
      <4>1. Credit = 1 + calls
        BY <1>0, <3>1 DEF Credit, CallInv
      <4> QED
        BY <1>0, <4>1, PaceType
    <3>2. CASE Wanted /\ at = "poll"
      <4>1. inflight /\ (frame => calls = 0)
        BY <3>2 DEF CallInv
      <4>2. Credit \in {2, calls}
        BY <1>0, <3>2, <4>1 DEF Credit
      <4> QED
        BY <1>0, <4>2, PaceType
    <3>3. CASE Wanted /\ at # "poll"
      <4>1. capture # None /\ ~inflight
        BY <1>0, <3>3
      <4>2. Credit \in {0, 2, calls}
        BY <3>3, <4>1 DEF Credit
      <4> QED
        BY <1>0, <4>2, PaceType
    <3> QED
      BY <3>1, <3>2, <3>3
  <2> QED
    BY <1>3, <2>3, <2>4
<1> QED
  BY <1>4, <1>5

BoundsInv == JInv /\ CallInv /\ PaceInv

\* The graveyard is empty at first.
LEMMA PaceInit == Init => CallInv /\ PaceInv
<1> SUFFICES ASSUME Init PROVE CallInv /\ PaceInv
  OBVIOUS
<1>1. CallInv
  BY DEF Init, CallInv
<1>2. ASSUME NEW h \in 0..Grace PROVE 2 * Cardinality(Occupied(h)) <= Room(h) + Credit
  <2>1. Occupied(h) = {}
    BY DEF Init, Occupied, Empty
  <2>2. Cardinality(Occupied(h)) = 0
    BY <2>1, FS_EmptySet
  <2>3. Room(h) \in Nat /\ Credit \in Nat
    BY InitInv, RoomShrinks, CreditType DEF IInv
  <2> QED
    BY <2>2, <2>3
<1> QED
  BY <1>1, <1>2 DEF PaceInv

\* The whole invariant holds in every state.
LEMMA BoundsAlways == Spec => []BoundsInv
<1>1. Init => BoundsInv
  BY InitInv, StartInit, CrowdInit, PaceInit DEF BoundsInv, JInv
<1>2. BoundsInv /\ [Next]_vars => BoundsInv'
  BY JStep, CallStep, PaceStep DEF BoundsInv
<1> QED
  BY <1>1, <1>2, PTL DEF Spec

\* Room in the queue, and room in the graveyard.
LEMMA BoundsFit ==
    ASSUME SettersAreRare, BoundsInv
    PROVE  NoInlineStop
BY QueueFits, SlotFree DEF BoundsInv, JInv, NoInlineStop

\* dp_capture_bury finds a free slot and leia_bg_capture_worker_linux.c's post a
\* free place: neither the full graveyard, "not a real pattern", nor the full
\* queue, which "cannot happen", stops a capture on the frame thread.
THEOREM NeverInline ==
    ASSUME SettersAreRare
    PROVE  Spec => []NoInlineStop
<1>1. BoundsInv => NoInlineStop
  BY BoundsFit
<1> QED
  BY <1>1, BoundsAlways, PTL

\* What rests, rests longer than the GPU may lag.
LEMMA LagAlways ==
    ASSUME SettersAreRare
    PROVE  Spec => []LagInv
<1>1. IInv /\ LagInv /\ NoInlineStop /\ [Next]_vars => LagInv'
  BY LagStep
<1> QED
  BY <1>1, LagInit, Invariance, NeverInline, PTL DEF Spec

\* The three frames a buried capture rests cover the frames the GPU lags behind:
\* what a frame on the GPU may sample is not on its way to be stopped.
THEOREM RestedBeforeStop ==
    ASSUME SettersAreRare
    PROVE  Spec => []SampledNotStopped
<1>1. LagInv => SampledNotStopped
  BY DEF LagInv
<1> QED
  BY <1>1, LagAlways, PTL

\* The two threads implement CaptureLifecycle: whatever they interleave, a capture
\* is started, shown or discarded, laid to rest while the GPU may sample it,
\* stopped, and ended once, and none is started beside another.
THEOREM ImplementsLifecycle ==
    ASSUME SettersAreRare
    PROVE  Spec => Lifecycle
<1>1. JInv => IInv /\ StartInv
  BY DEF JInv
<1> QED
  BY <1>1, LifeInit, LifeStep, JAlways, LagAlways, NeverInline, PTL
     DEF Spec, Lifecycle, Life!Spec
=============================================================================
