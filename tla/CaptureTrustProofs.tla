------------------------- MODULE CaptureTrustProofs -------------------------
(***************************************************************************)
(* Proofs about CaptureTrust, for any pool and number of events.  The      *)
(* first invariants are about the order of the messages on the bus: which  *)
(* must still follow which (OrderInv, ExclInv, Refusals, LayoutInv).  The  *)
(* others are about the pictures: the frames in flight that may show us    *)
(* are fewer than those still to be skipped (FlightInv), so that what a    *)
(* trusted slot or preview has is clean at every step of the two threads   *)
(* (SlotInv, PollInv).                                                     *)
(***************************************************************************)
EXTENDS CaptureTrust, FiniteSetTheorems, TLAPS

-----------------------------------------------------------------------------
\* The losses on the bus are numbered in order, after those heard of.
Lost(i) == i \in 1..Len(bus) /\ bus[i].is = "lost"
Back(i) == i \in 1..Len(bus) /\ bus[i].is = "back"

Numbered ==
    /\ downs + events <= MaxEvents /\ heard <= downs
    /\ \A i \in 1..Len(bus) : Lost(i) => heard < bus[i].serial /\ bus[i].serial <= downs
    /\ \A i, j \in 1..Len(bus) : Lost(i) /\ Lost(j) /\ i < j => bus[i].serial < bus[j].serial

\* The extension comes back, and is away, only after a loss.
AfterLoss ==
    /\ \A i \in 1..Len(bus) : Back(i) => heard > 0 \/ \E j \in 1..Len(bus) : Lost(j) /\ j < i
    /\ ~up => heard > 0 \/ \E j \in 1..Len(bus) : Lost(j)

\* Losses and returns alternate.
Alternate ==
    /\ \A i \in 1..Len(bus) : Lost(i) => ~up \/ \E j \in 1..Len(bus) : Back(j) /\ i < j
    /\ ~up => \A i \in 1..Len(bus) : Back(i) => \E j \in 1..Len(bus) : Lost(j) /\ i < j

Between ==
    \A i, k \in 1..Len(bus) :
       Back(i) /\ Back(k) /\ i < k => \E j \in 1..Len(bus) : Lost(j) /\ i < j /\ j < k

\* So a return is heard with no request open.
NoneOpen ==
    /\ \A i \in 1..Len(bus) : Back(i) => serial = 0 \/ \E j \in 1..Len(bus) : Lost(j) /\ j < i
    /\ ~up /\ serial # 0 => \E j \in 1..Len(bus) : Lost(j)

\* A refusal on the bus is of an extension that has left, and may be back.
Refusals ==
    \A i \in 1..Len(bus) :
       bus[i].is = "exclude" /\ ~bus[i].ok =>
           refused \/ ~up \/ \E j \in 1..Len(bus) : Back(j) /\ i < j

OrderInv == Numbered /\ AfterLoss /\ Alternate /\ Between /\ NoneOpen

\* What was granted holds, or the loss that ended it follows on the bus.
ExclInv ==
    /\ live => excluded \/ \E j \in 1..Len(bus) : Lost(j)
    /\ \A i \in 1..Len(bus) :
          bus[i].is = "exclude" /\ bus[i].ok =>
              excluded \/ \E j \in 1..Len(bus) : Lost(j) /\ i < j

\* An open layout request has its answer to come, and the last change of the layout
\* is not followed by an older answer.
LayoutInv ==
    /\ layoutSerial => asked \/ \E i \in 1..Len(bus) : bus[i].is = "layout"
    /\ moved /\ ~unasked =>
          \/ wantsRestart \/ asked
          \/ \E i \in 1..Len(bus) : bus[i].is = "layout" /\ ~bus[i].ok
          \/ \E i \in 1..Len(bus) :
                /\ bus[i].is = "changed"
                /\ \A j \in 1..Len(bus) : i < j => bus[j].is # "layout"

\* Each buffer of the pool is in flight once; a frame that may show us is skipped.
Busy == IF pw = "idle" THEN 0 ELSE 1

FlightInv ==
    /\ pw = "idle" <=> held = NoFrame
    /\ \A i, j \in 1..Len(frames) : frames[i].buffer = frames[j].buffer => i = j
    /\ \A i \in 1..Len(frames) : frames[i].buffer # held.buffer
    /\ live => \A i \in 1..Len(frames) : Clean(frames[i].of) \/ i + Busy <= toSkip
    /\ live => Clean(held.of) \/ toSkip > 0

\* A trusted slot shows the desktop alone, or will when its picture is uploaded.
Fresh(b) ==
    \/ dirty[b] \/ image[b] = None \/ Clean(image[b])
    \/ at = "copy" /\ upload /\ idx = b

SlotInv ==
    /\ toSkip > 0 => (\A b \in Buffers : ~trusted[b]) /\ front = None /\ mid = None
    /\ pw \in {"mark", "seq"} => staging[held.buffer] = held.of
    /\ live => \A b \in Buffers : trusted[b] => Clean(staging[b]) /\ Fresh(b)
    /\ live /\ toSkip = 0 /\ pw = "seq" => Fresh(held.buffer)
    /\ live => (front = None \/ Clean(front)) /\ (mid = None \/ Clean(mid))

\* Between the gate and the end of a poll the pump does not run.
PollInv ==
    /\ at \in {"seq", "take", "copy"} => live /\ idx \in Buffers
    /\ at \in {"take", "copy"} => trusted[idx]
    /\ at = "copy" /\ ~upload => image[idx] # None /\ Clean(image[idx])
    /\ at = "pump" => ~pollOk
    /\ pollOk => live

IInv ==
    /\ TypeOK /\ OrderInv /\ ExclInv /\ Refusals /\ TrustDue /\ LayoutInv
    /\ FlightInv /\ SlotInv /\ PollInv

-----------------------------------------------------------------------------
(* Sequences of messages.                                                  *)

\* A message told goes to the end of the bus, the others stay.
LEMMA TellEffect ==
    ASSUME bus \in Seq(Messages), NEW m \in Messages, Tell(m)
    PROVE  /\ bus' \in Seq(Messages) /\ Len(bus) \in Nat /\ Len(bus') = Len(bus) + 1
           /\ \E n \in 1..Len(bus') :
                 /\ bus'[n] = m
                 /\ \A i \in 1..Len(bus) : i \in 1..Len(bus') /\ bus'[i] = bus[i] /\ i < n
                 /\ \A i \in 1..Len(bus') : i \in 1..Len(bus) \/ i = n
<1>1. /\ bus' \in Seq(Messages) /\ Len(bus') = Len(bus) + 1 /\ Len(bus) \in Nat
      /\ \A i \in 1..Len(bus) : bus'[i] = bus[i]
      /\ bus'[Len(bus) + 1] = m
  BY DEF Tell
<1> QED
  BY <1>1

\* The message heard is the first one, the others move up.
LEMMA TakeEffect ==
    ASSUME bus \in Seq(Messages), left \in 0..Len(bus), NEW is, Take(is)
    PROVE  /\ bus' \in Seq(Messages) /\ Len(bus) \in Nat /\ Len(bus) > 0
           /\ Len(bus') = Len(bus) - 1
           /\ Head(bus) = bus[1] /\ bus[1] \in Messages /\ bus[1].is = is
           /\ \A i \in 1..Len(bus') : bus'[i] = bus[i + 1] /\ i + 1 \in 1..Len(bus)
           /\ \A i \in 1..Len(bus) : i > 1 => i - 1 \in 1..Len(bus') /\ bus'[i - 1] = bus[i]
<1>1. bus' = Tail(bus) /\ Len(bus) \in Nat /\ Len(bus) > 0 /\ bus # <<>> /\ Head(bus).is = is
  BY DEF Take
<1>2. /\ bus' \in Seq(Messages) /\ Len(bus') = Len(bus) - 1
      /\ Head(bus) = bus[1] /\ bus[1] \in Messages
      /\ \A i \in 1..Len(bus) - 1 : bus'[i] = bus[i + 1]
  BY <1>1
<1>3. \A i \in 1..Len(bus) : i > 1 => i - 1 \in 1..Len(bus) - 1 /\ (i - 1) + 1 = i
  BY <1>1
<1> QED
  BY <1>1, <1>2, <1>3

-----------------------------------------------------------------------------
(* Type correctness.                                                       *)

\* The desktop keeps the types.
LEMMA DesktopTypes ==
    ASSUME TypeOK, OrderInv, Desktop
    PROVE  TypeOK'
<1> USE TrustAssumption DEF TypeOK
<1>1. LinkType' /\ SlotType' /\ StreamType' /\ UNCHANGED <<render, left>>
  <2>1. UNCHANGED <<link, render, slots, trust, views, stream>>
    BY DEF Desktop, ExtensionLost, ExtensionBack, LayoutChanges, AnswerLayout, AnswerExclude,
           Record, DesktopOnly
  <2>2. LinkType' /\ StreamType' /\ UNCHANGED render
    BY <2>1 DEF link, stream, LinkType, StreamType
  <2>3. SlotType'
    BY <2>1 DEF slots, trust, views, SlotType
  <2>4. UNCHANGED left
    BY <2>1 DEF render
  <2> QED
    BY <2>2, <2>3, <2>4
<1>2. ASSUME NEW m \in Messages, Tell(m)
      PROVE  bus' \in Seq(Messages) /\ RenderType'
  BY <1>1, <1>2, TellEffect DEF DesktopType, RenderType, render
<1>3. Signal("back") \in Messages /\ Signal("changed") \in Messages
  BY DEF Signal, Msg, Messages
<1>4. CASE ExtensionLost
  <2>1. downs' \in 1..MaxEvents /\ events' \in 0..MaxEvents
    BY <1>4 DEF ExtensionLost, Event, OrderInv, Numbered, DesktopType
  <2>2. bus' \in Seq(Messages) /\ RenderType'
    <3>1. Msg("lost", downs', TRUE) \in Messages
      BY <2>1 DEF Msg, Messages
    <3>2. Tell(Msg("lost", downs', TRUE))
      BY <1>4 DEF ExtensionLost
    <3> QED
      BY <1>2, <3>1, <3>2
  <2>3. calls' \in Seq(1..MaxEvents)
    <3>1. CASE calls' = calls
      BY <3>1 DEF DesktopType
    <3>2. CASE calls' = <<>>
      BY <3>2
    <3> QED
      BY <1>4, <3>1, <3>2 DEF ExtensionLost
  <2>4. up' \in BOOLEAN /\ excluded' \in BOOLEAN /\ UNCHANGED <<moved, asked, frames, refused>>
    BY <1>4 DEF ExtensionLost
  <2> QED
    BY <1>1, <2>1, <2>2, <2>3, <2>4 DEF DesktopType
<1>5. CASE ExtensionBack
  <2>1. bus' \in Seq(Messages) /\ RenderType'
    BY <1>2, <1>3, <1>5 DEF ExtensionBack
  <2> QED
    BY <1>1, <1>5, <2>1 DEF ExtensionBack, DesktopType
<1>6. CASE LayoutChanges
  <2>1. events' \in 0..MaxEvents
    BY <1>6 DEF LayoutChanges, Event, DesktopType
  <2>2. bus' \in Seq(Messages) /\ RenderType'
    BY <1>2, <1>3, <1>6 DEF LayoutChanges
  <2> QED
    BY <1>1, <1>6, <2>1, <2>2 DEF LayoutChanges, DesktopType
<1>7. CASE AnswerLayout
  <2>1. bus' \in Seq(Messages) /\ RenderType'
    <3>1. Msg("layout", 0, ~moved) \in Messages
      BY DEF Msg, Messages, DesktopType
    <3> QED
      BY <1>2, <1>7, <3>1 DEF AnswerLayout
  <2> QED
    BY <1>1, <1>7, <2>1 DEF AnswerLayout, DesktopType
<1>8. ASSUME NEW ok \in BOOLEAN, AnswerExclude(ok)
      PROVE  TypeOK'
  <2>1. Head(calls) \in 0..MaxEvents /\ calls' \in Seq(1..MaxEvents)
    BY <1>8 DEF AnswerExclude, DesktopType
  <2>2. excluded' \in BOOLEAN /\ refused' \in BOOLEAN
    BY <1>8 DEF AnswerExclude, DesktopType
  <2>3. bus' \in Seq(Messages) /\ RenderType'
    <3>1. Msg("exclude", Head(calls), ok) \in Messages
      BY <2>1 DEF Msg, Messages
    <3> QED
      BY <1>2, <1>8, <3>1 DEF AnswerExclude
  <2> QED
    BY <1>1, <1>8, <2>1, <2>2, <2>3 DEF AnswerExclude, DesktopType
<1>9. ASSUME NEW b \in Buffers, Record(b)
      PROVE  TypeOK'
  <2>1. [buffer |-> b, of |-> IF excluded THEN 0 ELSE downs] \in Frames
    BY DEF Frames, Pictures, DesktopType
  <2> QED
    BY <1>1, <1>9, <2>1 DEF Record, DesktopType, RenderType, render
<1> QED
  BY <1>4, <1>5, <1>6, <1>7, <1>8, <1>9 DEF Desktop

\* The PipeWire thread keeps the types.
LEMMA StreamTypes ==
    ASSUME TypeOK, OnProcess
    PROVE  TypeOK'
<1> USE TrustAssumption DEF TypeOK
<1>1. LinkType' /\ RenderType' /\ UNCHANGED bus
  BY DEF OnProcess, Dequeue, CopyOut, MarkDirty, StoreSeq, ProducePreview, PublishSlot, CountFrame, PwOnly,
         link, render, LinkType, RenderType
<1>2. held.of \in Pictures /\ held.buffer \in Buffers \cup {None}
  BY DEF StreamType, Frames, NoFrame, Pictures
<1>3. CASE Dequeue
  <2>1. PICK n \in 1..Len(frames) :
           held' = frames[n] /\ frames' = SubSeq(frames, n + 1, Len(frames))
    BY <1>3 DEF Dequeue
  <2>2. held' \in Frames /\ frames' \in Seq(Frames)
    BY <2>1 DEF DesktopType
  <2> QED
    BY <1>1, <1>3, <2>2
       DEF Dequeue, PwOnly, Pw, slots, trust, views, DesktopType, SlotType, StreamType
<1>4. CASE CopyOut
  BY <1>1, <1>2, <1>4
     DEF CopyOut, PwOnly, Pw, trust, views, DesktopType, SlotType, StreamType
<1>5. CASE MarkDirty
  BY <1>1, <1>5 DEF MarkDirty, PwOnly, Pw, trust, views, DesktopType, SlotType, StreamType
<1>6. CASE StoreSeq
  <2>1. trusted' \in [Buffers -> BOOLEAN]
    BY <1>6 DEF StoreSeq, SlotType
  <2> QED
    BY <1>1, <1>6, <2>1
       DEF StoreSeq, PwOnly, Pw, slots, views, DesktopType, SlotType, StreamType
<1>7. CASE ProducePreview
  <2>1. mid' \in Pictures \cup {None} /\ newer' \in BOOLEAN
    BY <1>2, <1>7 DEF ProducePreview, SlotType
  <2> QED
    BY <1>1, <1>7, <2>1
       DEF ProducePreview, PwOnly, Pw, slots, trust, DesktopType, SlotType, StreamType
<1>8. CASE PublishSlot
  BY <1>1, <1>2, <1>8
     DEF PublishSlot, PwOnly, Pw, trust, views, DesktopType, SlotType, StreamType
<1>9. CASE CountFrame
  <2>1. toSkip' \in 0..Cardinality(Buffers) + 1
    BY <1>9, FS_CardinalityType DEF CountFrame, SlotType
  <2> QED
    BY <1>1, <1>9, <2>1
       DEF CountFrame, PwOnly, Pw, slots, views, DesktopType, SlotType, StreamType
<1> QED
  BY <1>3, <1>4, <1>5, <1>6, <1>7, <1>8, <1>9 DEF OnProcess

\* The pump keeps the types: it asks only when a loss was heard of.
LEMMA PumpTypes ==
    ASSUME TypeOK, OrderInv, Pump
    PROVE  TypeOK'
<1> USE TrustAssumption DEF TypeOK
<1>1. ASSUME NEW is, Take(is)
      PROVE  /\ bus' \in Seq(Messages) /\ RenderType'
             /\ Head(bus).serial \in 0..MaxEvents /\ Head(bus).ok \in BOOLEAN
             /\ UNCHANGED <<up, excluded, downs, moved, events, frames, slots, stream>>
  <2>1. PICK m \in Messages : m = Head(bus)
    BY <1>1, TakeEffect DEF DesktopType, RenderType
  <2>2. left' \in 0..Len(bus')
    BY <1>1, TakeEffect DEF Take, DesktopType, RenderType
  <2> QED
    BY <1>1, <2>1, <2>2, TakeEffect DEF Take, Messages, DesktopType, RenderType
<1>2. RetrustAfter \in 0..Cardinality(Buffers) + 1
  BY FS_CardinalityType DEF RetrustAfter
<1>3. CASE HearExcluded
  <2>1. live' \in BOOLEAN /\ serial' = 0
    BY <1>3 DEF HearExcluded, LinkType
  <2>2. toSkip' \in 0..Cardinality(Buffers) + 1
    BY <1>2, <1>3 DEF HearExcluded, SlotType, trust
  <2>3. trusted' \in [Buffers -> BOOLEAN]
    BY <1>3 DEF HearExcluded, SlotType, trust
  <2>4. front' \in Pictures \cup {None} /\ mid' \in Pictures \cup {None}
    BY <1>3 DEF HearExcluded, SlotType
  <2>5. /\ Take("exclude")
        /\ UNCHANGED <<calls, asked, layoutSerial, wantsRestart, heard, newer, refused, unasked>>
    BY <1>3 DEF HearExcluded, Pop
  <2> QED
    BY <1>1, <2>1, <2>2, <2>3, <2>4, <2>5
       DEF slots, stream, DesktopType, LinkType, SlotType, StreamType
<1>4. CASE HearStale
  BY <1>1, <1>4
     DEF HearStale, Pop, slots, stream, link, trust, views, DesktopType, LinkType, SlotType,
         StreamType
<1>5. CASE HearLost
  <2>1. live' \in BOOLEAN /\ serial' = 0 /\ heard' = Head(bus).serial
        /\ Take("lost")
        /\ UNCHANGED <<calls, asked, layoutSerial, wantsRestart, trust, views, refused, unasked>>
    BY <1>5 DEF HearLost, Pop
  <2> QED
    BY <1>1, <2>1
       DEF slots, stream, trust, views, DesktopType, LinkType, SlotType, StreamType
<1>6. CASE HearBack
  <2>1. heard \in 1..MaxEvents
    <3>1. Back(1) /\ \A j \in 1..Len(bus) : ~(j < 1)
      BY <1>6, TakeEffect DEF HearBack, Back, DesktopType, RenderType
    <3> QED
      BY <3>1 DEF Back, OrderInv, AfterLoss, LinkType
  <2>2. \/ serial' = heard /\ calls' = Append(calls, heard)
        \/ serial' = serial /\ calls' = calls
    BY <1>6 DEF HearBack
  <2>3. calls' \in Seq(1..MaxEvents) /\ serial' \in 0..MaxEvents
    <3>1. CASE serial' = heard /\ calls' = Append(calls, heard)
      BY <2>1, <3>1 DEF DesktopType
    <3>2. CASE serial' = serial /\ calls' = calls
      BY <3>2 DEF DesktopType, LinkType
    <3> QED
      BY <2>2, <3>1, <3>2
  <2>4. /\ Take("back")
        /\ UNCHANGED <<asked, live, layoutSerial, wantsRestart, heard, unasked, trust, views>>
    BY <1>6 DEF HearBack
  <2>5. refused' \in BOOLEAN
    <3>1. (refused \/ \A i \in 1..Len(bus') : bus'[i].is # "back") \in BOOLEAN
      OBVIOUS
    <3> QED
      BY <1>6, <3>1 DEF HearBack, DesktopType
  <2> QED
    BY <1>1, <2>3, <2>4, <2>5
       DEF slots, stream, trust, views, DesktopType, LinkType, SlotType, StreamType
<1>7. CASE HearChanged
  <2>1. asked' \in BOOLEAN /\ layoutSerial' \in BOOLEAN /\ unasked' \in BOOLEAN
    BY <1>7 DEF HearChanged, DesktopType, LinkType
  <2>2. Take("changed")
        /\ UNCHANGED <<calls, live, serial, wantsRestart, heard, refused, trust, views>>
    BY <1>7 DEF HearChanged
  <2> QED
    BY <1>1, <2>1, <2>2
       DEF slots, stream, trust, views, DesktopType, LinkType, SlotType,
           StreamType
<1>8. CASE HearLayout
  <2>1. wantsRestart' \in BOOLEAN
    BY <1>8 DEF HearLayout, LinkType
  <2>2. layoutSerial' \in BOOLEAN /\ Take("layout")
        /\ UNCHANGED <<calls, asked, live, serial, heard, refused, unasked, trust, views>>
    BY <1>8 DEF HearLayout, Pop
  <2> QED
    BY <1>1, <2>1, <2>2
       DEF slots, stream, trust, views, DesktopType, LinkType, SlotType, StreamType
<1> QED
  BY <1>3, <1>4, <1>5, <1>6, <1>7, <1>8 DEF Pump

\* The poll and the preview keep the types.
Poll == PollBegins \/ Gate \/ CheckSeq \/ TakeDirty \/ Compose \/ GetPreview

LEMMA PollTypes ==
    ASSUME TypeOK, PollInv, Poll
    PROVE  TypeOK'
<1> USE TrustAssumption DEF TypeOK
<1>1. UNCHANGED <<desktop, link, trust, stream>>
  BY DEF Poll, PollBegins, Gate, CheckSeq, TakeDirty, Compose, GetPreview, RenderOnly
<1>2. DesktopType' /\ LinkType' /\ StreamType'
  BY <1>1 DEF desktop, link, stream, DesktopType, LinkType, StreamType
<1>3. CASE PollBegins
  <2>1. Len(bus) \in Nat /\ bus' = bus
    BY <1>1 DEF desktop, DesktopType
  <2>2. RenderType'
    <3>1. pollOk' \in BOOLEAN /\ at' = "pump" /\ left' = Len(bus) /\ UNCHANGED <<idx, upload>>
      BY <1>3 DEF PollBegins
    <3> QED
      BY <2>1, <3>1 DEF RenderType
  <2> QED
    BY <1>1, <1>2, <1>3, <2>2 DEF PollBegins, slots, trust, views, SlotType
<1>4. ASSUME RenderOnly PROVE bus' = bus /\ left' = left
  BY <1>1, <1>4 DEF RenderOnly, desktop
<1>5. CASE Gate
  <2>1. RenderType'
    BY <1>4, <1>5 DEF Gate, RenderType, SlotType
  <2> QED
    BY <1>1, <1>2, <1>5, <2>1 DEF Gate, slots, trust, views, SlotType
<1>6. CASE CheckSeq
  <2>1. RenderType'
    BY <1>4, <1>6 DEF CheckSeq, RenderType
  <2> QED
    BY <1>1, <1>2, <1>6, <2>1 DEF CheckSeq, slots, trust, views, SlotType
<1>7. CASE TakeDirty
  <2>1. idx \in Buffers
    BY <1>7 DEF TakeDirty, PollInv
  <2>2. RenderType'
    BY <1>4, <1>7, <2>1 DEF TakeDirty, RenderType, SlotType
  <2> QED
    BY <1>1, <1>2, <1>7, <2>1, <2>2 DEF TakeDirty, trust, views, SlotType
<1>8. CASE Compose
  <2>1. image' \in [Buffers -> Pictures \cup {None}]
    BY <1>8 DEF Compose, PollInv, SlotType
  <2>2. RenderType'
    BY <1>4, <1>8 DEF Compose, RenderType
  <2> QED
    BY <1>1, <1>2, <1>8, <2>1, <2>2 DEF Compose, trust, views, SlotType
<1>9. CASE GetPreview
  <2>1. PICK locked \in BOOLEAN :
           /\ front' = Newest(locked)
           /\ mid' = IF newer /\ ~locked THEN front ELSE mid
           /\ newer' = (newer /\ locked)
    BY <1>9 DEF GetPreview
  <2>2. front' \in Pictures \cup {None} /\ mid' \in Pictures \cup {None}
    BY <2>1 DEF Newest, SlotType
  <2>3. newer' \in BOOLEAN
    BY <2>1
  <2>4. RenderType'
    BY <1>4, <1>9 DEF GetPreview, RenderType
  <2> QED
    BY <1>1, <1>2, <1>9, <2>2, <2>3, <2>4 DEF GetPreview, slots, trust, SlotType
<1> QED
  BY <1>3, <1>5, <1>6, <1>7, <1>8, <1>9 DEF Poll

-----------------------------------------------------------------------------
(* The order of the messages.                                              *)

BusInvs == OrderInv /\ ExclInv /\ Refusals /\ TrustDue /\ LayoutInv

\* They are about these variables only.
LEMMA BusStable ==
    ASSUME BusInvs,
           UNCHANGED <<up, excluded, downs, calls, moved, events, asked, bus, refused, link>>
    PROVE  BusInvs'
<1>1. UNCHANGED <<up, excluded, downs, calls, moved, events, asked, bus, refused, live, serial,
                  layoutSerial, wantsRestart, heard, unasked>>
  BY DEF link
<1>2. Numbered' /\ AfterLoss'
  BY <1>1 DEF BusInvs, OrderInv, Numbered, AfterLoss, Lost, Back
<1>3. Alternate' /\ Between' /\ NoneOpen'
  BY <1>1 DEF BusInvs, OrderInv, Alternate, Between, NoneOpen, Lost, Back
<1>4. ExclInv' /\ Refusals'
  BY <1>1 DEF BusInvs, ExclInv, Refusals, Lost, Back
<1>5. TrustDue'
  <2>1. Granted(serial) => Granted(serial)'
    BY <1>1 DEF Granted, Msg
  <2>2. (\E i \in 1..Len(bus) : bus[i].is = "back")
           => \E i \in 1..Len(bus') : bus'[i].is = "back"
    BY <1>1
  <2> QED
    BY <1>1, <2>1, <2>2 DEF BusInvs, TrustDue
<1>6. LayoutInv'
  BY <1>1 DEF BusInvs, LayoutInv
<1> QED
  BY <1>2, <1>3, <1>4, <1>5, <1>6 DEF BusInvs, OrderInv

\* A message that is neither a loss nor a return leaves their order.
LEMMA OtherTold ==
    ASSUME TypeOK, OrderInv, Refusals, NEW m \in Messages, Tell(m), m.is \notin {"lost", "back"},
           UNCHANGED <<up, downs, heard, serial>>, downs + events' <= MaxEvents,
           m.is = "exclude" /\ ~m.ok => refused' \/ ~up, refused => refused'
    PROVE  OrderInv' /\ Refusals'
<1>1. bus \in Seq(Messages)
  BY DEF TypeOK, DesktopType
<1>2. PICK n \in 1..Len(bus') :
         /\ bus'[n] = m
         /\ \A i \in 1..Len(bus) : i \in 1..Len(bus') /\ bus'[i] = bus[i] /\ i < n
         /\ \A i \in 1..Len(bus') : i \in 1..Len(bus) \/ i = n
  BY <1>1, TellEffect
<1>3. Numbered'
  BY <1>2 DEF OrderInv, Numbered, Lost
<1>4. AfterLoss'
  BY <1>2 DEF OrderInv, AfterLoss, Lost, Back
<1>5. Alternate'
  BY <1>2 DEF OrderInv, Alternate, Lost, Back
<1>6. Between'
  BY <1>2 DEF OrderInv, Between, Lost, Back
<1>7. NoneOpen'
  BY <1>2 DEF OrderInv, NoneOpen, Lost, Back
<1>8. Refusals'
  BY <1>2 DEF Refusals, Back
<1> QED
  BY <1>3, <1>4, <1>5, <1>6, <1>7, <1>8 DEF OrderInv

\* A loss.
LEMMA LossTold ==
    ASSUME TypeOK, BusInvs, ExtensionLost
    PROVE  BusInvs'
<1>1. /\ up /\ up' = FALSE /\ excluded' = FALSE
      /\ UNCHANGED <<moved, asked, refused, live, serial, layoutSerial, wantsRestart, heard, unasked>>
  BY DEF ExtensionLost, DesktopOnly, link
<1>2. /\ downs \in Nat /\ events \in Nat /\ heard \in Nat /\ bus \in Seq(Messages)
      /\ downs' = downs + 1 /\ events > 0 /\ events' = events - 1
      /\ downs + events <= MaxEvents /\ downs' \in 0..MaxEvents
  BY TrustAssumption
     DEF ExtensionLost, Event, TypeOK, DesktopType, LinkType, BusInvs, OrderInv, Numbered
<1>3. Msg("lost", downs', TRUE) \in Messages /\ Tell(Msg("lost", downs', TRUE))
  BY <1>2 DEF ExtensionLost, Msg, Messages
<1>4. PICK m \in Messages : m = Msg("lost", downs', TRUE)
  BY <1>3
<1>5. m.is = "lost" /\ m.serial = downs' /\ Tell(m)
  BY <1>3, <1>4 DEF Msg
<1>6. PICK n \in 1..Len(bus') :
         /\ bus'[n] = m
         /\ \A i \in 1..Len(bus) : i \in 1..Len(bus') /\ bus'[i] = bus[i] /\ i < n
         /\ \A i \in 1..Len(bus') : i \in 1..Len(bus) \/ i = n
  BY <1>2, <1>5, TellEffect
<1>7. Numbered'
  <2>1. downs' + events' <= MaxEvents /\ heard' <= downs' /\ heard' < downs'
    BY <1>1, <1>2 DEF BusInvs, OrderInv, Numbered
  <2>2. ASSUME NEW i \in 1..Len(bus), Lost(i)
        PROVE  bus[i].serial \in Int /\ bus[i].serial < downs' /\ heard < bus[i].serial
    <3>1. bus[i] \in Messages /\ MaxEvents \in Nat
      BY <1>2, TrustAssumption
    <3>2. bus[i].serial \in 0..MaxEvents
      BY <3>1 DEF Messages
    <3>3. heard < bus[i].serial /\ bus[i].serial <= downs
      BY <2>2 DEF BusInvs, OrderInv, Numbered
    <3> QED
      BY <1>2, <3>1, <3>2, <3>3
  <2>3. \A i \in 1..Len(bus') : Lost(i)' => heard' < bus'[i].serial /\ bus'[i].serial <= downs'
    BY <1>1, <1>2, <1>5, <1>6, <2>1, <2>2 DEF Lost
  <2>4. \A i, j \in 1..Len(bus') :
           Lost(i)' /\ Lost(j)' /\ i < j => bus'[i].serial < bus'[j].serial
    <3>1. SUFFICES ASSUME NEW i \in 1..Len(bus'), NEW j \in 1..Len(bus'),
                          Lost(i)', Lost(j)', i < j
                   PROVE  bus'[i].serial < bus'[j].serial
      OBVIOUS
    <3>2. i \in 1..Len(bus) /\ bus'[i] = bus[i] /\ Lost(i)
      BY <1>2, <1>6, <3>1 DEF Lost
    <3>3. CASE j = n
      BY <1>5, <1>6, <2>2, <3>2, <3>3
    <3>4. CASE j # n
      <4>1. j \in 1..Len(bus) /\ bus'[j] = bus[j] /\ Lost(j)
        BY <1>6, <3>1, <3>4 DEF Lost
      <4> QED
        BY <3>1, <3>2, <4>1 DEF BusInvs, OrderInv, Numbered
    <3> QED
      BY <3>3, <3>4
  <2> QED
    BY <2>1, <2>3, <2>4 DEF Numbered
<1>8. AfterLoss'
  BY <1>1, <1>5, <1>6 DEF BusInvs, OrderInv, AfterLoss, Lost, Back
<1>9. Alternate'
  BY <1>1, <1>5, <1>6 DEF BusInvs, OrderInv, Alternate, Lost, Back
<1>10. Between'
  BY <1>5, <1>6 DEF BusInvs, OrderInv, Between, Lost, Back
<1>11. NoneOpen'
  BY <1>1, <1>5, <1>6 DEF BusInvs, OrderInv, NoneOpen, Lost, Back
<1>12. ExclInv'
  BY <1>1, <1>5, <1>6 DEF BusInvs, ExclInv, Lost
<1>13. Refusals' /\ TrustDue'
  BY <1>1 DEF Refusals, TrustDue
<1>14. LayoutInv'
  BY <1>1, <1>5, <1>6 DEF BusInvs, LayoutInv
<1> QED
  BY <1>7, <1>8, <1>9, <1>10, <1>11, <1>12, <1>13, <1>14 DEF BusInvs, OrderInv

\* The extension is back: the loss it returns from was told before.
LEMMA ReturnTold ==
    ASSUME TypeOK, BusInvs, ExtensionBack
    PROVE  BusInvs'
<1>1. /\ ~up /\ up' = TRUE /\ refused' = FALSE
      /\ UNCHANGED <<excluded, downs, calls, moved, events, asked, live, serial, layoutSerial,
                     wantsRestart, heard, unasked>>
  BY DEF ExtensionBack, DesktopOnly, link
<1>2. bus \in Seq(Messages) /\ Signal("back") \in Messages /\ Tell(Signal("back"))
  BY TrustAssumption DEF ExtensionBack, TypeOK, DesktopType, Signal, Msg, Messages
<1>3. PICK m \in Messages : m = Signal("back")
  BY <1>2
<1>4. m.is = "back" /\ Tell(m)
  BY <1>2, <1>3 DEF Signal, Msg
<1>5. PICK n \in 1..Len(bus') :
         /\ bus'[n] = m
         /\ \A i \in 1..Len(bus) : i \in 1..Len(bus') /\ bus'[i] = bus[i] /\ i < n
         /\ \A i \in 1..Len(bus') : i \in 1..Len(bus) \/ i = n
  BY <1>2, <1>4, TellEffect
<1>6. Numbered'
  BY <1>1, <1>4, <1>5 DEF BusInvs, OrderInv, Numbered, Lost
<1>7. AfterLoss'
  BY <1>1, <1>4, <1>5 DEF BusInvs, OrderInv, AfterLoss, Lost, Back
<1>8. Alternate'
  BY <1>1, <1>4, <1>5 DEF BusInvs, OrderInv, Alternate, Lost, Back
<1>9. Between'
  BY <1>1, <1>4, <1>5 DEF BusInvs, OrderInv, Between, Alternate, Lost, Back
<1>10. NoneOpen'
  BY <1>1, <1>4, <1>5 DEF BusInvs, OrderInv, NoneOpen, Lost, Back
<1>11. ExclInv'
  BY <1>1, <1>4, <1>5 DEF BusInvs, ExclInv, Lost
<1>12. Refusals'
  BY <1>1, <1>4, <1>5 DEF BusInvs, Refusals, Back
<1>13. TrustDue'
  BY <1>4, <1>5 DEF TrustDue
<1>14. LayoutInv'
  BY <1>1, <1>4, <1>5 DEF BusInvs, LayoutInv
<1> QED
  BY <1>6, <1>7, <1>8, <1>9, <1>10, <1>11, <1>12, <1>13, <1>14 DEF BusInvs, OrderInv

\* What is granted on the bus, or asked for, stays so while messages are added.
LEMMA GrantedTold ==
    ASSUME TypeOK, NEW m \in Messages, Tell(m), UNCHANGED <<calls, serial>>, Granted(serial)
    PROVE  Granted(serial)'
<1>1. PICK n \in 1..Len(bus') :
         /\ bus'[n] = m
         /\ \A i \in 1..Len(bus) : i \in 1..Len(bus') /\ bus'[i] = bus[i] /\ i < n
         /\ \A i \in 1..Len(bus') : i \in 1..Len(bus) \/ i = n
  BY TellEffect DEF TypeOK, DesktopType
<1> QED
  BY <1>1 DEF Granted, Msg

\* A signal back stays on the bus.
LEMMA BackTold ==
    ASSUME TypeOK, NEW m \in Messages, Tell(m), \E i \in 1..Len(bus) : bus[i].is = "back"
    PROVE  \E i \in 1..Len(bus') : bus'[i].is = "back"
<1>1. PICK n \in 1..Len(bus') :
         \A i \in 1..Len(bus) : i \in 1..Len(bus') /\ bus'[i] = bus[i] /\ i < n
  BY TellEffect DEF TypeOK, DesktopType
<1> QED
  BY <1>1

\* An answer to an exclusion request.
LEMMA AnswerTold ==
    ASSUME TypeOK, BusInvs, NEW ok \in BOOLEAN, AnswerExclude(ok)
    PROVE  BusInvs'
<1>1. /\ excluded' = (excluded \/ ok) /\ (ok => up) /\ refused' = (refused \/ (up /\ ~ok))
      /\ calls # <<>> /\ calls' = Tail(calls)
      /\ UNCHANGED <<up, downs, moved, events, asked, live, serial, layoutSerial, wantsRestart,
                     heard, unasked>>
  BY DEF AnswerExclude, DesktopOnly, link
<1>2. /\ bus \in Seq(Messages) /\ calls \in Seq(1..MaxEvents) /\ MaxEvents \in Nat
      /\ excluded \in BOOLEAN /\ refused \in BOOLEAN /\ up \in BOOLEAN
  BY TrustAssumption DEF TypeOK, DesktopType
<1>3. Head(calls) \in 0..MaxEvents /\ Head(calls) = calls[1]
  BY <1>1, <1>2
<1>4. Msg("exclude", Head(calls), ok) \in Messages /\ Tell(Msg("exclude", Head(calls), ok))
  BY <1>3 DEF AnswerExclude, Msg, Messages
<1>5. PICK m \in Messages : m = Msg("exclude", Head(calls), ok)
  BY <1>4
<1>6. m.is = "exclude" /\ m.serial = Head(calls) /\ m.ok = ok /\ Tell(m)
  BY <1>4, <1>5 DEF Msg
<1>7. PICK n \in 1..Len(bus') :
         /\ bus'[n] = m
         /\ \A i \in 1..Len(bus) : i \in 1..Len(bus') /\ bus'[i] = bus[i] /\ i < n
         /\ \A i \in 1..Len(bus') : i \in 1..Len(bus) \/ i = n
  BY <1>2, <1>6, TellEffect
<1>8. OrderInv' /\ Refusals'
  <2>1. downs + events' <= MaxEvents
    BY <1>1 DEF BusInvs, OrderInv, Numbered
  <2>2. m.is \notin {"lost", "back"}
    BY <1>6
  <2>3. m.is = "exclude" /\ ~m.ok => refused' \/ ~up
    BY <1>1, <1>6
  <2>4. refused => refused'
    BY <1>1
  <2> QED
    BY <1>1, <1>6, <2>1, <2>2, <2>3, <2>4, OtherTold DEF BusInvs
<1>9. ExclInv'
  BY <1>1, <1>2, <1>6, <1>7 DEF BusInvs, ExclInv, Lost
<1>10. TrustDue'
  <2>1. SUFFICES ASSUME up, ~refused', ~live PROVE TrustDue'
    BY <1>1 DEF TrustDue
  <2>2. ok /\ ~refused
    BY <1>1, <2>1
  <2>3. CASE \E i \in 1..Len(bus) : bus[i].is = "back"
    BY <1>6, <2>3, BackTold DEF TrustDue
  <2>4. CASE serial # 0 /\ \E i \in 1..Len(bus) : bus[i] = Msg("exclude", serial, TRUE)
    <3>1. PICK i \in 1..Len(bus) : bus[i] = Msg("exclude", serial, TRUE)
      BY <2>4
    <3>2. i \in 1..Len(bus') /\ bus'[i] = Msg("exclude", serial', TRUE)
      BY <1>1, <1>7, <3>1
    <3> QED
      BY <1>1, <2>4, <3>2 DEF TrustDue, Granted
  <2>5. CASE serial # 0 /\ \E i \in 1..Len(calls) : calls[i] = serial
    <3>1. PICK i \in 1..Len(calls) : calls[i] = serial
      BY <2>5
    <3>2. CASE i = 1
      <4>1. bus'[n] = Msg("exclude", serial', TRUE)
        BY <1>1, <1>3, <1>5, <1>7, <2>2, <3>1, <3>2
      <4> QED
        BY <1>1, <1>7, <2>5, <4>1 DEF TrustDue, Granted
    <3>3. CASE i # 1
      <4>1. i - 1 \in 1..Len(calls') /\ calls'[i - 1] = serial'
        BY <1>1, <1>2, <3>1, <3>3
      <4> QED
        BY <1>1, <2>5, <4>1 DEF TrustDue, Granted
    <3> QED
      BY <3>2, <3>3
  <2> QED
    BY <2>1, <2>2, <2>3, <2>4, <2>5 DEF BusInvs, TrustDue, Granted
<1>11. LayoutInv'
  BY <1>1, <1>6, <1>7 DEF BusInvs, LayoutInv
<1> QED
  BY <1>8, <1>9, <1>10, <1>11 DEF BusInvs

\* A change of the layout.
LEMMA ChangeTold ==
    ASSUME TypeOK, BusInvs, LayoutChanges
    PROVE  BusInvs'
<1>1. /\ events > 0 /\ events' = events - 1 /\ moved' \in BOOLEAN
      /\ UNCHANGED <<up, excluded, downs, calls, asked, refused, live, serial, layoutSerial,
                     wantsRestart, heard, unasked>>
  BY DEF LayoutChanges, Event, DesktopOnly, link
<1>2. /\ bus \in Seq(Messages) /\ MaxEvents \in Nat /\ downs \in Nat /\ events \in Nat
      /\ Signal("changed") \in Messages /\ Tell(Signal("changed"))
  BY TrustAssumption DEF LayoutChanges, TypeOK, DesktopType, Signal, Msg, Messages
<1>3. PICK m \in Messages : m = Signal("changed")
  BY <1>2
<1>4. m.is = "changed" /\ Tell(m)
  BY <1>2, <1>3 DEF Signal, Msg
<1>5. PICK n \in 1..Len(bus') :
         /\ bus'[n] = m
         /\ \A i \in 1..Len(bus) : i \in 1..Len(bus') /\ bus'[i] = bus[i] /\ i < n
         /\ \A i \in 1..Len(bus') : i \in 1..Len(bus) \/ i = n
  BY <1>2, <1>4, TellEffect
<1>6. OrderInv' /\ Refusals'
  <2>1. downs + events' <= MaxEvents
    BY <1>1, <1>2 DEF BusInvs, OrderInv, Numbered
  <2> QED
    BY <1>1, <1>4, <2>1, OtherTold DEF BusInvs
<1>7. ExclInv'
  BY <1>1, <1>4, <1>5 DEF BusInvs, ExclInv, Lost
<1>8. TrustDue'
  <2>1. Granted(serial) => Granted(serial)'
    BY <1>1, <1>4, GrantedTold
  <2>2. (\E i \in 1..Len(bus) : bus[i].is = "back")
           => \E i \in 1..Len(bus') : bus'[i].is = "back"
    BY <1>4, BackTold
  <2> QED
    BY <1>1, <2>1, <2>2 DEF BusInvs, TrustDue
<1>9. LayoutInv'
  <2>1. bus'[n].is = "changed" /\ \A j \in 1..Len(bus') : ~(n < j)
    BY <1>2, <1>4, <1>5
  <2>2. layoutSerial' => asked' \/ \E i \in 1..Len(bus') : bus'[i].is = "layout"
    BY <1>1, <1>5 DEF BusInvs, LayoutInv
  <2> QED
    BY <2>1, <2>2 DEF LayoutInv
<1> QED
  BY <1>6, <1>7, <1>8, <1>9 DEF BusInvs

\* The answer to a layout request, from the layout of now.
LEMMA LayoutTold ==
    ASSUME TypeOK, BusInvs, AnswerLayout
    PROVE  BusInvs'
<1>1. UNCHANGED <<up, excluded, downs, calls, moved, events, refused, live, serial,
                  layoutSerial, wantsRestart, heard, unasked>>
  BY DEF AnswerLayout, DesktopOnly, link
<1>2. /\ bus \in Seq(Messages)
      /\ Msg("layout", 0, ~moved) \in Messages /\ Tell(Msg("layout", 0, ~moved))
  BY TrustAssumption DEF AnswerLayout, TypeOK, DesktopType, Msg, Messages
<1>3. PICK m \in Messages : m = Msg("layout", 0, ~moved)
  BY <1>2
<1>4. m.is = "layout" /\ m.ok = ~moved /\ Tell(m)
  BY <1>2, <1>3 DEF Msg
<1>5. PICK n \in 1..Len(bus') :
         /\ bus'[n] = m
         /\ \A i \in 1..Len(bus) : i \in 1..Len(bus') /\ bus'[i] = bus[i] /\ i < n
         /\ \A i \in 1..Len(bus') : i \in 1..Len(bus) \/ i = n
  BY <1>2, <1>4, TellEffect
<1>6. OrderInv' /\ Refusals'
  <2>1. downs + events' <= MaxEvents
    BY <1>1 DEF BusInvs, OrderInv, Numbered
  <2> QED
    BY <1>1, <1>4, <2>1, OtherTold DEF BusInvs
<1>7. ExclInv'
  BY <1>1, <1>4, <1>5 DEF BusInvs, ExclInv, Lost
<1>8. TrustDue'
  <2>1. Granted(serial) => Granted(serial)'
    BY <1>1, <1>4, GrantedTold
  <2>2. (\E i \in 1..Len(bus) : bus[i].is = "back")
           => \E i \in 1..Len(bus') : bus'[i].is = "back"
    BY <1>4, BackTold
  <2> QED
    BY <1>1, <2>1, <2>2 DEF BusInvs, TrustDue
<1>9. LayoutInv'
  <2>1. bus'[n].is = "layout" /\ (moved => ~bus'[n].ok)
    BY <1>4, <1>5
  <2> QED
    BY <1>1, <2>1 DEF LayoutInv
<1> QED
  BY <1>6, <1>7, <1>8, <1>9 DEF BusInvs

-----------------------------------------------------------------------------
(* What the pump hears.                                                    *)

\* What the extension and the layout are is not changed by hearing of it.
Heard == UNCHANGED <<up, excluded, downs, moved, events>>

\* Hearing of neither a loss nor a return leaves their order.
LEMMA OtherHeard ==
    ASSUME TypeOK, BusInvs, NEW is \in {"exclude", "changed", "layout"}, Take(is),
           UNCHANGED <<heard, refused>>, serial' \in {serial, 0}
    PROVE  OrderInv' /\ Refusals'
<1>1. bus \in Seq(Messages) /\ left \in 0..Len(bus) /\ Heard
  BY DEF TypeOK, DesktopType, RenderType, Take, Heard
<1>2. /\ Len(bus) \in Nat /\ bus[1].is \notin {"lost", "back"}
      /\ \A i \in 1..Len(bus') : bus'[i] = bus[i + 1] /\ i + 1 \in 1..Len(bus)
      /\ \A i \in 1..Len(bus) : i > 1 => i - 1 \in 1..Len(bus') /\ bus'[i - 1] = bus[i]
  BY <1>1, TakeEffect
<1>3. /\ \A i \in 1..Len(bus') : Lost(i)' => Lost(i + 1)
      /\ \A i \in 1..Len(bus') : Back(i)' => Back(i + 1)
      /\ \A i \in 1..Len(bus) : Lost(i) => i > 1 /\ i - 1 \in 1..Len(bus') /\ Lost(i - 1)'
      /\ \A i \in 1..Len(bus) : Back(i) => i > 1 /\ i - 1 \in 1..Len(bus') /\ Back(i - 1)'
  BY <1>2 DEF Lost, Back
<1>4. Numbered'
  <2>1. downs' + events' <= MaxEvents /\ heard' <= downs'
    BY <1>1 DEF BusInvs, OrderInv, Numbered, Heard
  <2>2. ASSUME NEW i \in 1..Len(bus'), Lost(i)'
        PROVE  heard' < bus'[i].serial /\ bus'[i].serial <= downs'
    BY <1>1, <1>2, <1>3, <2>2 DEF BusInvs, OrderInv, Numbered, Heard
  <2>3. ASSUME NEW i \in 1..Len(bus'), NEW j \in 1..Len(bus'), Lost(i)', Lost(j)', i < j
        PROVE  bus'[i].serial < bus'[j].serial
    <3>1. Lost(i + 1) /\ Lost(j + 1) /\ i + 1 < j + 1
      BY <1>3, <2>3
    <3>2. bus[i + 1].serial < bus[j + 1].serial
      BY <1>2, <3>1 DEF BusInvs, OrderInv, Numbered
    <3> QED
      BY <1>2, <3>2
  <2> QED
    BY <2>1, <2>2, <2>3 DEF Numbered
<1>5. AfterLoss'
  <2>1. ASSUME NEW i \in 1..Len(bus'), Back(i)'
        PROVE  heard' > 0 \/ \E j \in 1..Len(bus') : Lost(j)' /\ j < i
    <3>1. heard > 0 \/ \E j \in 1..Len(bus) : Lost(j) /\ j < i + 1
      BY <1>2, <1>3, <2>1 DEF BusInvs, OrderInv, AfterLoss
    <3>2. ASSUME NEW j \in 1..Len(bus), Lost(j), j < i + 1
          PROVE  j - 1 \in 1..Len(bus') /\ Lost(j - 1)' /\ j - 1 < i
      BY <1>2, <1>3, <3>2
    <3> QED
      BY <3>1, <3>2
  <2>2. ~up => heard' > 0 \/ \E j \in 1..Len(bus') : Lost(j)'
    <3>1. ASSUME NEW j \in 1..Len(bus), Lost(j)
          PROVE  \E k \in 1..Len(bus') : Lost(k)'
      BY <1>3, <3>1
    <3> QED
      BY <3>1 DEF BusInvs, OrderInv, AfterLoss
  <2>3. UNCHANGED up
    BY <1>1 DEF Heard
  <2> QED
    BY <2>1, <2>2, <2>3 DEF AfterLoss
<1>6. Alternate'
  <2>1. ASSUME NEW i \in 1..Len(bus'), Lost(i)'
        PROVE  ~up \/ \E k \in 1..Len(bus') : Back(k)' /\ i < k
    <3>1. ~up \/ \E j \in 1..Len(bus) : Back(j) /\ i + 1 < j
      BY <1>2, <1>3, <2>1 DEF BusInvs, OrderInv, Alternate
    <3>2. ASSUME NEW j \in 1..Len(bus), Back(j), i + 1 < j
          PROVE  j - 1 \in 1..Len(bus') /\ Back(j - 1)' /\ i < j - 1
      BY <1>2, <1>3, <3>2
    <3> QED
      BY <3>1, <3>2
  <2>2. ASSUME ~up, NEW i \in 1..Len(bus'), Back(i)'
        PROVE  \E k \in 1..Len(bus') : Lost(k)' /\ i < k
    <3>1. PICK j \in 1..Len(bus) : Lost(j) /\ i + 1 < j
      BY <1>2, <1>3, <2>2 DEF BusInvs, OrderInv, Alternate
    <3>2. j - 1 \in 1..Len(bus') /\ Lost(j - 1)' /\ i < j - 1
      BY <1>2, <1>3, <3>1
    <3> QED
      BY <3>2
  <2>3. UNCHANGED up
    BY <1>1 DEF Heard
  <2> QED
    BY <2>1, <2>2, <2>3 DEF Alternate
<1>7. Between'
  <2>1. SUFFICES ASSUME NEW i \in 1..Len(bus'), NEW k \in 1..Len(bus'),
                        Back(i)', Back(k)', i < k
                 PROVE  \E j \in 1..Len(bus') : Lost(j)' /\ i < j /\ j < k
    BY DEF Between
  <2>2. PICK j \in 1..Len(bus) : Lost(j) /\ i + 1 < j /\ j < k + 1
    BY <1>2, <1>3, <2>1 DEF BusInvs, OrderInv, Between
  <2>3. j - 1 \in 1..Len(bus') /\ Lost(j - 1)' /\ i < j - 1 /\ j - 1 < k
    BY <1>2, <1>3, <2>2
  <2> QED
    BY <2>3
<1>8. NoneOpen'
  <2>1. ASSUME NEW i \in 1..Len(bus'), Back(i)', serial # 0
        PROVE  \E j \in 1..Len(bus') : Lost(j)' /\ j < i
    <3>1. PICK j \in 1..Len(bus) : Lost(j) /\ j < i + 1
      BY <1>2, <1>3, <2>1 DEF BusInvs, OrderInv, NoneOpen
    <3>2. j - 1 \in 1..Len(bus') /\ Lost(j - 1)' /\ j - 1 < i
      BY <1>2, <1>3, <3>1
    <3> QED
      BY <3>2
  <2>2. ASSUME ~up, serial # 0
        PROVE  \E j \in 1..Len(bus') : Lost(j)'
    <3>1. PICK j \in 1..Len(bus) : Lost(j)
      BY <2>2 DEF BusInvs, OrderInv, NoneOpen
    <3> QED
      BY <1>3, <3>1
  <2>3. UNCHANGED up /\ (serial' = 0 \/ serial' = serial)
    BY <1>1 DEF Heard
  <2> QED
    BY <2>1, <2>2, <2>3 DEF NoneOpen
<1>9. Refusals'
  <2>1. ASSUME NEW i \in 1..Len(bus'), bus'[i].is = "exclude", ~bus'[i].ok
        PROVE  refused \/ ~up \/ \E k \in 1..Len(bus') : Back(k)' /\ i < k
    <3>1. refused \/ ~up \/ \E j \in 1..Len(bus) : Back(j) /\ i + 1 < j
      BY <1>2, <2>1 DEF BusInvs, Refusals
    <3>2. ASSUME NEW j \in 1..Len(bus), Back(j), i + 1 < j
          PROVE  j - 1 \in 1..Len(bus') /\ Back(j - 1)' /\ i < j - 1
      BY <1>2, <1>3, <3>2
    <3> QED
      BY <3>1, <3>2
  <2>2. UNCHANGED <<up, refused>>
    BY <1>1 DEF Heard
  <2> QED
    BY <2>1, <2>2 DEF Refusals
<1> QED
  BY <1>4, <1>5, <1>6, <1>7, <1>8, <1>9 DEF OrderInv

\* Nor what was granted, as long as live follows an answer.
LEMMA GrantHeard ==
    ASSUME TypeOK, BusInvs, NEW is \in {"exclude", "changed", "layout", "back"}, Take(is),
           live' => live \/ (is = "exclude" /\ Head(bus).ok)
    PROVE  ExclInv'
<1>1. bus \in Seq(Messages) /\ left \in 0..Len(bus) /\ Heard
  BY DEF TypeOK, DesktopType, RenderType, Take, Heard
<1>2. /\ Len(bus) \in Nat /\ Len(bus) > 0 /\ Head(bus) = bus[1] /\ bus[1].is = is
      /\ \A i \in 1..Len(bus') : bus'[i] = bus[i + 1] /\ i + 1 \in 1..Len(bus)
      /\ \A i \in 1..Len(bus) : i > 1 => i - 1 \in 1..Len(bus') /\ bus'[i - 1] = bus[i]
  BY <1>1, TakeEffect
<1>3. \A i \in 1..Len(bus) : Lost(i) => i > 1 /\ i - 1 \in 1..Len(bus') /\ Lost(i - 1)'
  BY <1>2 DEF Lost
<1>4. live' => excluded' \/ \E j \in 1..Len(bus') : Lost(j)'
  <2>1. CASE live
    BY <1>1, <1>3, <2>1 DEF BusInvs, ExclInv, Heard
  <2>2. CASE is = "exclude" /\ Head(bus).ok
    BY <1>1, <1>2, <1>3, <2>2 DEF BusInvs, ExclInv, Heard
  <2> QED
    BY <2>1, <2>2
<1>5. ASSUME NEW i \in 1..Len(bus'), bus'[i].is = "exclude", bus'[i].ok
      PROVE  excluded' \/ \E j \in 1..Len(bus') : Lost(j)' /\ i < j
  BY <1>1, <1>2, <1>3, <1>5 DEF BusInvs, ExclInv, Heard
<1> QED
  BY <1>4, <1>5 DEF ExclInv

\* Nor the layout.
LEMMA LayoutKept ==
    ASSUME TypeOK, BusInvs, NEW is \in {"exclude", "lost", "back"}, Take(is),
           UNCHANGED <<asked, layoutSerial, wantsRestart, unasked>>
    PROVE  LayoutInv'
<1>1. bus \in Seq(Messages) /\ left \in 0..Len(bus) /\ Heard
  BY DEF TypeOK, DesktopType, RenderType, Take, Heard
<1>2. /\ Len(bus) \in Nat /\ bus[1].is = is
      /\ \A i \in 1..Len(bus') : bus'[i] = bus[i + 1] /\ i + 1 \in 1..Len(bus)
      /\ \A i \in 1..Len(bus) : i > 1 => i - 1 \in 1..Len(bus') /\ bus'[i - 1] = bus[i]
  BY <1>1, TakeEffect
<1>3. \A i \in 1..Len(bus) : bus[i].is \in {"changed", "layout"} => i > 1
  BY <1>2
<1>4. layoutSerial' => asked' \/ \E i \in 1..Len(bus') : bus'[i].is = "layout"
  BY <1>1, <1>2, <1>3 DEF BusInvs, LayoutInv, Heard
<1>5. ASSUME NEW i \in 1..Len(bus), bus[i].is = "layout", ~bus[i].ok
      PROVE  \E k \in 1..Len(bus') : bus'[k].is = "layout" /\ ~bus'[k].ok
  BY <1>2, <1>3, <1>5
<1>6. ASSUME NEW i \in 1..Len(bus), bus[i].is = "changed",
             \A j \in 1..Len(bus) : i < j => bus[j].is # "layout"
      PROVE  \E k \in 1..Len(bus') :
                /\ bus'[k].is = "changed"
                /\ \A j \in 1..Len(bus') : k < j => bus'[j].is # "layout"
  <2>1. i - 1 \in 1..Len(bus') /\ bus'[i - 1].is = "changed"
    BY <1>2, <1>3, <1>6
  <2>2. \A j \in 1..Len(bus') : i - 1 < j => bus'[j].is # "layout"
    BY <1>2, <1>6
  <2> QED
    BY <2>1, <2>2
<1> QED
  BY <1>1, <1>4, <1>5, <1>6 DEF BusInvs, LayoutInv, Heard

\* Nor what is to be told, unless it is the answer waited for.
LEMMA DueKept ==
    ASSUME TypeOK, BusInvs, NEW is \in {"exclude", "changed", "layout"}, Take(is),
           is = "exclude" => Head(bus).serial # serial \/ serial = 0,
           UNCHANGED <<calls, live, serial, refused>>
    PROVE  TrustDue'
<1>1. bus \in Seq(Messages) /\ left \in 0..Len(bus) /\ Heard
  BY DEF TypeOK, DesktopType, RenderType, Take, Heard
<1>2. /\ Len(bus) \in Nat /\ Head(bus) = bus[1] /\ bus[1].is = is
      /\ \A i \in 1..Len(bus) : i > 1 => i - 1 \in 1..Len(bus') /\ bus'[i - 1] = bus[i]
  BY <1>1, TakeEffect
<1>3. ASSUME NEW i \in 1..Len(bus), bus[i].is = "back"
      PROVE  \E k \in 1..Len(bus') : bus'[k].is = "back"
  BY <1>2, <1>3
<1>4. serial # 0 /\ Granted(serial) => serial' # 0 /\ Granted(serial)'
  <2>1. ASSUME serial # 0, NEW i \in 1..Len(bus), bus[i] = Msg("exclude", serial, TRUE)
        PROVE  i > 1
    <3>1. bus[i].is = "exclude" /\ bus[i].serial = serial
      BY <2>1 DEF Msg
    <3> QED
      <4>1. CASE i = 1
        BY <1>2, <2>1, <3>1, <4>1
      <4> QED
        BY <1>2, <4>1
  <2>2. ASSUME serial # 0, NEW i \in 1..Len(bus), bus[i] = Msg("exclude", serial, TRUE)
        PROVE  Granted(serial)'
    <3>1. i - 1 \in 1..Len(bus') /\ bus'[i - 1] = Msg("exclude", serial', TRUE)
      BY <1>2, <2>1, <2>2
    <3> QED
      BY <3>1 DEF Granted
  <2>3. ASSUME NEW i \in 1..Len(calls), calls[i] = serial
        PROVE  Granted(serial)'
    BY <2>3 DEF Granted
  <2> QED
    BY <2>2, <2>3 DEF Granted
<1> QED
  BY <1>1, <1>3, <1>4 DEF BusInvs, TrustDue, Heard

\* The reply waited for: if it is an error, the extension has left since, or refused.
LEMMA HearExcludedBus ==
    ASSUME TypeOK, BusInvs, HearExcluded
    PROVE  BusInvs'
<1>1. /\ Take("exclude") /\ UNCHANGED refused /\ serial' = 0
      /\ (Head(bus).ok /\ live' = TRUE) \/ (~Head(bus).ok /\ live' = live)
      /\ UNCHANGED <<calls, asked, layoutSerial, wantsRestart, heard, unasked>>
  BY DEF HearExcluded, Pop
<1>2. /\ bus \in Seq(Messages) /\ left \in 0..Len(bus) /\ Heard
  BY <1>1 DEF TypeOK, DesktopType, RenderType, Take, Heard
<1>3. OrderInv' /\ Refusals'
  BY <1>1, OtherHeard
<1>4. ExclInv'
  BY <1>1, GrantHeard
<1>5. LayoutInv'
  BY <1>1, LayoutKept
<1>6. TrustDue'
  <2>1. CASE live'
    BY <2>1 DEF TrustDue
  <2>2. CASE ~Head(bus).ok
    <3>1. /\ 1 \in 1..Len(bus) /\ bus[1].is = "exclude" /\ ~bus[1].ok
          /\ \A i \in 1..Len(bus) : i > 1 => i - 1 \in 1..Len(bus') /\ bus'[i - 1] = bus[i]
      BY <1>1, <1>2, <2>2, TakeEffect
    <3>2. refused \/ ~up \/ \E j \in 1..Len(bus) : Back(j) /\ 1 < j
      BY <3>1 DEF BusInvs, Refusals
    <3>3. (\E j \in 1..Len(bus) : Back(j) /\ 1 < j)
              => \E k \in 1..Len(bus') : bus'[k].is = "back"
      BY <3>1 DEF Back
    <3> QED
      BY <1>1, <1>2, <3>2, <3>3 DEF TrustDue, Heard
  <2> QED
    BY <1>1, <2>1, <2>2
<1> QED
  BY <1>3, <1>4, <1>5, <1>6 DEF BusInvs

\* A reply to an older request changes nothing.
LEMMA HearStaleBus ==
    ASSUME TypeOK, BusInvs, HearStale
    PROVE  BusInvs'
<1>1. /\ Take("exclude") /\ UNCHANGED refused /\ (serial = 0 \/ Head(bus).serial # serial)
      /\ UNCHANGED <<calls, asked, live, serial, layoutSerial, wantsRestart, heard, unasked>>
  BY DEF HearStale, Pop, link
<1>2. OrderInv' /\ Refusals'
  BY <1>1, OtherHeard
<1>3. ExclInv'
  BY <1>1, GrantHeard
<1>4. LayoutInv'
  BY <1>1, LayoutKept
<1>5. TrustDue'
  BY <1>1, DueKept
<1> QED
  BY <1>2, <1>3, <1>4, <1>5 DEF BusInvs

\* A loss that was followed by a return leaves the return on the bus.
LEMMA HearLostBus ==
    ASSUME TypeOK, BusInvs, HearLost
    PROVE  BusInvs'
<1>1. /\ Take("lost") /\ UNCHANGED refused /\ live' = FALSE /\ serial' = 0 /\ heard' = Head(bus).serial
      /\ UNCHANGED <<calls, asked, layoutSerial, wantsRestart, unasked>>
  BY DEF HearLost, Pop
<1>2. /\ bus \in Seq(Messages) /\ left \in 0..Len(bus) /\ Heard
      /\ heard \in 0..MaxEvents /\ MaxEvents \in Nat /\ downs \in Nat
  BY <1>1, TrustAssumption DEF TypeOK, DesktopType, RenderType, LinkType, Take, Heard
<1>3. /\ Len(bus) \in Nat /\ Head(bus) = bus[1] /\ bus[1] \in Messages /\ Lost(1) /\ ~Back(1)
      /\ bus[1].is = "lost" /\ 1 \in 1..Len(bus)
      /\ \A i \in 1..Len(bus') : bus'[i] = bus[i + 1] /\ i + 1 \in 1..Len(bus)
      /\ \A i \in 1..Len(bus) : i > 1 => i - 1 \in 1..Len(bus') /\ bus'[i - 1] = bus[i]
  BY <1>1, <1>2, TakeEffect DEF Lost, Back
<1>4. /\ \A i \in 1..Len(bus') : Lost(i)' => Lost(i + 1)
      /\ \A i \in 1..Len(bus') : Back(i)' => Back(i + 1)
      /\ \A i \in 1..Len(bus) : i > 1 /\ Lost(i) => i - 1 \in 1..Len(bus') /\ Lost(i - 1)'
      /\ \A i \in 1..Len(bus) : i > 1 /\ Back(i) => i - 1 \in 1..Len(bus') /\ Back(i - 1)'
  BY <1>3 DEF Lost, Back
<1>5. heard < heard' /\ heard' <= downs /\ heard' \in Nat
  <2>1. bus[1].serial \in 0..MaxEvents
    BY <1>3 DEF Messages
  <2>2. heard < bus[1].serial /\ bus[1].serial <= downs
    BY <1>3 DEF BusInvs, OrderInv, Numbered
  <2> QED
    BY <1>1, <1>2, <1>3, <2>1, <2>2
<1>6. Numbered'
  <2>1. downs' + events' <= MaxEvents /\ heard' <= downs'
    BY <1>2, <1>5 DEF BusInvs, OrderInv, Numbered, Heard
  <2>2. ASSUME NEW i \in 1..Len(bus'), Lost(i)'
        PROVE  heard' < bus'[i].serial /\ bus'[i].serial <= downs'
    <3>1. Lost(i + 1) /\ 1 < i + 1 /\ i + 1 \in 1..Len(bus) /\ bus'[i] = bus[i + 1]
      BY <1>3, <1>4, <2>2
    <3>2. bus[1].serial < bus[i + 1].serial /\ bus[i + 1].serial <= downs
      BY <1>3, <3>1 DEF BusInvs, OrderInv, Numbered
    <3> QED
      BY <1>1, <1>2, <1>3, <3>1, <3>2 DEF Heard
  <2>3. ASSUME NEW i \in 1..Len(bus'), NEW j \in 1..Len(bus'), Lost(i)', Lost(j)', i < j
        PROVE  bus'[i].serial < bus'[j].serial
    <3>1. Lost(i + 1) /\ Lost(j + 1) /\ i + 1 < j + 1
      BY <1>4, <2>3
    <3>2. bus[i + 1].serial < bus[j + 1].serial
      BY <1>3, <3>1 DEF BusInvs, OrderInv, Numbered
    <3> QED
      BY <1>3, <3>2
  <2> QED
    BY <2>1, <2>2, <2>3 DEF Numbered
<1>7. AfterLoss'
  <2>1. heard' > 0
    BY <1>2, <1>5
  <2> QED
    BY <2>1 DEF AfterLoss
<1>8. Alternate'
  <2>1. ASSUME NEW i \in 1..Len(bus'), Lost(i)'
        PROVE  ~up \/ \E k \in 1..Len(bus') : Back(k)' /\ i < k
    <3>1. i + 1 \in 1..Len(bus) /\ Lost(i + 1) /\ i + 1 > 1
      BY <1>3, <1>4, <2>1
    <3>2. ~up \/ \E j \in 1..Len(bus) : Back(j) /\ i + 1 < j
      BY <3>1 DEF BusInvs, OrderInv, Alternate
    <3>3. ASSUME NEW j \in 1..Len(bus), Back(j), i + 1 < j
          PROVE  j - 1 \in 1..Len(bus') /\ Back(j - 1)' /\ i < j - 1
      BY <1>3, <1>4, <3>1, <3>3
    <3> QED
      BY <3>2, <3>3
  <2>2. ASSUME ~up, NEW i \in 1..Len(bus'), Back(i)'
        PROVE  \E k \in 1..Len(bus') : Lost(k)' /\ i < k
    <3>1. i + 1 \in 1..Len(bus) /\ Back(i + 1) /\ i + 1 > 1
      BY <1>3, <1>4, <2>2
    <3>2. PICK j \in 1..Len(bus) : Lost(j) /\ i + 1 < j
      BY <2>2, <3>1 DEF BusInvs, OrderInv, Alternate
    <3>3. j - 1 \in 1..Len(bus') /\ Lost(j - 1)' /\ i < j - 1
      BY <1>3, <1>4, <3>1, <3>2
    <3> QED
      BY <3>3
  <2>3. UNCHANGED up
    BY <1>2 DEF Heard
  <2> QED
    BY <2>1, <2>2, <2>3 DEF Alternate
<1>9. Between'
  BY <1>2, <1>3, <1>4 DEF BusInvs, OrderInv, Between, Heard
<1>10. NoneOpen'
  BY <1>1 DEF NoneOpen
<1>11. ExclInv'
  <2>1. ASSUME NEW i \in 1..Len(bus'), bus'[i].is = "exclude", bus'[i].ok
        PROVE  excluded' \/ \E j \in 1..Len(bus') : Lost(j)' /\ i < j
    BY <1>2, <1>3, <1>4, <2>1 DEF BusInvs, ExclInv, Heard
  <2> QED
    BY <1>1, <2>1 DEF ExclInv
<1>12. Refusals'
  <2>1. ASSUME NEW i \in 1..Len(bus'), bus'[i].is = "exclude", ~bus'[i].ok
        PROVE  refused \/ ~up \/ \E k \in 1..Len(bus') : Back(k)' /\ i < k
    <3>1. i + 1 \in 1..Len(bus) /\ bus[i + 1].is = "exclude" /\ ~bus[i + 1].ok
      BY <1>3, <2>1
    <3>2. refused \/ ~up \/ \E j \in 1..Len(bus) : Back(j) /\ i + 1 < j
      BY <3>1 DEF BusInvs, Refusals
    <3>3. ASSUME NEW j \in 1..Len(bus), Back(j), i + 1 < j
          PROVE  j - 1 \in 1..Len(bus') /\ Back(j - 1)' /\ i < j - 1
      BY <1>3, <1>4, <3>1, <3>3
    <3> QED
      BY <3>2, <3>3
  <2>2. UNCHANGED <<up, refused>>
    BY <1>1, <1>2 DEF Heard
  <2> QED
    BY <2>1, <2>2 DEF Refusals
<1>13. TrustDue'
  <2>1. ~up \/ \E j \in 1..Len(bus) : Back(j) /\ 1 < j
    BY <1>3 DEF BusInvs, OrderInv, Alternate
  <2>2. (\E j \in 1..Len(bus) : Back(j) /\ 1 < j) => \E k \in 1..Len(bus') : bus'[k].is = "back"
    BY <1>3 DEF Back
  <2> QED
    BY <1>1, <1>2, <2>1, <2>2 DEF TrustDue, Heard
<1>14. LayoutInv'
  BY <1>1, LayoutKept
<1> QED
  BY <1>6, <1>7, <1>8, <1>9, <1>10, <1>11, <1>12, <1>13, <1>14 DEF BusInvs, OrderInv

\* A return finds no request open, so the exclusion is asked for at once, unless
\* the request cannot be sent.
LEMMA HearBackBus ==
    ASSUME TypeOK, BusInvs, HearBack
    PROVE  BusInvs'
<1>1. /\ Take("back")
      /\ UNCHANGED <<asked, live, layoutSerial, wantsRestart, heard, unasked>>
  BY DEF HearBack
<1>2. /\ bus \in Seq(Messages) /\ left \in 0..Len(bus) /\ Heard
      /\ heard \in 0..MaxEvents /\ MaxEvents \in Nat /\ downs \in Nat
      /\ calls \in Seq(1..MaxEvents)
  BY <1>1, TrustAssumption DEF TypeOK, DesktopType, RenderType, LinkType, Take, Heard
<1>3. /\ Len(bus) \in Nat /\ Back(1) /\ ~Lost(1) /\ bus[1].is = "back" /\ 1 \in 1..Len(bus)
      /\ \A i \in 1..Len(bus') : bus'[i] = bus[i + 1] /\ i + 1 \in 1..Len(bus)
      /\ \A i \in 1..Len(bus) : i > 1 => i - 1 \in 1..Len(bus') /\ bus'[i - 1] = bus[i]
  BY <1>1, <1>2, TakeEffect DEF Lost, Back
<1>4. /\ \A i \in 1..Len(bus') : Lost(i)' => Lost(i + 1)
      /\ \A i \in 1..Len(bus') : Back(i)' => Back(i + 1)
      /\ \A i \in 1..Len(bus) : Lost(i) => i > 1 /\ i - 1 \in 1..Len(bus') /\ Lost(i - 1)'
      /\ \A i \in 1..Len(bus) : i > 1 /\ Back(i) => i - 1 \in 1..Len(bus') /\ Back(i - 1)'
  BY <1>3 DEF Lost, Back
<1>5. serial = 0 /\ heard \in 1..MaxEvents
  <2>1. \A j \in 1..Len(bus) : ~(j < 1)
    BY <1>3
  <2>2. serial = 0
    BY <1>3, <2>1 DEF BusInvs, OrderInv, NoneOpen
  <2>3. heard > 0
    BY <1>3, <2>1 DEF BusInvs, OrderInv, AfterLoss
  <2> QED
    BY <1>2, <2>2, <2>3
<1>6. \/ serial' = heard /\ calls' = Append(calls, heard)
      \/ serial' = 0 /\ (refused' \/ \E i \in 1..Len(bus') : bus'[i].is = "back")
  BY <1>5 DEF HearBack
<1>6a. refused => refused'
  BY DEF HearBack
<1>7. Numbered'
  <2>1. downs' + events' <= MaxEvents /\ heard' <= downs'
    BY <1>1, <1>2 DEF BusInvs, OrderInv, Numbered, Heard
  <2>2. ASSUME NEW i \in 1..Len(bus'), Lost(i)'
        PROVE  heard' < bus'[i].serial /\ bus'[i].serial <= downs'
    BY <1>1, <1>2, <1>3, <1>4, <2>2 DEF BusInvs, OrderInv, Numbered, Heard
  <2>3. ASSUME NEW i \in 1..Len(bus'), NEW j \in 1..Len(bus'), Lost(i)', Lost(j)', i < j
        PROVE  bus'[i].serial < bus'[j].serial
    <3>1. Lost(i + 1) /\ Lost(j + 1) /\ i + 1 < j + 1
      BY <1>4, <2>3
    <3>2. bus[i + 1].serial < bus[j + 1].serial
      BY <1>3, <3>1 DEF BusInvs, OrderInv, Numbered
    <3> QED
      BY <1>3, <3>2
  <2> QED
    BY <2>1, <2>2, <2>3 DEF Numbered
<1>8. AfterLoss'
  <2>1. heard' > 0
    BY <1>1, <1>5
  <2> QED
    BY <2>1 DEF AfterLoss
<1>9. Alternate'
  <2>1. ASSUME NEW i \in 1..Len(bus'), Lost(i)'
        PROVE  ~up \/ \E k \in 1..Len(bus') : Back(k)' /\ i < k
    <3>1. i + 1 \in 1..Len(bus) /\ Lost(i + 1) /\ i + 1 > 1
      BY <1>3, <1>4, <2>1
    <3>2. ~up \/ \E j \in 1..Len(bus) : Back(j) /\ i + 1 < j
      BY <3>1 DEF BusInvs, OrderInv, Alternate
    <3>3. ASSUME NEW j \in 1..Len(bus), Back(j), i + 1 < j
          PROVE  j - 1 \in 1..Len(bus') /\ Back(j - 1)' /\ i < j - 1
      BY <1>3, <1>4, <3>1, <3>3
    <3> QED
      BY <3>2, <3>3
  <2>2. ASSUME ~up, NEW i \in 1..Len(bus'), Back(i)'
        PROVE  \E k \in 1..Len(bus') : Lost(k)' /\ i < k
    <3>1. i + 1 \in 1..Len(bus) /\ Back(i + 1) /\ i + 1 > 1
      BY <1>3, <1>4, <2>2
    <3>2. PICK j \in 1..Len(bus) : Lost(j) /\ i + 1 < j
      BY <2>2, <3>1 DEF BusInvs, OrderInv, Alternate
    <3>3. j - 1 \in 1..Len(bus') /\ Lost(j - 1)' /\ i < j - 1
      BY <1>3, <1>4, <3>1, <3>2
    <3> QED
      BY <3>3
  <2>3. UNCHANGED up
    BY <1>2 DEF Heard
  <2> QED
    BY <2>1, <2>2, <2>3 DEF Alternate
<1>10. Between'
  BY <1>2, <1>3, <1>4 DEF BusInvs, OrderInv, Between, Heard
<1>11. NoneOpen'
  <2>1. ASSUME NEW i \in 1..Len(bus'), Back(i)'
        PROVE  \E j \in 1..Len(bus') : Lost(j)' /\ j < i
    <3>1. Back(i + 1) /\ 1 < i + 1 /\ i + 1 \in 1..Len(bus)
      BY <1>3, <1>4, <2>1
    <3>2. PICK j \in 1..Len(bus) : Lost(j) /\ 1 < j /\ j < i + 1
      BY <1>3, <3>1 DEF BusInvs, OrderInv, Between
    <3> QED
      BY <1>3, <1>4, <3>2
  <2>2. ASSUME ~up'
        PROVE  \E j \in 1..Len(bus') : Lost(j)'
    <3>1. PICK j \in 1..Len(bus) : Lost(j)
      BY <1>2, <1>3, <2>2 DEF BusInvs, OrderInv, Alternate, Heard
    <3> QED
      BY <1>4, <3>1
  <2> QED
    BY <2>1, <2>2 DEF NoneOpen
<1>12. ExclInv'
  BY <1>1, GrantHeard
<1>13. Refusals'
  <2>1. ASSUME NEW i \in 1..Len(bus'), bus'[i].is = "exclude", ~bus'[i].ok
        PROVE  refused \/ ~up \/ \E k \in 1..Len(bus') : Back(k)' /\ i < k
    <3>1. i + 1 \in 1..Len(bus) /\ bus[i + 1].is = "exclude" /\ ~bus[i + 1].ok
      BY <1>3, <2>1
    <3>2. refused \/ ~up \/ \E j \in 1..Len(bus) : Back(j) /\ i + 1 < j
      BY <3>1 DEF BusInvs, Refusals
    <3>3. ASSUME NEW j \in 1..Len(bus), Back(j), i + 1 < j
          PROVE  j - 1 \in 1..Len(bus') /\ Back(j - 1)' /\ i < j - 1
      BY <1>3, <1>4, <3>1, <3>3
    <3> QED
      BY <3>2, <3>3
  <2>2. UNCHANGED up /\ (refused => refused')
    BY <1>2, <1>6a DEF Heard
  <2> QED
    BY <2>1, <2>2 DEF Refusals
<1>14. TrustDue'
  <2>1. CASE serial' = heard /\ calls' = Append(calls, heard)
    <3>1. Len(calls') \in 1..Len(calls') /\ calls'[Len(calls')] = serial'
      BY <1>2, <1>5, <2>1
    <3>2. Granted(serial)'
      BY <3>1 DEF Granted
    <3>3. serial' # 0
      BY <1>2, <1>5, <2>1
    <3> QED
      BY <3>2, <3>3 DEF TrustDue
  <2>2. CASE refused' \/ \E i \in 1..Len(bus') : bus'[i].is = "back"
    BY <2>2 DEF TrustDue
  <2> QED
    BY <1>6, <2>1, <2>2
<1>15. LayoutInv'
  BY <1>1, LayoutKept
<1> QED
  BY <1>7, <1>8, <1>9, <1>10, <1>11, <1>12, <1>13, <1>14, <1>15 DEF BusInvs, OrderInv

\* A change of the layout: a request is open, or one is made.
LEMMA HearChangedBus ==
    ASSUME TypeOK, BusInvs, HearChanged
    PROVE  BusInvs'
<1>1. /\ Take("changed") /\ UNCHANGED <<calls, live, serial, wantsRestart, heard, refused>>
      /\ \/ UNCHANGED <<layoutSerial, asked>> /\ (layoutSerial \/ unasked')
         \/ asked' /\ layoutSerial'
      /\ unasked => unasked' \/ asked'
      /\ layoutSerial' => layoutSerial \/ asked'
      /\ asked => asked'
  BY DEF HearChanged
<1>2. bus \in Seq(Messages) /\ left \in 0..Len(bus) /\ Heard
  BY <1>1 DEF TypeOK, DesktopType, RenderType, Take, Heard
<1>3. /\ Len(bus) \in Nat /\ bus[1].is = "changed"
      /\ \A i \in 1..Len(bus') : bus'[i] = bus[i + 1] /\ i + 1 \in 1..Len(bus)
      /\ \A i \in 1..Len(bus) : i > 1 => i - 1 \in 1..Len(bus') /\ bus'[i - 1] = bus[i]
  BY <1>1, <1>2, TakeEffect
<1>4. OrderInv' /\ Refusals'
  BY <1>1, OtherHeard
<1>5. ExclInv'
  BY <1>1, GrantHeard
<1>6. TrustDue'
  BY <1>1, DueKept
<1>7. LayoutInv'
  <2>1. layoutSerial => asked \/ \E i \in 1..Len(bus') : bus'[i].is = "layout"
    <3>1. ASSUME NEW i \in 1..Len(bus), bus[i].is = "layout"
          PROVE  \E k \in 1..Len(bus') : bus'[k].is = "layout"
      BY <1>3, <3>1
    <3> QED
      BY <3>1 DEF BusInvs, LayoutInv
  <2>2. unasked' \/ asked' \/ \E i \in 1..Len(bus') : bus'[i].is = "layout"
    BY <1>1, <2>1
  <2>3. ASSUME NEW i \in 1..Len(bus), bus[i].is = "layout", ~bus[i].ok
        PROVE  \E k \in 1..Len(bus') : bus'[k].is = "layout" /\ ~bus'[k].ok
    BY <1>3, <2>3
  <2>4. ASSUME NEW i \in 1..Len(bus), bus[i].is = "changed",
               \A j \in 1..Len(bus) : i < j => bus[j].is # "layout"
        PROVE  \/ asked' \/ unasked'
               \/ \E k \in 1..Len(bus') :
                     /\ bus'[k].is = "changed"
                     /\ \A j \in 1..Len(bus') : k < j => bus'[j].is # "layout"
    <3>1. CASE i = 1
      <4>1. \A j \in 1..Len(bus') : bus'[j].is # "layout"
        BY <1>3, <2>4, <3>1
      <4> QED
        BY <2>2, <4>1
    <3>2. CASE i # 1
      <4>1. i - 1 \in 1..Len(bus') /\ bus'[i - 1].is = "changed"
        BY <1>3, <2>4, <3>2
      <4>2. \A j \in 1..Len(bus') : i - 1 < j => bus'[j].is # "layout"
        BY <1>3, <2>4
      <4> QED
        BY <4>1, <4>2
    <3> QED
      BY <3>1, <3>2
  <2>5. layoutSerial' => asked' \/ \E i \in 1..Len(bus') : bus'[i].is = "layout"
    BY <1>1, <2>1
  <2>6. ASSUME moved, ~unasked'
        PROVE  \/ wantsRestart \/ asked'
               \/ \E i \in 1..Len(bus') : bus'[i].is = "layout" /\ ~bus'[i].ok
               \/ \E i \in 1..Len(bus') :
                     /\ bus'[i].is = "changed"
                     /\ \A j \in 1..Len(bus') : i < j => bus'[j].is # "layout"
    <3>1. CASE asked'
      BY <3>1
    <3>2. CASE ~asked'
      <4>1. ~unasked /\ ~asked
        BY <1>1, <2>6, <3>2
      <4> QED
        BY <2>3, <2>4, <2>6, <3>2, <4>1 DEF BusInvs, LayoutInv
    <3> QED
      BY <3>1, <3>2
  <2>7. UNCHANGED <<moved, wantsRestart>>
    BY <1>1, <1>2 DEF Heard
  <2> QED
    BY <2>5, <2>6, <2>7 DEF LayoutInv
<1> QED
  BY <1>4, <1>5, <1>6, <1>7 DEF BusInvs

\* The answer: the request is over, and a difference is remembered.
LEMMA HearLayoutBus ==
    ASSUME TypeOK, BusInvs, HearLayout
    PROVE  BusInvs'
<1>1. /\ Take("layout") /\ UNCHANGED <<refused, unasked>> /\ layoutSerial' = FALSE
      /\ wantsRestart' = (wantsRestart \/ ~Head(bus).ok)
      /\ UNCHANGED <<calls, asked, live, serial, heard>>
  BY DEF HearLayout, Pop
<1>2. bus \in Seq(Messages) /\ left \in 0..Len(bus) /\ Heard
  BY <1>1 DEF TypeOK, DesktopType, RenderType, Take, Heard
<1>3. /\ Len(bus) \in Nat /\ Head(bus) = bus[1] /\ bus[1].is = "layout"
      /\ \A i \in 1..Len(bus') : bus'[i] = bus[i + 1] /\ i + 1 \in 1..Len(bus)
      /\ \A i \in 1..Len(bus) : i > 1 => i - 1 \in 1..Len(bus') /\ bus'[i - 1] = bus[i]
  BY <1>1, <1>2, TakeEffect
<1>4. OrderInv' /\ Refusals'
  BY <1>1, OtherHeard
<1>5. ExclInv'
  BY <1>1, GrantHeard
<1>6. TrustDue'
  BY <1>1, DueKept
<1>7. LayoutInv'
  <2>1. ASSUME NEW i \in 1..Len(bus), bus[i].is = "layout", ~bus[i].ok
        PROVE  \/ wantsRestart'
               \/ \E k \in 1..Len(bus') : bus'[k].is = "layout" /\ ~bus'[k].ok
    <3>1. CASE i = 1
      BY <1>1, <1>3, <2>1, <3>1
    <3>2. CASE i # 1
      <4>1. i - 1 \in 1..Len(bus') /\ bus'[i - 1] = bus[i]
        BY <1>3, <3>2
      <4> QED
        BY <2>1, <4>1
    <3> QED
      BY <3>1, <3>2
  <2>2. ASSUME NEW i \in 1..Len(bus), bus[i].is = "changed",
               \A j \in 1..Len(bus) : i < j => bus[j].is # "layout"
        PROVE  \E k \in 1..Len(bus') :
                  /\ bus'[k].is = "changed"
                  /\ \A j \in 1..Len(bus') : k < j => bus'[j].is # "layout"
    <3>1. i - 1 \in 1..Len(bus') /\ bus'[i - 1].is = "changed"
      BY <1>3, <2>2
    <3>2. \A j \in 1..Len(bus') : i - 1 < j => bus'[j].is # "layout"
      BY <1>3, <2>2
    <3> QED
      BY <3>1, <3>2
  <2> QED
    BY <1>1, <1>2, <2>1, <2>2 DEF BusInvs, LayoutInv, Heard
<1> QED
  BY <1>4, <1>5, <1>6, <1>7 DEF BusInvs

\* The messages keep their order whoever moves.
LEMMA BusStep ==
    ASSUME TypeOK, BusInvs, [Next]_vars
    PROVE  BusInvs'
<1>1. ASSUME NEW b \in Buffers, Record(b)
      PROVE  BusInvs'
  BY <1>1, BusStable DEF Record, DesktopOnly
<1>2. CASE OnProcess
  <2>1. UNCHANGED <<up, excluded, downs, calls, moved, events, asked, bus, refused, link>>
    BY <1>2
       DEF OnProcess, Dequeue, CopyOut, MarkDirty, StoreSeq, ProducePreview, PublishSlot, CountFrame, PwOnly
  <2> QED
    BY <2>1, BusStable
<1>3. CASE PollBegins \/ Gate \/ CheckSeq \/ TakeDirty \/ Compose \/ GetPreview
  <2>1. UNCHANGED <<up, excluded, downs, calls, moved, events, asked, bus, refused, link>>
    BY <1>3
       DEF PollBegins, Gate, CheckSeq, TakeDirty, Compose, GetPreview, RenderOnly, desktop
  <2> QED
    BY <2>1, BusStable
<1>4. CASE UNCHANGED vars
  BY <1>4, BusStable DEF vars, desktop
<1>5. CASE Pump
  BY <1>5, HearExcludedBus, HearStaleBus, HearLostBus, HearBackBus, HearChangedBus,
     HearLayoutBus DEF Pump
<1> QED
  BY <1>1, <1>2, <1>3, <1>4, <1>5, LossTold, ReturnTold, AnswerTold, ChangeTold, LayoutTold
     DEF Next, Desktop, Render

-----------------------------------------------------------------------------
(* The frames in flight.                                                   *)

\* A frame recorded now shows the desktop alone, or a loss the pump will be told of.
LEMMA RecordedClean ==
    ASSUME TypeOK, OrderInv, ExclInv, live
    PROVE  Clean(IF excluded THEN 0 ELSE downs)
<1>1. CASE excluded
  BY <1>1 DEF Clean
<1>2. CASE ~excluded
  <2>1. PICK j \in 1..Len(bus) : Lost(j)
    BY <1>2 DEF ExclInv
  <2>2. bus[j] \in Messages /\ MaxEvents \in Nat /\ downs \in 0..MaxEvents
        /\ heard \in 0..MaxEvents
    BY TrustAssumption DEF TypeOK, DesktopType, LinkType
  <2>3. bus[j].serial \in 0..MaxEvents
    BY <2>2 DEF Messages
  <2>4. heard < bus[j].serial /\ bus[j].serial <= downs
    BY <2>1 DEF OrderInv, Numbered
  <2>5. downs > heard
    BY <2>2, <2>3, <2>4
  <2> QED
    BY <1>2, <2>5 DEF Clean
<1> QED
  BY <1>1, <1>2

\* The pool bounds the frames in flight.
LEMMA InFlightBound ==
    ASSUME TypeOK, FlightInv
    PROVE  Len(frames) + Busy <= Cardinality(Buffers)
<1>1. /\ frames \in Seq(Frames) /\ Len(frames) \in Nat /\ held \in Frames \cup {NoFrame}
      /\ IsFiniteSet(Buffers) /\ None \notin Buffers
  BY TrustAssumption DEF TypeOK, DesktopType, StreamType
<1> DEFINE Idle == Buffers \ {held.buffer}
           f == [i \in 1..Len(frames) |-> frames[i].buffer]
<1>2. IsFiniteSet(Idle) /\ Cardinality(Buffers) \in Nat /\ Cardinality(Idle) \in Nat
      /\ Cardinality(Idle) = IF held.buffer \in Buffers THEN Cardinality(Buffers) - 1
                             ELSE Cardinality(Buffers)
  BY <1>1, FS_RemoveElement, FS_CardinalityType
<1>3. pw # "idle" => held.buffer \in Buffers
  <2>1. pw # "idle" => held # NoFrame
    BY DEF FlightInv
  <2>2. held \in Frames => held.buffer \in Buffers
    BY DEF Frames
  <2> QED
    BY <1>1, <2>1, <2>2
<1>4. \A i \in 1..Len(frames) : frames[i].buffer \in Idle
  <2>1. ASSUME NEW i \in 1..Len(frames)
        PROVE  frames[i].buffer \in Buffers
    <3>1. frames[i] \in Frames
      BY <1>1
    <3> QED
      BY <3>1 DEF Frames
  <2> QED
    BY <2>1 DEF FlightInv
<1>5. f \in Injection(1..Len(frames), Idle)
  <2>1. f \in [1..Len(frames) -> Idle]
    BY <1>4
  <2>2. \A i, j \in 1..Len(frames) : f[i] = f[j] => i = j
    BY DEF FlightInv
  <2> QED
    BY <2>1, <2>2 DEF Injection, IsInjective
<1>6. Cardinality(1..Len(frames)) <= Cardinality(Idle)
  BY <1>2, <1>5, FS_Injection
<1>7. Cardinality(1..Len(frames)) = Len(frames)
  <2>1. 1 \in Int /\ Len(frames) \in Int
    BY <1>1
  <2>2. Cardinality(1..Len(frames)) = IF 1 > Len(frames) THEN 0 ELSE Len(frames) - 1 + 1
    BY <2>1, FS_Interval
  <2> QED
    BY <1>1, <2>2
<1> HIDE DEF Idle, f
<1> QED
  BY <1>1, <1>2, <1>3, <1>6, <1>7 DEF Busy

\* A frame is recorded into a buffer that is not in flight.
LEMMA RecordFlight ==
    ASSUME IInv, NEW b \in Buffers, Record(b)
    PROVE  FlightInv'
<1>1. /\ b # held.buffer /\ \A i \in 1..Len(frames) : frames[i].buffer # b
      /\ frames' = Append(frames, [buffer |-> b, of |-> IF excluded THEN 0 ELSE downs])
      /\ UNCHANGED <<live, heard, toSkip, pw, held>>
  BY DEF Record, DesktopOnly, link, trust, stream
<1>2. frames \in Seq(Frames) /\ Len(frames) \in Nat
  BY DEF IInv, TypeOK, DesktopType
<1>3. PICK e : e = [buffer |-> b, of |-> IF excluded THEN 0 ELSE downs]
  OBVIOUS
<1>4. e.buffer = b /\ e.of = IF excluded THEN 0 ELSE downs
  BY <1>3
<1>5. PICK n \in Nat : n = Len(frames) + 1
  BY <1>2
<1>6. /\ n \in 1..Len(frames') /\ frames'[n] = e
      /\ \A i \in 1..Len(frames') : i = n \/ (i \in 1..Len(frames) /\ frames'[i] = frames[i])
  BY <1>1, <1>2, <1>3, <1>5
<1>7. live' => Clean(e.of)'
  BY <1>1, <1>4, RecordedClean DEF IInv, Clean
<1>8. \A i, j \in 1..Len(frames') : frames'[i].buffer = frames'[j].buffer => i = j
  BY <1>1, <1>4, <1>6 DEF IInv, FlightInv
<1>9. \A i \in 1..Len(frames') : frames'[i].buffer # held'.buffer
  BY <1>1, <1>4, <1>6 DEF IInv, FlightInv
<1>10. ASSUME live', NEW i \in 1..Len(frames')
       PROVE  Clean(frames[i].of)' \/ i + Busy' <= toSkip'
  <2>1. CASE i = n
    BY <1>6, <1>7, <1>10, <2>1
  <2>2. CASE i # n
    BY <1>1, <1>6, <1>10, <2>2 DEF IInv, FlightInv, Clean, Busy
  <2> QED
    BY <2>1, <2>2
<1>11. (live' => Clean(held.of)' \/ toSkip' > 0) /\ (pw' = "idle" <=> held' = NoFrame)
  BY <1>1 DEF IInv, FlightInv, Clean
<1> QED
  BY <1>8, <1>9, <1>10, <1>11 DEF FlightInv

\* The newest of some frames is taken, the ones before it are dropped.
LEMMA DequeueFlight ==
    ASSUME IInv, Dequeue
    PROVE  FlightInv'
<1>1. PICK n \in 1..Len(frames) :
         held' = frames[n] /\ frames' = SubSeq(frames, n + 1, Len(frames))
  BY DEF Dequeue
<1>2. /\ pw = "idle" /\ pw' = "copy" /\ UNCHANGED <<live, heard, toSkip>>
      /\ frames \in Seq(Frames) /\ Len(frames) \in Nat
      /\ toSkip \in Int
  BY FS_CardinalityType, TrustAssumption
     DEF Dequeue, Pw, PwOnly, trust, link, IInv, TypeOK, DesktopType, SlotType
<1>3. /\ \A i \in 1..Len(frames') : n + i \in 1..Len(frames) /\ frames'[i] = frames[n + i]
  BY <1>1, <1>2
<1>4. held' # NoFrame
  BY <1>1, <1>2, TrustAssumption DEF Frames, NoFrame
<1>5. \A i, j \in 1..Len(frames') : frames'[i].buffer = frames'[j].buffer => i = j
  <2>1. SUFFICES ASSUME NEW i \in 1..Len(frames'), NEW j \in 1..Len(frames'),
                        frames'[i].buffer = frames'[j].buffer
                 PROVE  i = j
    OBVIOUS
  <2>2. n + i = n + j
    BY <1>3, <2>1 DEF IInv, FlightInv
  <2> QED
    BY <1>2, <2>2
<1>6. ASSUME NEW i \in 1..Len(frames')
      PROVE  frames'[i].buffer # held'.buffer
  <2>1. n + i # n
    BY <1>2
  <2> QED
    BY <1>1, <1>3, <2>1 DEF IInv, FlightInv
<1>7. ASSUME live', NEW i \in 1..Len(frames')
      PROVE  Clean(frames[i].of)' \/ i + Busy' <= toSkip'
  <2>1. Clean(frames[n + i].of) \/ n + i + 0 <= toSkip
    BY <1>2, <1>3, <1>7 DEF IInv, FlightInv, Busy
  <2>2. Busy' = 1
    BY <1>2 DEF Busy
  <2>3. CASE Clean(frames[n + i].of)
    BY <1>2, <1>3, <2>3 DEF Clean
  <2>4. CASE n + i + 0 <= toSkip
    BY <1>2, <2>2, <2>4
  <2> QED
    BY <2>1, <2>3, <2>4
<1>8. live' => Clean(held.of)' \/ toSkip' > 0
  <2>1. live => Clean(frames[n].of) \/ n + 0 <= toSkip
    BY <1>2 DEF IInv, FlightInv, Busy
  <2>2. Clean(frames[n].of) => Clean(held.of)'
    BY <1>1, <1>2 DEF Clean
  <2> QED
    BY <1>2, <2>1, <2>2
<1> QED
  BY <1>2, <1>4, <1>5, <1>6, <1>7, <1>8 DEF FlightInv

\* The buffer goes back, and one frame less is skipped.
LEMMA CountFlight ==
    ASSUME IInv, CountFrame
    PROVE  FlightInv'
<1>1. /\ pw = "count" /\ pw' = "idle" /\ held' = NoFrame
      /\ toSkip' = (IF toSkip = 0 THEN 0 ELSE toSkip - 1)
      /\ UNCHANGED <<frames, live, heard>>
      /\ frames \in Seq(Frames) /\ Len(frames) \in Nat
      /\ toSkip \in Nat
  BY FS_CardinalityType, TrustAssumption
     DEF CountFrame, Pw, PwOnly, link, IInv, TypeOK, DesktopType, SlotType
<1>2. \A i \in 1..Len(frames') : frames'[i].buffer # held'.buffer
  <2>1. ASSUME NEW i \in 1..Len(frames)
        PROVE  frames[i].buffer \in Buffers
    <3>1. frames[i] \in Frames
      BY <1>1
    <3> QED
      BY <3>1 DEF Frames
  <2>2. held'.buffer = None
    BY <1>1 DEF NoFrame
  <2> QED
    BY <1>1, <2>1, <2>2, TrustAssumption
<1>3. ASSUME live', NEW i \in 1..Len(frames')
      PROVE  Clean(frames[i].of)' \/ i + Busy' <= toSkip'
  <2>1. Clean(frames[i].of) \/ i + 1 <= toSkip
    BY <1>1, <1>3 DEF IInv, FlightInv, Busy
  <2>2. Busy' = 0
    BY <1>1 DEF Busy
  <2>3. CASE Clean(frames[i].of)
    BY <1>1, <2>3 DEF Clean
  <2>4. CASE i + 1 <= toSkip
    BY <1>1, <2>2, <2>4
  <2> QED
    BY <2>1, <2>3, <2>4
<1>4. Clean(held.of)'
  BY <1>1 DEF Clean, NoFrame
<1> QED
  BY <1>1, <1>2, <1>3, <1>4 DEF IInv, FlightInv

\* The flight is about these variables only.
LEMMA FlightKept ==
    ASSUME FlightInv, Busy' = Busy, pw' = "idle" <=> pw = "idle",
           UNCHANGED <<frames, held, heard, toSkip>>, live' => live
    PROVE  FlightInv'
<1>1. /\ pw' = "idle" <=> held' = NoFrame
      /\ \A i, j \in 1..Len(frames') : frames'[i].buffer = frames'[j].buffer => i = j
      /\ \A i \in 1..Len(frames') : frames'[i].buffer # held'.buffer
  BY DEF FlightInv
<1>2. live' => \A i \in 1..Len(frames') : Clean(frames[i].of)' \/ i + Busy' <= toSkip'
  BY DEF FlightInv, Clean
<1>3. live' => Clean(held.of)' \/ toSkip' > 0
  BY DEF FlightInv, Clean
<1> QED
  BY <1>1, <1>2, <1>3 DEF FlightInv

\* Once the exclusion is granted again, all that is in flight is skipped.
LEMMA GrantFlight ==
    ASSUME IInv, HearExcluded
    PROVE  FlightInv'
<1>1. UNCHANGED <<frames, pw, held, heard>>
  BY DEF HearExcluded, Pop, Take, stream
<1>2. Busy' = Busy
  BY <1>1 DEF Busy
<1>3. CASE ~Head(bus).ok
  BY <1>1, <1>2, <1>3, FlightKept DEF HearExcluded, IInv, trust
<1>4. CASE Head(bus).ok
  <2>1. toSkip' = Cardinality(Buffers) + 1 /\ Cardinality(Buffers) \in Nat
    BY <1>4, FS_CardinalityType, TrustAssumption DEF HearExcluded, RetrustAfter
  <2>2. Len(frames) + Busy <= Cardinality(Buffers) /\ Len(frames) \in Nat /\ Busy \in Nat
    BY InFlightBound DEF IInv, TypeOK, DesktopType, Busy
  <2>3. \A i \in 1..Len(frames') : i + Busy' <= toSkip'
    BY <1>1, <1>2, <2>1, <2>2
  <2>4. toSkip' > 0
    BY <2>1
  <2> QED
    BY <1>1, <2>3, <2>4 DEF IInv, FlightInv
<1> QED
  BY <1>3, <1>4

\* A loss ends the trust, whatever is in flight.
LEMMA LossFlight ==
    ASSUME IInv, HearLost
    PROVE  FlightInv'
<1>1. UNCHANGED <<frames, pw, held>> /\ live' = FALSE
  BY DEF HearLost, Pop, Take, stream
<1> QED
  BY <1>1 DEF IInv, FlightInv

\* The frames in flight, whoever moves.
LEMMA FlightStep ==
    ASSUME IInv, [Next]_vars
    PROVE  FlightInv'
<1>1. CASE CopyOut \/ MarkDirty \/ StoreSeq \/ ProducePreview \/ PublishSlot
  <2>1. /\ UNCHANGED <<frames, held, heard, toSkip, live>> /\ pw # "idle" /\ pw' # "idle"
    BY <1>1 DEF CopyOut, MarkDirty, StoreSeq, ProducePreview, PublishSlot, Pw, PwOnly, link, trust
  <2> QED
    BY <2>1, FlightKept DEF IInv, Busy
<1>2. CASE \/ ExtensionLost \/ ExtensionBack \/ LayoutChanges \/ AnswerLayout
           \/ (\E ok \in BOOLEAN : AnswerExclude(ok)) \/ UNCHANGED vars
           \/ HearStale \/ HearBack \/ HearChanged \/ HearLayout
           \/ PollBegins \/ Gate \/ CheckSeq \/ TakeDirty \/ Compose \/ GetPreview
  <2>1. UNCHANGED <<frames, held, heard, toSkip, live, pw>>
    BY <1>2
       DEF ExtensionLost, ExtensionBack, LayoutChanges, AnswerLayout, AnswerExclude,
           DesktopOnly, vars, HearStale, HearBack, HearChanged, HearLayout, Pop, Take, PollBegins,
           Gate, CheckSeq, TakeDirty, Compose, GetPreview, RenderOnly, desktop, link, trust,
           stream
  <2> QED
    BY <2>1, FlightKept DEF IInv, Busy
<1> QED
  BY <1>1, <1>2, RecordFlight, DequeueFlight, CountFlight, GrantFlight, LossFlight
     DEF Next, Desktop, OnProcess, Render, Pump

-----------------------------------------------------------------------------
(* The slots and the previews.                                             *)

\* What a picture is compared with does not change while nothing is heard.
LEMMA FreshKept ==
    ASSUME NEW b, UNCHANGED heard, Fresh(b),
           dirty'[b] = dirty[b], image'[b] = image[b],
           at = "copy" /\ upload /\ idx = b => at' = "copy" /\ upload' /\ idx' = b
    PROVE  Fresh(b)'
  BY DEF Fresh, Clean

\* The slots are about these variables only.
LEMMA SlotKept ==
    ASSUME SlotInv,
           UNCHANGED <<toSkip, trusted, front, mid, pw, held, staging, dirty, image, heard>>,
           live' => live,
           \A b \in Buffers : at = "copy" /\ upload /\ idx = b
                                  => at' = "copy" /\ upload' /\ idx' = b,
           pw \in {"mark", "seq"} => held.buffer \in Buffers
    PROVE  SlotInv'
<1>1. \A b \in Buffers : Fresh(b) => Fresh(b)'
  BY FreshKept
<1>2. /\ toSkip' > 0 => (\A b \in Buffers : ~trusted'[b]) /\ front' = None /\ mid' = None
      /\ pw' \in {"mark", "seq"} => staging'[held'.buffer] = held'.of
  BY DEF SlotInv
<1>3. live' => \A b \in Buffers : trusted'[b] => Clean(staging[b])' /\ Fresh(b)'
  BY <1>1 DEF SlotInv, Clean
<1>4. live' /\ toSkip' = 0 /\ pw' = "seq" => Fresh(held.buffer)'
  BY <1>1 DEF SlotInv
<1>5. live' => (front' = None \/ Clean(front)') /\ (mid' = None \/ Clean(mid)')
  BY DEF SlotInv, Clean
<1> QED
  BY <1>2, <1>3, <1>4, <1>5 DEF SlotInv

\* While it works on a frame, the PipeWire thread holds a buffer of the pool.
LEMMA HeldBuffer ==
    ASSUME TypeOK, FlightInv, pw # "idle"
    PROVE  held \in Frames /\ held.buffer \in Buffers
<1>1. held # NoFrame
  BY DEF FlightInv
<1>2. held \in Frames
  BY <1>1 DEF TypeOK, StreamType
<1> QED
  BY <1>2 DEF Frames

\* on_process: what it stores is clean when it is trusted.
LEMMA StreamSlots ==
    ASSUME IInv, OnProcess
    PROVE  SlotInv'
<1>1. UNCHANGED <<live, heard, at, upload, idx>>
  BY DEF OnProcess, Dequeue, CopyOut, MarkDirty, StoreSeq, ProducePreview, PublishSlot, CountFrame, PwOnly,
         link, render
<1>2. TypeOK /\ FlightInv /\ SlotInv
  BY DEF IInv
<1>3. toSkip \in Nat /\ staging \in [Buffers -> Pictures] /\ dirty \in [Buffers -> BOOLEAN]
      /\ trusted \in [Buffers -> BOOLEAN]
  BY <1>2, FS_CardinalityType, TrustAssumption DEF TypeOK, SlotType
<1>4. CASE Dequeue
  <2>1. /\ UNCHANGED <<toSkip, trusted, front, mid, staging, dirty, image>>
        /\ pw' = "copy"
    BY <1>4 DEF Dequeue, Pw, slots, trust, views
  <2>2. \A b \in Buffers : Fresh(b) => Fresh(b)'
    BY <1>1, <2>1, FreshKept
  <2> QED
    BY <1>1, <1>2, <2>1, <2>2 DEF SlotInv, Clean
<1>5. CASE CopyOut
  <2>1. /\ pw = "copy" /\ pw' = "mark" /\ staging' = [staging EXCEPT ![held.buffer] = held.of]
        /\ UNCHANGED <<toSkip, trusted, front, mid, dirty, image, held>>
    BY <1>5 DEF CopyOut, Pw, trust, views
  <2>2. held.buffer \in Buffers
    BY <1>2, <2>1, HeldBuffer
  <2>3. \A b \in Buffers : Fresh(b) => Fresh(b)'
    BY <1>1, <2>1, FreshKept
  <2>4. staging'[held'.buffer] = held'.of
    BY <1>3, <2>1, <2>2
  <2>5. ASSUME live, NEW b \in Buffers, trusted[b]
        PROVE  Clean(staging[b])' /\ Fresh(b)'
    <3>1. toSkip = 0 /\ Clean(held.of) /\ Clean(staging[b]) /\ Fresh(b)
      BY <1>2, <1>3, <2>5 DEF SlotInv, FlightInv
    <3>2. staging'[b] = IF b = held.buffer THEN held.of ELSE staging[b]
      BY <1>3, <2>1
    <3> QED
      BY <1>1, <2>3, <3>1, <3>2 DEF Clean
  <2> QED
    BY <1>1, <1>2, <2>1, <2>4, <2>5 DEF SlotInv, Clean
<1>6. CASE MarkDirty
  <2>1. /\ pw = "mark" /\ pw' = "seq" /\ dirty' = [dirty EXCEPT ![held.buffer] = TRUE]
        /\ UNCHANGED <<toSkip, trusted, front, mid, staging, image, held>>
    BY <1>6 DEF MarkDirty, Pw, trust, views
  <2>2. held.buffer \in Buffers
    BY <1>2, <2>1, HeldBuffer
  <2>3. Fresh(held.buffer)'
    BY <1>3, <2>1, <2>2 DEF Fresh
  <2>4. ASSUME NEW b \in Buffers, Fresh(b)
        PROVE  Fresh(b)'
    <3>1. CASE b = held.buffer
      BY <2>1, <2>3, <3>1
    <3>2. CASE b # held.buffer
      BY <1>1, <1>3, <2>1, <2>4, <3>2, FreshKept
    <3> QED
      BY <3>1, <3>2
  <2> QED
    BY <1>1, <1>2, <2>1, <2>3, <2>4 DEF SlotInv, Clean
<1>7. CASE StoreSeq
  <2>1. /\ pw = "seq" /\ pw' = "preview"
        /\ trusted' = [trusted EXCEPT ![held.buffer] = (toSkip = 0)]
        /\ UNCHANGED <<toSkip, front, mid, staging, dirty, image, held>>
    BY <1>7 DEF StoreSeq, Pw, slots, views
  <2>2. held.buffer \in Buffers
    BY <1>2, <2>1, HeldBuffer
  <2>3. \A b \in Buffers : Fresh(b) => Fresh(b)'
    BY <1>1, <2>1, FreshKept
  <2>4. \A b \in Buffers : trusted'[b] => (b = held.buffer /\ toSkip = 0) \/ trusted[b]
    BY <1>3, <2>1
  <2>5. ASSUME live, NEW b \in Buffers, trusted'[b]
        PROVE  Clean(staging[b])' /\ Fresh(b)'
    <3>1. CASE trusted[b]
      BY <1>1, <1>2, <2>1, <2>3, <2>5, <3>1 DEF SlotInv, Clean
    <3>2. CASE b = held.buffer /\ toSkip = 0
      <4>1. Clean(held.of) /\ staging[b] = held.of /\ Fresh(b)
        BY <1>2, <2>1, <2>5, <3>2 DEF SlotInv, FlightInv
      <4> QED
        BY <1>1, <2>1, <2>3, <4>1 DEF Clean
    <3> QED
      BY <2>4, <2>5, <3>1, <3>2
  <2>6. toSkip' > 0 => \A b \in Buffers : ~trusted'[b]
    BY <1>2, <1>3, <2>1, <2>4 DEF SlotInv
  <2> QED
    BY <1>1, <1>2, <2>1, <2>5, <2>6 DEF SlotInv, Clean
<1>8. CASE ProducePreview
  <2>1. /\ pw = "preview" /\ pw' = "publish"
        /\ UNCHANGED <<toSkip, trusted, front, staging, dirty, image, held>>
        /\ mid' = mid \/ mid' = (IF toSkip = 0 THEN held.of ELSE None)
    BY <1>8 DEF ProducePreview, Pw, slots, trust
  <2>2. \A b \in Buffers : Fresh(b) => Fresh(b)'
    BY <1>1, <2>1, FreshKept
  <2>3. live => mid' = None \/ Clean(mid)'
    BY <1>1, <1>2, <2>1 DEF SlotInv, FlightInv, Clean
  <2>4. toSkip' > 0 => mid' = None
    BY <1>2, <2>1 DEF SlotInv
  <2> QED
    BY <1>1, <1>2, <2>1, <2>2, <2>3, <2>4 DEF SlotInv, Clean
<1>9. CASE PublishSlot
  <2>1. /\ pw = "publish" /\ pw' = "count"
        /\ UNCHANGED <<toSkip, trusted, front, mid, staging, dirty, image, held>>
    BY <1>9 DEF PublishSlot, Pw, trust, views
  <2>2. \A b \in Buffers : Fresh(b) => Fresh(b)'
    BY <1>1, <2>1, FreshKept
  <2> QED
    BY <1>1, <1>2, <2>1, <2>2 DEF SlotInv, Clean
<1>10. CASE CountFrame
  <2>1. /\ pw' = "idle" /\ toSkip' = (IF toSkip = 0 THEN 0 ELSE toSkip - 1)
        /\ UNCHANGED <<trusted, front, mid, staging, dirty, image>>
    BY <1>10 DEF CountFrame, Pw, slots, views
  <2>2. \A b \in Buffers : Fresh(b) => Fresh(b)'
    BY <1>1, <2>1, FreshKept
  <2>3. toSkip' > 0 => toSkip > 0
    BY <1>3, <2>1
  <2> QED
    BY <1>1, <1>2, <2>1, <2>2, <2>3 DEF SlotInv, Clean
<1> QED
  BY <1>4, <1>5, <1>6, <1>7, <1>8, <1>9, <1>10 DEF OnProcess

\* A grant that returns leaves nothing trusted; a loss ends the trust.
LEMMA PumpSlots ==
    ASSUME IInv, Pump
    PROVE  SlotInv'
<1>1. TypeOK /\ FlightInv /\ SlotInv
  BY DEF IInv
<1>2. at = "pump" /\ UNCHANGED <<pw, held, staging, dirty, image, at, upload, idx>>
  BY DEF Pump, HearExcluded, HearStale, HearLost, HearBack, HearChanged, HearLayout, Pop, Take,
         slots, stream
<1>3. ASSUME UNCHANGED <<toSkip, trusted, front, mid, heard>>, live' => live
      PROVE  SlotInv'
  BY <1>1, <1>2, <1>3, SlotKept, HeldBuffer
<1>4. CASE HearExcluded
  <2>1. CASE ~Head(bus).ok
    BY <1>3, <1>4, <2>1 DEF HearExcluded, trust
  <2>2. CASE Head(bus).ok
    <3>1. /\ toSkip' = Cardinality(Buffers) + 1 /\ Cardinality(Buffers) \in Nat
          /\ trusted' = [b \in Buffers |-> FALSE] /\ front' = None /\ mid' = None
      BY <1>4, <2>2, FS_CardinalityType, TrustAssumption DEF HearExcluded, RetrustAfter
    <3>2. toSkip' > 0 /\ toSkip' # 0 /\ \A b \in Buffers : ~trusted'[b]
      BY <3>1
    <3>3. pw' \in {"mark", "seq"} => staging'[held'.buffer] = held'.of
      BY <1>1, <1>2 DEF SlotInv
    <3> QED
      BY <3>1, <3>2, <3>3 DEF SlotInv
  <2> QED
    BY <2>1, <2>2
<1>5. CASE HearLost
  <2>1. live' = FALSE /\ UNCHANGED <<toSkip, trusted, front, mid>>
    BY <1>5 DEF HearLost, trust, views
  <2> QED
    BY <1>1, <1>2, <2>1 DEF SlotInv
<1>6. CASE HearStale \/ HearBack \/ HearChanged \/ HearLayout
  BY <1>3, <1>6 DEF HearStale, HearBack, HearChanged, HearLayout, link, trust, views
<1> QED
  BY <1>4, <1>5, <1>6 DEF Pump

\* The poll takes the dirty flag and owes the upload, then it uploads.
LEMMA PollSlots ==
    ASSUME IInv, Poll
    PROVE  SlotInv'
<1>1. TypeOK /\ FlightInv /\ SlotInv /\ PollInv
  BY DEF IInv
<1>2. UNCHANGED <<toSkip, trusted, pw, held, live, heard>>
  BY DEF Poll, PollBegins, Gate, CheckSeq, TakeDirty, Compose, GetPreview, RenderOnly, link,
         trust, stream
<1>3. CASE PollBegins \/ Gate \/ CheckSeq
  <2>1. at # "copy" /\ UNCHANGED <<front, mid, staging, dirty, image>>
    BY <1>3 DEF PollBegins, Gate, CheckSeq, slots, views
  <2> QED
    BY <1>1, <1>2, <2>1, SlotKept, HeldBuffer
<1>4. CASE GetPreview
  <2>1. PICK locked \in BOOLEAN :
           /\ front' = Newest(locked)
           /\ mid' = IF newer /\ ~locked THEN front ELSE mid
    BY <1>4 DEF GetPreview
  <2>2. /\ front' \in {front, mid} /\ mid' \in {front, mid}
        /\ UNCHANGED <<staging, dirty, image, at, upload, idx>>
    BY <1>4, <2>1 DEF GetPreview, Newest, slots
  <2>3. \A b \in Buffers : Fresh(b) => Fresh(b)'
    BY <1>2, <2>2, FreshKept
  <2>4. toSkip' > 0 => front' = None /\ mid' = None
    BY <1>1, <1>2, <2>2 DEF SlotInv
  <2>5. live' => (front' = None \/ Clean(front)') /\ (mid' = None \/ Clean(mid)')
    BY <1>1, <1>2, <2>2 DEF SlotInv, Clean
  <2>6. pw \in {"seq"} => held.buffer \in Buffers
    BY <1>1, HeldBuffer
  <2> QED
    BY <1>1, <1>2, <2>2, <2>3, <2>4, <2>5, <2>6 DEF SlotInv, Clean
<1>5. ASSUME \A b \in Buffers : live /\ Fresh(b) => Fresh(b)',
             UNCHANGED <<front, mid, staging>>
      PROVE  SlotInv'
  <2>1. pw = "seq" => held.buffer \in Buffers
    BY <1>1, HeldBuffer
  <2> QED
    BY <1>1, <1>2, <1>5, <2>1 DEF SlotInv, Clean
<1>6. CASE TakeDirty
  <2>1. /\ at = "take" /\ upload' = dirty[idx] /\ dirty' = [dirty EXCEPT ![idx] = FALSE]
        /\ dirty[idx] => at' = "copy" /\ idx' = idx
        /\ UNCHANGED <<front, mid, staging, image>>
    BY <1>6 DEF TakeDirty, views
  <2>2. idx \in Buffers /\ dirty \in [Buffers -> BOOLEAN]
    BY <1>1, <2>1 DEF PollInv, TypeOK, SlotType
  <2>3. ASSUME NEW b \in Buffers, Fresh(b)
        PROVE  Fresh(b)'
    <3>1. CASE b = idx /\ dirty[idx]
      BY <2>1, <3>1 DEF Fresh
    <3>2. CASE ~(b = idx /\ dirty[idx])
      <4>1. dirty'[b] = dirty[b]
        <5>1. CASE b # idx
          BY <2>1, <2>2, <5>1
        <5>2. CASE b = idx
          BY <2>1, <2>2, <3>2, <5>2
        <5> QED
          BY <5>1, <5>2
      <4> QED
        BY <1>2, <2>1, <2>3, <4>1, FreshKept
    <3> QED
      BY <3>1, <3>2
  <2> QED
    BY <1>5, <2>1, <2>3
<1>7. CASE Compose
  <2>1. /\ at = "copy"
        /\ image' = (IF upload THEN [image EXCEPT ![idx] = staging[idx]] ELSE image)
        /\ UNCHANGED <<front, mid, staging, dirty>>
    BY <1>7 DEF Compose, views
  <2>2. idx \in Buffers /\ trusted[idx] /\ live /\ image \in [Buffers -> Pictures \cup {None}]
    BY <1>1, <2>1 DEF PollInv, TypeOK, SlotType
  <2>3. Clean(staging[idx])
    BY <1>1, <2>2 DEF SlotInv
  <2>4. ASSUME NEW b \in Buffers, Fresh(b)
        PROVE  Fresh(b)'
    <3>1. CASE upload /\ b = idx
      <4>1. image'[b] = staging[idx]
        BY <2>1, <2>2, <3>1
      <4> QED
        BY <1>2, <2>3, <4>1 DEF Fresh, Clean
    <3>2. CASE ~(upload /\ b = idx)
      <4>1. image'[b] = image[b]
        <5>1. CASE ~upload
          BY <2>1, <5>1
        <5>2. CASE b # idx
          BY <2>1, <2>2, <5>2
        <5> QED
          BY <3>2, <5>1, <5>2
      <4> QED
        BY <1>2, <2>1, <2>4, <3>2, <4>1, FreshKept
    <3> QED
      BY <3>1, <3>2
  <2> QED
    BY <1>5, <2>1, <2>4
<1> QED
  BY <1>3, <1>4, <1>6, <1>7 DEF Poll

\* The slots and the previews, whoever moves.
LEMMA SlotStep ==
    ASSUME IInv, [Next]_vars
    PROVE  SlotInv'
<1>1. CASE Desktop \/ UNCHANGED vars
  <2>1. UNCHANGED <<toSkip, trusted, front, mid, pw, held, staging, dirty, image, heard, live,
                    at, upload, idx>>
    BY <1>1
       DEF Desktop, ExtensionLost, ExtensionBack, LayoutChanges, AnswerLayout, AnswerExclude,
           Record, DesktopOnly, vars, link, render, slots, trust, views, stream
  <2> QED
    BY <2>1, SlotKept, HeldBuffer DEF IInv
<1> QED
  BY <1>1, StreamSlots, PumpSlots, PollSlots DEF Next, Render, Poll

-----------------------------------------------------------------------------
(* The poll.                                                               *)

\* Between the gate and the end of a poll the pump does not run, and nobody else takes
\* a trust away.
LEMMA PollStep ==
    ASSUME IInv, [Next]_vars
    PROVE  PollInv'
<1>1. TypeOK /\ FlightInv /\ SlotInv /\ PollInv
  BY DEF IInv
<1>2. /\ image \in [Buffers -> Pictures \cup {None}] /\ trusted \in [Buffers -> BOOLEAN]
      /\ current \in Buffers \cup {None} /\ toSkip \in Nat
  BY <1>1, FS_CardinalityType, TrustAssumption DEF TypeOK, SlotType
<1>3. CASE Desktop \/ UNCHANGED vars
  <2>1. UNCHANGED <<at, idx, live, trusted, upload, image, heard, pollOk>>
    BY <1>3
       DEF Desktop, ExtensionLost, ExtensionBack, LayoutChanges, AnswerLayout, AnswerExclude,
           Record, DesktopOnly, vars, link, render, slots, trust
  <2> QED
    BY <1>1, <2>1 DEF PollInv, Clean
<1>4. CASE OnProcess
  <2>1. UNCHANGED <<at, idx, live, upload, image, heard, pollOk>>
    BY <1>4
       DEF OnProcess, Dequeue, CopyOut, MarkDirty, StoreSeq, ProducePreview, PublishSlot, CountFrame, PwOnly,
           link, render, slots
  <2>2. ASSUME NEW b \in Buffers, trusted[b]
        PROVE  trusted'[b]
    <3>1. toSkip = 0
      BY <1>1, <1>2, <2>2 DEF SlotInv
    <3>2. trusted' = trusted \/ trusted' = [trusted EXCEPT ![held.buffer] = (toSkip = 0)]
      BY <1>4
         DEF OnProcess, Dequeue, CopyOut, MarkDirty, StoreSeq, ProducePreview, PublishSlot, CountFrame, trust
    <3>3. CASE trusted' = [trusted EXCEPT ![held.buffer] = (toSkip = 0)]
      BY <1>2, <2>2, <3>1, <3>3
    <3> QED
      BY <2>2, <3>2, <3>3
  <2> QED
    BY <1>1, <2>1, <2>2 DEF PollInv, Clean
<1>5. CASE Pump
  <2>1. at = "pump" /\ at' = "pump" /\ UNCHANGED pollOk
    BY <1>5 DEF Pump, HearExcluded, HearStale, HearLost, HearBack, HearChanged, HearLayout, Pop, Take
  <2> QED
    BY <1>1, <2>1 DEF PollInv
<1>6. CASE PollBegins
  BY <1>6 DEF PollBegins, PollInv
<1>7. CASE Gate
  <2>1. /\ at = "pump" /\ UNCHANGED <<pollOk, live>>
        /\ at' = "idle" \/ (at' = "seq" /\ live /\ current # None /\ idx' = current)
    BY <1>7 DEF Gate, RenderOnly, link
  <2> QED
    BY <1>1, <1>2, <2>1 DEF PollInv
<1>8. CASE CheckSeq
  <2>1. /\ at = "seq" /\ UNCHANGED <<pollOk, live, trusted>>
        /\ at' = "idle" \/ (at' = "take" /\ trusted[idx] /\ idx' = idx)
    BY <1>8 DEF CheckSeq, RenderOnly, link, trust
  <2> QED
    BY <1>1, <2>1 DEF PollInv
<1>9. CASE TakeDirty
  <2>1. /\ at = "take" /\ UNCHANGED <<pollOk, live, trusted, image, heard>>
        /\ upload' = dirty[idx]
        /\ at' = "idle" \/ (at' = "copy" /\ idx' = idx /\ (dirty[idx] \/ image[idx] # None))
    BY <1>9 DEF TakeDirty, RenderOnly, link, trust
  <2>2. idx \in Buffers /\ live /\ trusted[idx]
    BY <1>1, <2>1 DEF PollInv
  <2>3. dirty[idx] \/ image[idx] = None \/ Clean(image[idx])
    BY <1>1, <2>1, <2>2 DEF SlotInv, Fresh
  <2> QED
    BY <1>1, <2>1, <2>2, <2>3 DEF PollInv, Clean
<1>10. CASE Compose
  <2>1. live /\ at' = "idle" /\ UNCHANGED live
    BY <1>1, <1>10 DEF Compose, RenderOnly, link, PollInv
  <2> QED
    BY <2>1 DEF PollInv
<1>11. CASE GetPreview
  <2>1. at = "idle" /\ UNCHANGED <<at, pollOk, live>>
    BY <1>11 DEF GetPreview, RenderOnly, link
  <2> QED
    BY <1>1, <2>1 DEF PollInv
<1> QED
  BY <1>3, <1>4, <1>5, <1>6, <1>7, <1>8, <1>9, <1>10, <1>11 DEF Next, Render

-----------------------------------------------------------------------------
(* The invariant.                                                          *)

\* The capture starts excluded, with nothing recorded and no message on the bus.
LEMMA InitInv == Init => IInv
<1> SUFFICES ASSUME Init PROVE IInv
  OBVIOUS
<1>1. MaxEvents \in Nat /\ Cardinality(Buffers) \in Nat
  BY TrustAssumption, FS_CardinalityType
<1>2. bus = <<>> /\ frames = <<>> /\ calls = <<>> /\ Len(bus) = 0 /\ Len(frames) = 0
  BY DEF Init
<1>3. TypeOK
  <2>1. DesktopType
    <3>1. calls \in Seq(1..MaxEvents) /\ frames \in Seq(Frames) /\ bus \in Seq(Messages)
      BY <1>2
    <3>2. downs \in 0..MaxEvents /\ events \in 0..MaxEvents
      BY <1>1 DEF Init
    <3>3. /\ up \in BOOLEAN /\ excluded \in BOOLEAN /\ moved \in BOOLEAN /\ asked \in BOOLEAN
          /\ refused \in BOOLEAN
      BY DEF Init
    <3> QED
      BY <3>1, <3>2, <3>3 DEF DesktopType
  <2>2. LinkType /\ RenderType
    <3>1. live \in BOOLEAN /\ serial \in 0..MaxEvents /\ heard \in 0..MaxEvents
      BY <1>1 DEF Init
    <3>2. layoutSerial \in BOOLEAN /\ wantsRestart \in BOOLEAN /\ unasked \in BOOLEAN
      BY DEF Init
    <3>3. pollOk \in BOOLEAN /\ upload \in BOOLEAN
      BY DEF Init
    <3>4. at = "idle" /\ left = 0 /\ left \in 0..Len(bus) /\ idx = None
      BY <1>2 DEF Init
    <3> QED
      BY <3>1, <3>2, <3>3, <3>4 DEF LinkType, RenderType
  <2>3. SlotType
    <3>1. /\ current \in Buffers \cup {None} /\ front \in Pictures \cup {None}
          /\ mid \in Pictures \cup {None}
      BY DEF Init
    <3>2. staging \in [Buffers -> Pictures] /\ image \in [Buffers -> Pictures \cup {None}]
      BY <1>1 DEF Init, Pictures
    <3>3. dirty \in [Buffers -> BOOLEAN] /\ trusted \in [Buffers -> BOOLEAN]
      BY DEF Init
    <3>4. newer \in BOOLEAN
      BY DEF Init
    <3>5. toSkip \in 0..Cardinality(Buffers) + 1
      <4>1. toSkip = 0
        BY DEF Init
      <4> QED
        BY <1>1, <4>1
    <3> QED
      BY <3>1, <3>2, <3>3, <3>4, <3>5 DEF SlotType
  <2>4. StreamType
    BY DEF Init, StreamType
  <2> QED
    BY <2>1, <2>2, <2>3, <2>4 DEF TypeOK
<1>4. OrderInv
  BY <1>1, <1>2
     DEF Init, OrderInv, Numbered, AfterLoss, Alternate, Between, NoneOpen, Lost, Back
<1>5. ExclInv /\ Refusals /\ TrustDue /\ LayoutInv
  BY <1>2 DEF Init, ExclInv, Refusals, TrustDue, LayoutInv
<1>6. FlightInv
  BY <1>2 DEF Init, FlightInv, NoFrame, Clean
<1>7. SlotInv /\ PollInv
  BY DEF Init, SlotInv, PollInv
<1> QED
  BY <1>3, <1>4, <1>5, <1>6, <1>7 DEF IInv

\* Each step keeps every part.
LEMMA StepInv == IInv /\ [Next]_vars => IInv'
<1> SUFFICES ASSUME IInv, [Next]_vars PROVE IInv'
  OBVIOUS
<1>1. TypeOK /\ OrderInv /\ PollInv /\ BusInvs
  BY DEF IInv, BusInvs
<1>2. TypeOK'
  <2>1. CASE UNCHANGED vars
    BY <1>1, <2>1
       DEF vars, desktop, link, render, slots, trust, views, stream, TypeOK, DesktopType,
           LinkType, RenderType, SlotType, StreamType
  <2> QED
    BY <1>1, <2>1, DesktopTypes, StreamTypes, PumpTypes, PollTypes DEF Next, Render, Poll
<1>3. BusInvs'
  BY <1>1, BusStep
<1>4. FlightInv' /\ SlotInv' /\ PollInv'
  BY FlightStep, SlotStep, PollStep
<1> QED
  BY <1>2, <1>3, <1>4 DEF IInv, BusInvs

\* The invariant holds in every state: the order of the messages on the bus, the frames
\* in flight against those still skipped, and what the trusted slots and previews have.
THEOREM Invariance == Spec => []IInv
<1> QED
  BY InitInv, StepInv, PTL DEF Spec

\* Every variable keeps its type; the pump never asks with a serial of zero, and never
\* skips more than the pool and one.
THEOREM TypeCorrect == Spec => []TypeOK
<1>1. IInv => TypeOK
  BY DEF IInv
<1> QED
  BY <1>1, Invariance, PTL

\* A capture distrusted although the extension is up is about to be told, or waits for
\* an answer that is still to come (exclude_serial in mutter_pump).
THEOREM TrustFollowed == Spec => []TrustDue
<1>1. IInv => TrustDue
  BY DEF IInv
<1> QED
  BY <1>1, Invariance, PTL

\* A layout that differs from the recorded one is known, or its news is on the way, even
\* when it changes again while an answer is (layout_serial in mutter_pump).
THEOREM LayoutFollowed == Spec => []LayoutNoticed
<1>1. IInv => LayoutNoticed
  BY DEF IInv, LayoutInv, LayoutNoticed
<1> QED
  BY <1>1, Invariance, PTL

\* capture_poll_impl composes no frame of a time it knows to be without the exclusion,
\* whatever the PipeWire thread stores meanwhile.
THEOREM SampleClean == Spec => SampledClean
<1>1. ASSUME IInv, Compose PROVE Clean(image'[idx])
  <2>1. /\ at = "copy"
        /\ image' = (IF upload THEN [image EXCEPT ![idx] = staging[idx]] ELSE image)
    BY <1>1 DEF Compose
  <2>2. /\ idx \in Buffers /\ trusted[idx] /\ live /\ SlotInv
        /\ ~upload => Clean(image[idx])
        /\ image \in [Buffers -> Pictures \cup {None}]
    BY <1>1, <2>1 DEF IInv, PollInv, TypeOK, SlotType
  <2>3. Clean(staging[idx])
    BY <2>2 DEF SlotInv
  <2>4. CASE upload
    BY <2>1, <2>2, <2>3, <2>4
  <2>5. CASE ~upload
    BY <2>1, <2>2, <2>5
  <2> QED
    BY <2>4, <2>5
<1>2. IInv => [Compose => Clean(image'[idx])]_vars
  BY <1>1
<1> QED
  BY <1>2, Invariance, PTL DEF SampledClean

\* Nor does capture_get_preview_impl hand out a reduction of such a frame.
THEOREM PreviewKeptClean == Spec => PreviewClean
<1>1. ASSUME IInv, GetPreview, front' # None PROVE Clean(front')
  <2>1. front' = front \/ front' = mid
    BY <1>1 DEF GetPreview, Newest
  <2>2. SlotInv /\ live
    BY <1>1 DEF GetPreview, IInv, PollInv
  <2> QED
    BY <1>1, <2>1, <2>2 DEF SlotInv
<1>2. IInv => [GetPreview /\ front' # None => Clean(front')]_vars
  BY <1>1
<1> QED
  BY <1>2, Invariance, PTL DEF PreviewClean

=============================================================================
