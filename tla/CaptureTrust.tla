---------------------------- MODULE CaptureTrust ----------------------------
(***************************************************************************)
(* Which frames of one desktop capture may be composed on Linux            *)
(* (src/src/drv_leia_linux/leia_bg_capture_linux.c).  The shell extension  *)
(* keeps our windows out of what mutter records; while it is away a frame  *)
(* contains our own picture, and composing it would weave it once more.    *)
(*                                                                         *)
(* Three threads of control meet in one capture: the desktop (mutter and   *)
(* the extension, external), the PipeWire thread in on_process, and the    *)
(* render thread in poll() and get_preview(), which learns of the          *)
(* extension from the signals of its D-Bus connection and never waits for  *)
(* anybody.                                                                *)
(*                                                                         *)
(* Abstracted: the counters dbg_frames, slot_seq, the previews' seq and    *)
(* untrusted_through are only ever compared, so a slot or a preview has    *)
(* the result of its comparison ("trusted"), and toSkip is                 *)
(* untrusted_through - dbg_frames.  Frames come by shared memory; the pool *)
(* of one format negotiation; the window is on the panel; the frames are   *)
(* published in the order mutter recorded them, any time later.            *)
(***************************************************************************)
EXTENDS Integers, Sequences, FiniteSets

CONSTANTS
    Buffers,        \* the pool PipeWire added, a slot each (2 to DXR_MAX_BUFFERS)
    None,           \* no buffer, no picture
    MaxEvents       \* bound: how often the extension goes away or the layout changes

ASSUME TrustAssumption ==
    /\ None \notin Buffers /\ IsFiniteSet(Buffers) /\ Buffers # {}
    /\ MaxEvents \in Nat

VARIABLES
    \* the desktop
    up,             \* the extension has its bus name
    excluded,       \* it keeps our windows out of the recording
    downs,          \* how often it went away
    calls,          \* exclusion requests it has not answered: their serials
    moved,          \* the panel's area differs from the recorded one
    events,         \* events left (bound)
    asked,          \* a layout request mutter has not answered
    frames,         \* recorded, not yet dequeued
    bus,            \* messages for us, in order
    \* the capture, render thread only
    live,           \* exclusion_live
    serial,         \* exclude_serial
    layoutSerial,   \* layout_serial # 0
    wantsRestart,
    toSkip,         \* untrusted_through - dbg_frames, 0 when negative
    pollOk,         \* poll_ok
    at, left,       \* place of the render thread; messages its pump still has
    idx, upload,    \* locals of poll: the slot, do_upload
    front,          \* pp_front: its picture, None when it is not trusted
    \* the capture, shared with the PipeWire thread
    current,        \* current_buffer
    staging, dirty, \* per slot: what its staging buffer has, bb->dirty
    trusted,        \* per slot: slot_seq > untrusted_through
    image,          \* per slot: what was uploaded last
    mid, newer,     \* pp_mid, likewise; pp_mid.seq > pp_front.seq
    \* the PipeWire thread
    pw, held,       \* its place; the frame it dequeued
    \* histories
    heard,          \* the last loss of the extension the pump has read of
    refused,        \* since the extension is back a request was not sent, or refused
    unasked         \* the last change of the layout could not be asked about

desktop == <<up, excluded, downs, calls, moved, events, asked, frames, bus, refused>>
link    == <<live, serial, layoutSerial, wantsRestart, heard, unasked>>
render  == <<pollOk, at, left, idx, upload>>
slots   == <<current, staging, dirty, image>>
trust   == <<toSkip, trusted>>
views   == <<front, mid, newer>>
stream  == <<pw, held>>
vars == <<desktop, link, render, slots, trust, views, stream>>

-----------------------------------------------------------------------------
\* What a frame shows: 0 the desktop alone, k also our windows, recorded after the
\* extension went away for the k-th time.
Pictures == 0..MaxEvents
Frames   == [buffer : Buffers, of : Pictures]
NoFrame  == [buffer |-> None, of |-> 0]

\* A message: a signal (a loss says which, for heard only), or the reply to an exclusion
\* (with its serial) or to a layout request (ok: the area is still the recorded one).
Msg(is, n, ok) == [is |-> is, serial |-> n, ok |-> ok]
Signal(is)     == Msg(is, 0, TRUE)
Messages == [is : {"lost", "back", "changed", "exclude", "layout"},
             serial : 0..MaxEvents, ok : BOOLEAN]

DesktopType ==
    /\ up \in BOOLEAN /\ excluded \in BOOLEAN /\ downs \in 0..MaxEvents
    /\ calls \in Seq(1..MaxEvents) /\ moved \in BOOLEAN /\ events \in 0..MaxEvents
    /\ asked \in BOOLEAN /\ frames \in Seq(Frames) /\ bus \in Seq(Messages)
    /\ refused \in BOOLEAN

LinkType ==
    /\ live \in BOOLEAN /\ serial \in 0..MaxEvents /\ layoutSerial \in BOOLEAN
    /\ wantsRestart \in BOOLEAN /\ heard \in 0..MaxEvents /\ unasked \in BOOLEAN

RenderType ==
    /\ pollOk \in BOOLEAN /\ at \in {"idle", "pump", "seq", "take", "copy"}
    /\ left \in 0..Len(bus) /\ idx \in Buffers \cup {None} /\ upload \in BOOLEAN

SlotType ==
    /\ current \in Buffers \cup {None} /\ staging \in [Buffers -> Pictures]
    /\ dirty \in [Buffers -> BOOLEAN] /\ image \in [Buffers -> Pictures \cup {None}]
    /\ toSkip \in 0..Cardinality(Buffers) + 1 /\ trusted \in [Buffers -> BOOLEAN]
    /\ front \in Pictures \cup {None} /\ mid \in Pictures \cup {None}
    /\ newer \in BOOLEAN

StreamType ==
    /\ pw \in {"idle", "copy", "mark", "seq", "preview", "publish", "count"}
    /\ held \in Frames \cup {NoFrame}

TypeOK == DesktopType /\ LinkType /\ RenderType /\ SlotType /\ StreamType

\* After mutter_handshake and pipewire_start: excluded, the matches installed.
Init ==
    /\ up = TRUE /\ excluded = TRUE /\ downs = 0 /\ calls = <<>>
    /\ moved = FALSE /\ events = MaxEvents /\ asked = FALSE
    /\ frames = <<>> /\ bus = <<>>
    /\ live = TRUE /\ serial = 0 /\ layoutSerial = FALSE
    /\ wantsRestart = FALSE /\ toSkip = 0 /\ pollOk = FALSE
    /\ at = "idle" /\ left = 0 /\ idx = None /\ upload = FALSE
    /\ current = None /\ staging = [b \in Buffers |-> 0]
    /\ dirty = [b \in Buffers |-> FALSE] /\ trusted = [b \in Buffers |-> FALSE]
    /\ image = [b \in Buffers |-> None]
    /\ front = None /\ mid = None /\ newer = FALSE
    /\ pw = "idle" /\ held = NoFrame
    /\ heard = 0 /\ refused = FALSE /\ unasked = FALSE

-----------------------------------------------------------------------------
(* The desktop (external).                                                  *)

\* The pump and the gate are taken in one go: nothing in them waits, and of what the
\* others change they read only dbg_frames and current_buffer.
NotInPump == at # "pump"

DesktopOnly == NotInPump /\ UNCHANGED <<link, render, slots, trust, views, stream>>
Tell(m) == bus' = Append(bus, m)
Event == events > 0 /\ events' = events - 1

\* A screen lock, or the user disables the extension: its effect ends at once, and the
\* requests it had taken may never be answered.
ExtensionLost ==
    /\ up /\ Event
    /\ up' = FALSE /\ excluded' = FALSE /\ downs' = downs + 1
    /\ Tell(Msg("lost", downs', TRUE))
    /\ calls' \in {calls, <<>>}
    /\ UNCHANGED <<moved, asked, frames, refused>> /\ DesktopOnly

ExtensionBack ==
    /\ ~up /\ up' = TRUE /\ refused' = FALSE /\ Tell(Signal("back"))
    /\ UNCHANGED <<excluded, downs, calls, moved, events, asked, frames>> /\ DesktopOnly

\* The shell answers the requests in order; it may fail, and does while the
\* extension is away.
AnswerExclude(ok) ==
    /\ calls # <<>>
    /\ ok => up
    /\ excluded' = (excluded \/ ok) /\ calls' = Tail(calls)
    /\ refused' = (refused \/ (up /\ ~ok))
    /\ Tell(Msg("exclude", Head(calls), ok))
    /\ UNCHANGED <<up, downs, moved, events, asked, frames>> /\ DesktopOnly

\* Of any monitor: the panel may move, move back, or stay.
LayoutChanges ==
    /\ Event /\ moved' \in BOOLEAN /\ Tell(Signal("changed"))
    /\ UNCHANGED <<up, excluded, downs, calls, asked, frames, refused>> /\ DesktopOnly

AnswerLayout ==
    /\ asked /\ asked' = FALSE /\ Tell(Msg("layout", 0, ~moved))
    /\ UNCHANGED <<up, excluded, downs, calls, moved, events, frames, refused>>
    /\ DesktopOnly

\* Mutter records the damaged desktop into a free buffer of the pool.
Record(b) ==
    /\ b # held.buffer /\ \A i \in 1..Len(frames) : frames[i].buffer # b
    /\ frames' = Append(frames, [buffer |-> b, of |-> IF excluded THEN 0 ELSE downs])
    /\ UNCHANGED <<up, excluded, downs, calls, moved, events, asked, bus, refused>>
    /\ DesktopOnly

Desktop ==
    \/ ExtensionLost \/ ExtensionBack \/ LayoutChanges \/ AnswerLayout
    \/ (\E ok \in BOOLEAN : AnswerExclude(ok)) \/ (\E b \in Buffers : Record(b))

-----------------------------------------------------------------------------
(* on_process.                                                              *)

Pw(from, to) == pw = from /\ pw' = to
PwOnly ==
    /\ NotInPump
    /\ UNCHANGED <<up, excluded, downs, calls, moved, events, asked, bus, refused, link,
                   render>>

\* It drains the stream to the newest frame; the others go back to the pool.
Dequeue ==
    /\ Pw("idle", "copy")
    /\ \E n \in 1..Len(frames) :
          held' = frames[n] /\ frames' = SubSeq(frames, n + 1, Len(frames))
    /\ UNCHANGED <<slots, trust, views>> /\ PwOnly

CopyOut ==
    /\ Pw("copy", "mark") /\ staging' = [staging EXCEPT ![held.buffer] = held.of]
    /\ UNCHANGED <<frames, current, dirty, image, trust, views, held>> /\ PwOnly

MarkDirty ==
    /\ Pw("mark", "seq") /\ dirty' = [dirty EXCEPT ![held.buffer] = TRUE]
    /\ UNCHANGED <<frames, current, staging, image, trust, views, held>> /\ PwOnly

\* slot_seq is dbg_frames + 1.
StoreSeq ==
    /\ Pw("seq", "preview")
    /\ trusted' = [trusted EXCEPT ![held.buffer] = (toSkip = 0)]
    /\ UNCHANGED <<frames, slots, toSkip, views, held>> /\ PwOnly

\* panel_preview_produce: at most every so often a reduced picture, with the sequence
\* of its frame, is swapped in under the lock.
ProducePreview ==
    /\ Pw("preview", "publish")
    /\ \/ mid' = (IF toSkip = 0 THEN held.of ELSE None) /\ newer' = TRUE
       \/ UNCHANGED <<mid, newer>>
    /\ UNCHANGED <<frames, slots, trust, front, held>> /\ PwOnly

PublishSlot ==
    /\ Pw("publish", "count") /\ current' = held.buffer
    /\ UNCHANGED <<frames, staging, dirty, image, trust, views, held>> /\ PwOnly

\* dbg_frames is incremented, and the buffer goes back to the pool.
CountFrame ==
    /\ Pw("count", "idle") /\ toSkip' = IF toSkip = 0 THEN 0 ELSE toSkip - 1
    /\ held' = NoFrame
    /\ UNCHANGED <<frames, slots, trusted, views>> /\ PwOnly

OnProcess ==
    \/ Dequeue \/ CopyOut \/ MarkDirty \/ StoreSeq \/ ProducePreview \/ PublishSlot
    \/ CountFrame

-----------------------------------------------------------------------------
(* mutter_pump.                                                             *)

PollBegins ==
    /\ at = "idle" /\ at' = "pump" /\ left' = Len(bus) /\ pollOk' = FALSE
    /\ UNCHANGED <<desktop, link, idx, upload, slots, trust, views, stream>>

Take(is) ==
    /\ at = "pump" /\ left > 0 /\ Head(bus).is = is
    /\ bus' = Tail(bus) /\ left' = left - 1
    /\ UNCHANGED <<up, excluded, downs, moved, events, frames, pollOk, at, idx, upload,
                   slots, stream>>

Pop(is) == Take(is) /\ UNCHANGED <<refused, unasked>>

\* Mutant: the default is added to the pool, not taken in its place.
RetrustAfter_Both == Cardinality(Buffers) + 4 + 1

\* Mutant: only the next frame is distrusted, not those in flight.
RetrustAfter_Next == 1

\* retrust_after: the frames that may be in flight, and one.
RetrustAfter == Cardinality(Buffers) + 1

\* Mutant: what was kept before is trusted on.
HearExcluded_KeepsViews ==
    /\ Pop("exclude") /\ Head(bus).serial = serial /\ serial # 0 /\ serial' = 0
    /\ IF Head(bus).ok
       THEN live' = TRUE /\ toSkip' = RetrustAfter /\ trusted' = [b \in Buffers |-> FALSE]
       ELSE UNCHANGED <<live, trust>>
    /\ UNCHANGED <<calls, asked, layoutSerial, wantsRestart, heard, views>>

\* The reply to the request we wait for: trust returns after the frames in flight.
HearExcluded ==
    /\ Pop("exclude") /\ Head(bus).serial = serial /\ serial # 0 /\ serial' = 0
    /\ IF Head(bus).ok
       THEN /\ live' = TRUE /\ toSkip' = RetrustAfter
            /\ trusted' = [b \in Buffers |-> FALSE]
            /\ front' = None /\ mid' = None
       ELSE UNCHANGED <<live, trust, front, mid>>
    /\ UNCHANGED <<calls, asked, layoutSerial, wantsRestart, heard, newer>>

\* A reply nobody waits for.
HearStale ==
    /\ Pop("exclude") /\ (serial = 0 \/ Head(bus).serial # serial)
    /\ UNCHANGED <<calls, asked, link, trust, views>>

\* Mutant: the older request stays the one waited for.
HearLost_KeepsSerial ==
    /\ Pop("lost") /\ live' = FALSE /\ heard' = Head(bus).serial
    /\ UNCHANGED <<calls, asked, serial, layoutSerial, wantsRestart, trust, views>>

HearLost ==
    /\ Pop("lost") /\ live' = FALSE /\ serial' = 0 /\ heard' = Head(bus).serial
    /\ UNCHANGED <<calls, asked, layoutSerial, wantsRestart, trust, views>>

\* Re-register, asynchronously; heard tells the requests apart.  The message may not be
\* sent, for want of memory: nobody tries again before the next return.
HearBack ==
    /\ Take("back")
    /\ IF serial # 0 THEN UNCHANGED <<serial, calls, refused>>
       ELSE \/ serial' = heard /\ calls' = Append(calls, heard) /\ UNCHANGED refused
            \/ /\ UNCHANGED <<serial, calls>>
               /\ refused' = (refused \/ \A i \in 1..Len(bus') : bus'[i].is # "back")
    /\ UNCHANGED <<asked, live, layoutSerial, wantsRestart, heard, unasked, trust, views>>

\* Read the layout again, unless an answer is awaited; likewise it may not be sent.
HearChanged ==
    /\ Take("changed")
    /\ \/ layoutSerial /\ UNCHANGED <<asked, layoutSerial, unasked>>
       \/ ~layoutSerial /\ asked' = TRUE /\ layoutSerial' = TRUE /\ unasked' = FALSE
       \/ ~layoutSerial /\ unasked' = TRUE /\ UNCHANGED <<asked, layoutSerial>>
    /\ UNCHANGED <<calls, live, serial, wantsRestart, heard, refused, trust, views>>

\* Mutant: the request stays open for good.
HearLayout_KeepsSerial ==
    /\ Pop("layout") /\ wantsRestart' = (wantsRestart \/ ~Head(bus).ok)
    /\ UNCHANGED <<calls, asked, live, serial, layoutSerial, heard, trust, views>>

HearLayout ==
    /\ Pop("layout") /\ layoutSerial' = FALSE
    /\ wantsRestart' = (wantsRestart \/ ~Head(bus).ok)
    /\ UNCHANGED <<calls, asked, live, serial, heard, trust, views>>

Pump ==
    \/ HearExcluded \/ HearStale \/ HearLost \/ HearBack \/ HearChanged \/ HearLayout

-----------------------------------------------------------------------------
(* capture_poll_impl and capture_get_preview_impl.                          *)

RenderOnly == UNCHANGED <<desktop, link, trust, stream, left>>

\* The trust gate: the exclusion, the layout, then the published slot.
Gate ==
    /\ at = "pump" /\ left = 0
    /\ IF ~live \/ wantsRestart \/ current = None
       THEN at' = "idle" /\ UNCHANGED idx
       ELSE at' = "seq" /\ idx' = current
    /\ UNCHANGED <<pollOk, upload, slots, views>> /\ RenderOnly

CheckSeq ==
    /\ at = "seq"
    /\ IF trusted[idx] THEN at' = "take" /\ UNCHANGED idx ELSE at' = "idle" /\ idx' = None
    /\ UNCHANGED <<pollOk, upload, slots, views>> /\ RenderOnly

TakeDirty ==
    /\ at = "take" /\ upload' = dirty[idx] /\ dirty' = [dirty EXCEPT ![idx] = FALSE]
    /\ IF dirty[idx] \/ image[idx] # None THEN at' = "copy" /\ UNCHANGED idx
       ELSE at' = "idle" /\ idx' = None
    /\ UNCHANGED <<pollOk, current, staging, image, views>> /\ RenderOnly

\* The recorded commands copy the staging buffer and sample the image.
Compose ==
    /\ at = "copy" /\ at' = "idle" /\ pollOk' = TRUE /\ upload' = FALSE /\ idx' = None
    /\ image' = IF upload THEN [image EXCEPT ![idx] = staging[idx]] ELSE image
    /\ UNCHANGED <<current, staging, dirty, views>> /\ RenderOnly

\* The lock may be taken by the PipeWire thread: then the preview held stays.
Newest(locked) == IF newer /\ ~locked THEN mid ELSE front

GetPreview ==
    /\ at = "idle" /\ pollOk
    /\ \E locked \in BOOLEAN :
          /\ front' = Newest(locked)
          /\ mid' = IF newer /\ ~locked THEN front ELSE mid
          /\ newer' = (newer /\ locked)
    /\ UNCHANGED <<pollOk, at, idx, upload, slots>> /\ RenderOnly

Render == PollBegins \/ Pump \/ Gate \/ CheckSeq \/ TakeDirty \/ Compose \/ GetPreview

-----------------------------------------------------------------------------
Next == Desktop \/ OnProcess \/ Render

Spec == Init /\ [][Next]_vars

-----------------------------------------------------------------------------
(* Properties.                                                              *)

\* The desktop alone, or our own picture of a time whose beginning the pump has not
\* been told yet.
Clean(picture) == picture = 0 \/ picture > heard

\* poll never composes a frame of a time it knows to be without the exclusion.
SampledClean == [][Compose => Clean(image'[idx])]_vars

\* Nor does get_preview hand out its reduction.
PreviewClean == [][GetPreview /\ front' # None => Clean(front')]_vars

\* A layout that differs is known, or the pump will learn of it, unless the last change
\* could not be asked about: an answer that is still to come is the newer one.
LayoutNoticed ==
    moved /\ ~unasked =>
             \/ wantsRestart \/ asked
             \/ \E i \in 1..Len(bus) :
                   bus[i].is = "changed" \/ (bus[i].is = "layout" /\ ~bus[i].ok)

\* A capture distrusted although the extension is up is about to be told, or waits for
\* an answer to its own request: exclude_serial never points at a reply that is gone.
Granted(n) ==
    \/ \E i \in 1..Len(calls) : calls[i] = n
    \/ \E i \in 1..Len(bus) : bus[i] = Msg("exclude", n, TRUE)

TrustDue ==
    up /\ ~refused =>
        \/ live
        \/ \E i \in 1..Len(bus) : bus[i].is = "back"
        \/ serial # 0 /\ Granted(serial)
=============================================================================
