---------------------------- MODULE RingAnimation ----------------------------
(***************************************************************************)
(* The animation of one page: RingAnimation of src/src/cache.rs, with the   *)
(* ring of finished frames (src/src/anim.rs) and the viewer that plays it   *)
(* (update_textures of src/src/view_reader.rs).                             *)
(*                                                                         *)
(* Three threads share it.  A decode thread produces raw frames up to the   *)
(* frame the viewer asked for, a resize thread turns them into finished     *)
(* frames of the ring, the viewer shows them and asks for more.  Raw frames *)
(* pass through a short queue: in order, or, once resizing is slower than   *)
(* the animation, only the newest (drop_stale_raw).                         *)
(*                                                                         *)
(* A frame is its index; an animation that loops goes on counting.  The     *)
(* mutexes are represented by the steps they make atomic, except for the    *)
(* one of the raw queue, which is held across a test of `shutdown': it is   *)
(* held by a thread whose program counter says so.                          *)
(***************************************************************************)
EXTENDS Integers, Sequences

CONSTANTS
    Capacity,    \* frames the ring holds (resolve_ring_capacity)
    RawCapacity, \* ANIM_RAW_QUEUE_CAPACITY
    DecodeAhead, \* ANIM_DECODE_AHEAD_FRAMES
    LastFrame,   \* bound: no frame after this one is asked for
    None

ASSUME CapacityAssumption ==
    /\ Capacity \in Nat \ {0} /\ RawCapacity \in Nat \ {0} /\ DecodeAhead \in Nat \ {0}
    /\ LastFrame \in Nat \ {0}
    /\ None \notin Int

VARIABLES
    ring,             \* finished frames, oldest first
    pendingRaw,       \* frame 1 while it awaits its resize, or None
    nextDecode,       \* the frame the decoder yields next
    requestedThrough, \* the furthest frame asked of the pipeline, or -1
    shutdown,         \* the animation was dropped
    rawQueue,         \* raw frames, oldest first
    dropStale,        \* only the newest raw frame is kept
    decodePc,         \* the decode thread: where it is,
    decodeFrame,      \*   the frame in its hands, or None,
    decodeTarget,     \*   and the request it works for
    resizePc,         \* the resize thread
    resizeFrame,
    player,           \* the viewer's AnimState: [shown, requested], or None
    texture,          \* the viewer has a picture of the page
    visible           \* the page is in view

streamVars == <<ring, pendingRaw, nextDecode>>
queueVars == <<rawQueue, dropStale>>
decodeVars == <<decodePc, decodeFrame, decodeTarget>>
resizeVars == <<resizePc, resizeFrame>>
viewerVars == <<player, texture, visible>>
commandVars == <<requestedThrough, shutdown>>
vars == <<streamVars, queueVars, decodeVars, resizeVars, viewerVars, commandVars>>

Init ==
    /\ ring = <<0>> /\ pendingRaw = 1 /\ nextDecode = 2
    /\ requestedThrough = -1 /\ shutdown = FALSE
    /\ rawQueue = <<>> /\ dropStale = FALSE
    /\ decodePc = "off" /\ decodeFrame = None /\ decodeTarget = 0
    /\ resizePc = "off" /\ resizeFrame = None
    /\ player = None /\ texture = FALSE /\ visible \in BOOLEAN

-----------------------------------------------------------------------------
(* The ring *)

InRing(f) == \E i \in DOMAIN ring : ring[i] = f

Newest == ring[Len(ring)]

\* FrameRingBuffer::push
Pushed(f) == Append(IF Len(ring) >= Capacity THEN Tail(ring) ELSE ring, f)

\* playback_ready_after: the frames that may follow f on the screen
ReadyAfter(f) ==
    IF dropStale THEN {g \in {Newest} : g > f} ELSE {g \in {f + 1} : InRing(g)}

-----------------------------------------------------------------------------
(* Condition variables: who is asleep and who wakes *)

\* Faulty variant: taking a frame out of the queue tells nobody.
SpaceUnsignalled(pc) == pc

\* wake.notify, raw_space.notify: the decode thread waits for either.
DecoderWoken(pc) == IF pc = "asleep" THEN "await" ELSE pc
SpaceSignalled(pc) == IF pc = "full" THEN "push" ELSE pc

\* raw_wake.notify
ResizerWoken(pc) == IF pc = "empty" THEN "pop" ELSE pc

RawQueueFree == decodePc \notin {"pushing", "parking"} /\ resizePc # "popping"

-----------------------------------------------------------------------------
(* The decode thread *)

\* Faulty variant: the request is taken for the end of a half-open range that
\* includes it.
AwaitPastRequest ==
    /\ decodePc = "await"
    /\ LET next == IF pendingRaw # None THEN pendingRaw ELSE nextDecode
       IN  IF shutdown THEN decodePc' = "done" /\ UNCHANGED decodeTarget
           ELSE IF requestedThrough + 1 >= next
           THEN decodePc' = "fetch" /\ decodeTarget' = requestedThrough + 1
           ELSE decodePc' = "asleep" /\ UNCHANGED decodeTarget
    /\ UNCHANGED <<streamVars, queueVars, decodeFrame, resizeVars, viewerVars, commandVars>>

\* Waits for a request that is not served yet, or for the shutdown.
Await ==
    /\ decodePc = "await"
    /\ LET next == IF pendingRaw # None THEN pendingRaw ELSE nextDecode
       IN  IF shutdown THEN decodePc' = "done" /\ UNCHANGED decodeTarget
           ELSE IF requestedThrough >= next
           THEN decodePc' = "fetch" /\ decodeTarget' = requestedThrough
           ELSE decodePc' = "asleep" /\ UNCHANGED decodeTarget
    /\ UNCHANGED <<streamVars, queueVars, decodeFrame, resizeVars, viewerVars, commandVars>>

\* Takes the raw frame 1, or takes the decoder out to decode the next frame.
Fetch ==
    /\ decodePc = "fetch"
    /\ \/ /\ pendingRaw # None
          /\ decodeFrame' = pendingRaw /\ pendingRaw' = None /\ decodePc' = "check"
       \/ /\ pendingRaw = None
          /\ decodePc' = IF nextDecode <= decodeTarget THEN "decode" ELSE "await"
          /\ UNCHANGED <<decodeFrame, pendingRaw>>
    /\ UNCHANGED <<ring, nextDecode, queueVars, decodeTarget, resizeVars, viewerVars, commandVars>>

\* Yields the next frame, rewinding at the end of the animation.
Decode ==
    /\ decodePc = "decode"
    /\ decodeFrame' = nextDecode /\ nextDecode' = nextDecode + 1
    /\ decodePc' = "check"
    /\ UNCHANGED <<ring, pendingRaw, queueVars, decodeTarget, resizeVars, viewerVars, commandVars>>

\* Neither the next frame nor, after rewinding, the first one: the thread ends.
DecodeFails ==
    /\ decodePc = "decode"
    /\ decodePc' = "done"
    /\ UNCHANGED <<streamVars, queueVars, decodeFrame, decodeTarget, resizeVars, viewerVars, commandVars>>

\* The test of shutdown before a frame is handed over
Check ==
    /\ decodePc = "check"
    /\ decodePc' = IF shutdown THEN "done" ELSE "push"
    /\ UNCHANGED <<streamVars, queueVars, decodeFrame, decodeTarget, resizeVars, viewerVars, commandVars>>

\* push_raw, with the raw queue locked: the test of shutdown ...
LockToPush ==
    /\ decodePc = "push" /\ RawQueueFree
    /\ decodePc' = IF shutdown THEN "done" ELSE "pushing"
    /\ UNCHANGED <<streamVars, queueVars, decodeFrame, decodeTarget, resizeVars, viewerVars, commandVars>>

\* Faulty variants: the newest frame alone is kept from the start; the full
\* queue takes one more.
PushNewest ==
    /\ decodePc = "pushing"
    /\ rawQueue' = <<decodeFrame>>
    /\ decodePc' = "await" /\ decodeFrame' = None
    /\ resizePc' = ResizerWoken(resizePc)
    /\ UNCHANGED <<streamVars, dropStale, decodeTarget, resizeFrame, viewerVars, commandVars>>

PushOneMore ==
    /\ decodePc = "pushing"
    /\ rawQueue' = IF dropStale THEN <<decodeFrame>> ELSE Append(rawQueue, decodeFrame)
    /\ decodePc' = "await" /\ decodeFrame' = None
    /\ resizePc' = ResizerWoken(resizePc)
    /\ UNCHANGED <<streamVars, dropStale, decodeTarget, resizeFrame, viewerVars, commandVars>>

\* ... the frame enters, alone once stale frames are dropped ...
Push ==
    /\ decodePc = "pushing"
    /\ \/ dropStale /\ rawQueue' = <<decodeFrame>>
       \/ /\ ~dropStale /\ Len(rawQueue) < RawCapacity
          /\ rawQueue' = Append(rawQueue, decodeFrame)
    /\ decodePc' = "await" /\ decodeFrame' = None
    /\ resizePc' = ResizerWoken(resizePc)
    /\ UNCHANGED <<streamVars, dropStale, decodeTarget, resizeFrame, viewerVars, commandVars>>

\* ... or the queue is full ...
FindFull ==
    /\ decodePc = "pushing"
    /\ ~dropStale /\ Len(rawQueue) >= RawCapacity
    /\ decodePc' = "parking"
    /\ UNCHANGED <<streamVars, queueVars, decodeFrame, decodeTarget, resizeVars, viewerVars, commandVars>>

\* ... and the thread waits on raw_space, letting go of the queue.
Park ==
    /\ decodePc = "parking"
    /\ decodePc' = "full"
    /\ UNCHANGED <<streamVars, queueVars, decodeFrame, decodeTarget, resizeVars, viewerVars, commandVars>>

-----------------------------------------------------------------------------
(* The resize thread *)

\* Locks the raw queue and tests shutdown.
LockToPop ==
    /\ resizePc = "pop" /\ RawQueueFree
    /\ resizePc' = IF shutdown THEN "done" ELSE "popping"
    /\ UNCHANGED <<streamVars, queueVars, decodeVars, resizeFrame, viewerVars, commandVars>>

\* Takes the oldest raw frame, or waits on raw_wake.
Pop ==
    /\ resizePc = "popping"
    /\ \/ /\ rawQueue # <<>>
          /\ resizeFrame' = Head(rawQueue) /\ rawQueue' = Tail(rawQueue)
          /\ decodePc' = SpaceSignalled(decodePc)
          /\ resizePc' = "resize"
       \/ /\ rawQueue = <<>>
          /\ resizePc' = "empty"
          /\ UNCHANGED <<resizeFrame, rawQueue, decodePc>>
    /\ UNCHANGED <<streamVars, dropStale, decodeFrame, decodeTarget, viewerVars, commandVars>>

\* Resizes in time for the frame's delay.
Resize ==
    /\ resizePc = "resize"
    /\ resizePc' = "settle"
    /\ UNCHANGED <<streamVars, queueVars, decodeVars, resizeFrame, viewerVars, commandVars>>

\* Resizes for longer than the frame's delay: stale frames are dropped from now on.
ResizeLate ==
    /\ resizePc = "resize"
    /\ dropStale' = TRUE
    /\ decodePc' = SpaceSignalled(decodePc)
    /\ resizePc' = "settle"
    /\ UNCHANGED <<streamVars, rawQueue, decodeFrame, decodeTarget, resizeFrame, viewerVars, commandVars>>

\* A last test of shutdown, without the queue
Settle ==
    /\ resizePc = "settle"
    /\ resizePc' = IF shutdown THEN "pop" ELSE "commit"
    /\ resizeFrame' = IF shutdown THEN None ELSE resizeFrame
    /\ UNCHANGED <<streamVars, queueVars, decodeVars, viewerVars, commandVars>>

\* commit_resized_frame
Commit ==
    /\ resizePc = "commit"
    /\ ring' = Pushed(resizeFrame)
    /\ resizePc' = "pop" /\ resizeFrame' = None
    /\ UNCHANGED <<pendingRaw, nextDecode, queueVars, decodeVars, viewerVars, commandVars>>

-----------------------------------------------------------------------------
(* The viewer, and the end of the animation *)

LeastOf(a, b) == IF a < b THEN a ELSE b
GreatestOf(a, b) == IF a > b THEN a ELSE b

\* Faulty variant: the window counts from the furthest frame asked for.
NextRequestFromProducer(shown, requested) ==
    LeastOf(LastFrame, requested + LeastOf(DecodeAhead, Capacity))

\* next_anim_decode_request
NextRequest(shown, requested) ==
    GreatestOf(requested, LeastOf(LastFrame, shown + LeastOf(DecodeAhead, Capacity)))

\* request_frame, with ensure_pipeline_started: nothing is asked for a frame
\* that is there.
Request(f) ==
    IF InRing(f) THEN UNCHANGED <<requestedThrough, decodePc, resizePc>>
    ELSE /\ requestedThrough' = GreatestOf(requestedThrough, f)
         /\ decodePc' = IF decodePc = "off" THEN "await" ELSE DecoderWoken(decodePc)
         /\ resizePc' = IF resizePc = "off" THEN "pop" ELSE resizePc

\* The viewer's state of the page, made on first sight
Playing == IF player = None THEN [shown |-> 0, requested |-> 0] ELSE player

\* reconnect_frame_index, for a page without a picture whose frame is gone
Reconnected(st) ==
    IF texture \/ InRing(st.shown) THEN st
    ELSE [shown |-> Newest, requested |-> GreatestOf(st.requested, Newest)]

\* A repaint that goes from state `st' to showing f.  The picture is uploaded
\* when it changes or is missing; `try_lock' may fail and leave it for later.
Repaint(st, f) ==
    LET requested == NextRequest(f, st.requested)
    IN  /\ player' = [shown |-> f, requested |-> requested]
        /\ texture' \in {texture, texture \/ InRing(f)}
        /\ Request(requested)
        /\ UNCHANGED <<streamVars, queueVars, decodeFrame, decodeTarget, resizeFrame,
                       visible, shutdown>>

\* A repaint before the frame's time is over, or before the next is ready,
\* or with the frames locked (then nothing is reconnected either)
Stay ==
    /\ visible /\ ~shutdown
    /\ \E st \in {Playing, Reconnected(Playing)} : Repaint(st, st.shown)

\* A repaint that moves on to a finished frame
Advance ==
    /\ visible /\ ~shutdown /\ player # None
    /\ \E f \in ReadyAfter(player.shown) : Repaint(player, f)

\* A page next to the view gets a first picture, of the frame it stands at.
Glimpse ==
    /\ ~visible /\ ~shutdown /\ ~texture
    /\ InRing(Playing.shown)
    /\ texture' = TRUE
    /\ UNCHANGED <<streamVars, queueVars, decodeVars, resizeVars, player, visible, commandVars>>

\* The page enters or leaves the view and stays in the window of textures.
Turn ==
    /\ ~shutdown
    /\ visible' = ~visible
    /\ UNCHANGED <<streamVars, queueVars, decodeVars, resizeVars, player, texture, commandVars>>

\* The viewer is closed and opened anew, or the page left the window of
\* textures: the animation stays in the page cache, its AnimState does not.
Forget ==
    /\ ~shutdown /\ (player # None \/ texture)
    /\ player' = None /\ texture' = FALSE
    /\ visible' \in BOOLEAN
    /\ UNCHANGED <<streamVars, queueVars, decodeVars, resizeVars, commandVars>>

\* Drop for RingAnimation: sets shutdown and notifies everyone, holding the
\* mutex of the command but not that of the raw queue.
Drop ==
    /\ ~shutdown
    /\ shutdown' = TRUE
    /\ decodePc' = SpaceSignalled(DecoderWoken(decodePc))
    /\ resizePc' = ResizerWoken(resizePc)
    /\ UNCHANGED <<streamVars, queueVars, decodeFrame, decodeTarget, resizeFrame, viewerVars,
                   requestedThrough>>

-----------------------------------------------------------------------------

DecodeThread == \/ Await \/ Fetch \/ Decode \/ DecodeFails \/ Check
                \/ LockToPush \/ Push \/ FindFull \/ Park

ResizeThread == LockToPop \/ Pop \/ Resize \/ ResizeLate \/ Settle \/ Commit

Viewer == Stay \/ Advance \/ Glimpse \/ Turn \/ Forget \/ Drop

Next == DecodeThread \/ ResizeThread \/ Viewer

Spec == Init /\ [][Next]_vars

\* The two threads run; a page in view is repainted until its next frame is
\* taken (update_textures asks for the next repaint).
FairSpec == Spec /\ WF_vars(DecodeThread) /\ WF_vars(ResizeThread)
                 /\ WF_vars(Advance) /\ WF_vars(Stay)
-----------------------------------------------------------------------------
(* Properties *)

\* Type invariant.
TypeOK ==
    /\ ring \in Seq(Nat) /\ Len(ring) \in 1..Capacity
    /\ pendingRaw \in {1, None} /\ nextDecode \in 2..(LastFrame + 1)
    /\ requestedThrough \in -1..LastFrame /\ shutdown \in BOOLEAN
    /\ rawQueue \in Seq(Nat) /\ Len(rawQueue) <= RawCapacity /\ dropStale \in BOOLEAN
    /\ decodePc \in {"off", "await", "asleep", "fetch", "decode", "check", "push",
                     "pushing", "parking", "full", "done"}
    /\ decodeFrame \in Nat \cup {None} /\ decodeTarget \in 0..LastFrame
    /\ resizePc \in {"off", "pop", "popping", "empty", "resize", "settle", "commit", "done"}
    /\ resizeFrame \in Nat \cup {None}
    /\ player \in [shown : Nat, requested : Nat] \cup {None}
    /\ texture \in BOOLEAN /\ visible \in BOOLEAN

\* Every frame between the decoder and the screen, oldest first
Held(f) == IF f = None THEN <<>> ELSE <<f>>
Stream == ring \o Held(resizeFrame) \o rawQueue \o Held(decodeFrame) \o Held(pendingRaw)
               \o <<nextDecode>>

\* The frames under way keep their order across the two threads and the queue
\* between them, and none is skipped or doubled before dropping begins
\* (push_raw, commit_resized_frame).
StreamInOrder ==
    \A i \in 1..(Len(Stream) - 1) :
        /\ Stream[i] < Stream[i + 1]
        /\ ~dropStale /\ ~shutdown => Stream[i + 1] = Stream[i] + 1

\* The pipeline never runs ahead of what it was asked for, however far its
\* own frames have come (requested_through of the decode thread).
NoRunaway == nextDecode <= GreatestOf(1, requestedThrough) + 1

\* The frame that follows the one on the screen is not pushed out of the ring
\* before its turn.
NextFrameKept ==
    player # None /\ texture /\ visible /\ ~dropStale =>
        player.shown + 1 > Newest \/ InRing(player.shown + 1)

\* It is so wherever the viewer's own window reaches as far as the pipeline
\* was asked to go (next_anim_decode_request counts from the frame shown).
Covered == player # None /\ player.requested >= requestedThrough
WindowKeepsNextFrame == Covered => NextFrameKept

\* A visible animation plays on to the last frame asked for, whichever way
\* the waits and notifications of the three threads fall.
PlaysOn ==
    \A f \in 0..(LastFrame - 1) :
        (visible /\ Covered /\ player.shown = f) ~>
            \/ ~visible \/ ~Covered \/ shutdown \/ decodePc = "done"
            \/ player.shown > f

\* Dropping the animation ends its threads.
ThreadsEnd == shutdown ~> decodePc \in {"off", "done"} /\ resizePc \in {"off", "done"}

=============================================================================
