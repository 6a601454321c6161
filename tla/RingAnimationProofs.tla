------------------------- MODULE RingAnimationProofs -------------------------
(***************************************************************************)
(* What holds of one animation for every size of its ring and of its raw     *)
(* queue, every read-ahead and every length: frames keep their order between  *)
(* the two threads, production obeys the request, and the frame that follows   *)
(* the one on the screen is still there when its turn comes.                    *)
(*                                                                         *)
(* The invariant follows the frames from the ring to the decoder as a chain.     *)
(* Two frames next to each other in it are in order, and without a gap while     *)
(* none was dropped: by the queue (dropStale), or by the resize thread, which    *)
(* throws one away after the animation was dropped and then stops.               *)
(***************************************************************************)
EXTENDS RingAnimation, TLAPS

\* Frames side by side; `tight' if none may be missing between them
Rising(s, tight) ==
    \A i, j \in 1..Len(s) : i < j => s[i] < s[j] /\ (tight => s[j] = s[i] + (j - i))
Follows(f, g, tight) == f < g /\ (tight => g = f + 1)

\* The last frame of the chain up to each place
LastResized == IF resizeFrame = None THEN Newest ELSE resizeFrame
LastQueued == IF rawQueue = <<>> THEN LastResized ELSE rawQueue[Len(rawQueue)]
LastDecoded == IF decodeFrame = None THEN LastQueued ELSE decodeFrame
LastRaw == IF pendingRaw = None THEN LastDecoded ELSE pendingRaw

\* The resize thread has thrown a frame away, or may have.
Cut == shutdown /\ resizePc \in {"pop", "done"}
GapFree == ~dropStale /\ ~Cut

Chain ==
    /\ Rising(ring, ~dropStale)
    /\ Rising(rawQueue, GapFree)
    /\ resizeFrame # None => Follows(Newest, resizeFrame, ~dropStale)
    /\ rawQueue # <<>> => Follows(LastResized, rawQueue[1], GapFree)
    /\ decodeFrame # None => Follows(LastQueued, decodeFrame, GapFree)
    /\ pendingRaw # None => Follows(LastDecoded, pendingRaw, GapFree)
    /\ Follows(LastRaw, nextDecode, GapFree)

\* A thread has a frame in its hands where its loop says so.
Hands ==
    /\ decodePc \in {"off", "await", "asleep", "fetch", "decode"} => decodeFrame = None
    /\ decodePc \in {"check", "push", "pushing", "parking", "full"} => decodeFrame # None
    /\ resizeFrame # None <=> resizePc \in {"resize", "settle", "commit"}

\* The decode thread works for a request that was made.
Requested ==
    /\ decodePc \in {"fetch", "decode"} => decodeTarget <= requestedThrough
    /\ decodePc = "decode" => pendingRaw = None /\ nextDecode <= decodeTarget
    /\ NoRunaway

\* The viewer shows a frame that was made, and asks no further than its window.
Window == LeastOf(DecodeAhead, Capacity)
ViewerInv ==
    player # None => /\ player.shown <= Newest
                     /\ player.requested <= LastFrame
                     /\ player.requested <= player.shown + Window

\* Nothing has left a ring that is not full.
RingInv == Len(ring) < Capacity => ring[1] = 0

IInv == TypeOK /\ Chain /\ Hands /\ Requested /\ ViewerInv /\ RingInv

-----------------------------------------------------------------------------
(* Rising sequences *)

LEMMA RisingAppend ==
  ASSUME NEW s \in Seq(Nat), NEW tight \in BOOLEAN, Rising(s, tight), NEW f \in Nat,
         s # <<>> => Follows(s[Len(s)], f, tight)
  PROVE  Rising(Append(s, f), tight)
<1> DEFINE t == Append(s, f)
<1>1. /\ t \in Seq(Nat) /\ Len(t) = Len(s) + 1 /\ t[Len(s) + 1] = f
      /\ \A i \in 1 .. Len(s) : t[i] = s[i]
  OBVIOUS
<1>2. \A i \in 1 .. Len(s) : s[i] \in Nat
  OBVIOUS
<1>3. \A i \in 1 .. Len(s) : s[i] < f /\ (tight => f = s[i] + (Len(s) + 1 - i))
  <2> SUFFICES ASSUME NEW i \in 1 .. Len(s)
               PROVE  s[i] < f /\ (tight => f = s[i] + (Len(s) + 1 - i))
    OBVIOUS
  <2>1. Follows(s[Len(s)], f, tight) /\ Len(s) \in 1 .. Len(s)
    OBVIOUS
  <2>2. CASE i = Len(s)
    BY <1>2, <2>1, <2>2 DEF Follows
  <2>3. CASE i < Len(s)
    <3>1. s[i] < s[Len(s)] /\ (tight => s[Len(s)] = s[i] + (Len(s) - i))
      BY <2>1, <2>3 DEF Rising
    <3> QED
      BY <1>2, <2>1, <3>1 DEF Follows
  <2> QED
    BY <2>2, <2>3
<1> HIDE DEF t
<1>4. ASSUME NEW i \in 1 .. Len(t), NEW j \in 1 .. Len(t), i < j
      PROVE  t[i] < t[j] /\ (tight => t[j] = t[i] + (j - i))
  <2>1. i \in 1 .. Len(s)
    BY <1>1, <1>4
  <2>2. CASE j = Len(s) + 1
    BY <1>1, <1>3, <2>1, <2>2
  <2>3. CASE j \in 1 .. Len(s)
    BY <1>1, <1>4, <2>1, <2>3 DEF Rising
  <2> QED
    BY <1>1, <2>2, <2>3
<1> QED
  BY <1>4 DEF Rising, t

LEMMA RisingTail ==
  ASSUME NEW s \in Seq(Nat), NEW tight \in BOOLEAN, Rising(s, tight), s # <<>>
  PROVE  Rising(Tail(s), tight)
<1> DEFINE t == Tail(s)
<1>1. /\ Len(t) = Len(s) - 1 /\ Len(s) \in Nat
      /\ \A i \in 1 .. Len(t) : t[i] = s[i + 1] /\ i + 1 \in 1 .. Len(s)
      /\ \A i \in 1 .. Len(s) : s[i] \in Nat
  OBVIOUS
<1> HIDE DEF t
<1>2. ASSUME NEW i \in 1 .. Len(t), NEW j \in 1 .. Len(t), i < j
      PROVE  t[i] < t[j] /\ (tight => t[j] = t[i] + (j - i))
  <2>1. s[i + 1] < s[j + 1] /\ (tight => s[j + 1] = s[i + 1] + ((j + 1) - (i + 1)))
    BY <1>1, <1>2 DEF Rising
  <2> QED
    BY <1>1, <2>1
<1> QED
  BY <1>2 DEF Rising, t

-----------------------------------------------------------------------------
(* The types *)

LEMMA Natural ==
  ASSUME CapacityAssumption, TypeOK
  PROVE  /\ Newest \in Nat /\ ring # <<>> /\ ring[1] \in Nat
         /\ \A i \in 1 .. Len(ring) : ring[i] \in Nat
         /\ \A i \in 1 .. Len(rawQueue) : rawQueue[i] \in Nat
         /\ LastResized \in Nat /\ LastQueued \in Nat /\ LastDecoded \in Nat /\ LastRaw \in Nat
         /\ nextDecode \in Nat
<1>1. /\ ring \in Seq(Nat) /\ Len(ring) \in Nat \ {0} /\ rawQueue \in Seq(Nat)
      /\ nextDecode \in Nat
      /\ resizeFrame \in Nat \cup {None} /\ decodeFrame \in Nat \cup {None}
      /\ pendingRaw \in Nat \cup {None}
  BY DEF TypeOK, CapacityAssumption
<1>2. Newest \in Nat /\ ring # <<>> /\ ring[1] \in Nat
  BY <1>1 DEF Newest
<1>3. rawQueue # <<>> => rawQueue[Len(rawQueue)] \in Nat
  BY <1>1
<1>4. LastResized \in Nat
  BY <1>1, <1>2 DEF LastResized
<1>5. LastQueued \in Nat
  BY <1>3, <1>4 DEF LastQueued
<1>6. LastDecoded \in Nat
  BY <1>1, <1>5 DEF LastDecoded
<1>7. LastRaw \in Nat
  BY <1>1, <1>6 DEF LastRaw
<1> QED
  BY <1>1, <1>2, <1>4, <1>5, <1>6, <1>7

\* The newest finished frame is older than the next to be decoded.
LEMMA NewestIsBehind ==
  ASSUME CapacityAssumption, TypeOK, Chain
  PROVE  Newest < nextDecode
<1> USE Natural
<1>1. Newest <= LastResized
  BY DEF Chain, LastResized, Follows, TypeOK
<1>2. LastResized <= LastQueued
  <2>1. CASE rawQueue = <<>>
    BY <2>1 DEF LastQueued
  <2>2. CASE rawQueue # <<>>
    <3>1. LastResized < rawQueue[1] /\ LastQueued = rawQueue[Len(rawQueue)]
      BY <2>2 DEF Chain, Follows, LastQueued
    <3>2. rawQueue \in Seq(Nat) /\ Len(rawQueue) \in Nat \ {0}
      BY <2>2 DEF TypeOK
    <3>3. rawQueue[1] <= rawQueue[Len(rawQueue)]
      BY <3>2 DEF Chain, Rising
    <3> QED
      BY <3>1, <3>2, <3>3
  <2> QED
    BY <2>1, <2>2
<1>3. LastQueued <= LastDecoded
  BY DEF Chain, LastDecoded, Follows, TypeOK
<1>4. LastDecoded <= LastRaw
  BY DEF Chain, LastRaw, Follows, TypeOK
<1> QED
  BY <1>1, <1>2, <1>3, <1>4 DEF Chain, Follows

-----------------------------------------------------------------------------
(* The decode thread *)

frames == <<ring, resizeFrame, rawQueue, decodeFrame, pendingRaw, nextDecode>>

\* A step that moves no frame keeps the chain: it only becomes looser.
LEMMA ChainKept ==
  ASSUME Chain, UNCHANGED frames, dropStale => dropStale', Cut => Cut'
  PROVE  Chain'
<1>1. GapFree' => GapFree
  BY DEF GapFree
<1>2. /\ Newest' = Newest /\ LastResized' = LastResized /\ LastQueued' = LastQueued
      /\ LastDecoded' = LastDecoded /\ LastRaw' = LastRaw
  BY DEF frames, Newest, LastResized, LastQueued, LastDecoded, LastRaw
<1>3. /\ ring' = ring /\ resizeFrame' = resizeFrame /\ rawQueue' = rawQueue
      /\ decodeFrame' = decodeFrame /\ pendingRaw' = pendingRaw /\ nextDecode' = nextDecode
  BY DEF frames
<1>4. Rising(ring, ~dropStale') /\ Rising(rawQueue, GapFree')
  BY <1>1 DEF Chain, Rising
<1>5. /\ resizeFrame # None => Follows(Newest, resizeFrame, ~dropStale')
      /\ rawQueue # <<>> => Follows(LastResized, rawQueue[1], GapFree')
      /\ decodeFrame # None => Follows(LastQueued, decodeFrame, GapFree')
      /\ pendingRaw # None => Follows(LastDecoded, pendingRaw, GapFree')
      /\ Follows(LastRaw, nextDecode, GapFree')
  BY <1>1 DEF Chain, Follows
<1> HIDE DEF GapFree, Newest, LastResized, LastQueued, LastDecoded, LastRaw, Rising, Follows
<1> QED
  BY <1>2, <1>3, <1>4, <1>5 DEF Chain

\* Waiting, testing shutdown, locking the raw queue or waiting for room in it
Waits == Await \/ DecodeFails \/ Check \/ LockToPush \/ FindFull \/ Park

LEMMA WaitsStep ==
  ASSUME CapacityAssumption, IInv, Waits
  PROVE  IInv'
<1> USE DEF IInv
<1> DEFINE Moved ==
         /\ UNCHANGED <<streamVars, queueVars, decodeFrame, resizeVars, viewerVars, commandVars>>
         /\ decodePc' \in {"await", "asleep", "fetch", "check", "push", "pushing", "parking",
                           "full", "done"}
         /\ decodeTarget' \in {decodeTarget, requestedThrough} /\ decodeTarget' >= 0
         /\ decodeFrame = None => decodePc' \in {"asleep", "fetch", "done"}
         /\ decodeFrame # None => decodePc' \in {"push", "pushing", "parking", "full", "done"}
         /\ decodePc' = "fetch" => decodeTarget' = requestedThrough
<1>1. Moved
  <2>1. CASE Await
    <3> DEFINE next == IF pendingRaw # None THEN pendingRaw ELSE nextDecode
    <3>1. next \in Nat /\ requestedThrough \in Int /\ decodeTarget >= 0
      BY DEF TypeOK
    <3>2. decodeFrame = None
      BY <2>1 DEF Await, Hands
    <3> QED
      BY <2>1, <3>1, <3>2 DEF Await
  <2>2. CASE DecodeFails
    BY <2>2 DEF DecodeFails, Hands, TypeOK, queueVars, resizeVars, streamVars, viewerVars, commandVars
  <2>3. CASE Check
    BY <2>3 DEF Check, Hands, TypeOK
  <2>4. CASE LockToPush
    BY <2>4 DEF LockToPush, Hands, TypeOK
  <2>5. CASE FindFull
    BY <2>5 DEF FindFull, Hands, TypeOK
  <2>6. CASE Park
    BY <2>6 DEF Park, Hands, TypeOK
  <2> QED
    BY <2>1, <2>2, <2>3, <2>4, <2>5, <2>6 DEF Waits
<1>2. TypeOK'
  BY <1>1 DEF TypeOK, streamVars, queueVars, resizeVars, viewerVars, commandVars
<1>3. Chain'
  BY <1>1, ChainKept DEF frames, streamVars, queueVars, resizeVars, commandVars, Cut
<1>4. Hands'
  BY <1>1 DEF Hands, resizeVars
<1>5. Requested'
  BY <1>1 DEF Requested, NoRunaway, GreatestOf, streamVars, commandVars, TypeOK
<1>6. ViewerInv' /\ RingInv'
  BY <1>1 DEF ViewerInv, RingInv, Newest, streamVars, viewerVars
<1> QED
  BY <1>2, <1>3, <1>4, <1>5, <1>6

LEMMA FetchStep ==
  ASSUME CapacityAssumption, IInv, Fetch
  PROVE  IInv'
<1> USE DEF IInv
<1>1. /\ UNCHANGED <<ring, nextDecode, queueVars, decodeTarget, resizeVars, viewerVars, commandVars>>
      /\ decodePc = "fetch" /\ decodeFrame = None
  BY DEF Fetch, Hands
<1>2. CASE pendingRaw # None
  <2>1. decodeFrame' = pendingRaw /\ pendingRaw' = None /\ decodePc' = "check" /\ pendingRaw = 1
    BY <1>2 DEF Fetch, TypeOK
  <2>2. decodeFrame' # None
    BY <2>1 DEF CapacityAssumption
  <2>3. /\ Newest' = Newest /\ LastResized' = LastResized /\ LastQueued' = LastQueued
        /\ LastDecoded = LastQueued /\ LastDecoded' = LastRaw /\ LastRaw' = LastRaw
        /\ GapFree' = GapFree
    BY <1>1, <1>2, <2>1, <2>2 DEF Newest, LastResized, LastQueued, LastDecoded, LastRaw, GapFree,
       Cut, queueVars, resizeVars, commandVars
  <2>4. Chain'
    BY <1>1, <1>2, <2>1, <2>3 DEF Chain, queueVars, resizeVars, commandVars
  <2>5. TypeOK'
    BY <1>1, <2>1 DEF TypeOK, queueVars, resizeVars, viewerVars, commandVars
  <2>6. Hands' /\ Requested'
    BY <1>1, <2>1, <2>2
       DEF Hands, Requested, NoRunaway, GreatestOf, queueVars, resizeVars, commandVars
  <2>7. ViewerInv' /\ RingInv'
    BY <1>1 DEF ViewerInv, RingInv, Newest, viewerVars
  <2> QED
    BY <2>4, <2>5, <2>6, <2>7
<1>3. CASE pendingRaw = None
  <2>1. /\ decodePc' = (IF nextDecode <= decodeTarget THEN "decode" ELSE "await")
        /\ UNCHANGED <<decodeFrame, pendingRaw>>
    BY <1>3 DEF Fetch
  <2>2. Chain'
    BY <1>1, <2>1, ChainKept DEF frames, queueVars, resizeVars, commandVars, Cut
  <2>3. TypeOK'
    BY <1>1, <2>1 DEF TypeOK, queueVars, resizeVars, viewerVars, commandVars
  <2>4. Hands' /\ Requested'
    BY <1>1, <1>3, <2>1 DEF Hands, Requested, NoRunaway, GreatestOf, resizeVars, commandVars
  <2>5. ViewerInv' /\ RingInv'
    BY <1>1 DEF ViewerInv, RingInv, Newest, viewerVars
  <2> QED
    BY <2>2, <2>3, <2>4, <2>5
<1> QED
  BY <1>2, <1>3

LEMMA DecodeStep ==
  ASSUME CapacityAssumption, IInv, Decode
  PROVE  IInv'
<1> USE DEF IInv
<1>1. /\ UNCHANGED <<ring, pendingRaw, queueVars, decodeTarget, resizeVars, viewerVars, commandVars>>
      /\ decodePc = "decode" /\ decodeFrame = None /\ pendingRaw = None
      /\ decodeFrame' = nextDecode /\ nextDecode' = nextDecode + 1 /\ decodePc' = "check"
  BY DEF Decode, Hands, Requested
<1>2. /\ nextDecode <= decodeTarget /\ decodeTarget <= requestedThrough
      /\ nextDecode \in 2 .. (LastFrame + 1) /\ decodeTarget \in 0 .. LastFrame
      /\ requestedThrough \in -1 .. LastFrame
  BY <1>1 DEF Requested, TypeOK
<1>3. decodeFrame' # None /\ LastFrame \in Nat
  BY <1>1, <1>2 DEF CapacityAssumption
<1>4. /\ Newest' = Newest /\ LastResized' = LastResized /\ LastQueued' = LastQueued
      /\ LastRaw = LastQueued /\ LastRaw' = nextDecode /\ GapFree' = GapFree
  BY <1>1, <1>3 DEF Newest, LastResized, LastQueued, LastDecoded, LastRaw, GapFree, Cut,
     queueVars, resizeVars, commandVars
<1>5. Follows(LastRaw', nextDecode', GapFree')
  BY <1>1, <1>2, <1>4 DEF Follows
<1>6. Chain'
  BY <1>1, <1>4, <1>5 DEF Chain, queueVars, resizeVars, commandVars
<1>7. TypeOK'
  BY <1>1, <1>2, <1>3 DEF TypeOK, queueVars, resizeVars, viewerVars, commandVars
<1>8. Hands' /\ Requested'
  BY <1>1, <1>2, <1>3 DEF Hands, Requested, NoRunaway, GreatestOf, resizeVars, commandVars
<1>9. ViewerInv' /\ RingInv'
  BY <1>1 DEF ViewerInv, RingInv, Newest, viewerVars
<1> QED
  BY <1>6, <1>7, <1>8, <1>9

LEMMA PushStep ==
  ASSUME CapacityAssumption, IInv, Push
  PROVE  IInv'
<1> USE DEF IInv
<1>1. /\ UNCHANGED <<streamVars, dropStale, decodeTarget, resizeFrame, viewerVars, commandVars>>
      /\ decodePc = "pushing" /\ decodeFrame # None /\ decodeFrame \in Nat
      /\ decodePc' = "await" /\ decodeFrame' = None
      /\ resizePc' = ResizerWoken(resizePc)
      /\ rawQueue \in Seq(Nat)
  BY DEF Push, Hands, TypeOK
<1>2. /\ Newest' = Newest /\ LastResized' = LastResized
      /\ LastDecoded = decodeFrame
  BY <1>1 DEF Newest, LastResized, LastDecoded, streamVars
<1>3. /\ resizePc' \in {"off", "pop", "popping", "resize", "settle", "commit", "done"}
      /\ resizePc' # "pop" => resizePc' = resizePc
      /\ resizePc \in {"pop", "resize", "settle", "commit", "done"} => resizePc' = resizePc
  BY <1>1 DEF ResizerWoken, TypeOK
<1>4. GapFree' => GapFree
  BY <1>1, <1>3 DEF GapFree, Cut, commandVars
<1>5. /\ rawQueue' \in Seq(Nat) /\ rawQueue' # <<>> /\ Len(rawQueue') <= RawCapacity
      /\ LastQueued' = decodeFrame
      /\ Rising(rawQueue', GapFree')
      /\ Follows(LastResized, rawQueue'[1], GapFree')
  <2>1. CASE dropStale /\ rawQueue' = <<decodeFrame>>
    <3>1. Rising(rawQueue', GapFree')
      BY <2>1 DEF Rising
    <3>2. LastResized <= LastQueued
      <4>1. CASE rawQueue = <<>>
        BY <4>1, Natural DEF LastQueued
      <4>2. CASE rawQueue # <<>>
        <5>1. LastResized < rawQueue[1] /\ LastQueued = rawQueue[Len(rawQueue)]
          BY <4>2 DEF Chain, Follows, LastQueued
        <5>2. rawQueue[1] <= rawQueue[Len(rawQueue)]
          BY <1>1, <4>2 DEF Chain, Rising
        <5> QED
          BY <1>1, <4>2, <5>1, <5>2, Natural
      <4> QED
        BY <4>1, <4>2
    <3>3. LastQueued < decodeFrame
      BY <1>1 DEF Chain, Follows
    <3>4. Follows(LastResized, decodeFrame, FALSE) /\ ~GapFree'
      BY <1>1, <2>1, <3>2, <3>3, Natural DEF Follows, GapFree
    <3> QED
      BY <1>1, <2>1, <3>1, <3>4 DEF LastQueued, Follows, CapacityAssumption
  <2>2. CASE Len(rawQueue) < RawCapacity /\ rawQueue' = Append(rawQueue, decodeFrame)
    <3>1. /\ rawQueue' \in Seq(Nat) /\ Len(rawQueue') = Len(rawQueue) + 1
          /\ rawQueue'[Len(rawQueue')] = decodeFrame /\ rawQueue' # <<>>
          /\ rawQueue # <<>> => rawQueue'[1] = rawQueue[1]
          /\ rawQueue = <<>> => rawQueue'[1] = decodeFrame
      BY <1>1, <2>2
    <3>2. Follows(LastQueued, decodeFrame, GapFree) /\ GapFree \in BOOLEAN
      BY <1>1 DEF Chain, GapFree
    <3>3. rawQueue # <<>> => Follows(rawQueue[Len(rawQueue)], decodeFrame, GapFree)
      BY <3>2 DEF LastQueued
    <3>4. Rising(rawQueue', GapFree)
      BY <1>1, <2>2, <3>2, <3>3, RisingAppend DEF Chain
    <3>5. Follows(LastResized, rawQueue'[1], GapFree)
      BY <3>1, <3>2 DEF LastQueued, Chain
    <3>6. Len(rawQueue') <= RawCapacity
      BY <1>1, <2>2, <3>1 DEF CapacityAssumption
    <3>7. LastQueued' = decodeFrame
      BY <3>1 DEF LastQueued
    <3> QED
      BY <1>4, <3>1, <3>4, <3>5, <3>6, <3>7 DEF Rising, Follows
  <2> QED
    BY <2>1, <2>2 DEF Push
<1>6. /\ LastDecoded' = LastDecoded /\ LastRaw' = LastRaw
  BY <1>1, <1>2, <1>5 DEF LastDecoded, LastRaw, streamVars
<1>7. Chain'
  <2>1. Rising(ring', ~dropStale')
    BY <1>1 DEF Chain, streamVars
  <2>2. resizeFrame' # None => Follows(Newest', resizeFrame', ~dropStale')
    BY <1>1, <1>2 DEF Chain
  <2>3. Follows(LastResized', rawQueue'[1], GapFree')
    BY <1>2, <1>5
  <2>4. pendingRaw' # None => Follows(LastDecoded', pendingRaw', GapFree')
    BY <1>1, <1>4, <1>6 DEF Chain, Follows, streamVars
  <2>5. Follows(LastRaw', nextDecode', GapFree')
    BY <1>1, <1>4, <1>6 DEF Chain, Follows, streamVars
  <2> QED
    BY <1>1, <1>5, <2>1, <2>2, <2>3, <2>4, <2>5 DEF Chain
<1>8. TypeOK'
  BY <1>1, <1>3, <1>5 DEF TypeOK, streamVars, viewerVars, commandVars
<1>9. Hands' /\ Requested'
  BY <1>1, <1>3 DEF Hands, Requested, NoRunaway, GreatestOf, streamVars, commandVars
<1>10. ViewerInv' /\ RingInv'
  BY <1>1 DEF ViewerInv, RingInv, Newest, streamVars, viewerVars
<1> QED
  BY <1>7, <1>8, <1>9, <1>10

-----------------------------------------------------------------------------
(* The resize thread *)

LEMMA LockToPopStep ==
  ASSUME CapacityAssumption, IInv, LockToPop
  PROVE  IInv'
<1> USE DEF IInv
<1>1. /\ UNCHANGED <<streamVars, queueVars, decodeVars, resizeFrame, viewerVars, commandVars>>
      /\ resizePc = "pop" /\ resizePc' = (IF shutdown THEN "done" ELSE "popping")
  BY DEF LockToPop
<1>2. Chain'
  BY <1>1, ChainKept DEF frames, streamVars, queueVars, decodeVars, commandVars, Cut
<1>3. TypeOK'
  BY <1>1 DEF TypeOK, streamVars, queueVars, decodeVars, viewerVars, commandVars
<1>4. Hands' /\ Requested'
  BY <1>1 DEF Hands, Requested, NoRunaway, GreatestOf, streamVars, decodeVars, commandVars
<1>5. ViewerInv' /\ RingInv'
  BY <1>1 DEF ViewerInv, RingInv, Newest, streamVars, viewerVars
<1> QED
  BY <1>2, <1>3, <1>4, <1>5

LEMMA PopStep ==
  ASSUME CapacityAssumption, IInv, Pop
  PROVE  IInv'
<1> USE DEF IInv
<1>1. /\ UNCHANGED <<streamVars, dropStale, decodeFrame, decodeTarget, viewerVars, commandVars>>
      /\ resizePc = "popping" /\ resizeFrame = None /\ rawQueue \in Seq(Nat)
      /\ LastResized = Newest /\ Newest' = Newest
  BY DEF Pop, Hands, LastResized, TypeOK, Newest, streamVars
<1>2. ViewerInv' /\ RingInv'
  BY <1>1 DEF ViewerInv, RingInv, Newest, streamVars, viewerVars
<1>3. CASE rawQueue # <<>>
  <2>1. /\ resizeFrame' = rawQueue[1] /\ rawQueue' = Tail(rawQueue)
        /\ decodePc' = SpaceSignalled(decodePc) /\ resizePc' = "resize"
    BY <1>1, <1>3 DEF Pop
  <2>2. /\ resizeFrame' \in Nat /\ resizeFrame' # None
        /\ rawQueue' \in Seq(Nat) /\ Len(rawQueue') = Len(rawQueue) - 1
        /\ rawQueue' # <<>> => /\ rawQueue'[Len(rawQueue')] = rawQueue[Len(rawQueue)]
                               /\ rawQueue'[1] = rawQueue[2] /\ Len(rawQueue) >= 2
        /\ rawQueue' = <<>> => Len(rawQueue) = 1
    <3>1. /\ Len(rawQueue) \in Nat \ {0} /\ rawQueue[1] \in Nat
          /\ rawQueue' \in Seq(Nat) /\ Len(rawQueue') = Len(rawQueue) - 1
          /\ \A i \in 1 .. Len(rawQueue') : rawQueue'[i] = rawQueue[i + 1]
      BY <1>1, <1>3, <2>1
    <3>2. rawQueue' # <<>> => Len(rawQueue') \in 1 .. Len(rawQueue') /\ 1 \in 1 .. Len(rawQueue')
      BY <3>1
    <3>3. rawQueue' = <<>> => Len(rawQueue') = 0
      OBVIOUS
    <3> QED
      BY <2>1, <3>1, <3>2, <3>3 DEF CapacityAssumption
  <2>3. GapFree = ~dropStale /\ GapFree' = ~dropStale /\ dropStale' = dropStale
    BY <1>1, <2>1 DEF GapFree, Cut
  <2>4. LastResized' = rawQueue[1] /\ LastQueued' = LastQueued
    BY <1>1, <1>3, <2>1, <2>2 DEF LastResized, LastQueued
  <2>5. LastDecoded' = LastDecoded /\ LastRaw' = LastRaw
    BY <1>1, <2>4 DEF LastDecoded, LastRaw, streamVars
  <2>6. Rising(rawQueue', GapFree')
    BY <1>1, <1>3, <2>1, <2>3, RisingTail DEF Chain, TypeOK
  <2>7. Follows(Newest', resizeFrame', ~dropStale')
    BY <1>1, <1>3, <2>1, <2>3 DEF Chain
  <2>8. rawQueue' # <<>> => Follows(LastResized', rawQueue'[1], GapFree')
    <3> SUFFICES ASSUME rawQueue' # <<>>
                 PROVE  Follows(rawQueue[1], rawQueue[2], ~dropStale)
      BY <2>2, <2>3, <2>4
    <3>1. 1 \in 1 .. Len(rawQueue) /\ 2 \in 1 .. Len(rawQueue)
      BY <1>1, <2>2
    <3>2. Rising(rawQueue, ~dropStale)
      BY <2>3 DEF Chain
    <3>3. /\ rawQueue[1] < rawQueue[2]
          /\ ~dropStale => rawQueue[2] = rawQueue[1] + (2 - 1)
      BY ONLY <3>1, <3>2 DEF Rising
    <3> QED
      BY <1>1, <3>1, <3>3 DEF Follows
  <2>9. Chain'
    BY <1>1, <2>3, <2>4, <2>5, <2>6, <2>7, <2>8 DEF Chain, streamVars
  <2>10. decodePc' = decodePc \/ (decodePc = "full" /\ decodePc' = "push")
    BY <2>1 DEF SpaceSignalled
  <2>11. TypeOK'
    BY <1>1, <2>1, <2>2, <2>10 DEF TypeOK, streamVars, viewerVars, commandVars
  <2>12. Hands' /\ Requested'
    BY <1>1, <2>1, <2>2, <2>10
       DEF Hands, Requested, NoRunaway, GreatestOf, streamVars, commandVars
  <2> QED
    BY <1>2, <2>9, <2>11, <2>12
<1>4. CASE rawQueue = <<>>
  <2>1. resizePc' = "empty" /\ UNCHANGED <<resizeFrame, rawQueue, decodePc>>
    BY <1>4 DEF Pop
  <2>2. Chain'
    BY <1>1, <2>1, ChainKept DEF frames, streamVars, commandVars, Cut
  <2>3. TypeOK'
    BY <1>1, <2>1 DEF TypeOK, streamVars, viewerVars, commandVars
  <2>4. Hands' /\ Requested'
    BY <1>1, <2>1 DEF Hands, Requested, NoRunaway, GreatestOf, streamVars, commandVars
  <2> QED
    BY <1>2, <2>2, <2>3, <2>4
<1> QED
  BY <1>3, <1>4

LEMMA ResizeStep ==
  ASSUME CapacityAssumption, IInv, Resize \/ ResizeLate
  PROVE  IInv'
<1> USE DEF IInv
<1>1. /\ UNCHANGED <<streamVars, rawQueue, decodeFrame, decodeTarget, resizeFrame, viewerVars, commandVars>>
      /\ resizePc = "resize" /\ resizePc' = "settle"
      /\ decodePc' = decodePc \/ (decodePc = "full" /\ decodePc' = "push")
      /\ dropStale' = dropStale \/ dropStale' = TRUE
  BY DEF Resize, ResizeLate, SpaceSignalled, queueVars, decodeVars
<1>2. Chain'
  BY <1>1, ChainKept DEF frames, streamVars, commandVars, Cut
<1>3. TypeOK'
  <2>1. ring' \in Seq(Nat) /\ Len(ring') \in 1..Capacity
    BY <1>1 DEF TypeOK, streamVars
  <2>2. rawQueue' \in Seq(Nat) /\ Len(rawQueue') <= RawCapacity
    BY <1>1 DEF TypeOK
  <2>3. UNCHANGED <<ring, pendingRaw, nextDecode, requestedThrough, shutdown, player, texture, visible>>
    BY <1>1 DEF streamVars, viewerVars, commandVars
  <2> QED
    BY ZenonT(30), <1>1, <2>1, <2>2, <2>3 DEF TypeOK
<1>4. Hands' /\ Requested'
  BY <1>1 DEF Hands, Requested, NoRunaway, GreatestOf, streamVars, commandVars
<1>5. ViewerInv' /\ RingInv'
  BY <1>1 DEF ViewerInv, RingInv, Newest, streamVars, viewerVars
<1> QED
  BY <1>2, <1>3, <1>4, <1>5

\* A frame thrown away leaves a gap, and the thread will stop.
LEMMA SettleStep ==
  ASSUME CapacityAssumption, IInv, Settle
  PROVE  IInv'
<1> USE DEF IInv
<1>1. /\ UNCHANGED <<streamVars, queueVars, decodeVars, viewerVars, commandVars>>
      /\ resizePc = "settle" /\ resizeFrame # None /\ resizeFrame \in Nat
      /\ resizePc' = IF shutdown THEN "pop" ELSE "commit"
      /\ resizeFrame' = IF shutdown THEN None ELSE resizeFrame
  BY DEF Settle, Hands, TypeOK
<1>2. TypeOK'
  BY <1>1 DEF TypeOK, streamVars, queueVars, decodeVars, viewerVars, commandVars
<1>3. Hands' /\ Requested'
  BY <1>1 DEF Hands, Requested, NoRunaway, GreatestOf, streamVars, decodeVars, commandVars
<1>4. ViewerInv' /\ RingInv'
  BY <1>1 DEF ViewerInv, RingInv, Newest, streamVars, viewerVars
<1>5. Chain'
  <2>1. CASE ~shutdown
    BY <1>1, <2>1, ChainKept DEF frames, streamVars, queueVars, decodeVars, commandVars, Cut
  <2>2. CASE shutdown
    <3>1. resizeFrame' = None /\ ~GapFree'
      BY <1>1, <2>2 DEF GapFree, Cut, commandVars
    <3>2. /\ ring' = ring /\ rawQueue' = rawQueue /\ decodeFrame' = decodeFrame
          /\ pendingRaw' = pendingRaw /\ nextDecode' = nextDecode /\ dropStale' = dropStale
      BY <1>1 DEF streamVars, queueVars, decodeVars
    <3>3. Newest' = Newest /\ LastResized' = Newest /\ Newest < LastResized
      BY <1>1, <3>1, <3>2 DEF Newest, LastResized, Chain, Follows
    <3>4. LastQueued' <= LastQueued /\ (rawQueue # <<>> => LastQueued' = LastQueued)
      BY <3>2, <3>3, Natural DEF LastQueued
    <3>5. LastQueued' \in Nat
      BY <3>2, <3>3, <3>4, Natural DEF LastQueued
    <3>6. LastDecoded' <= LastDecoded /\ LastDecoded' \in Nat
      BY <3>2, <3>4, <3>5, Natural DEF LastDecoded
    <3>7. LastRaw' <= LastRaw /\ LastRaw' \in Nat
      BY <3>2, <3>6, Natural DEF LastRaw
    <3>8. Rising(rawQueue', GapFree') /\ Rising(ring', ~dropStale')
      BY <3>1, <3>2 DEF Chain, Rising
    <3>9. rawQueue' # <<>> => Follows(LastResized', rawQueue'[1], GapFree')
      <4> SUFFICES ASSUME rawQueue # <<>> PROVE Newest < rawQueue[1]
        BY <3>1, <3>2, <3>3 DEF Follows
      <4>1. LastResized < rawQueue[1]
        BY DEF Chain, Follows
      <4>2. Len(rawQueue) \in Nat \ {0}
        BY DEF TypeOK
      <4>3. rawQueue[1] \in Nat
        BY <4>2, Natural
      <4> QED
        BY <3>3, <4>1, <4>3, Natural
    <3>10. decodeFrame' # None => Follows(LastQueued', decodeFrame', GapFree')
      <4>1. decodeFrame # None => decodeFrame \in Nat /\ LastQueued < decodeFrame
        BY DEF Chain, Follows, TypeOK
      <4>2. decodeFrame # None => LastQueued' < decodeFrame
        BY <3>4, <3>5, <4>1, Natural
      <4> QED
        BY <3>1, <3>2, <4>2 DEF Follows
    <3>11. pendingRaw' # None => Follows(LastDecoded', pendingRaw', GapFree')
      <4>1. pendingRaw # None => pendingRaw \in Nat /\ LastDecoded < pendingRaw
        BY DEF Chain, Follows, TypeOK
      <4>2. LastDecoded \in Nat
        BY Natural
      <4>3. pendingRaw # None => LastDecoded' < pendingRaw
        BY <3>6, <4>1, <4>2
      <4> QED
        BY <3>1, <3>2, <4>3 DEF Follows
    <3>12. Follows(LastRaw', nextDecode', GapFree')
      <4>1. nextDecode \in Nat /\ LastRaw < nextDecode /\ LastRaw \in Nat
        BY Natural DEF Chain, Follows, TypeOK
      <4>2. LastRaw' < nextDecode
        BY <3>7, <4>1
      <4> QED
        BY <3>1, <3>2, <4>2 DEF Follows
    <3> QED
      BY <3>1, <3>8, <3>9, <3>10, <3>11, <3>12 DEF Chain
  <2> QED
    BY <2>1, <2>2
<1> QED
  BY <1>2, <1>3, <1>4, <1>5

LEMMA CommitStep ==
  ASSUME CapacityAssumption, IInv, Commit
  PROVE  IInv'
<1> USE DEF IInv
<1>1. /\ UNCHANGED <<pendingRaw, nextDecode, queueVars, decodeVars, viewerVars, commandVars>>
      /\ resizePc = "commit" /\ resizeFrame # None /\ resizeFrame \in Nat
      /\ ring' = Pushed(resizeFrame) /\ resizePc' = "pop" /\ resizeFrame' = None
      /\ ring \in Seq(Nat) /\ Len(ring) \in 1 .. Capacity /\ Capacity \in Nat \ {0}
  BY DEF Commit, Hands, TypeOK, CapacityAssumption
<1> DEFINE base == IF Len(ring) >= Capacity THEN Tail(ring) ELSE ring
<1>2. /\ base \in Seq(Nat) /\ Len(base) <= Capacity - 1
      /\ base # <<>> => base[Len(base)] = ring[Len(ring)]
      /\ Len(base) + 1 < Capacity => base = ring
  BY <1>1
<1>3. Rising(base, ~dropStale)
  <2>1. Rising(ring, ~dropStale) /\ ring # <<>> /\ (~dropStale) \in BOOLEAN
    BY <1>1 DEF Chain
  <2>2. Rising(Tail(ring), ~dropStale)
    BY <1>1, <2>1, RisingTail
  <2> QED
    BY <2>1, <2>2
<1>4. base # <<>> => Follows(base[Len(base)], resizeFrame, ~dropStale)
  BY <1>1, <1>2 DEF Chain, Newest
<1> HIDE DEF base
<1>5. ring' = Append(base, resizeFrame)
  BY <1>1 DEF Pushed, base
<1>6. Rising(ring', ~dropStale')
  BY <1>1, <1>2, <1>3, <1>4, <1>5, RisingAppend DEF TypeOK, queueVars
<1>7. /\ ring' \in Seq(Nat) /\ Len(ring') \in 1 .. Capacity
      /\ Newest' = resizeFrame /\ LastResized' = resizeFrame /\ LastResized = resizeFrame
  BY <1>1, <1>2, <1>5 DEF Newest, LastResized
<1>8. /\ LastQueued' = LastQueued /\ LastDecoded' = LastDecoded /\ LastRaw' = LastRaw
      /\ GapFree' => GapFree
  BY <1>1, <1>7 DEF LastQueued, LastDecoded, LastRaw, GapFree, Cut, queueVars, decodeVars, commandVars
<1>9. Chain'
  <2>1. Rising(rawQueue', GapFree')
    BY <1>1, <1>8 DEF Chain, Rising, queueVars
  <2>2. rawQueue' # <<>> => Follows(LastResized', rawQueue'[1], GapFree')
    BY <1>1, <1>7, <1>8 DEF Chain, Follows, queueVars
  <2>3. decodeFrame' # None => Follows(LastQueued', decodeFrame', GapFree')
    BY <1>1, <1>8 DEF Chain, Follows, decodeVars
  <2>4. pendingRaw' # None => Follows(LastDecoded', pendingRaw', GapFree')
    BY <1>1, <1>8 DEF Chain, Follows
  <2>5. Follows(LastRaw', nextDecode', GapFree')
    BY <1>1, <1>8 DEF Chain, Follows
  <2> QED
    BY <1>1, <1>6, <2>1, <2>2, <2>3, <2>4, <2>5 DEF Chain
<1>10. TypeOK'
  BY <1>1, <1>7 DEF TypeOK, queueVars, decodeVars, viewerVars, commandVars
<1>11. Hands' /\ Requested'
  BY <1>1 DEF Hands, Requested, NoRunaway, GreatestOf, decodeVars, commandVars
<1>12. ViewerInv'
  <2>1. Newest < Newest'
    BY <1>1, <1>7 DEF Chain, Follows
  <2> QED
    BY <1>1, <1>7, <2>1, Natural DEF ViewerInv, TypeOK, viewerVars
<1>13. RingInv'
  <2>1. Len(ring') < Capacity => base = ring /\ ring'[1] = ring[1] /\ Len(ring) < Capacity
    BY <1>1, <1>2, <1>5
  <2> QED
    BY <2>1 DEF RingInv
<1> QED
  BY <1>9, <1>10, <1>11, <1>12, <1>13

-----------------------------------------------------------------------------
(* The viewer *)

\* A repaint that does not go back asks for nothing outside its window.
LEMMA RepaintStep ==
  ASSUME CapacityAssumption, IInv, ~shutdown,
         NEW st \in [shown : Nat, requested : Nat], NEW f \in Nat,
         st.shown <= f, f <= Newest,
         st.requested <= LastFrame, st.requested <= f + Window,
         Repaint(st, f)
  PROVE  IInv'
<1> USE DEF IInv
<1> DEFINE r == NextRequest(f, st.requested)
<1>1. /\ player' = [shown |-> f, requested |-> r] /\ Request(r)
      /\ UNCHANGED <<streamVars, queueVars, decodeFrame, decodeTarget, resizeFrame, visible, shutdown>>
      /\ texture' \in BOOLEAN
  BY DEF Repaint, TypeOK, InRing
<1>2. /\ Window \in Nat /\ LastFrame \in Nat /\ st.requested \in Nat
      /\ Window = LeastOf(DecodeAhead, Capacity)
  BY DEF Window, LeastOf, CapacityAssumption
<1>3. r \in Nat /\ r <= LastFrame /\ r <= f + Window
  BY <1>2 DEF NextRequest, LeastOf, GreatestOf
<1> HIDE DEF r
<1>4. /\ requestedThrough' \in {requestedThrough, r} /\ requestedThrough' >= requestedThrough
      /\ decodePc' = decodePc \/ (decodePc \in {"off", "asleep"} /\ decodePc' = "await")
      /\ resizePc' = resizePc \/ (resizePc = "off" /\ resizePc' = "pop")
  <2>1. CASE InRing(r)
    BY <1>1, <2>1 DEF Request, TypeOK
  <2>2. CASE ~InRing(r)
    BY <1>1, <1>3, <2>2 DEF Request, TypeOK, GreatestOf, DecoderWoken
  <2> QED
    BY <2>1, <2>2
<1>5. TypeOK'
  BY <1>1, <1>3, <1>4 DEF TypeOK, streamVars, queueVars
<1>6. Chain'
  BY <1>1, <1>4, ChainKept DEF frames, streamVars, queueVars, Cut
<1>7. Hands'
  BY <1>1, <1>4 DEF Hands
<1>8. Requested'
  <2>1. decodeTarget' = decodeTarget /\ nextDecode' = nextDecode /\ pendingRaw' = pendingRaw
    BY <1>1 DEF streamVars
  <2>2. /\ requestedThrough \in Int /\ requestedThrough' \in Int /\ nextDecode \in Int
        /\ decodeTarget \in Int
    BY <1>3, <1>4 DEF TypeOK
  <2>3. decodePc' \in {"fetch", "decode"} => decodePc' = decodePc
    BY <1>4
  <2>4. NoRunaway'
    <3>1. nextDecode <= GreatestOf(1, requestedThrough) + 1
      BY DEF Requested, NoRunaway
    <3>2. /\ GreatestOf(1, requestedThrough) <= GreatestOf(1, requestedThrough')
          /\ GreatestOf(1, requestedThrough) \in Int /\ GreatestOf(1, requestedThrough') \in Int
      BY <1>4, <2>2 DEF GreatestOf
    <3>3. nextDecode' <= GreatestOf(1, requestedThrough') + 1
      BY <2>1, <2>2, <3>1, <3>2
    <3> QED
      BY <3>3 DEF NoRunaway, GreatestOf
  <2>5. decodePc' \in {"fetch", "decode"} => decodeTarget' <= requestedThrough'
    BY <1>4, <2>1, <2>2, <2>3 DEF Requested
  <2>6. decodePc' = "decode" => pendingRaw' = None /\ nextDecode' <= decodeTarget'
    BY <2>1, <2>3 DEF Requested
  <2> QED
    BY <2>4, <2>5, <2>6 DEF Requested
<1>9. ViewerInv' /\ RingInv'
  BY <1>1, <1>3, <1>4 DEF ViewerInv, RingInv, Newest, Window, streamVars
<1> QED
  BY <1>5, <1>6, <1>7, <1>8, <1>9

LEMMA PlayingIsSound ==
  ASSUME CapacityAssumption, IInv
  PROVE  /\ Playing \in [shown : Nat, requested : Nat]
         /\ Playing.shown <= Newest
         /\ Playing.requested <= LastFrame /\ Playing.requested <= Playing.shown + Window
         /\ Window \in Nat \ {0} /\ LastFrame \in Nat /\ Newest \in Nat /\ Newest <= LastFrame
<1> USE DEF IInv
<1>1. Window \in Nat \ {0} /\ LastFrame \in Nat
  BY DEF Window, LeastOf, CapacityAssumption
<1>2. Newest \in Nat /\ Newest <= LastFrame
  BY <1>1, NewestIsBehind, Natural DEF TypeOK
<1> HIDE DEF Window
<1>3. CASE player = None
  BY <1>1, <1>2, <1>3 DEF Playing
<1>4. CASE player # None
  BY <1>1, <1>2, <1>4 DEF Playing, ViewerInv, TypeOK
<1> QED
  BY <1>1, <1>2, <1>3, <1>4

LEMMA StayStep ==
  ASSUME CapacityAssumption, IInv, Stay
  PROVE  IInv'
<1>1. PICK st \in {Playing, Reconnected(Playing)} : Repaint(st, st.shown) /\ ~shutdown
  BY DEF Stay
<1>2. CASE st = Playing
  BY <1>1, <1>2, PlayingIsSound, RepaintStep
<1>3. CASE st = [shown |-> Newest, requested |-> GreatestOf(Playing.requested, Newest)]
  <2>1. /\ st \in [shown : Nat, requested : Nat] /\ st.shown = Newest
        /\ st.requested <= LastFrame /\ st.requested <= Newest + Window
    BY <1>3, PlayingIsSound DEF GreatestOf
  <2> QED
    BY <1>1, <2>1, PlayingIsSound, RepaintStep
<1> QED
  BY <1>1, <1>2, <1>3 DEF Reconnected

LEMMA AdvanceStep ==
  ASSUME CapacityAssumption, IInv, Advance
  PROVE  IInv'
<1>1. PICK f \in ReadyAfter(player.shown) : Repaint(player, f) /\ ~shutdown /\ player # None
  BY DEF Advance
<1>2. Playing = player
  BY <1>1 DEF Playing
<1>3. f \in Nat /\ player.shown < f /\ f <= Newest
  <2>1. CASE dropStale
    BY <1>1, <1>2, <2>1, PlayingIsSound DEF ReadyAfter
  <2>2. CASE ~dropStale
    <3>1. f = player.shown + 1 /\ InRing(f)
      BY <1>1, <2>2 DEF ReadyAfter
    <3>2. PICK i \in 1 .. Len(ring) : ring[i] = f
      BY <3>1 DEF InRing, IInv, TypeOK
    <3>3. ring[i] <= ring[Len(ring)]
      <4>1. ring \in Seq(Nat) /\ Len(ring) \in Nat /\ Len(ring) \in 1 .. Len(ring)
        BY <3>2 DEF IInv, TypeOK
      <4> QED
        BY <3>2, <4>1 DEF IInv, Chain, Rising
    <3> QED
      BY <1>2, <3>1, <3>2, <3>3, PlayingIsSound DEF Newest
  <2> QED
    BY <2>1, <2>2
<1>4. player.requested <= f + Window
  BY <1>2, <1>3, PlayingIsSound
<1> QED
  BY <1>1, <1>2, <1>3, <1>4, PlayingIsSound, RepaintStep

LEMMA UnseenStep ==
  ASSUME CapacityAssumption, IInv, Glimpse \/ Turn \/ Forget
  PROVE  IInv'
<1> USE DEF IInv
<1>1. /\ UNCHANGED <<streamVars, queueVars, decodeVars, resizeVars, commandVars>>
      /\ player' = player \/ player' = None
      /\ texture' \in BOOLEAN /\ visible' \in BOOLEAN
  BY DEF Glimpse, Turn, Forget, TypeOK
<1>2. Chain'
  BY <1>1, ChainKept DEF frames, streamVars, queueVars, decodeVars, resizeVars, commandVars, Cut
<1>3. TypeOK'
  BY <1>1 DEF TypeOK, streamVars, queueVars, decodeVars, resizeVars, commandVars
<1>4. Hands' /\ Requested'
  BY <1>1
     DEF Hands, Requested, NoRunaway, GreatestOf, streamVars, decodeVars, resizeVars, commandVars
<1>5. ViewerInv' /\ RingInv'
  BY <1>1 DEF ViewerInv, RingInv, Newest, streamVars
<1> QED
  BY <1>2, <1>3, <1>4, <1>5

LEMMA DropStep ==
  ASSUME CapacityAssumption, IInv, Drop
  PROVE  IInv'
<1> USE DEF IInv
<1>1. /\ UNCHANGED <<streamVars, queueVars, decodeFrame, decodeTarget, resizeFrame, viewerVars,
                     requestedThrough>>
      /\ ~shutdown /\ shutdown' = TRUE
      /\ \/ decodePc' = decodePc
         \/ decodePc = "asleep" /\ decodePc' = "await"
         \/ decodePc = "full" /\ decodePc' = "push"
      /\ resizePc' = resizePc \/ (resizePc = "empty" /\ resizePc' = "pop")
  <2>1. /\ decodePc' = SpaceSignalled(DecoderWoken(decodePc))
        /\ resizePc' = ResizerWoken(resizePc)
    BY DEF Drop
  <2>2. resizePc' = resizePc \/ (resizePc = "empty" /\ resizePc' = "pop")
    BY <2>1 DEF ResizerWoken
  <2>3. \/ decodePc' = decodePc
        \/ decodePc = "asleep" /\ decodePc' = "await"
        \/ decodePc = "full" /\ decodePc' = "push"
    BY <2>1 DEF DecoderWoken, SpaceSignalled
  <2>4. /\ UNCHANGED <<streamVars, queueVars, decodeFrame, decodeTarget, resizeFrame, viewerVars,
                        requestedThrough>>
        /\ ~shutdown /\ shutdown' = TRUE
    BY DEF Drop
  <2> QED
    BY <2>2, <2>3, <2>4
<1>2. Chain'
  BY <1>1, ChainKept DEF frames, streamVars, queueVars, Cut
<1>3. TypeOK'
  BY <1>1 DEF TypeOK, streamVars, queueVars, viewerVars
<1>4. Hands' /\ Requested'
  BY <1>1 DEF Hands, Requested, NoRunaway, GreatestOf, streamVars
<1>5. ViewerInv' /\ RingInv'
  BY <1>1 DEF ViewerInv, RingInv, Newest, streamVars, viewerVars
<1> QED
  BY <1>2, <1>3, <1>4, <1>5

-----------------------------------------------------------------------------
(* The theorems *)

LEMMA InitHolds ==
  ASSUME CapacityAssumption, Init
  PROVE  IInv
<1>1. TypeOK
  <2>1. ring \in Seq(Nat) /\ Len(ring) \in 1 .. Capacity
    BY DEF Init, CapacityAssumption
  <2>2. nextDecode \in 2 .. (LastFrame + 1) /\ requestedThrough \in -1 .. LastFrame
        /\ decodeTarget \in 0 .. LastFrame
    BY DEF Init, CapacityAssumption
  <2>3. rawQueue \in Seq(Nat) /\ Len(rawQueue) <= RawCapacity
    BY DEF Init, CapacityAssumption
  <2> QED
    BY <2>1, <2>2, <2>3 DEF Init, TypeOK
<1>2. /\ Len(ring) = 1 /\ ring[1] = 0 /\ Newest = 0
      /\ LastResized = 0 /\ LastQueued = 0 /\ LastDecoded = 0 /\ LastRaw = 1
  BY DEF Init, Newest, LastResized, LastQueued, LastDecoded, LastRaw, CapacityAssumption
<1>3. Chain
  <2>1. Rising(ring, ~dropStale)
    BY <1>2 DEF Rising
  <2>2. Rising(rawQueue, GapFree)
    BY DEF Init, Rising
  <2> QED
    BY <1>2, <2>1, <2>2 DEF Init, Chain, Follows
<1>4. Hands /\ Requested /\ ViewerInv /\ RingInv
  BY <1>2 DEF Init, Hands, Requested, NoRunaway, GreatestOf, ViewerInv, RingInv
<1> QED
  BY <1>1, <1>3, <1>4 DEF IInv

\* The inductive invariant of one animation, for every ring, queue and read-ahead.
THEOREM Invariance == Spec => []IInv
<1>1. Init => IInv
  BY CapacityAssumption, InitHolds
<1>2. IInv /\ [Next]_vars => IInv'
  <2> SUFFICES ASSUME IInv, [Next]_vars PROVE IInv'
    OBVIOUS
  <2> USE CapacityAssumption
  <2>1. CASE DecodeThread
    BY <2>1, WaitsStep, FetchStep, DecodeStep, PushStep DEF DecodeThread, Waits
  <2>2. CASE ResizeThread
    BY <2>2, LockToPopStep, PopStep, ResizeStep, SettleStep, CommitStep DEF ResizeThread
  <2>3. CASE Viewer
    BY <2>3, StayStep, AdvanceStep, UnseenStep, DropStep DEF Viewer
  <2>4. CASE UNCHANGED vars
    <3>1. /\ UNCHANGED frames /\ UNCHANGED <<dropStale, shutdown, resizePc, decodePc, decodeTarget,
                                           requestedThrough, player, texture, visible>>
      BY <2>4 DEF vars, frames, streamVars, queueVars, decodeVars, resizeVars, viewerVars, commandVars
    <3>2. Chain'
      BY <3>1, ChainKept DEF IInv, Cut
    <3>3. TypeOK' /\ Hands' /\ Requested' /\ ViewerInv' /\ RingInv'
      BY <3>1 DEF IInv, frames, TypeOK, Hands, Requested, NoRunaway, ViewerInv, RingInv, Newest
    <3> QED
      BY <3>2, <3>3 DEF IInv
  <2> QED
    BY <2>1, <2>2, <2>3, <2>4 DEF Next
<1> QED
  BY <1>1, <1>2, PTL DEF Spec

\* Every state of the animation is well typed.
THEOREM TypeCorrect == Spec => []TypeOK
BY Invariance, PTL DEF IInv

\* Production obeys the request, whatever the size of ring and queue
\* (requested_through of the decode thread).
THEOREM ProductionIsAsked == Spec => []NoRunaway
BY Invariance, PTL DEF IInv, Requested

-----------------------------------------------------------------------------
(* The frame awaited next *)

\* What the viewer asks for covers what the pipeline was asked for, so the frame after the
\* one on the screen is in the ring or yet to come.
LEMMA NextFrameIsThere ==
  ASSUME CapacityAssumption, IInv
  PROVE  WindowKeepsNextFrame
<1> USE DEF IInv
<1> SUFFICES ASSUME Covered, ~dropStale, player # None, player.shown + 1 <= Newest
             PROVE  InRing(player.shown + 1)
  BY PlayingIsSound DEF WindowKeepsNextFrame, NextFrameKept, Playing
<1> DEFINE len == Len(ring)
           i == player.shown + 2 - ring[1]
<1>1. /\ len \in Nat /\ len \in 1 .. Capacity /\ Capacity \in Nat \ {0}
      /\ 1 \in 1 .. len /\ len \in 1 .. len
      /\ \A j \in 1 .. len : ring[j] \in Nat
      /\ player.shown \in Nat /\ player.requested \in Nat
  <2>1. len \in Nat /\ len \in 1 .. Capacity /\ Capacity \in Nat \ {0}
    BY Natural DEF TypeOK, CapacityAssumption
  <2>2. player \in [shown : Nat, requested : Nat]
    BY PlayingIsSound DEF Playing
  <2> QED
    BY <2>1, <2>2, Natural
<1>2. \A j \in 1 .. len : ring[j] = ring[1] + (j - 1)
  <2> SUFFICES ASSUME NEW j \in 1 .. len PROVE ring[j] = ring[1] + (j - 1)
    OBVIOUS
  <2>1. CASE j = 1
    BY <1>1, <2>1
  <2>2. CASE j > 1
    BY <1>1, <2>2 DEF Chain, Rising
  <2> QED
    BY <1>1, <2>1, <2>2
<1>3. Newest = ring[1] + (len - 1)
  <2>1. ring[len] = ring[1] + (len - 1)
    BY <1>1, <1>2
  <2>2. Newest = ring[len]
    BY DEF Newest
  <2> QED
    BY <2>1, <2>2
<1>4. Newest <= player.shown + Capacity
  <2>1. requestedThrough \in Int /\ Newest \in Nat
    BY Natural DEF TypeOK
  <2>2. Newest <= GreatestOf(1, requestedThrough)
    BY <2>1, NewestIsBehind, Natural DEF Requested, NoRunaway, GreatestOf
  <2>3. requestedThrough <= player.shown + Window
    <3>1. requestedThrough <= player.requested
      BY <2>1 DEF Covered, ViewerInv
    <3>2. player.requested <= player.shown + Window /\ Window \in Nat
      BY PlayingIsSound DEF Playing
    <3> QED
      BY <1>1, <2>1, <3>1, <3>2
  <2>4. Window <= Capacity /\ Window \in Nat \ {0}
    BY DEF Window, LeastOf, CapacityAssumption
  <2> QED
    BY <1>1, <2>1, <2>2, <2>3, <2>4 DEF GreatestOf
<1>5. i \in 1 .. len
  <2>1. ring[1] <= player.shown + 1
    <3>1. CASE len < Capacity
      BY <1>1, <3>1 DEF RingInv
    <3>2. CASE len = Capacity
      <4>1. ring[1] \in Nat /\ player.shown \in Nat /\ Capacity \in Nat
        BY <1>1
      <4> QED
        BY <1>3, <1>4, <3>2, <4>1
    <3> QED
      BY <1>1, <3>1, <3>2
  <2> QED
    BY <1>1, <1>3, <2>1
<1>6. ring[i] = player.shown + 1
  <2>1. ring[i] = ring[1] + (i - 1)
    BY <1>2, <1>5
  <2>2. ring[1] \in Nat /\ player.shown \in Nat
    BY <1>1
  <2> QED
    BY <2>1, <2>2
<1>7. DOMAIN ring = 1 .. len
  BY DEF TypeOK
<1> QED
  BY <1>5, <1>6, <1>7 DEF InRing

\* For every ring, queue and read-ahead, the frame that follows the one on the screen is
\* not pushed out of the ring (next_anim_decode_request, FrameRingBuffer::push).
THEOREM NextFrameStays == Spec => []WindowKeepsNextFrame
<1>1. IInv => WindowKeepsNextFrame
  BY CapacityAssumption, NextFrameIsThere
<1> QED
  BY <1>1, Invariance, PTL

-----------------------------------------------------------------------------
(* The order of the stream *)

Linked(s, tight) == \A i \in 1 .. (Len(s) - 1) : Follows(s[i], s[i + 1], tight)
LastOf(s) == s[Len(s)]

LEMMA RisingIsLinked ==
  ASSUME NEW s \in Seq(Nat), NEW loose \in BOOLEAN, NEW tight \in BOOLEAN,
         Rising(s, loose), tight => loose
  PROVE  Linked(s, tight)
<1> SUFFICES ASSUME NEW i \in 1 .. (Len(s) - 1) PROVE Follows(s[i], s[i + 1], tight)
  BY DEF Linked
<1>1. i \in 1 .. Len(s) /\ i + 1 \in 1 .. Len(s) /\ i < i + 1 /\ (i + 1) - i = 1
  OBVIOUS
<1> QED
  BY <1>1 DEF Rising, Follows

\* Two linked pieces, the second beginning where the first ends, make one.
LEMMA Joined ==
  ASSUME NEW s \in Seq(Nat), NEW t \in Seq(Nat), NEW tight \in BOOLEAN, s # <<>>,
         Linked(s, tight), Linked(t, tight),
         t # <<>> => Follows(LastOf(s), t[1], tight)
  PROVE  /\ s \o t \in Seq(Nat) /\ s \o t # <<>>
         /\ Linked(s \o t, tight)
         /\ LastOf(s \o t) = IF t = <<>> THEN LastOf(s) ELSE LastOf(t)
<1> DEFINE u == s \o t
           m == Len(s)
           n == Len(t)
<1>1. /\ u \in Seq(Nat) /\ Len(u) = m + n
      /\ m \in Nat \ {0} /\ n \in Nat
      /\ t # <<>> <=> n # 0
      /\ u # <<>>
  OBVIOUS
<1>2. \A i \in 1 .. m : u[i] = s[i]
  OBVIOUS
<1>3. \A i \in 1 .. n : u[m + i] = t[i]
  OBVIOUS
<1> HIDE DEF u, m, n
<1>4. ASSUME NEW i \in 1 .. (m + n - 1)
      PROVE  Follows(u[i], u[i + 1], tight)
  <2>1. CASE i < m
    <3>1. i \in 1 .. m /\ i + 1 \in 1 .. m /\ i \in 1 .. (m - 1)
      BY <1>1, <2>1
    <3>2. u[i] = s[i] /\ u[i + 1] = s[i + 1]
      BY <1>2, <3>1
    <3> QED
      BY <3>1, <3>2 DEF Linked, m
  <2>2. CASE i = m
    <3>1. m \in 1 .. m /\ 1 \in 1 .. n
      BY <1>1, <2>2
    <3>2. u[i] = s[m] /\ u[i + 1] = t[1]
      BY <1>2, <1>3, <2>2, <3>1
    <3> QED
      BY <1>1, <3>1, <3>2 DEF LastOf, m
  <2>3. CASE i > m
    <3>1. PICK j \in 1 .. (n - 1) : i = m + j
      <4>1. i - m \in 1 .. (n - 1) /\ i = m + (i - m)
        BY <1>1, <2>3
      <4> QED
        BY <4>1
    <3>2. j \in 1 .. n /\ j + 1 \in 1 .. n /\ i + 1 = m + (j + 1)
      BY <1>1, <3>1
    <3>3. u[i] = t[j] /\ u[i + 1] = t[j + 1]
      BY <1>3, <3>1, <3>2
    <3> QED
      BY <3>1, <3>3 DEF Linked, n
  <2> QED
    BY <1>1, <2>1, <2>2, <2>3
<1>5. LastOf(u) = IF t = <<>> THEN LastOf(s) ELSE LastOf(t)
  <2>1. CASE n = 0
    <3>1. Len(u) = m /\ m \in 1 .. m
      BY <1>1, <2>1
    <3> QED
      BY <1>1, <1>2, <2>1, <3>1 DEF LastOf, m
  <2>2. CASE n # 0
    <3>1. n \in 1 .. n /\ Len(u) = m + n
      BY <1>1, <2>2
    <3> QED
      BY <1>1, <1>3, <2>2, <3>1 DEF LastOf, n
  <2> QED
    BY <2>1, <2>2
<1>6. Linked(u, tight)
  BY <1>1, <1>4 DEF Linked
<1> QED
  BY <1>1, <1>5, <1>6 DEF u

LEMMA OneHeld ==
  ASSUME NEW f, f \in Nat \cup {None}, CapacityAssumption, NEW tight \in BOOLEAN
  PROVE  /\ Held(f) \in Seq(Nat) /\ Linked(Held(f), tight)
         /\ Held(f) = <<>> <=> f = None
         /\ f # None => Held(f)[1] = f /\ LastOf(Held(f)) = f
<1>1. CASE f = None
  BY <1>1 DEF Held, Linked
<1>2. CASE f # None
  <2>1. Held(f) = <<f>> /\ f \in Nat
    BY <1>2 DEF Held
  <2>2. /\ <<f>> \in Seq(Nat) /\ Len(<<f>>) = 1 /\ <<f>>[1] = f /\ <<f>> # <<>>
    BY <2>1
  <2> QED
    BY <1>2, <2>1, <2>2 DEF Linked, LastOf
<1> QED
  BY <1>1, <1>2

LEMMA JoinedHeld ==
  ASSUME CapacityAssumption, NEW s \in Seq(Nat), NEW f, f \in Nat \cup {None},
         NEW tight \in BOOLEAN, s # <<>>, Linked(s, tight),
         f # None => Follows(LastOf(s), f, tight)
  PROVE  /\ s \o Held(f) \in Seq(Nat) /\ s \o Held(f) # <<>>
         /\ Linked(s \o Held(f), tight)
         /\ LastOf(s \o Held(f)) = IF f = None THEN LastOf(s) ELSE f
<1> DEFINE h == Held(f)
<1>1. /\ h \in Seq(Nat) /\ Linked(h, tight) /\ (h = <<>> <=> f = None)
      /\ f # None => h[1] = f /\ LastOf(h) = f
  BY OneHeld
<1> HIDE DEF h
<1>2. /\ s \o h \in Seq(Nat) /\ s \o h # <<>> /\ Linked(s \o h, tight)
      /\ LastOf(s \o h) = IF h = <<>> THEN LastOf(s) ELSE LastOf(h)
  BY <1>1, Joined
<1> QED
  BY <1>1, <1>2 DEF h

\* The chain of the invariant, piece by piece, is the stream.
LEMMA ChainIsOrder ==
  ASSUME CapacityAssumption, TypeOK, Chain
  PROVE  StreamInOrder
<1> DEFINE tight == ~dropStale /\ ~shutdown
           upResized == ring \o Held(resizeFrame)
           upQueued == upResized \o rawQueue
           upDecoded == upQueued \o Held(decodeFrame)
           upRaw == upDecoded \o Held(pendingRaw)
<1>1. /\ tight \in BOOLEAN /\ (tight => GapFree) /\ (tight => ~dropStale)
      /\ GapFree \in BOOLEAN /\ (~dropStale) \in BOOLEAN
  BY DEF GapFree, Cut
<1>2. /\ ring \in Seq(Nat) /\ rawQueue \in Seq(Nat) /\ ring # <<>>
      /\ resizeFrame \in Nat \cup {None} /\ decodeFrame \in Nat \cup {None}
      /\ pendingRaw \in Nat \cup {None} /\ nextDecode \in Nat /\ nextDecode # None
  BY Natural DEF TypeOK, CapacityAssumption
<1>3. /\ rawQueue # <<>> => Follows(LastResized, rawQueue[1], tight)
      /\ resizeFrame # None => Follows(Newest, resizeFrame, tight)
      /\ decodeFrame # None => Follows(LastQueued, decodeFrame, tight)
      /\ pendingRaw # None => Follows(LastDecoded, pendingRaw, tight)
      /\ Follows(LastRaw, nextDecode, tight)
  BY <1>1 DEF Chain, Follows
<1>4. Linked(ring, tight) /\ Linked(rawQueue, tight)
  BY <1>1, <1>2, RisingIsLinked DEF Chain
<1> HIDE DEF tight
<1>5. /\ upResized \in Seq(Nat) /\ upResized # <<>> /\ Linked(upResized, tight)
      /\ LastOf(upResized) = LastResized
  <2>1. LastOf(ring) = Newest
    BY DEF LastOf, Newest
  <2>2. resizeFrame # None => Follows(LastOf(ring), resizeFrame, tight)
    BY <1>3, <2>1
  <2> QED
    BY <1>1, <1>2, <1>4, <2>2, <2>1, CapacityAssumption, JoinedHeld DEF LastResized
<1> HIDE DEF upResized
<1>6. /\ upQueued \in Seq(Nat) /\ upQueued # <<>> /\ Linked(upQueued, tight)
      /\ LastOf(upQueued) = LastQueued
  <2>1. rawQueue # <<>> => LastOf(rawQueue) = LastQueued
    BY DEF LastOf, LastQueued
  <2> QED
    BY <1>1, <1>2, <1>3, <1>4, <1>5, <2>1, Joined DEF LastQueued
<1> HIDE DEF upQueued
<1>7. /\ upDecoded \in Seq(Nat) /\ upDecoded # <<>> /\ Linked(upDecoded, tight)
      /\ LastOf(upDecoded) = LastDecoded
  <2>1. decodeFrame # None => Follows(LastOf(upQueued), decodeFrame, tight)
    BY <1>3, <1>6
  <2>2. /\ upQueued \o Held(decodeFrame) \in Seq(Nat) /\ upQueued \o Held(decodeFrame) # <<>>
        /\ Linked(upQueued \o Held(decodeFrame), tight)
        /\ LastOf(upQueued \o Held(decodeFrame)) = IF decodeFrame = None THEN LastQueued ELSE decodeFrame
    <3>1. decodeFrame \in Nat \cup {None}
      BY <1>2
    <3> HIDE DEF upDecoded
    <3> QED
      BY <1>1, <1>6, <2>1, <3>1, CapacityAssumption, JoinedHeld
  <2> QED
    BY <2>2 DEF LastDecoded
<1> HIDE DEF upDecoded
<1>8. /\ upRaw \in Seq(Nat) /\ upRaw # <<>> /\ Linked(upRaw, tight)
      /\ LastOf(upRaw) = LastRaw
  <2>1. pendingRaw # None => Follows(LastOf(upDecoded), pendingRaw, tight)
    BY <1>3, <1>7
  <2>2. /\ upDecoded \o Held(pendingRaw) \in Seq(Nat) /\ upDecoded \o Held(pendingRaw) # <<>>
        /\ Linked(upDecoded \o Held(pendingRaw), tight)
        /\ LastOf(upDecoded \o Held(pendingRaw)) = IF pendingRaw = None THEN LastDecoded ELSE pendingRaw
    <3>1. pendingRaw \in Nat \cup {None}
      BY <1>2
    <3> HIDE DEF upRaw
    <3> QED
      BY <1>1, <1>7, <2>1, <3>1, CapacityAssumption, JoinedHeld
  <2> QED
    BY <2>2 DEF LastRaw
<1> HIDE DEF upRaw
<1>9. Linked(upRaw \o <<nextDecode>>, tight)
  <2>1. Held(nextDecode) = <<nextDecode>>
    BY <1>2 DEF Held
  <2> QED
    <3>1. Follows(LastOf(upRaw), nextDecode, tight)
      BY <1>3, <1>8
    <3>2. nextDecode \in Nat \cup {None}
      BY <1>2
    <3>3. Linked(upRaw \o Held(nextDecode), tight)
      BY <1>1, <1>8, <3>1, <3>2, CapacityAssumption, JoinedHeld
    <3> QED
      BY <2>1, <3>3
<1>10. Stream = upRaw \o <<nextDecode>>
  BY DEF Stream, upRaw, upDecoded, upQueued, upResized
<1> QED
  BY <1>9, <1>10 DEF Linked, Follows, StreamInOrder, tight

\* For every queue, ring and read-ahead the frames keep their order across the two threads,
\* and none is skipped or doubled before dropping begins (push_raw, commit_resized_frame).
THEOREM FramesStayInOrder == Spec => []StreamInOrder
<1>1. IInv => StreamInOrder
  BY CapacityAssumption, ChainIsOrder DEF IInv
<1> QED
  BY <1>1, Invariance, PTL
=============================================================================
