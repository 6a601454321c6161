------------------------------ MODULE PageCache ------------------------------
(***************************************************************************)
(* The cache of decoded pages, PageCache of src/src/cache.rs.               *)
(*                                                                         *)
(* A page (archive path, page index) is a pair <<book, index>>.  A decoded  *)
(* still belongs to a page and a decode generation; an animation belongs to *)
(* a page alone.  Content that fills the whole budget by itself goes to a   *)
(* one-place bypass and is not charged.                                    *)
(*                                                                         *)
(* A content is a record that says whether it is animated, the bytes it is  *)
(* charged for and the generation it was decoded for (its target size).     *)
(***************************************************************************)
EXTENDS Integers, FiniteSets, Functions

CONSTANTS
    Book, Index,        \* archives, page indexes
    Generation,         \* decode generations
    Decodes,            \* what each page can decode to: [animated, bytes] records
    MaxBytes, MinBytes, \* max_bytes, min_bytes
    None                \* an empty place

Page == Book \X Index
NoPage == <<None, 0>>   \* the page in view when there is no viewer
Shape == UNION {Decodes[p] : p \in Page}
Content == [animated : BOOLEAN, bytes : {d.bytes : d \in Shape}, target : Generation]

\* Page p as decoded for generation g
ContentsOf(p, g) ==
    {[animated |-> d.animated, bytes |-> d.bytes, target |-> g] : d \in Decodes[p]}

ASSUME IndexAssumption == Index \subseteq Nat
ASSUME DecodesAssumption ==
    Decodes \in [Page -> SUBSET [animated : BOOLEAN, bytes : Nat \ {0}]]
ASSUME BudgetAssumption ==
    MaxBytes \in Nat /\ MinBytes \in Nat /\ 0 < MinBytes /\ MinBytes < MaxBytes
ASSUME NoneAssumption == None \notin Content

VARIABLES
    animations,          \* the animation each page has, or None
    entries,             \* the still each page has for each generation, or None
    totalBytes,          \* what animations and entries are charged for
    bypass,              \* the uncharged still: [page, gen, content] or None
    animationBypass,     \* the uncharged animation: [page, content] or None
    knownBypass,         \* <<page, gen>> of stills too large for the budget
    knownAnimationBypass \* pages of animations too large for the budget

cacheVars == <<animations, entries, totalBytes, bypass, animationBypass,
               knownBypass, knownAnimationBypass>>

CacheInit ==
    /\ animations = [p \in Page |-> None]
    /\ entries = [p \in Page |-> [g \in Generation |-> None]]
    /\ totalBytes = 0
    /\ bypass = None
    /\ animationBypass = None
    /\ knownBypass = {}
    /\ knownAnimationBypass = {}

-----------------------------------------------------------------------------
(* Seats: the places of charged contents *)

\* A seat is an animation of a page, or a still of a page and a generation.
AnimationSeats == {[kind |-> "animation", page |-> p, gen |-> None, bytes |-> animations[p].bytes] :
                    p \in {q \in Page : animations[q] # None}}

StillSeats == {[kind |-> "still", page |-> pg[1], gen |-> pg[2], bytes |-> entries[pg[1]][pg[2]].bytes] :
                pg \in {c \in Page \X Generation : entries[c[1]][c[2]] # None}}

BytesOf(seats) == SumFunctionOnSet([s \in seats |-> s.bytes], seats)

\* saturating_sub
Less(total, bytes) == IF bytes > total THEN 0 ELSE total - bytes

AnimationsWithout(seats) ==
    [p \in Page |-> IF \E s \in seats : s.kind = "animation" /\ s.page = p
                    THEN None ELSE animations[p]]

EntriesWithout(seats) ==
    [p \in Page |-> [g \in Generation |->
        IF \E s \in seats : s.kind = "still" /\ s.page = p /\ s.gen = g
        THEN None ELSE entries[p][g]]]

\* Emptying seats refunds them.
Vacate(seats) ==
    /\ animations' = AnimationsWithout(seats)
    /\ entries' = EntriesWithout(seats)
    /\ totalBytes' = Less(totalBytes, BytesOf(seats))

-----------------------------------------------------------------------------
(* Queries *)

ContainsAnimation(p) ==
    animations[p] # None \/ (animationBypass # None /\ animationBypass.page = p)

Contains(p, g) ==
    \/ ContainsAnimation(p)
    \/ entries[p][g] # None
    \/ bypass # None /\ bypass.page = p /\ bypass.gen = g

IsKnownBypass(p, g) == p \in knownAnimationBypass \/ <<p, g>> \in knownBypass

\* get_generation finds something
HasStill(p, g) == entries[p][g] # None \/ (bypass # None /\ bypass.page = p /\ bypass.gen = g)

-----------------------------------------------------------------------------
(* Eviction *)

Apart(a, b) == IF a > b THEN a - b ELSE b - a

\* Seat s goes before seat t when the cache is looked at from page `cur':
\* other archives first, then the larger distance, then stills.
GoesBefore(s, t, cur) ==
    LET other(x) == IF x.page[1] # cur[1] THEN 1 ELSE 0
        dist(x) == Apart(x.page[2], cur[2])
    IN  \/ other(s) > other(t)
        \/ /\ other(s) = other(t)
           /\ \/ dist(s) > dist(t)
              \/ dist(s) = dist(t) /\ s.kind = "still" /\ t.kind = "animation"

\* The loop conditions of insert and insert_animation: another seat must go.
StillMustEvict(seats, total, incoming) ==
    /\ total + incoming > MaxBytes
    /\ total > MinBytes
    /\ \E s \in seats : s.kind = "still"

AnimationMustEvict(seats, total, incoming) ==
    /\ total + incoming > MaxBytes
    /\ total > MinBytes
    /\ seats # {}

\* The eviction loop, seat by furthest seat while another one must go for the
\* incoming still or animation, may leave exactly the seats in `held' without
\* those in `gone'.  Seats that tie leave in any order, as a HashMap yields them.
Evicted(held, gone, total, incoming, cur, kind) ==
    LET after(s) == Less(total, BytesOf(s))
        must(seats, left) == \/ kind = "still" /\ StillMustEvict(seats, left, incoming)
                             \/ kind = "animation" /\ AnimationMustEvict(seats, left, incoming)
    IN  /\ ~must(held \ gone, after(gone))
        /\ \A s \in gone, t \in held \ gone : ~GoesBefore(t, s, cur)
        /\ gone # {} => \E last \in gone :
              /\ \A s \in gone : ~GoesBefore(last, s, cur)
              /\ must((held \ gone) \cup {last}, after(gone \ {last}))

-----------------------------------------------------------------------------
(* Operations *)

\* The arm of insert for a still that fits the budget: the previous still of
\* the same page and generation is replaced, a bypass of another page is let
\* go, then distant seats are evicted.
InsertStill(p, g, content, cur) ==
    LET own == {s \in StillSeats : s.page = p /\ s.gen = g}
        held == (AnimationSeats \cup StillSeats) \ own
        total == Less(totalBytes, BytesOf(own))
    IN  \E gone \in SUBSET held :
          /\ Evicted(held, gone, total, content.bytes, cur, "still")
          /\ animations' = AnimationsWithout(gone)
          /\ entries' = [EntriesWithout(gone) EXCEPT ![p][g] = content]
          /\ totalBytes' = Less(total, BytesOf(gone)) + content.bytes
          /\ bypass' = IF bypass # None /\ bypass.page # cur THEN None ELSE bypass
          /\ UNCHANGED <<animationBypass, knownBypass, knownAnimationBypass>>

\* The arm of insert for a still as large as the whole budget.
BypassStill(p, g, content) ==
    /\ Vacate({s \in StillSeats : s.page = p /\ s.gen = g})
    /\ bypass' = [page |-> p, gen |-> g, content |-> content]
    /\ knownBypass' = knownBypass \cup {<<p, g>>}
    /\ UNCHANGED <<animationBypass, knownAnimationBypass>>

\* insert_animation of an animation that fits
SeatAnimation(p, content, cur) ==
    LET held == AnimationSeats \cup StillSeats
    IN  \E gone \in SUBSET held :
          /\ Evicted(held, gone, totalBytes, content.bytes, cur, "animation")
          /\ animations' = [AnimationsWithout(gone) EXCEPT ![p] = content]
          /\ entries' = EntriesWithout(gone)
          /\ totalBytes' = Less(totalBytes, BytesOf(gone)) + content.bytes
          /\ animationBypass' =
                IF animationBypass # None /\ animationBypass.page # cur
                THEN None ELSE animationBypass
          /\ UNCHANGED <<bypass, knownBypass, knownAnimationBypass>>

BypassAnimation(p, content) ==
    /\ animationBypass' = [page |-> p, content |-> content]
    /\ knownAnimationBypass' = knownAnimationBypass \cup {p}
    /\ UNCHANGED <<animations, entries, totalBytes, bypass, knownBypass>>

\* insert_animation: the animation already at work keeps its seat.
InsertAnimation(p, content, cur) ==
    \/ ContainsAnimation(p) /\ UNCHANGED cacheVars
    \/ /\ ~ContainsAnimation(p)
       /\ \/ content.bytes >= MaxBytes /\ BypassAnimation(p, content)
          \/ content.bytes < MaxBytes /\ SeatAnimation(p, content, cur)

\* Faulty variant: an animation is seated with the stills.
InsertAsStill(p, g, content, cur) ==
    \/ content.bytes >= MaxBytes /\ BypassStill(p, g, content)
    \/ content.bytes < MaxBytes /\ InsertStill(p, g, content, cur)

\* insert
Insert(p, g, content, cur) ==
    \/ content.animated /\ InsertAnimation(p, content, cur)
    \/ ~content.animated /\ content.bytes >= MaxBytes /\ BypassStill(p, g, content)
    \/ ~content.animated /\ content.bytes < MaxBytes /\ InsertStill(p, g, content, cur)

\* Faulty variant: the reserved bytes of the animation stay charged.
DropAnimationUncharged(p) ==
    /\ animations' = [animations EXCEPT ![p] = None]
    /\ animationBypass' = IF animationBypass # None /\ animationBypass.page = p
                          THEN None ELSE animationBypass
    /\ knownAnimationBypass' = knownAnimationBypass \ {p}
    /\ UNCHANGED <<entries, totalBytes, bypass, knownBypass>>

\* drop_animation_for_redecode
DropAnimation(p) ==
    /\ Vacate({s \in AnimationSeats : s.page = p})
    /\ animationBypass' = IF animationBypass # None /\ animationBypass.page = p
                          THEN None ELSE animationBypass
    /\ knownAnimationBypass' = knownAnimationBypass \ {p}
    /\ UNCHANGED <<bypass, knownBypass>>

\* The bypass slot and its memory once the <<page, gen>> in `gone' are forgotten.
ForgetBypass(gone) ==
    /\ bypass' = IF bypass # None /\ <<bypass.page, bypass.gen>> \in gone THEN None ELSE bypass
    /\ knownBypass' = knownBypass \ gone

\* remove_older_versions: stills of the page for other generations go.
RemoveOlderVersions(p, keep) ==
    /\ Vacate({s \in StillSeats : s.page = p /\ s.gen # keep})
    /\ ForgetBypass({p} \X (Generation \ {keep}))
    /\ UNCHANGED <<animationBypass, knownAnimationBypass>>

\* Faulty variant: the slot of a dropped generation is forgotten, the
\* memory of every generation with it.
RetainForgetsBypass(keep) ==
    /\ Vacate({s \in StillSeats : s.gen \notin keep})
    /\ bypass' = IF bypass # None /\ bypass.gen \notin keep THEN None ELSE bypass
    /\ knownBypass' = {}
    /\ UNCHANGED <<animationBypass, knownAnimationBypass>>

\* retain_generations, where keep holds active and preparing
RetainGenerations(keep) ==
    /\ Vacate({s \in StillSeats : s.gen \notin keep})
    /\ ForgetBypass(Page \X (Generation \ keep))
    /\ UNCHANGED <<animationBypass, knownAnimationBypass>>

PagesOf(b) == {p \in Page : p[1] = b}

\* remove_all_for_path
RemoveAllForPath(b) ==
    /\ Vacate({s \in AnimationSeats \cup StillSeats : s.page[1] = b})
    /\ ForgetBypass(PagesOf(b) \X Generation)
    /\ animationBypass' = IF animationBypass # None /\ animationBypass.page[1] = b
                          THEN None ELSE animationBypass
    /\ knownAnimationBypass' = {q \in knownAnimationBypass : q[1] # b}

\* remove_static_pages_for_path: animations keep their seats.
RemoveStaticPagesForPath(b) ==
    /\ Vacate({s \in StillSeats : s.page[1] = b})
    /\ ForgetBypass(PagesOf(b) \X Generation)
    /\ UNCHANGED <<animationBypass, knownAnimationBypass>>

-----------------------------------------------------------------------------

CacheNext ==
    \/ \E p \in Page, g \in Generation, cur \in Page \cup {NoPage} :
            \E content \in ContentsOf(p, g) : Insert(p, g, content, cur)
    \/ \E p \in Page : DropAnimation(p)
    \/ \E p \in Page, g \in Generation : RemoveOlderVersions(p, g)
    \/ \E active \in Generation, keep \in SUBSET Generation :
            active \in keep /\ Cardinality(keep) <= 2 /\ RetainGenerations(keep)
    \/ \E b \in Book : RemoveAllForPath(b) \/ RemoveStaticPagesForPath(b)

CacheSpec == CacheInit /\ [][CacheNext]_cacheVars

-----------------------------------------------------------------------------
(* Properties *)

\* Type invariant.
CacheTypeOK ==
    /\ animations \in [Page -> {c \in Content : c.animated} \cup {None}]
    /\ entries \in [Page -> [Generation -> {c \in Content : ~c.animated} \cup {None}]]
    /\ totalBytes \in Nat
    /\ bypass \in [page : Page, gen : Generation, content : Content] \cup {None}
    /\ animationBypass \in [page : Page, content : Content] \cup {None}
    /\ knownBypass \subseteq Page \X Generation
    /\ knownAnimationBypass \subseteq Page

\* The bytes charged are those of the contents held, after any sequence of
\* insertions, replacements, evictions and removals: saturating_sub never
\* hides a double refund, and nothing stays charged that is gone.
Accounting == totalBytes = BytesOf(AnimationSeats \cup StillSeats)

\* The budget is not a hard limit.  Eviction stops at min_bytes, and a still
\* evicts animations only while a still is left, so what the cache can hold
\* stays below the minimum and two contents just under the budget.
Bounded == totalBytes < MinBytes + 2 * MaxBytes

\* The budget is accounted for and its overrun is bounded.
BudgetKept == Accounting /\ Bounded

\* A page has one animation at work, in its seat or in the bypass, so no two
\* decoding pipelines run for one page (insert_animation, evict_furthest).
OneAnimationPerPage ==
    \A p \in Page : ~(animations[p] # None /\ animationBypass # None /\ animationBypass.page = p)

\* What sits in a bypass is remembered as too large, whatever generations
\* come and go, so that prefetching leaves it alone once it is dropped
\* (retain_generations, remove_older_versions, remove_all_for_path).
BypassRemembered ==
    /\ bypass # None => <<bypass.page, bypass.gen>> \in knownBypass
    /\ animationBypass # None => animationBypass.page \in knownAnimationBypass

\* The bypasses agree with the seats and with what is remembered.
BypassesAgree == OneAnimationPerPage /\ BypassRemembered

=============================================================================
