---------------------------- MODULE PagePipeline ----------------------------
(***************************************************************************)
(* How a page reaches the screen: the viewer, the page cache and the decode *)
(* scheduler put together (src/src/view_explorer/workers.rs, viewer_host.rs *)
(* and the texture upload of src/src/view_reader.rs).                       *)
(*                                                                         *)
(* A frame of the UI thread goes round  input -> drain -> prefetch -> show. *)
(* The scheduler is what DecodeTickets promises of it: a set of live keys,  *)
(* each answered once unless withdrawn first.  A key is <<page, generation>>. *)
(* The cache is PageCache, whose operations the steps below perform.        *)
(*                                                                         *)
(* A page has two numbers.  Its index in the archive, original_index, is    *)
(* what caches and requests know it by, and what eviction measures by; its  *)
(* place in the sorted list of the viewer is what turning, spreads and the  *)
(* prefetch window count by.                                               *)
(***************************************************************************)
EXTENDS PageCache, Bags

CONSTANTS
    Undecodable,                   \* pages whose decode may fail
    SolidBook,                     \* archives unpacked as a whole first (7z)
    Behind, Ahead,                 \* PREFETCH_BEHIND, PREFETCH_AHEAD
    Slots,                         \* pages seen at once: 1, or 2 in a spread
    Orders,                        \* the orders a viewer can sort the pages in
    Inputs,                        \* what the reader does, see Input
    MaxGen,                        \* bound: generations begun after the first
    MaxResults                     \* bound: results that wait to be drained

ASSUME InputsAssumption ==
    Inputs \subseteq {"turn", "sort", "open", "close", "folder", "resize", "exif", "filter", "unseen"}

ASSUME OrdersAssumption == Orders \subseteq Bijection(Index, Index)

ASSUME GenerationAssumption ==
    MaxGen \in Nat /\ Generation = 0..MaxGen /\ None \notin Generation

VARIABLES
    ui,         \* where the UI thread stands in its frame
    todo,       \* pages the present phase has still to handle
    cur,        \* the page the viewer is at, NoPage without a viewer
    order,      \* the sorted entries of the viewer: where each index has its place
    active,     \* active_decode_generation
    preparing,  \* preparing_decode_generation, or None
    pendingLoads, \* pending_loads
    failedLoads,  \* failed_loads
    deferred,   \* page keys in deferred_archive_requests (repetitions merged)
    unpacking,  \* solid archives in file_cache_pending
    live,       \* keys the scheduler holds
    answered,   \* bag of the keys decoded, their results not yet drained
    texture,    \* textures, texture_generations, anim_states of the viewer
    exifGen,    \* history: the generation that began at the last Exif toggle
    outdated    \* history: keys cached when a setting changed without a viewer

requestVars == <<pendingLoads, failedLoads, deferred, live>>
viewVars == <<cur, order, texture, unpacking>>
genVars == <<active, preparing, exifGen, outdated>>
pagesVars == <<cacheVars, requestVars, viewVars, genVars, ui, todo, answered>>

Key == Page \X Generation

Texture == [gen : Generation, playing : BOOLEAN]

\* No viewer, or one just opened.
PagesInit ==
    /\ CacheInit
    /\ ui = "input" /\ todo = {}
    /\ cur \in Page \cup {NoPage} /\ order \in Orders
    /\ active = 0 /\ preparing = None
    /\ pendingLoads = {} /\ failedLoads = {} /\ deferred = {} /\ live = {}
    /\ unpacking = {}
    /\ answered = EmptyBag
    /\ texture = [p \in Page |-> None]
    /\ exifGen = 0 /\ outdated = {}

-----------------------------------------------------------------------------
(* What the UI thread reads *)

\* decode_generation, and the generation prefetch_pages requests
Newest == IF preparing # None THEN preparing ELSE active

Accepted == {active} \cup (IF preparing # None THEN {preparing} ELSE {})

\* The position of a page among the sorted entries
Position(p) == order[p[2]]

Near(before, after) ==
    {p \in Page : /\ p[1] = cur[1]
                  /\ Position(cur) - before <= Position(p) /\ Position(p) <= Position(cur) + after}

\* visible_original_indices
Visible == Near(0, Slots - 1)

\* ordered_page_indices: an animation in view stops all prefetching
Window ==
    IF \E p \in Visible : ContainsAnimation(p)
    THEN Visible ELSE Near(Behind, Ahead) \cup Visible

\* get_best finds something for the page
InCache(p) == ContainsAnimation(p) \/ \E g \in Accepted : HasStill(p, g)

\* The generation get_best reports for what it finds.
BestGen(p) ==
    IF ContainsAnimation(p) \/ HasStill(p, Newest) THEN Newest ELSE active

KeyAt(p) == <<p, Newest>>

\* Faulty variant: failures are not remembered.
DesiredDespiteFailure ==
    {k \in {KeyAt(p) : p \in Window} :
        /\ ~Contains(k[1], k[2])
        /\ k[1] \in Visible \/ ~IsKnownBypass(k[1], k[2])}

\* The keys prefetch_pages wants decoded.
Desired ==
    {k \in {KeyAt(p) : p \in Window} :
        /\ ~Contains(k[1], k[2])
        /\ k \notin failedLoads
        /\ k[1] \in Visible \/ ~IsKnownBypass(k[1], k[2])}

Deferrable(keys) == {k \in keys : k[1][1] \in unpacking}

-----------------------------------------------------------------------------
(* Input: what happens between two frames, and the polls that start a frame *)

\* The viewer turns to another page of its archive.
Turn(p) ==
    /\ ui = "input"
    /\ cur # NoPage /\ p[1] = cur[1] /\ p # cur
    /\ cur' = p
    /\ UNCHANGED <<cacheVars, requestVars, order, texture, unpacking, genVars, ui, todo, answered>>

\* sort_entries, by a click on the bar: the viewer goes back to the first page.
Sort(o) ==
    /\ ui = "input" /\ cur # NoPage
    /\ order' = o
    /\ cur' \in {p \in PagesOf(cur[1]) : \A q \in PagesOf(cur[1]) : o[p[2]] <= o[q[2]]}
    /\ UNCHANGED <<cacheVars, requestVars, texture, unpacking, genVars, ui, todo, answered>>

\* open_viewer, with the saved or the default order (restore_saved_sort) and
\* the page of the bookmark.  A solid archive the file cache does not hold is
\* unpacked first (ensure_file_cached).
OpenViewer(p, o) ==
    /\ ui = "input"
    /\ cur' = p /\ order' = o
    /\ pendingLoads' = {}
    /\ failedLoads' = {k \in failedLoads : k[1][1] # p[1]}
    /\ texture' = [q \in Page |-> None]
    /\ \/ UNCHANGED unpacking
       \/ p[1] \in SolidBook /\ unpacking' = unpacking \cup {p[1]}
    /\ UNCHANGED <<cacheVars, deferred, live, genVars, ui, todo, answered>>

\* The viewer window is closed.
Close ==
    /\ ui = "input"
    /\ cur # NoPage
    /\ cur' = NoPage
    /\ texture' = [q \in Page |-> None]
    /\ UNCHANGED <<cacheVars, requestVars, order, unpacking, genVars, ui, todo, answered>>

\* The explorer shows another folder (reset_thumbs_and_selection).
ChangeFolder ==
    /\ ui = "input"
    /\ pendingLoads' = {}
    /\ UNCHANGED <<cacheVars, failedLoads, deferred, live, viewVars, genVars, ui, todo, answered>>

\* Faulty variant: pages waiting under the old generation stay pending.
BeginLazyKeepsPending ==
    /\ ui = "input" /\ Newest < MaxGen
    /\ active' = Newest
    /\ preparing' = Newest + 1
    /\ RetainGenerations({Newest, Newest + 1})
    /\ live' = {k \in live : k[2] \in {Newest, Newest + 1}}
    /\ failedLoads' = {k \in failedLoads : k[2] \in {Newest, Newest + 1}}
    /\ ui' = "redecode" /\ todo' = Visible
    /\ UNCHANGED <<pendingLoads, deferred, viewVars, exifGen, outdated, answered>>

\* fire_resize_redecode, and the guardrail of poll_resize_redecode:
\* begin_lazy_decode_generation keeps what is shown while the new size decodes.
BeginLazy ==
    /\ ui = "input" /\ Newest < MaxGen
    /\ active' = Newest
    /\ preparing' = Newest + 1
    /\ RetainGenerations({Newest, Newest + 1})
    /\ live' = {k \in live : k[2] \in {Newest, Newest + 1}}
    /\ failedLoads' = {k \in failedLoads : k[2] \in {Newest, Newest + 1}}
    /\ pendingLoads' = {}
    /\ ui' = "redecode" /\ todo' = Visible
    /\ UNCHANGED <<deferred, viewVars, exifGen, outdated, answered>>

\* redecode_visible_pages, page by page: the animation gives up its seat and
\* the page is requested anew.
Redecode(p) ==
    /\ ui = "redecode" /\ p \in todo /\ \A q \in todo : Position(p) <= Position(q)
    /\ DropAnimation(p)
    /\ pendingLoads' = pendingLoads \cup {p}
    /\ deferred' = deferred \cup Deferrable({KeyAt(p)})
    /\ live' = live \cup ({KeyAt(p)} \ Deferrable({KeyAt(p)}))
    /\ todo' = todo \ {p}
    /\ UNCHANGED <<failedLoads, viewVars, genVars, ui, answered>>

Redecoded ==
    /\ ui = "redecode" /\ todo = {}
    /\ ui' = "drain"
    /\ UNCHANGED <<cacheVars, requestVars, viewVars, genVars, todo, answered>>

\* redecode_after_exif_toggle and redecode_after_image_filter_change first
\* empty the archive of what the setting made obsolete.
ToggleExif ==
    /\ ui = "input" /\ cur # NoPage /\ Newest < MaxGen
    /\ RemoveAllForPath(cur[1])
    /\ ui' = "renew exif"
    /\ UNCHANGED <<requestVars, viewVars, genVars, todo, answered>>

ChangeFilter ==
    /\ ui = "input" /\ cur # NoPage /\ Newest < MaxGen
    /\ RemoveStaticPagesForPath(cur[1])
    /\ ui' = "renew filter"
    /\ UNCHANGED <<requestVars, viewVars, genVars, todo, answered>>

\* The Exif or the filter setting changes while no viewer is open (in the
\* settings dialog): the polls take note of it and return.  Bounded to one such
\* change whose pages are still remembered as outdated.
ChangeUnseen ==
    /\ ui = "input" /\ cur = NoPage /\ outdated = {}
    /\ outdated' = {k \in Key : HasStill(k[1], k[2])}
    /\ UNCHANGED <<cacheVars, requestVars, viewVars, active, preparing, exifGen, ui, todo, answered>>

\* Faulty variant: the failures of earlier generations are kept.
RenewKeepsFailures ==
    /\ ui \in {"renew exif", "renew filter"}
    /\ active' = Newest + 1
    /\ preparing' = None
    /\ RetainGenerations({Newest + 1})
    /\ live' = {}
    /\ pendingLoads' = {}
    /\ exifGen' = IF ui = "renew exif" THEN Newest + 1 ELSE exifGen
    /\ texture' = [p \in Page |-> None]
    /\ ui' = "drain"
    /\ UNCHANGED <<failedLoads, deferred, cur, order, unpacking, outdated, todo, answered>>

\* ... then begin_new_decode_generation, and the viewer's textures go
\* (invalidate_all_pages, invalidate_static_pages).
Renew ==
    /\ ui \in {"renew exif", "renew filter"}
    /\ active' = Newest + 1
    /\ preparing' = None
    /\ RetainGenerations({Newest + 1})
    /\ live' = {}
    /\ pendingLoads' = {} /\ failedLoads' = {}
    /\ exifGen' = IF ui = "renew exif" THEN Newest + 1 ELSE exifGen
    /\ texture' = [p \in Page |->
            IF ui = "renew filter" /\ texture[p] # None /\ texture[p].playing
            THEN texture[p] ELSE None]
    /\ ui' = "drain"
    /\ UNCHANGED <<deferred, cur, order, unpacking, outdated, todo, answered>>

\* No setting changed since the last frame.
NothingSet ==
    /\ ui = "input"
    /\ ui' = "drain"
    /\ UNCHANGED <<cacheVars, requestVars, viewVars, genVars, todo, answered>>

-----------------------------------------------------------------------------
(* Drain: results come in (poll_workers, pump_viewer_pages) *)

\* The file cache worker is done with a solid archive.  What waited for it is
\* submitted now, if its generation is still accepted.
Unpacked(b) ==
    /\ ui = "drain" /\ b \in unpacking
    /\ unpacking' = unpacking \ {b}
    /\ \/ failedLoads' = {k \in failedLoads : k[1][1] # b}  \* it is in the file cache
       \/ UNCHANGED failedLoads                            \* it is not: read the disk
    /\ deferred' = {k \in deferred : k[1][1] # b}
    /\ live' = live \cup {k \in deferred : k[1][1] = b /\ k[2] \in Accepted}
    /\ UNCHANGED <<cacheVars, pendingLoads, cur, order, texture, genVars, ui, todo, answered>>

\* Faulty variant: results are not compared with the accepted generations.
DrainAnything(k) ==
    /\ ui = "drain" /\ BagIn(k, answered)
    /\ answered' = answered (-) SetToBag({k})
    /\ pendingLoads' = pendingLoads \ {k[1]}
    /\ \/ \E content \in ContentsOf(k[1], k[2]) :
            Insert(k[1], k[2], content, cur) /\ failedLoads' = failedLoads \ {k}
       \/ k[1] \in Undecodable /\ failedLoads' = failedLoads \cup {k} /\ UNCHANGED cacheVars
    /\ outdated' = outdated \ {k}
    /\ UNCHANGED <<deferred, live, viewVars, active, preparing, exifGen, ui, todo>>

\* One result.  It was sent when it is drained; what a page decodes to is
\* chosen here, where it is first looked at.
Drain(k) ==
    /\ ui = "drain" /\ BagIn(k, answered)
    /\ answered' = answered (-) SetToBag({k})
    /\ \/ k[2] \notin Accepted /\ UNCHANGED <<cacheVars, pendingLoads, failedLoads>>
       \/ /\ k[2] \in Accepted
          /\ pendingLoads' = pendingLoads \ {k[1]}
          /\ \/ \E content \in ContentsOf(k[1], k[2]) :
                  Insert(k[1], k[2], content, cur) /\ failedLoads' = failedLoads \ {k}
             \/ k[1] \in Undecodable /\ failedLoads' = failedLoads \cup {k} /\ UNCHANGED cacheVars
    /\ outdated' = outdated \ {k}
    /\ UNCHANGED <<deferred, live, viewVars, active, preparing, exifGen, ui, todo>>

Drained ==
    /\ ui = "drain"
    /\ ui' = "prefetch"
    /\ UNCHANGED <<cacheVars, requestVars, viewVars, genVars, todo, answered>>

-----------------------------------------------------------------------------
(* Prefetch, show *)

\* Faulty variant: what is no longer desired stays pendingLoads.
PrefetchKeepsPending ==
    /\ ui = "prefetch"
    /\ LET asked == {k \in Desired : k[1] \notin pendingLoads \/ k \in live}
       IN  /\ pendingLoads' = pendingLoads \cup {k[1] : k \in asked}
           /\ deferred' = (deferred \cup Deferrable(asked)) \cap Desired
           /\ live' = (live \cup (asked \ Deferrable(asked))) \cap Desired
    /\ ui' \in {"show", "input"}
    /\ todo' = IF ui' = "show" THEN {p \in Page : p[1] = cur[1]} ELSE {}
    /\ UNCHANGED <<cacheVars, failedLoads, viewVars, genVars, answered>>

\* prefetch_pages: what is desired is requested unless it is under way, and
\* every request for anything else is withdrawn.  A frame of the explorer
\* window ends here.
Prefetch ==
    /\ ui = "prefetch"
    /\ LET asked == {k \in Desired : k[1] \notin pendingLoads \/ k \in live}
       IN  /\ pendingLoads' = (pendingLoads \cup {k[1] : k \in asked}) \cap {k[1] : k \in Desired}
           /\ deferred' = (deferred \cup Deferrable(asked)) \cap Desired
           /\ live' = (live \cup (asked \ Deferrable(asked))) \cap Desired
    /\ ui' \in {"show", "input"}
    /\ todo' = IF ui' = "show" THEN {p \in Page : p[1] = cur[1]} ELSE {}
    /\ UNCHANGED <<cacheVars, failedLoads, viewVars, genVars, answered>>

\* The pages of the open archive are looked at one by one.  The order is
\* fixed here: what update_textures does for a page leaves the others alone.
AtHand(p) == ui = "show" /\ p \in todo /\ \A q \in todo : p[2] <= q[2]

\* update_textures for one page: a page that comes with another generation,
\* or has no texture, is uploaded, and then its older stills may go.  An
\* animation out of view pauses, keeping its place.
Upload(p) ==
    /\ AtHand(p) /\ InCache(p)
    /\ LET best == BestGen(p)
           moving == ContainsAnimation(p)
       IN  /\ texture' = [texture EXCEPT ![p] =
                    [gen |-> best,
                     playing |-> moving /\ (p \in Visible \/ (texture[p] # None /\ texture[p].playing))]]
           /\ IF texture[p] = None \/ texture[p].gen # best
              THEN RemoveOlderVersions(p, best)
              ELSE UNCHANGED cacheVars
    /\ todo' = todo \ {p}
    /\ UNCHANGED <<requestVars, cur, order, unpacking, genVars, ui, answered>>

\* A page the cache does not have, or one out of view that is past the uploads
\* of this frame or outside the texture window, which then loses its texture.
PassOver(p) ==
    /\ AtHand(p)
    /\ \/ ~InCache(p) /\ UNCHANGED texture
       \/ p \notin Visible /\ UNCHANGED texture
       \/ p \notin Visible /\ texture' = [texture EXCEPT ![p] = None]
    /\ todo' = todo \ {p}
    /\ UNCHANGED <<cacheVars, requestVars, cur, order, unpacking, genVars, ui, answered>>

AllShown ==
    /\ ui = "show" /\ todo = {}
    /\ ui' = "input"
    /\ UNCHANGED <<cacheVars, requestVars, viewVars, genVars, todo, answered>>

-----------------------------------------------------------------------------
(* Workers *)

\* A worker finishes a job that is still wanted.
FinishJob(k) ==
    /\ k \in live /\ BagCardinality(answered) < MaxResults
    /\ live' = live \ {k}
    /\ answered' = answered (+) SetToBag({k})
    /\ UNCHANGED <<cacheVars, pendingLoads, failedLoads, deferred, viewVars, genVars, ui, todo>>

-----------------------------------------------------------------------------

Input ==
    \/ "turn" \in Inputs /\ \E p \in Page : Turn(p)
    \/ "sort" \in Inputs /\ \E o \in Orders : Sort(o)
    \/ "open" \in Inputs /\ \E p \in Page, o \in Orders : OpenViewer(p, o)
    \/ "close" \in Inputs /\ Close
    \/ "folder" \in Inputs /\ ChangeFolder
    \/ "resize" \in Inputs /\ BeginLazy
    \/ "exif" \in Inputs /\ ToggleExif
    \/ "filter" \in Inputs /\ ChangeFilter
    \/ "unseen" \in Inputs /\ ChangeUnseen

UiStep ==
    \/ \E p \in Page : Redecode(p)
    \/ Redecoded \/ Renew \/ NothingSet
    \/ \E b \in Book : Unpacked(b)
    \/ \E k \in Key : Drain(k)
    \/ Drained \/ Prefetch
    \/ \E p \in Page : Upload(p) \/ PassOver(p)
    \/ AllShown

PagesNext == Input \/ UiStep \/ \E k \in Key : FinishJob(k)

PagesSpec == PagesInit /\ [][PagesNext]_pagesVars

\* The page in view that is i places after the first
SeenAt(i) == {p \in Visible : Position(p) = Position(cur) + i}

\* The UI thread goes through its frames, and a frame of the viewer window
\* comes again and again (it asks for a repaint every 400 ms); the file cache
\* worker ends; a job in view gets decoded (DecodeJobQueue!VisibleJobStarts),
\* and so do the others while nothing is in view; what was sent is drained.
Fairness ==
    /\ WF_pagesVars(UiStep)
    /\ SF_pagesVars(Prefetch /\ ui' = "show")
    /\ \A b \in SolidBook : SF_pagesVars(Unpacked(b))
    /\ \A i \in 0..Slots-1 :
          /\ WF_pagesVars(\E p \in SeenAt(i) : FinishJob(KeyAt(p)))
          /\ SF_pagesVars(\E p \in SeenAt(i) : Drain(KeyAt(p)))
    /\ WF_pagesVars(\E k \in Key : FinishJob(k))
    /\ SF_pagesVars(\E k \in Key : Drain(k))

FairSpec == PagesSpec /\ Fairness

-----------------------------------------------------------------------------
(* Properties *)

\* What the pipeline keeps besides the cache
PipelineTypeOK ==
    /\ ui \in {"input", "renew exif", "renew filter", "redecode", "drain", "prefetch", "show"}
    /\ todo \subseteq Page
    /\ cur \in Page \cup {NoPage} /\ order \in Orders
    /\ active \in Generation /\ preparing \in Generation \cup {None}
    /\ pendingLoads \subseteq Page
    /\ failedLoads \cup deferred \cup live \subseteq Key
    /\ unpacking \subseteq SolidBook
    /\ IsABag(answered) /\ BagToSet(answered) \subseteq Key
    /\ texture \in [Page -> Texture \cup {None}]
    /\ exifGen \in Generation /\ outdated \subseteq Key

\* Type invariant.
PagesTypeOK == CacheTypeOK /\ PipelineTypeOK

\* A page marked pending is not requested again, so its decode for the newest
\* generation must be on its way somewhere: with the scheduler, waiting for
\* the archive to be unpacked, or answered.  Otherwise the page never loads
\* (pending_loads against the scheduler, deferred_archive_requests, res_rx).
PendingMeansUnderway ==
    \A p \in pendingLoads : KeyAt(p) \in live \cup deferred \cup BagToSet(answered)

\* Whatever was in flight when it was toggled from a viewer, no still decoded
\* under an earlier Exif setting is cached or on screen once the new generation
\* has begun (redecode_after_exif_toggle, begin_new_decode_generation, the test
\* of poll_workers).  The animations of the open archive are replaced as well;
\* those of other archives stay, having no orientation applied to them.
ExifHonoured ==
    /\ \A p \in Page, g \in Generation : HasStill(p, g) => g >= exifGen
    /\ \A p \in Page : texture[p] # None => texture[p].gen >= exifGen

\* What docs/features/image-orientation.md says of the Exif setting: it is
\* global, and a change is noticed wherever it was made; so a page in view is
\* not one that was cached before the setting changed.
SettingShown ==
    \A p \in Visible : texture[p] # None => <<p, texture[p].gen>> \notin outdated

\* The cache and the list of failures hold no generation but active and
\* preparing, so no third version of a page takes memory and no old failure
\* blocks a page (retain_generations, begin_lazy_decode_generation, the test of
\* poll_workers).
TwoGenerations ==
    /\ \A p \in Page, g \in Generation : HasStill(p, g) => g \in Accepted
    /\ \A k \in failedLoads \cup live : k[2] \in Accepted

\* A page in view is shown in the newest generation, unless its decode fails,
\* the reader moves on or yet another generation begins.
VisiblePageShown ==
    \A p \in Page, g \in Generation :
        p \in Visible /\ Newest = g ~>
            \/ texture[p] # None /\ texture[p].gen = g
            \/ p \notin Visible \/ Newest # g \/ <<p, g>> \in failedLoads

\* The pages of the archive in view that eviction lets go no sooner than some
\* page of the window: it measures by index, the window by place.
Reach ==
    {p \in Page : /\ p[1] = cur[1]
                  /\ \E q \in Near(Behind, Ahead) \cup Visible :
                        Apart(p[2], cur[2]) <= Apart(q[2], cur[2])}

\* What page p may be charged for in a generation, at most
MostCharged(p) ==
    LET fitting == {d.bytes : d \in {x \in Decodes[p] : x.bytes < MaxBytes}}
    IN  CHOOSE most \in fitting \cup {0} : \A bytes \in fitting : bytes <= most

\* The budget has room for all of them, in each generation that is accepted,
\* and the bypass for what is too large among the pages in view.
Room ==
    /\ Cardinality(Accepted) * SumFunctionOnSet([p \in Reach |-> MostCharged(p)], Reach) <= MaxBytes
    /\ \A p, q \in Visible :
          (\E d \in Decodes[p], e \in Decodes[q] : d.bytes >= MaxBytes /\ e.bytes >= MaxBytes) => p = q

\* Once the reader rests where there is room, decoding comes to an end: the
\* pages around are cached, have failed or are known to be too large, whatever
\* was cached before, of this archive or of others, is let go for them, and no
\* page of the window is let go for another (prefetch_pages, is_known_bypass,
\* evict_furthest).
PrefetchSettles ==
    <>[][~Input]_pagesVars /\ <>[]Room => <>[](live = {} /\ answered = EmptyBag)

\* What redecode_visible_pages says of a page in view: the redecode takes
\* place, and its result takes the seat that was vacated for it, unless it
\* fails, the reader moves on or another generation begins.
RedecodeHonoured ==
    \A p \in Page, g \in Generation :
        ui = "redecode" /\ p \in todo /\ Newest = g ~>
            \/ HasStill(p, g)
            \/ animations[p] # None /\ animations[p].target = g
            \/ <<p, g>> \in failedLoads \/ p \notin Visible \/ Newest # g

=============================================================================
