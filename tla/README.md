# Nekoviewer: a verification project

Nekoviewer is an image and comic viewer written in Rust (egui/winit). This directory holds TLA+ models of
the parts whose correctness depends on the order of things: the decode scheduler, the page cache, the UI
thread that drives both, animations, the file cache, thumbnails, the identity of files and what is attached
to it, the restore of the database, the pages in view, and the lists of the explorer. TLC checks small
instances of them, and TLAPS proves the theorems of section 4 for every value of the constants. File
references are relative to the directory that contains `src/` (the crate's code is under `src/src/`).

    tlasany M.tla                        parse a module
    tlc -workers 2 -config X.cfg M       model-check (runs: PROJECT.json)
    tlapm MProofs.tla                    check the proofs

## 1. Inventory

| Part | State it keeps | Operations | Hard because |
|---|---|---|---|
| **Decode scheduler** `decode_jobs.rs`, worker loop in `cache.rs` | accepted generations, queued map, priority heap, running map with stop flags, prefetch bound, shutdown | `set_generations`, `submit`, `retain_desired_keys`, `set_max_speculative_running`, `wait_take`, `finish`, `shutdown` | N worker threads and the UI on one mutex and condvar; cancelling what is running; one prefetch lane; `notify_one` |
| **Page cache** `cache.rs` `PageCache` | stills by (archive, page, generation), animations by (archive, page), charged bytes, two bypass slots and their memories | `insert`, `drop_animation_for_redecode`, `remove_older_versions`, `retain_generations`, `remove_all_for_path`, `remove_static_pages_for_path` | byte accounting by saturating subtraction, eviction by distance between two kinds, generation-less animations |
| **Page pipeline** `view_explorer/workers.rs`, `viewer_host.rs` | `pending_loads`, `failed_loads`, `deferred_archive_requests`, `file_cache_pending`, active/preparing generation | polls for resize/Exif/filter, `poll_workers`, `pump_viewer_pages`, `prefetch_pages`, `open_viewer`, `close_viewer` | results arrive late, two generations are alive at once, five bookkeeping sets must agree |
| **Viewer** `view_reader.rs`, `spread_offset.rs` | page in view, mode, offset, textures with generations, playing animations | `process_navigation`, mode changes, jumps, bookmarks, `update_textures` | several inputs of one frame; virtual pages at both ends; when older versions may go |
| **Animation pipeline** `cache.rs` `RingAnimation`, `anim.rs` | frame ring, raw queue, request, shutdown | `request_frame`, `push_raw`, decode thread, resize thread, `Drop` | three threads, two mutexes, three condvars; playback needs a frame the ring still has |
| **File cache** `cache.rs` `FileCache`, `open_progress.rs`, `status.rs` | unpacked archives, byte budget, the archive being opened, archives waited for | estimate, open, cancel, background worker, `insert`, eviction | page requests wait for it; opening and background reading overlap; the list measured against changes |
| **Thumbnails** `neko_dir.rs`, `cache.rs`, `view_explorer/idle_thumb.rs` | claims with tokens in redb, picture, pending and failed sets, session | ask, probe, claim, read, finish, fail, invalidate, recover | a claim outlives its holder; file, size or page change during the work; kill at any step |
| **File identity** `file_identity.rs`, `identity_*.rs` | records by id, index by path, index by fingerprint, questions to the user | look, observe, decide, apply, choices, sweep, prune | two threads decide on what they read earlier; several transactions per choice |
| **File settings** `file_settings.rs`, `spread_state.rs` | v1 rows by path, v2 rows by id, bookmarks | lazy migration on write, clone, relocate | a cleared value must not come back |
| **Backup and restore** `db_backup.rs`, `dev_db_backup.rs`, `backup_failure_ui.rs` | database, generations, reserved restore, before-restore copies | back up, reserve, swap at start, rotate | crash or failure between two file operations; a clock that goes back |
| **Explorer** `view_explorer/*.rs` | tab, directory, flags of five views, scan, list, stashed place | switch tab, navigate, search, tag search, alike views, virtual folders, reload | results arrive after tab and flags have changed |
| Single instance, markers and hashes, settings dialogs, codecs, window sizes, OCR | – | – | listed in PROJECT.json with the reason each is left out |

How they interact: in every frame the UI thread drains result channels into the page cache, computes the
pages it wants around the page in view, submits them to the scheduler and withdraws the rest, then uploads
what the cache has to textures. Decode workers take jobs, decode and send results over a channel. An
animation in the page cache owns two threads of its own; the viewer asks it for frames and takes them from
its ring. A *generation* stands for the settings a page is decoded with (target size, Exif, filter): a
resize keeps the *active* generation on screen while the *preparing* one decodes; an Exif or filter change
drops everything at once. Pages of a 7z or tar wait until the file cache has the archive. The explorer scans
folders and searches in threads and asks the thumbnail threads, which share a redb file per folder, for
pictures of what it lists; the identity worker resolves the files of the same listing, and the UI thread
resolves one before it attaches user data to it. Settings, bookmarks and identities are in one database,
which restore replaces at the next start.

What makes each part correct: scheduler – a page is never decoded twice at once for one request, cancelled
work never answers, the most urgent page goes first, nobody sleeps over a job, shutdown ends all; cache –
charged bytes equal held bytes, the overrun of the budget is bounded, one animation per page, oversize pages
stay known; pipeline – a pending page is really on its way, nothing of a dropped setting comes back, the
page in view appears, prefetching comes to rest where there is room; animation – frames stay in order, production obeys the
request, the next frame survives in the ring, playback goes on, dropping ends the threads; viewer – every
view has a page, Home and End arrive; file cache – what is waited for is on its way, the archive in view
goes last; thumbnails – no file is locked out, a picture is never taken for one of younger contents, every
request is answered; identity – paths, records and fingerprints agree, user data stays with its file;
settings – a file shows what the user last said; restore – no database is lost; explorer – what is listed is
what the window says it lists, the place in the real tree is kept, a folder that is read appears.

## 2. Modules

| Module | Models | Notes |
|---|---|---|
| `DecodeTickets` | what the scheduler promises, abstractly | a ticket is opened, answered once or withdrawn |
| `DecodeJobQueue` | `decode_jobs.rs`, `spawn_worker`, the two `begin_*_decode_generation` | implements `DecodeTickets` by the mapping `Tickets` |
| `PageCache` | `PageCache` of `cache.rs` | `PagePipeline` extends it and performs its operations |
| `PagePipeline` | `workers.rs`, `viewer_host.rs`, texture upload | extends `PageCache`, with the ticket view of the scheduler |
| `RingAnimation` | `RingAnimation`, frame ring, playback | three threads |
| `FileCache` | `FileCache`, the opening thread, the background worker | budget, cancellation, archives that change |
| `ThumbGeneration` | the row and picture of one file and the requests for it | one step per transaction or file system call |
| `FileIdentity` | records, indexes, questions, sweep | two resolving threads and the user |
| `FileSettings` | v1 rows, v2 rows, bookmarks | which record a path has is left to `FileIdentity` |
| `DbRestore` | backup generations and the swap at the start | every file operation may fail or be the last |
| `SpreadNavigation` | page modes, offsets, jumps, a frame of input | |
| `ExplorerViews` | tabs, flags, scans and late results | |
| `*Proofs` | – | theorems of the module of that name, see section 4; `CacheProofs` is about sums and `PageCache`, `ViewerProofs` about `FileCache`, `SpreadNavigation` and `MCViewer`, `StoreProofs` about `FileIdentity`, `FileSettings`, `DbRestore` and `MCStores`, `ExplorerViewsProofs` about `ExplorerViews` and `MCProgress` |
| `MC*` | – | the instances TLC checks |

A definition named "Faulty variant" is not part of any specification. It is a plausible bug, and exchanging
it for the definition it varies makes TLC report the property it is paired with in PROJECT.json, so each
property is known to depend on that piece of code.

### State and actions against the code

**DecodeJobQueue.** Each public method is one critical section of the queue's mutex and one action:
`Submit`, `SetGenerations` (inside `BeginNewGeneration`, `BeginLazyGeneration`), `RetainDesiredKeys`,
`SetMaxSpeculative`, `Shutdown`, and for workers `Take`/`Sleep`/`Exit` (the three ways through `wait_take`),
`Finish` (in `FinishWanted`, `FinishUnwanted`, `SkipCancelled`), `Send` for the channel. The set of threads
asleep on the condvar is the set of workers with `pc = "waiting"`; `notify_one` wakes any one of them,
spurious wakeups are allowed. `id` and `order` come from counters that move together and are one number.
Keys are a page and a generation; payloads are left out. The guard that skips unfit heap entries in
`pop_next` is modelled and proved unnecessary (`NoUnfitEntry`).

**PageCache.** `animations` and `entries` are functions with `None` for absent keys, `totalBytes` is charged
and refunded as in the code. Eviction is a relation: `Evicted` walks through the farthest seat, and ties,
which `max_by_key` over a `HashMap` resolves arbitrarily, are resolved either way. Page metas are left out.

**PagePipeline.** One frame of the UI thread runs `input → (redecode | renew) → drain → prefetch → show`;
`ui` says where it stands, `todo` which pages the present loop has left. `live` is the scheduler as
`DecodeTickets` describes it, `answered` the results in the channel (a bag: a key may be decoded again while
its first result waits). A frame of the explorer window ends after `Prefetch`, one of the viewer goes on to
`show`. `ChangeUnseen` is the early return of the two setting polls without a viewer. A page has two numbers:
its index in the archive (`original_index`), by which the cache knows it and eviction measures, and its `Position`
in the viewer's sorted list (`order`), by which spreads (`Visible`) and the prefetch window (`Near`, `Window`)
count. `Sort` is a click on the bar, `OpenViewer` takes any order the archive may have been saved with.

**RingAnimation.** `decodePc`, `resizePc` follow the loops of the two threads; `LockToPush`, `FindFull`,
`Park`, `LockToPop` split the critical section of the raw queue because `Drop` notifies without that mutex.
`Advance` and `Stay` are a repaint of a page in view, `Glimpse` of a page next to it, `Forget` a viewer
closed and opened anew or a page leaving the texture window.

**FileCache.** `held` and `charged` are the cache, `waiting` is `file_cache_pending`, `queue`, `reading` and
`answers` the worker and its two channels. `opening` is the archive being opened: its estimate (`Estimate`),
the user's `Cancel`, and `PollOpen`, which takes the opened archive over. `NextFile` leaves for a neighbour,
`Poll` drains the answers. `Evictions` gives every order of eviction that the distances allow; `ChangeFile`
and `ChangeList` are the world.

**ThumbGeneration.** Rows of different files share only the session and the profile, so one file stands for
all. `row` and `thumb` are what redb holds; a request goes through the stages *queued, probed, claimed,
reading, made*. `Claim`, `Finish`, `Fail`, `ChangeProfile` and the reset of `ChangeSelection` are one redb
transaction each, `StatFile` and `ReadFile` a file system call each. `Poll` takes one answer, `Reenter`
begins a new session, `Restart` kills the program and opens the database again (`enforce_schema_version`).
`thumb.content` is a history: which version of the file was read.

**FileIdentity.** `Look`, `Observe`, `Decide` and `Apply` are the three phases of `resolve_file` and the
quick way before them, for the worker and the UI thread (`ensure_record`); `Conflict` is the retry.
`CloneRead`, `CloneWrite`, `Ask` are the worker's follow-ups, `Choose`, `Decline`, `Adopt` the dialogs,
`PruneLook`/`PruneWrite` and `SweepCheck`/`SweepDelete` the pairs of transactions of pruning and sweep. A
file is its contents and the number of its last write, which is its stat; a young file has no fingerprint.
`raced` notes when user data was written inside a window the code leaves open (section 5).

**FileSettings.** `rec` is the record of a file with path, origin and history (each former path has its place
in it, 0 for none), `v1` the old rows, `row` the slots of the new one. `FirstRecord` is the creation of a
record, `FollowMove` with `Relocated` a recognised move. `SetSlot` migrates all slots at once, `SetBookmark`
the bookmark, `Clone` is a copied file that inherits. `SetByPath` writes the former tables, where `ensure_record`
finds no record under the path: the file has none, or it was moved, cannot be resolved now, and its record is
still at a former path. `want`, `from`, `mixed` and `astray` are history.

**DbRestore.** `stage` walks through `apply_pending_restore` and the opening after it. `Evacuate` is the
rename of the database; `StartCopy`, `EndCopy` and `EndMove` are the copy that can be torn and the deletion
that take its place; `GiveUp`, `SwapFails`, `MoveBack` are the failure paths, `RotateBefore` the deletion of
old copies; `Stop` is a kill or an exit at any step. Contents of a database are the
number of edits made to it, so that two databases can be told apart.

**SpreadNavigation.** One `Frame` runs, in the order of the code, the slideshow, the mode keys, one click on
bar, palette or edge, and the keys of `process_navigation`, with the mode that was read at its beginning.
`Open` is another file with a saved spread or bookmark, `TurnFromTranslation` the page turns the translation
panel asks for.

**ExplorerViews.** `ui` is a record of the tab, `current_dir`, the flags of the five views, the stashed
place, the scan and where the list stems from (`shown`). Helpers from `Show` to `SwitchedTab` are functions
on this record, each one function of the code, so that a handler is their composition. `PollScan`,
`PollSearch`, `PollTagSearch` and `ApplySimilarGroup` are the results; an input may come between any two.

## 3. Runs

| Run | Instance and bounds | Shows |
|---|---|---|
| `queue_safety` | 2 workers, 2 pages, generations 0..2, 3 job ids, distances {0,1}; workers and pages symmetric | `OneLiveJobPerKey`, `HeapMirrorsQueued`, `OneSpeculativeDecoder`, `NoLostWakeup`, `TakesMostUrgent`, `ImplementsTickets` |
| `progress` | *queue:* 2 workers, 1 page, 2 generations, 3 job ids. *explorer:* 3 folders, 2 virtual folders one in the other, 1 file with others alike, 2 alike views | types, `ListFitsView`, `RealPlaceKept`, `VisibleJobStarts`, `ShutdownEndsWorkers`, `FoldersAppear` |
| `viewer` | *pipeline:* a 7z with an animation and a still that may fail, in either order, one change of generation, every input, 2 results in flight. *files:* two 7z and a zip of 1 to 3, budget 2, 3 openings, 1 change of a file. *turning:* 1, 2 and 5 pages, one key a frame beside slideshow, mode key and click. *thumb:* 2 profiles, 1 registrable page, 2 requests, 2 versions of the file, 2 disruptions | types; `PendingMeansUnderway`, `ExifHonoured`, `TwoGenerations`; `HeldIsCharged`, `WaitingIsUnderway`, `ViewedGoesLast`; `PageShown`, `JumpsReach`; `ProcessingIsOwned`, `CurrentIsTrue`, `StampNotAhead`, `PendingIsAnswered` |
| `pipeline_liveness` | four stills of a 7z, one of which may be too large, a window of 2 ahead, a budget of three stills, 2 results in flight. *generations:* the last two pages turned at will, two generations, one other input of any kind but sorting. *orders:* the pages in another order, one turn to any page or one sorting | `VisiblePageShown`, `PrefetchSettles` |
| `animation` | ring 3, raw queue 2, read-ahead 8, frames 0..7 | type, `StreamInOrder`, `NoRunaway`, `WindowKeepsNextFrame`, `PlaysOn` |
| `stores` | *pages:* 2 archives, 3 pages each, 2 generations, budget 6/2, contents from 3 to 6 bytes. *identity:* 2 paths, 2 contents, 2 records, 3 events, 2 attempts. *wide:* 3 paths of one content, 3 records, 2 marks, 3 events. *settings:* 2 files, 3 paths, 2 slots and the bookmark, 2 moves, 2 writes, a history of 1. *restore:* 2 generations, 1 copy from before a restore, 3 starts, 2 edits | types; `BudgetKept`, `BypassesAgree`; `IndexesAgree`, `UserDataStays`; `SettingFollows`; `NothingLost`, `NamesInOrder` |
| `resize_of_animation` | one animation, one resize | `RedecodeHonoured` is violated (finding 1) |
| `rebuilt_viewer` | as `animation` | `NextFrameKept` is violated (finding 2) |
| `dropped_animation` | as `animation` | `ThreadsEnd` is violated (finding 3) |
| `setting_unseen` | one still, viewer opened and closed | `SettingShown` is violated (finding 4) |
| `fingerprint` | one path, two contents, the UI thread's resolution | `FingerprintFresh` is violated (finding 5) |
| `stray_search` | as `progress` | `OtherViewsEnded` is violated (finding 6) |

Runs named with several parts check components that share no state. The variable `part` is chosen initially
and names the one that moves; the others keep one initial state, so the states of a run are the sum of those
of its parts and not their product. `IndexesAgree`, `PageShown` and the like then speak of the component's
own definition, as the theorems do; where a property would not hold of a resting part, the MC module asks it
of its part only. Each part has an action of its own in the MC module.

Why the bounds suffice. Two workers and two pages make every race of the scheduler possible (a cancelled and
a live job of one key, a prefetch beside a visible page, two wakers and one sleeper), and three ids allow a
request, its cancellation and its successor, with one beside them. Three generations are needed to push one
out of the active/preparing pair. The cache has pages at distances 0, 1 and 3 and contents that fit three,
two, one or no times, so each branch of eviction and bypass is taken, in both kinds. One change of
generation is what all hazards of the pipeline need (a result of the previous one in flight); a solid
archive makes requests wait in a fourth place. Four pages are the least at which an order can put a page that
is near by index outside the window: in the order 0, 3, 2, 1 the window of page 0 leaves out index 1, which then
keeps its seat against 2 and 3. There `Room` is false (and without it TLC finds `PrefetchSettles` violated). At
the other places the budget is exact for one generation, and pages cached before have to be let go; for two
generations there is room at the last page only.
In the animation, a ring of 3 and a read-ahead of 8 keep the
code's relation in which the read-ahead is larger than the ring, so the window can run past the frame on
screen; 8 frames let it wrap more than twice. The file cache has an archive that fits, one that fits only
alone and one that never does. Spreads of one page (both sides virtual), of two, and of five, odd with pages
in between, reach every boundary of offset and jump. A thumbnail needs two requests for every race over one
claim and two disruptions for one to be followed by another; with one registrable page there is one source
and "first image", which is all a row can confuse. Two records and two contents let a path be taken over by
another record while a decision about it is pending; the wide instance adds the third path a copy and a move
with two candidates need. Two slots tell apart what is written from what migrates along with it, and a
history of one path forgets the first of two moves, as the code's history of three forgets the first of
four. In `restore` one copy is kept (the code keeps two), so that within three starts the second restore
rotates. Three folders and a nested virtual folder distinguish every pair of directories that a view can
confuse, and two alike views an old group from a new.

`LastFrame`, `MaxGen`, `MaxJobs`, `MaxResults`, `MaxOpens`, `MaxChanges`, `MaxMtime`, `MaxKeys`, `MaxId`,
`Known`, `MaxEvents`, `MaxMoves`, `MaxWrites`, `MaxEdits`, `MaxClock`, `MaxMade`, `MaxStarts` and
`MaxTokens` are bounds of the models only. `animation`, `viewer`, `stores` and `fingerprint` disable the
deadlock check: the threads of an animation may rightly have ended, and the other models come to rest when
their bounds are used up. Symmetry is used where no property is about liveness: over workers and pages; over
profiles and requests; in `stores` over model values that stand for a different thing in each part, each
interchangeable there.

### Fairness

- *Workers* (`progress`): weak fairness of each thread's next step. The operating system schedules threads
  and codecs return. Nothing is assumed of the UI, and `Finish` of a decode is a step of a thread.
- *Explorer* (`progress`): the scanning thread ends, and every frame polls and opens an alike view that was
  asked for. Nothing is assumed of searches, tag searches and groups of alike files, which may never end.
  The fairness of the run is a disjunction: each part owes its own only.
- *Page pipeline* (`pipeline_liveness`): the UI goes through its frames (egui) and frames of the viewer window recur (it asks for
  a repaint every 400 ms, and on each result). The file cache ends what it reads (`WaitingIsUnderway`). A
  job for a page in view is finished: `VisibleJobStarts` of the queue and `ImplementsTickets` are the
  reason. Jobs out of view are only promised to finish while they persist. `PrefetchSettles` asks in addition
  that the reader rests and that there is `Room` from some time on; section 5 tells what happens without it.
- *Animation*: both threads run, and a page in view is repainted (`update_textures` requests the next
  repaint at every visit of a playing page). The wait for a condition variable is *not* fair: a thread
  asleep stays asleep until notified.

## 4. Proofs

Each theorem holds for every value of the constants under the assumption named in the component's module;
TLC evaluates it on its instance.

**`DecodeJobQueueProofs`** proves `TypeCorrect`, `NoDuplicateDecode` (`OneLiveJobPerKey`),
`HeapStaysCurrent` (`HeapMirrorsQueued`), `PrefetchKeepsToOneThread` (`OneSpeculativeDecoder`) and
`Refinement` (`ImplementsTickets`), for natural bounds and distances and a `None` that is no record. None of
the invariants is inductive by itself. `OneLiveJobPerKey` needs to know that an id names one job
(`IdsIssued`, `IdsDistinct`), or `Take` could overwrite a running entry; `OneSpeculativeDecoder` speaks of
threads, while the lane counts entries of the running map, so `WorkersHoldJobs` ties each busy worker to its
own entry and `OneSpeculativeRunning` states the bound on the map; `HeapMirrorsQueued` makes the priority
checks of `pop_next` decisions about the map. `LiveAccepted` and `ShutdownClears` make `finish` answer only
what is still asked for. The conjunction `IInv` is preserved by every action, one lemma each (`SubmitStep`,
`TakeStep`, `FinishStep`, …); the operations that cancel share `WithdrawStep`. The refinement maps an open
ticket to a queued or an uncancelled running job. Every step then is `Ask`, `Withdraw`, `Answer`, `Close` or
a stutter; `Take` stutters because a job moves from one map to the other.

`NoWakeupIsLost` (`NoLostWakeup`, `WorkerAssumption`: finitely many workers) is a counting argument: while a
worker sleeps, the jobs that could start are no more than the workers on the way to look for one. The
invariant makes the heap the image of the queued map, so both sets are finite and each action changes them
by little: `submit` makes one job startable and wakes one sleeper, taking a job uses up one of each and may
close the lane but not open it, a worker sleeps only when nothing can start, and whatever opens the lane
wakes everybody (`NobodyAsleep`). A cancelled job keeps its lane, so cancelling, which notifies nobody,
makes nothing startable. `MostUrgentFirst` (`TakesMostUrgent`) follows
from `HeapMirrorsQueued`: the entry that `pop_next` finds first is the most urgent of the fit jobs.

**`CacheProofs`**. `OneAnimation` and `BypassMemory` are inductive as they stand (together
`BypassInStep`, `BypassesAgree`). `BudgetIsKept` (`BudgetKept`) needs two things. The charge is a sum over
seats, and sums are recursive: what is needed of them, that a subset weighs no more and that removing and
adding an element subtracts and adds its bytes, is shown without an induction schema from the
well-foundedness of strict inclusion (a smallest counterexample cannot exist). And the bound is not inductive,
since a still that finds only animations left gives up evicting; `AnimationsBounded` says that animations
alone stay below the minimum and one budget, so the still adds the second.

**`PagePipelineProofs`** proves `PendingIsUnderway` (`PendingMeansUnderway`), `ExifIsHonoured` (`ExifHonoured`)
and `NoThirdVersion` (`TwoGenerations`). Each property needs that results are accepted only for the active and
the preparing generation, and that those are not older than the last Exif change (`AcceptedAfterExif`); a
setting changes only while another generation may begin (`RenewHasRoom`). The bag of results in flight has its
own lemmas. `PipelineUsesCache` (`PagesSpec => CacheSpec`) shows that each step of the pipeline is one operation
of the cache or leaves it alone. So the pipeline inherits what `CacheProofs` shows of every use of the cache:
its bytes add up and stay within the bound (`PagesKeepBudget`: `BudgetKept`), and the bypasses agree with the
seats (`PagesKeepBypasses`: `BypassesAgree`), whatever inputs and late results come between.
`PipelineTypeCorrect` types what the pipeline keeps besides the cache, `PagesTypeCorrect` (`PagesTypeOK`)
everything.

**`RingAnimationProofs`** (`CapacityAssumption`: positive sizes) proves `TypeCorrect`, `ProductionIsAsked`
(`NoRunaway`), `NextFrameStays` (`WindowKeepsNextFrame`) and `FramesStayInOrder` (`StreamInOrder`). Its
invariant follows the frames as a *chain* from ring to decoder: ring and raw queue rise, what is in the
hands of each thread follows on what came before, the next frame to decode follows the last of all. `Hands`
says who holds a frame where; without it a step could lose one. The chain has no gap while nothing is thrown
away, which is not until stale frames are dropped or `Drop` was called; after `Drop` the resize thread
throws away one frame and then ends, which `Cut` expresses. `ViewerInv` bounds what the viewer asked for by
its own window, and `RingInv` says nothing has left a ring that is not full. Together they place the frame
after the one shown: at most a ring's length below the newest, hence in the ring. `StreamInOrder` speaks of
one concatenated sequence; `Joined` carries the order of two pieces to their concatenation.

**`ThumbGenerationProofs`** (`ThumbAssumption`) proves `TypeCorrect`, `NoLockout` (`ProcessingIsOwned`),
`CurrentRowsAreTrue` (`CurrentIsTrue`) and `StampsNeverAhead` (`StampNotAhead`). Nothing about the
exclusiveness of a claim is needed: whoever ends a claim he still holds also ends the state `processing`,
and the token tells him whether he does. `StampsBehind` adds that the stamp of a request was taken before
its contents were read, so it is no younger than they are. `MarksAreAnswered` (`PendingIsAnswered`) follows
the requests of the present session: the one that set the mark is under way or its answer is.

**`StoreProofs`**, identity (`IdentityAssumption`): `IndexesInStep` (`IndexesAgree`). The strengthening
speaks of what a thread carries from one transaction to the next (`JobsOK`): a decision names its own path,
and an orphan that was seen at another path, so the record and the orphan of a merge are not the same. All
else that a decision took from stale reads is checked again by `apply`, and the proof shows that this is
enough. `DataIsKept` (`UserDataStays`) adds `JobsFree`: as long as no write fell into a window, a record that
a thread is about to drop (merge, adoption) or to fill (clone) has no data, and one it is about to delete is
unconfirmed. Each step of one thread has to leave this true of the other (`StepFree`), which is where the
windows come in. `IdentityTypeCorrect` (`TypeOK`) follows what a thread writes from a job it made earlier
(`JobsFit`): the candidates it asks about are records, and what it copies is data of the kinds there are.

Settings (`SettingsAssumption`): `SettingIsFollowed` (`SettingFollows`). A file has a *home*, the path of the rows
that were written for it before it had a record: its origin once it has one. Rows can be written elsewhere too,
when it was moved and its record had not followed; its setting is then *astray*, until the slot is set anew and
the former tables are not read for it any more (a bookmark stays astray, its rows are always read). The
invariant says that a former row is that of one file, and at its home if that file still reads it and its
setting is not astray (`RowsHaveFiles`); that files which did not mix go by no path with rows of the other
(`ApartFromOthers`); and that what the user said, if not astray, is the row of the home, unless a slot was
migrated or cleared (`ShownAsSaid`). So the search of `legacy_*` through path, origin and history, which can be
cut, need not be followed: wherever it finds a row, it is the one at home. The latest former path with a row
exists because a finite set of places has a greatest.

Backups (`RestoreAssumption`): `NothingIsLost` (`NothingLost`) and `NamesStayInOrder` (`NamesInOrder`). The
invariant says what is in place at each stage of a start (`InPlace`, `PutAway`), that names are those of
one file each and tell its age, and where the two databases are that count: the one the user last had is in
place or among the newest files put away, no further behind than the number of other databases put away since
(`LiveKept`), and the one before the last restore is put away, near enough to the newest to survive the rotation
under way (`UndoKept`). Rotation deletes a file only when as many newer ones exist as are to be kept.

**`ViewerProofs`**, file cache: `FilesTypeCorrect`, `HeldFilesAreCharged` (`HeldIsCharged`),
`AwaitedFileIsUnderway` (`WaitingIsUnderway`) and `ViewedIsEvictedLast` (`ViewedGoesLast`), from an invariant
that also types the opening under way. The charge is the sum of `CacheProofs`. That the archive in view goes
last is an argument on distances: it is the only one at distance zero, and eviction goes through its order from
the far end.

Pages in view (`TotalsAssumption`: an archive without images gets no viewer): `PageIsShown` (`PageShown`) and
`HomeAndEndReach` (`JumpsReach`) through `Good`: the first place of the view is a page or, in spreads, the
virtual page before the first one; a file of one page needs to be followed more closely (`OnlyPage`). Each
operation of a frame keeps it (`Keeps`), so every frame does, unless a click changed the mode under its keys.
What such a frame still keeps is its type (`TurningTypeCorrect`): the lemmas `MovesLand`, `JumpsLand` and
`NavigatedLands` say where the keys lead whatever mode they are read with.

**`ExplorerViewsProofs`** (`ExplorerAssumption`) proves `ExplorerTypeCorrect`, `PlaceSurvives`
(`RealPlaceKept`) and `ListIsThatOfTheView` (`ListFitsView`). The invariant `Proper` says which flags may be
set together and in which tab, that a scan under way is always of the current directory, that none is under
way at the root or behind a broken link, and what a waiting click may find. It is stated on the record, and
each helper has a lemma on how it transforms it, so that a handler's step is the chain of its helpers.

*Side by side.* The runs `viewer`, `progress` and `stores` take several components at once. `PartsSideBySide`,
`QueueBesideExplorer` and `StoresSideBySide` show that this changes nothing: a behaviour of the run is, in the
variables of each part, one of that part's specification, since the others leave them alone. So what TLC finds
of a part there, and what is proved of the part by itself, are about the same behaviours; and the types of all
parts together follow (`ViewerTypeCorrect`, `ProgressTypeCorrect`: `TypesOK`; `StoresTypeCorrect`: `TypesOK`
unless the part is *wide*).

Every safety property that the runs check is stated by a theorem, but for the part *wide* of `TypesOK` in
`stores`. It is a second instance of `FileIdentity`: `IdentityTypeCorrect` and `IndexesInStep` are proved for
any values of the constants, but the provers cannot use a theorem through `INSTANCE`. TLC alone checks that
part, and what is out of the provers' reach: liveness under fairness (`VisibleJobStarts`, `ShutdownEndsWorkers`,
`FoldersAppear`, `VisiblePageShown`, `PrefetchSettles`, `PlaysOn`) and everything that depends on `ENABLED`.
What recursive definitions compute is proved only where a smallest counterexample replaces the induction, as for
the sums above.

## 5. Findings

1. **A resize can lose to the animation it replaces** (`RedecodeHonoured`). A resize empties the seat of the
   visible animation and requests a new one. Results of the active generation are still accepted, so when
   the animation's *first* decode, for the old size, is delivered just after the resize, it takes the empty
   seat. `prefetch_pages` then finds the page contained, whatever the generation, and withdraws the request;
   the animation stays at the old size.
2. **A reopened viewer can stall an animation** (`NextFrameKept`). The animation survives in the page cache
   with requests under way. A new `AnimState` starts at frame 0, uploads it, and then loses frame 1 to the
   frames still coming. Because it has a texture it is not reconnected, and its own request is below what
   was produced. `WindowKeepsNextFrame` shows the same cannot happen while the viewer's request covers that
   of the pipeline, so the read-ahead rule itself is right.
3. **Dropping an animation can leave a thread behind** (`ThreadsEnd`). `Drop` notifies `raw_wake` and
   `raw_space` without the mutex under which their waiters test `shutdown`. A thread between test and wait
   misses the notification. `docs/states.md` asks that cancelled work and its workers end.
4. **A setting changed without a viewer is not applied to cached pages** (`SettingShown`). The polls of the
   Exif and filter settings note the new value, then return because no viewer is open; the cache keeps its
   stills, and the archive opened next is shown from them.
5. **A file recorded while young keeps an old fingerprint** (`FingerprintFresh`). A file written less than
   three seconds ago has no fingerprint yet. Under a record it already has, `decide` keeps the old one
   (`file_identity.rs:580`) beside the new size and time, and `quick_hit` trusts it from then on. Comments
   at `:1101` and `:1109` say that the fingerprint is left out and filled in later.
6. **A search ends in another tab** (`OtherViewsEnded`). Changing tabs does not end a running search, and
   `poll_search` enters the search view whatever the tab (`search.rs:163`). Its hits replace the list; with
   `viewing_search` set, `poll_scan` then ignores the folder the user enters, which stays "loading".
   `panels.rs:905` says that views of other tabs always end.

Observations that are no findings, because no doc or comment says otherwise, or only in passing.

*Pages and animations*

- An older generation's result that arrives after the newer texture was uploaded never replaces it for good:
  `get_best` prefers the newest, and only a page without a newer still falls back.
- Two oversize pages of one spread take turns in the single bypass slot and are decoded over and over.
- Prefetching need not settle. The window (5 back, 10 ahead) goes by place in the sorted list
  (`workers.rs:739`), eviction by distance in `original_index` (`cache.rs:1421`). A page that is cached, outside
  the window, but nearer by index than a page of the window keeps its seat, and if the budget does not hold it
  beside the window, pages of the window evict each other and are requested again without end. This happens when
  the window does not fit the budget; in a sort order other than the archive's even when it does; and in the
  archive's own order too, since ten pages behind are as near as ten ahead, while the window takes in five.
  `PrefetchSettles` asks for `Room`: the budget holds, for each accepted generation, every page that is no
  farther by index than the farthest of the window, and no two oversize pages are in view together.
- With a ring of 8 frames or fewer the frame on the screen is evicted while shown (`view_reader.rs:4311`),
  and its delay reads as the default of 100 ms.
- A panic in a codec ends a worker without `finish` (`cache.rs:263`); its key stays in `running` for the
  generation. The file cache worker (`cache.rs:1541`) has no guard either.
- `drop_stale_raw` is set without the mutex of the raw queue as well; a missed notification there is made
  good by the next frame.
- In the frame in which a click in the palette changes the page mode, ↑ or the key 4 still sees the old mode
  (`view_reader.rs:2039`) and can lead to a view without a page. `PageShown` excludes that frame (`torn`).
- In a spread mode the aligned first spread is not "at first" (`view_reader.rs:2673` asks for a first index
  of −1), so Shift+↑ does not go to the previous file at once, as `CHANGELOG.md:390` has it.

*File cache*

- An archive opened again while cached is inserted, and charged, twice (`status.rs:157`, `cache.rs:1494`);
  the first charge is never refunded, so the cache holds less than its budget allows. `HeldIsCharged` states
  the safe side.
- A cancel during the estimate is noted but the archive opens all the same (`open_progress.rs:119`).
- An archive in view that is not in the explorer's list is evicted first.

*Thumbnails*

- A registered page that has vanished falls back to the first image, which `finish` refuses; the file is
  marked failed (`cache.rs:2024`). Opening a book whose registered page vanished (`viewer_host.rs:1265`)
  drops the answer that was pending; `PendingIsAnswered` excludes this case (`forgotten`).
- A folder entered again while its thumbnail is made: the claim is refused and a red × is shown
  (`cache.rs:1802`). A superseded request that claims late takes the token of the one under way
  (`neko_dir.rs:1172`).
- A panic in a generation thread leaves the row in `processing` until the next start (`cache.rs:1692`).

*Identity, settings and restore*

- The sweep checks and deletes in two transactions; the check that a record is blank and the merge or
  adoption that relies on it are two as well. User data written in between is lost. `UserDataStays`
  holds outside these windows (`raced`).
- A crash between the creation of a record and the follow-up loses its inheritance or its question
  (`identity_worker.rs:446`). Pruning can bring back a question just answered (`identity_pending.rs:305`).
  `ensure_record` ignores that its file was a copy or ambiguous (`file_identity.rs:1102`).
- A moved file that cannot be resolved at the moment (unreadable, `file_identity.rs:1051`, or three conflicts in
  a row) has no record under its new path, so what the user sets is written to the former tables under that path
  (`file_settings.rs:337`, `spread_state.rs:637`). When the record follows the move later
  (`file_identity.rs:531`, `:722`), its own row wins if it has one, and so does a row of a former path if the
  setting was removed: what was said last is lost. `SettingFollows` excludes these settings (`astray`).
- When a restore can neither move the reserved database in nor the old one back, an empty database is
  created, though the log says the present one stays in use (`backup_failure_ui.rs:39`); the old one is
  still among the copies from before. Two such starts in a row can rotate it away.

*Explorer*

- The search tab entered from anything but the plain real tree, or reloaded, starts a scan that `poll_scan`
  never takes: the pane says "loading" for good, and a reload loses the hits. `FoldersAppear` speaks of the
  tabs that show folders.
- A search that strays into the tag tab leaves its hits among those of the tags; at the virtual root it
  lists the files of the former folder under `/`. The branch of `poll_scan` for a scan of another directory
  is never taken (the invariant `Proper` shows it) unless a search strayed.
- In the virtual tree ids are given again after the largest was deleted, and a dialog about subfolders
  survives the deletion of its node and can speak of the next; a dialog with a deleted destination shows `/`
  and fails; an OK while another registration is pending closes without a word.

## 6. What the models leave out

- Deferred requests are a set of keys: repetitions are merged (submitting one twice only updates it).
- What a page decodes to is chosen when its result is drained, where it is first looked at.
- Two results wait in the channel at a time in `viewer`, three in `pipeline_liveness`, of one key or of
  several (`MaxResults`).
- `update_textures` visits pages in a fixed order; what it does for one leaves the others alone. The budget
  of uploads per frame and the size of the texture window are a choice in `PassOver`.
- The ring of an animation is not part of `PagePipeline`; there an animation is a seat in the cache.
- Debounce and timers are choices of when an input comes.
- Page modes do not change in `PagePipeline`, and its spreads have no virtual page; those are `SpreadNavigation`'s.
- A repaint of `RingAnimation` is one step; a failed `try_lock` is the choice `Stay`. Frame delays, resizing
  and codecs are left out.
- Memory ordering of the `AtomicBool` stop flags is not modelled: they are read under or between the same
  mutex operations.
- Thumbnails: numbers of threads and the two lanes; any request may take its next step. Tag previews and the
  order of the queue.
- Identity: empty files, the name in `rank_orphan`, `backfill`, statistics. An expired record is any that is
  unconfirmed; days online are not counted.
- Settings: encodings; ratings, which migrate as bookmarks do; relinking of v1 rows; a path that still has the
  record of a file moved away, on which a newcomer at the path acts until it is resolved.
- Restore: the limit on bytes in `rotate_stem`, the backup before the migration to ids.
- Explorer: sorting, filtering, selection, the trees and their children, the file watcher, network mounts;
  registering and moving virtual folders, which are read anew at once; the refresh of an alike view; the
  saved node starts at the root; a key in the very frame of a click on a marker.

### Not modelled

Single instance, duplicate and similarity markers, page algorithms, codecs and archive formats, window,
input and settings, and OCR (see "components" in PROJECT.json). Most lines of the repository are there and
in the drawing code of modelled components: texts in several languages, panels and dialogs, configuration,
image filters and decoders, tests. They have no state that two actors share and no order that can go wrong,
so a model of them would restate them. The map covers what is left, the code that decides, and is a small
share of all lines for this reason.

Hazards known and not in PROJECT.json's list, for want of a property that could speak of them, are told
above: panics in threads, a vanished registered page, the ring no larger than the read-ahead, a crash before
a follow-up, pruning against an answer, results `ensure_record` ignores.

## 7. Plan

Order followed so far: scheduler, cache, pipeline, animation; then file cache, thumbnails, spreads;
identity, settings, restore; the explorer's views last. What is left, in the order of what it would add:

1. The registration of virtual folders and the ledger of moved and duplicated files.
2. A composition of `ThumbGeneration` with the lanes and their priority, for the order in which thumbnails
   appear.
3. The parts of `PagePipeline` that a refinement of `DecodeTickets` would need: which request a result answers.
   The pipeline knows keys only, and withdraws any of them, so at present such a mapping would show little.
