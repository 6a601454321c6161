------------------------------- MODULE FileCache -------------------------------
(***************************************************************************)
(* Opening archives and keeping what was read of them (src/cache.rs:         *)
(* FileCache and its worker; src/view_explorer/open_progress.rs, status.rs,   *)
(* workers.rs, viewer_host.rs).  Contents come from two sides: the worker      *)
(* reads the archive on the screen in the background, and the estimate made     *)
(* before an archive is opened hands over what it unpacked (7z and tar).         *)
(*                                                                         *)
(* Paths are numbers in the order of the list; an archive is the number of       *)
(* bytes it takes, Unreadable if it cannot be read.  Page requests that wait for *)
(* a 7z archive are part of PagePipeline.                                        *)
(***************************************************************************)
EXTENDS Integers, Sequences, FiniteSets, Functions

CONSTANTS
  Paths,       \* 1 .. n, in the order of the list
  Solid,       \* those that are unpacked as a whole (7z, tar)
  MaxSize,     \* bound: bytes of an archive
  MaxFileBytes, \* max_bytes
  MaxOpens,    \* bound: archives opened
  MaxEdits     \* bound: changes of files and of the list

ASSUME PathsAssumption == Paths \subseteq Nat \ {0} /\ IsFiniteSet(Paths) /\ Solid \subseteq Paths
ASSUME SizesAssumption == MaxSize \in Nat /\ MaxFileBytes \in Nat

VARIABLES
  disk,      \* bytes of each file, or Unreadable
  list,      \* archives: the files of the folder on screen
  held,      \* entries: bytes of each one kept, or NotHeld
  charged,   \* total_bytes
  waiting,   \* file_cache_pending
  queue,     \* file_cache_req_tx
  reading,   \* the path the worker passed through its estimate, or Nothing
  answers,   \* file_cache_res_rx
  opening,   \* pending_open and its thread
  current,   \* archive in the viewer, or Nothing
  opens, edits

cache     == <<held, charged>>
worker    == <<waiting, queue, reading, answers>>
viewer    == <<opening, current>>
filesVars == <<disk, list, cache, worker, viewer, opens, edits>>

Unreadable == -1
NotHeld    == -1
Nothing    == 0
Closed     == [at |-> "closed"]
Sizes      == 0 .. MaxSize
Far        == Cardinality(Paths) + 1

Held       == {p \in Paths : held[p] # NotHeld}
Charge(S)  == SumFunctionOnSet(held, S)

\* estimate_file_cache_bytes, and what reading the archive yields: unpacking fails to an
\* empty map, reading fails to None.
Estimated(p) == IF disk[p] = Unreadable THEN 0 ELSE disk[p]
Contents(p)  == IF disk[p] = Unreadable /\ p \in Solid THEN 0 ELSE disk[p]

-------------------------------------------------------------------------------
(* FileCache *)

Place(p) == Cardinality({q \in list : q < p})

\* Faulty variant: a path that is not listed counts as the first one.
DistanceFromStart(p, at) ==
  LET here == IF at \in list THEN Place(at) ELSE 0
      there == IF p \in list THEN Place(p) ELSE 0
  IN  IF there > here THEN there - here ELSE here - there

\* How far a path is from the one in view; a path that is not listed goes first, and the
\* list is measured from its start when the one in view is not listed.
Distance(p, at) ==
  LET here == IF at \in list THEN Place(at) ELSE 0
  IN  IF p \notin list THEN Far
      ELSE IF Place(p) > here THEN Place(p) - here ELSE here - Place(p)

\* evict_furthest, as often as it takes: the archives that have to go.  Which of those
\* that are equally far goes first is up to the hash map.
Evictions(incoming, at) ==
  {G \in SUBSET Held :
     /\ \A g \in G, k \in Held \ G : Distance(g, at) >= Distance(k, at)
     /\ G = Held \/ charged - Charge(G) + incoming <= MaxFileBytes
     /\ G # {} => \E g \in G :
          /\ \A k \in G : Distance(g, at) <= Distance(k, at)
          /\ charged - Charge(G \ {g}) + incoming > MaxFileBytes}

\* Faulty variant: the entry that is replaced is refunded, though it may have been
\* evicted.
InsertFileRefunded(p, bytes, at) ==
  \E G \in Evictions(bytes, at) :
    /\ held' = [q \in Paths |-> IF q = p THEN bytes ELSE IF q \in G THEN NotHeld ELSE held[q]]
    /\ charged' = charged - Charge(G) - Charge({p} \cap Held) + bytes

\* insert: an entry the path may still have is replaced, its charge is not given back.
InsertFile(p, bytes, at) ==
  \E G \in Evictions(bytes, at) :
    /\ held' = [q \in Paths |-> IF q = p THEN bytes ELSE IF q \in G THEN NotHeld ELSE held[q]]
    /\ charged' = charged - Charge(G) + bytes

InView(p) == IF current = Nothing THEN p ELSE current

-------------------------------------------------------------------------------
(* Opening an archive *)

\* ensure_file_cached, given what is held by then.
EnsureCached(p) ==
  IF held'[p] = NotHeld /\ p \notin waiting
  THEN waiting' = waiting \cup {p} /\ queue' = Append(queue, p)
  ELSE UNCHANGED <<waiting, queue>>

\* start_archive_open: its thread lists the archive first...
StartOpen(p) ==
  /\ opening = Closed /\ opens < MaxOpens /\ opens' = opens + 1
  /\ opening' = [at |-> "listing", path |-> p, cancelled |-> FALSE]
  /\ UNCHANGED <<disk, list, cache, worker, current, edits>>

\* ... and looks at the wish to cancel only here.
Listed ==
  /\ opening.at = "listing"
  /\ opening' = IF opening.cancelled THEN [opening EXCEPT !.at = "cancelled"]
                ELSE IF disk[opening.path] = Unreadable THEN [opening EXCEPT !.at = "empty"]
                ELSE [opening EXCEPT !.at = "estimating"]
  /\ UNCHANGED <<disk, list, cache, worker, current, opens, edits>>

\* estimate_archive_memory: too large as a whole or page by page, or fine; what was
\* unpacked for the purpose is handed on, unless it came out empty.
Estimates(p) ==
  {[fits |-> FALSE, prepared |-> NotHeld]} \cup
  (IF p \in Solid
   THEN IF Estimated(p) > MaxFileBytes THEN {}
        ELSE {[fits |-> TRUE, prepared |-> IF Contents(p) = 0 THEN NotHeld ELSE Contents(p)]}
   ELSE {[fits |-> TRUE, prepared |-> NotHeld]})

Estimate ==
  /\ opening.at = "estimating"
  /\ \E e \in Estimates(opening.path) :
       opening' = [at |-> "ready", path |-> opening.path,
                   cancelled |-> opening.cancelled, check |-> e]
  /\ UNCHANGED <<disk, list, cache, worker, current, opens, edits>>

Cancel ==
  /\ opening # Closed /\ ~opening.cancelled
  /\ opening' = [opening EXCEPT !.cancelled = TRUE]
  /\ UNCHANGED <<disk, list, cache, worker, current, opens, edits>>

\* apply_memory_check and open_viewer
Accept(p, check) ==
  /\ IF check.fits /\ check.prepared # NotHeld THEN InsertFile(p, check.prepared, InView(p))
                                              ELSE UNCHANGED cache
  /\ IF check.fits THEN current' = p /\ EnsureCached(p) ELSE UNCHANGED <<current, waiting, queue>>

\* poll_pending_open
PollOpen ==
  /\ opening.at \in {"cancelled", "empty", "ready"}
  /\ opening' = Closed
  /\ IF opening.at = "ready" THEN Accept(opening.path, opening.check)
                             ELSE UNCHANGED <<cache, current, waiting, queue>>
  /\ UNCHANGED <<disk, list, reading, answers, opens, edits>>

\* find_next_valid, from the viewer: the same on the UI thread, all at once.  An archive
\* that cannot be read is passed over.
NextFile(p) ==
  /\ current # Nothing /\ p \in list /\ p # current /\ disk[p] # Unreadable
  /\ opens < MaxOpens /\ opens' = opens + 1
  /\ \E e \in Estimates(p) : Accept(p, e)
  /\ UNCHANGED <<disk, list, reading, answers, opening, edits>>

CloseViewer ==
  /\ current # Nothing
  /\ current' = Nothing
  /\ UNCHANGED <<disk, list, cache, worker, opening, opens, edits>>

-------------------------------------------------------------------------------
(* The worker (spawn_file_cache_worker) *)

Reply(p, bytes) == answers' = Append(answers, [path |-> p, bytes |-> bytes])

\* Faulty variant: an archive over the budget is passed over in silence.
ReceiveSilently ==
  /\ reading = Nothing /\ queue # <<>>
  /\ queue' = Tail(queue)
  /\ reading' = IF Estimated(Head(queue)) > MaxFileBytes THEN Nothing ELSE Head(queue)
  /\ UNCHANGED <<disk, list, cache, waiting, answers, viewer, opens, edits>>

Receive ==
  /\ reading = Nothing /\ queue # <<>>
  /\ queue' = Tail(queue)
  /\ IF Estimated(Head(queue)) > MaxFileBytes
     THEN Reply(Head(queue), NotHeld) /\ UNCHANGED reading
     ELSE reading' = Head(queue) /\ UNCHANGED answers
  /\ UNCHANGED <<disk, list, cache, waiting, viewer, opens, edits>>

Read ==
  /\ reading # Nothing
  /\ Reply(reading, Contents(reading))
  /\ reading' = Nothing
  /\ UNCHANGED <<disk, list, cache, waiting, queue, viewer, opens, edits>>

\* poll_workers
PollFiles ==
  /\ answers # <<>>
  /\ answers' = Tail(answers)
  /\ waiting' = waiting \ {Head(answers).path}
  /\ IF Head(answers).bytes = NotHeld THEN UNCHANGED cache
     ELSE InsertFile(Head(answers).path, Head(answers).bytes, InView(Head(answers).path))
  /\ UNCHANGED <<disk, list, queue, reading, viewer, opens, edits>>

-------------------------------------------------------------------------------
(* Files change, and the explorer shows another folder, a search, a tag... *)

ChangeFile(p, bytes) ==
  /\ edits < MaxEdits /\ edits' = edits + 1
  /\ disk' = [disk EXCEPT ![p] = bytes]
  /\ UNCHANGED <<list, cache, worker, viewer, opens>>

ChangeList(L) ==
  /\ edits < MaxEdits /\ edits' = edits + 1
  /\ list' = L
  /\ UNCHANGED <<disk, cache, worker, viewer, opens>>

FilesInit ==
  /\ disk \in [Paths -> Sizes \ {0}] /\ list = Paths
  /\ held = [p \in Paths |-> NotHeld] /\ charged = 0
  /\ waiting = {} /\ queue = <<>> /\ reading = Nothing /\ answers = <<>>
  /\ opening = Closed /\ current = Nothing
  /\ opens = 0 /\ edits = 0

FilesNext ==
  \/ Listed \/ Estimate \/ Cancel \/ PollOpen \/ CloseViewer
  \/ Receive \/ Read \/ PollFiles
  \/ \E p \in Paths : StartOpen(p) \/ NextFile(p)
  \/ \E p \in Paths, n \in Sizes \cup {Unreadable} : ChangeFile(p, n)
  \/ \E L \in SUBSET Paths : ChangeList(L)

FilesSpec == FilesInit /\ [][FilesNext]_filesVars

-------------------------------------------------------------------------------
FilesTypeOK ==
  /\ disk \in [Paths -> Sizes \cup {Unreadable}] /\ list \subseteq Paths
  /\ held \in [Paths -> Sizes \cup {NotHeld}] /\ charged \in Nat
  /\ waiting \subseteq Paths /\ queue \in Seq(Paths) /\ reading \in Paths \cup {Nothing}
  /\ answers \in Seq([path : Paths, bytes : Sizes \cup {NotHeld}])
  /\ current \in Paths \cup {Nothing}

\* However opening and background reading overlap, what is kept is charged for (otherwise
\* evicting it would take total_bytes below zero), and more than one archive is kept only
\* within the budget.  The charge may exceed what is kept: an archive opened again is
\* charged again (status.rs:157).
HeldIsCharged ==
  /\ charged >= Charge(Held)
  /\ Cardinality(Held) > 1 => charged <= MaxFileBytes

\* An archive the UI waits for is on its way, so that its requests are let go one day.
WaitingIsUnderway ==
  \A p \in waiting :
    \/ p = reading
    \/ \E n \in DOMAIN queue : queue[n] = p
    \/ \E n \in DOMAIN answers : answers[n].path = p

\* The archive in the viewer, if it is listed, is the last to be evicted: nothing but the
\* newcomer stays when it goes.
ViewedGoesLast ==
  [][(/\ current \in list
      /\ held[current] # NotHeld /\ held'[current] = NotHeld)
     => Cardinality(Held') = 1]_filesVars
================================================================================
