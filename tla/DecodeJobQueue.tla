--------------------------- MODULE DecodeJobQueue ---------------------------
(***************************************************************************)
(* The page decode scheduler of src/src/decode_jobs.rs together with the    *)
(* worker loop of spawn_worker (src/src/cache.rs) that drains it.           *)
(*                                                                         *)
(* One mutex guards QueueState and one condition variable wakes workers.    *)
(* Every public method of DecodeJobQueue runs in one critical section and   *)
(* is one action here.  The wait set of the condition variable is explicit: *)
(* a worker whose pc is "waiting" sleeps until a method notifies it.        *)
(*                                                                         *)
(* A key (archive path, page index, generation) is a record of a Page and a *)
(* generation number.  The fields `id' and `order' of a job are drawn from  *)
(* two counters that always advance together, so one number stands for      *)
(* both.  Payloads and decoded pixels are left out.                         *)
(***************************************************************************)
EXTENDS Integers, FiniteSets

CONSTANTS
    Worker,     \* decode threads (num_threads of spawn_worker)
    Page,       \* (archive path, page index) pairs
    Distance,   \* distances from the visible pages that requests use
    MaxGen,     \* bound: highest decode generation the UI reaches
    MaxJobs,    \* bound: how many job ids are ever handed out
    None        \* an absent map entry

Gen == 0 .. MaxGen
NoGen == -1
JobId == 0 .. MaxJobs - 1
Key == [page : Page, gen : Gen]
Class == {"Visible", "Ahead", "Behind"}
QueuedJob == [id : JobId, class : Class, distance : Distance]
RunningJob == [key : Key, class : Class, cancelled : BOOLEAN]
ScheduledJob == [id : JobId, key : Key]
HeapEntry == [id : JobId, key : Key, genRank : 1 .. 2, classRank : 1 .. 3,
              distance : Distance]

ASSUME BoundAssumption == MaxGen \in Nat /\ MaxJobs \in Nat
ASSUME DistanceAssumption == Distance \subseteq Nat
ASSUME WorkerAssumption == IsFiniteSet(Worker)
ASSUME NoneAssumption ==
    None \notin QueuedJob \cup RunningJob \cup ScheduledJob

VARIABLES
    generations,    \* AcceptedGenerations: active, and preparing or NoGen
    queued,         \* the map from a key to its waiting job
    heap,           \* the priority heap, a set of entries
    running,        \* the map from a job id to the job some worker holds
    maxSpeculative, \* max_speculative_running
    nextId,         \* next_id, and next_order which equals it
    shuttingDown,
    pc,             \* where each worker stands in its loop
    job,            \* the ScheduledDecodeJob each worker holds
    sent            \* the jobs whose LoadResult was sent to the UI

queueVars == <<generations, queued, heap, running, maxSpeculative, nextId,
               shuttingDown>>
vars == <<queueVars, pc, job, sent>>

Init ==
    /\ generations = [active |-> 0, preparing |-> NoGen]
    /\ queued = [k \in Key |-> None]
    /\ heap = {}
    /\ running = [i \in JobId |-> None]
    /\ maxSpeculative = 1
    /\ nextId = 0
    /\ shuttingDown = FALSE
    /\ pc = [w \in Worker |-> "idle"]
    /\ job = [w \in Worker |-> None]
    /\ sent = {}

-----------------------------------------------------------------------------
(* Priorities *)

\* AcceptedGenerations::accepts
Accepts(gens, g) == g = gens.active \/ (gens.preparing # NoGen /\ g = gens.preparing)

AcceptedKeys(gens) == {k \in Key : Accepts(gens, k.gen)}

\* AcceptedGenerations::rank of an accepted generation
GenRank(gens, g) == IF g = gens.preparing THEN 2 ELSE 1

\* PagePriorityClass::rank
ClassRank(class) ==
    CASE class = "Visible" -> 3 [] class = "Ahead" -> 2 [] class = "Behind" -> 1

\* HeapEntry's order: e is popped before f.
Before(e, f) ==
    \/ e.genRank > f.genRank
    \/ /\ e.genRank = f.genRank
       /\ \/ e.classRank > f.classRank
          \/ /\ e.classRank = f.classRank
             /\ \/ e.distance < f.distance
                \/ e.distance = f.distance /\ e.id < f.id

EntryOf(gens, q, k) ==
    [id |-> q[k].id, key |-> k, genRank |-> GenRank(gens, k.gen),
     classRank |-> ClassRank(q[k].class), distance |-> q[k].distance]

QueuedKeys(q) == {k \in Key : q[k] # None}

\* rebuild_heap
RebuiltHeap(gens, q) ==
    {EntryOf(gens, q, k) : k \in QueuedKeys(q) \cap AcceptedKeys(gens)}

-----------------------------------------------------------------------------
(* Running jobs *)

RunningIds == {i \in JobId : running[i] # None}

\* Faulty variant: a key counts as free while its job is still decoding.
HasLiveRunningNever(k) == FALSE

\* has_live_running
HasLiveRunning(k) == \E i \in RunningIds : running[i].key = k /\ ~running[i].cancelled

\* The stop flag, raised on the running jobs whose key is not kept.
Cancel(run, keep) ==
    [i \in JobId |-> IF run[i] # None /\ run[i].key \notin keep
                     THEN [run[i] EXCEPT !.cancelled = TRUE]
                     ELSE run[i]]

\* retain on the queued map
Retain(q, keep) == [k \in Key |-> IF k \in keep THEN q[k] ELSE None]

Speculative(class) == class # "Visible"

\* Faulty variant: a cancelled job no longer occupies its lane although its
\* worker is still busy with it.
LaneClosedLive ==
    \/ \E i \in RunningIds : ~running[i].cancelled /\ ~Speculative(running[i].class)
    \/ Cardinality({i \in RunningIds :
            ~running[i].cancelled /\ Speculative(running[i].class)}) >= maxSpeculative

\* pop_next holds back Ahead and Behind jobs while any Visible job runs,
\* cancelled or not, and while the speculative lane is full.
LaneClosed ==
    \/ \E i \in RunningIds : ~Speculative(running[i].class)
    \/ Cardinality({i \in RunningIds : Speculative(running[i].class)}) >= maxSpeculative

-----------------------------------------------------------------------------
(* Waking workers *)

Waiting == {w \in Worker : pc[w] = "waiting"}
Idle == {w \in Worker : pc[w] = "idle"}

\* Condvar::notify_all
Awake(p) == [w \in Worker |-> IF p[w] = "waiting" THEN "idle" ELSE p[w]]

\* Faulty variant: a method forgets to notify.
NobodyWoken(p) == {p}

\* Condvar::notify_one
OneWoken(p) ==
    LET asleep == {w \in Worker : p[w] = "waiting"}
    IN  IF asleep = {} THEN {p} ELSE {[p EXCEPT ![w] = "idle"] : w \in asleep}

-----------------------------------------------------------------------------
(* The UI side *)

\* decode_generation of the UI: the newest generation it has announced.
Newest == IF generations.preparing # NoGen THEN generations.preparing
          ELSE generations.active

\* Faulty variant: the heap keeps the ranks of the previous generations.
RegenerateStaleHeap(gens) ==
    /\ generations' = gens
    /\ queued' = Retain(queued, AcceptedKeys(gens))
    /\ running' = Cancel(running, AcceptedKeys(gens))
    /\ heap' = {e \in heap : e.key \in AcceptedKeys(gens)}

\* The assignments of set_generations, under the lock.
Regenerate(gens) ==
    /\ generations' = gens
    /\ queued' = Retain(queued, AcceptedKeys(gens))
    /\ running' = Cancel(running, AcceptedKeys(gens))
    /\ heap' = RebuiltHeap(gens, queued')

SetGenerations(active, preparing) ==
    /\ Regenerate([active |-> active, preparing |-> preparing])
    /\ pc' = Awake(pc)
    /\ UNCHANGED <<maxSpeculative, nextId, shuttingDown, job, sent>>

\* begin_new_decode_generation: everything older becomes unacceptable.
BeginNewGeneration ==
    /\ Newest < MaxGen
    /\ SetGenerations(Newest + 1, NoGen)

\* begin_lazy_decode_generation: the preparing generation is promoted.
BeginLazyGeneration ==
    /\ Newest < MaxGen
    /\ SetGenerations(Newest, Newest + 1)

\* submit.  A refused submission changes nothing and is no step.
Submit(k, class, distance) ==
    /\ ~shuttingDown
    /\ Accepts(generations, k.gen)
    /\ ~HasLiveRunning(k)
    /\ IF queued[k] # None
       THEN /\ queued' = [queued EXCEPT ![k].class = class, ![k].distance = distance]
            /\ nextId' = nextId
       ELSE /\ nextId < MaxJobs
            /\ queued' = [queued EXCEPT ![k] =
                    [id |-> nextId, class |-> class, distance |-> distance]]
            /\ nextId' = nextId + 1
    /\ heap' = RebuiltHeap(generations, queued')
    /\ pc' \in OneWoken(pc)
    /\ UNCHANGED <<generations, running, maxSpeculative, shuttingDown, job, sent>>

\* The keys some job is held for.
HeldKeys == QueuedKeys(queued) \cup {running[i].key : i \in RunningIds}

\* retain_desired_keys, which notifies nobody.
RetainDesiredKeys(desired) ==
    /\ queued' = Retain(queued, desired)
    /\ running' = Cancel(running, desired)
    /\ heap' = RebuiltHeap(generations, queued')
    /\ UNCHANGED <<generations, maxSpeculative, nextId, shuttingDown, pc, job, sent>>

\* Faulty variant: the argument is taken for a change of the limit.
AddMaxSpeculative(max) ==
    /\ maxSpeculative' = maxSpeculative + max
    /\ pc' = Awake(pc)
    /\ UNCHANGED <<generations, queued, heap, running, nextId, shuttingDown, job, sent>>

\* set_max_speculative_running; prefetch_pages passes 0 or 1.
SetMaxSpeculative(max) ==
    /\ maxSpeculative' = max
    /\ pc' = Awake(pc)
    /\ UNCHANGED <<generations, queued, heap, running, nextId, shuttingDown, job, sent>>

\* Faulty variant: workers asleep are not told.
ShutdownSilently ==
    /\ ~shuttingDown
    /\ shuttingDown' = TRUE
    /\ queued' = [k \in Key |-> None]
    /\ heap' = {}
    /\ running' = Cancel(running, {})
    /\ UNCHANGED <<generations, maxSpeculative, nextId, pc, job, sent>>

\* shutdown, from on_exit
Shutdown ==
    /\ ~shuttingDown
    /\ shuttingDown' = TRUE
    /\ queued' = [k \in Key |-> None]
    /\ heap' = {}
    /\ running' = Cancel(running, {})
    /\ pc' = Awake(pc)
    /\ UNCHANGED <<generations, maxSpeculative, nextId, job, sent>>

-----------------------------------------------------------------------------
(* pop_next *)

\* The heap entry no longer describes a waiting job, or one nobody accepts:
\* pop_next drops it and whatever the map holds for its key.
Unfit(e) ==
    \/ queued[e.key] = None
    \/ queued[e.key].id # e.id
    \/ ~Accepts(generations, e.key.gen)

Startable(e) == ~Unfit(e) /\ ~(Speculative(queued[e.key].class) /\ LaneClosed)

\* Faulty variant: jobs leave in the order they came.
IsOldest(e) ==
    /\ e \in heap
    /\ Startable(e)
    /\ \A f \in heap : Startable(f) => e.id <= f.id

\* Popping stops at the first startable entry; held-back ones are put back.
IsNext(e) ==
    /\ e \in heap
    /\ Startable(e)
    /\ \A f \in heap : Startable(f) /\ f # e => Before(e, f)

\* The entries in `popped' that are dropped on the way, and the started ones,
\* leave the heap and the map.
Remove(entries) ==
    /\ heap' = heap \ entries
    /\ queued' = Retain(queued, Key \ {e.key : e \in entries})

-----------------------------------------------------------------------------
(* The worker loop *)

\* wait_take finds a job
Take(w) ==
    /\ pc[w] = "idle"
    /\ \E e \in heap :
        /\ IsNext(e)
        /\ Remove({e} \cup {f \in heap : Before(f, e) /\ Unfit(f)})
        /\ running' = [running EXCEPT ![e.id] =
                [key |-> e.key, class |-> queued[e.key].class, cancelled |-> FALSE]]
        /\ job' = [job EXCEPT ![w] = [id |-> e.id, key |-> e.key]]
    /\ pc' = [pc EXCEPT ![w] = "taken"]
    /\ UNCHANGED <<generations, maxSpeculative, nextId, shuttingDown, sent>>

NothingStartable == \A e \in heap : ~Startable(e)

\* wait_take finds nothing and goes to sleep, releasing the lock.
Sleep(w) ==
    /\ pc[w] = "idle"
    /\ NothingStartable
    /\ ~shuttingDown
    /\ Remove({f \in heap : Unfit(f)})
    /\ pc' = [pc EXCEPT ![w] = "waiting"]
    /\ UNCHANGED <<generations, running, maxSpeculative, nextId, shuttingDown,
                   job, sent>>

\* wait_take finds nothing and the queue is shutting down: the loop breaks.
Exit(w) ==
    /\ pc[w] = "idle"
    /\ NothingStartable
    /\ shuttingDown
    /\ Remove({f \in heap : Unfit(f)})
    /\ pc' = [pc EXCEPT ![w] = "exited"]
    /\ UNCHANGED <<generations, running, maxSpeculative, nextId, shuttingDown,
                   job, sent>>

\* Condvar::wait may return without a notification.
WakeSpuriously(w) ==
    /\ pc[w] = "waiting"
    /\ pc' = [pc EXCEPT ![w] = "idle"]
    /\ UNCHANGED <<queueVars, job, sent>>

\* Faulty variant: finish trusts the generation alone.
ResultWantedByGeneration(i) ==
    running[i] # None /\ Accepts(generations, running[i].key.gen)

\* The value finish returns
ResultWanted(i) ==
    /\ running[i] # None
    /\ ~running[i].cancelled
    /\ Accepts(generations, running[i].key.gen)

\* finish: the entry goes away and everybody is told, whatever the outcome.
\* The worker itself goes on to `next'.
Finish(w, next) ==
    /\ running' = [running EXCEPT ![job[w].id] = None]
    /\ pc' = [Awake(pc) EXCEPT ![w] = next]
    /\ UNCHANGED <<generations, queued, heap, maxSpeculative, nextId, shuttingDown>>

\* A job cancelled before decoding began is finished at once.
SkipCancelled(w) ==
    /\ pc[w] = "taken"
    /\ running[job[w].id].cancelled
    /\ Finish(w, "idle")
    /\ job' = [job EXCEPT ![w] = None]
    /\ UNCHANGED sent

StartDecode(w) ==
    /\ pc[w] = "taken"
    /\ ~running[job[w].id].cancelled
    /\ pc' = [pc EXCEPT ![w] = "decoding"]
    /\ UNCHANGED <<queueVars, job, sent>>

\* Decoding, which nothing interrupts, has ended and the result is wanted.
FinishWanted(w) ==
    /\ pc[w] = "decoding"
    /\ ResultWanted(job[w].id)
    /\ Finish(w, "sending")
    /\ UNCHANGED <<job, sent>>

\* Decoding has ended and the result is thrown away.
FinishUnwanted(w) ==
    /\ pc[w] = "decoding"
    /\ ~ResultWanted(job[w].id)
    /\ Finish(w, "idle")
    /\ job' = [job EXCEPT ![w] = None]
    /\ UNCHANGED sent

\* The LoadResult goes into the channel after the lock is released.
Send(w) ==
    /\ pc[w] = "sending"
    /\ sent' = sent \cup {job[w]}
    /\ job' = [job EXCEPT ![w] = None]
    /\ pc' = [pc EXCEPT ![w] = "idle"]
    /\ UNCHANGED queueVars

-----------------------------------------------------------------------------

WorkerStep(w) ==
    \/ Take(w) \/ Sleep(w) \/ Exit(w)
    \/ SkipCancelled(w) \/ StartDecode(w)
    \/ FinishWanted(w) \/ FinishUnwanted(w) \/ Send(w)

UIStep ==
    \/ BeginNewGeneration
    \/ BeginLazyGeneration
    \/ \E k \in Key, class \in Class, distance \in Distance :
            k.gen <= Newest /\ Submit(k, class, distance)
    \/ \E withdrawn \in SUBSET HeldKeys : RetainDesiredKeys(Key \ withdrawn)
    \/ \E max \in 0 .. 1 : SetMaxSpeculative(max)
    \/ Shutdown

Next ==
    \/ UIStep
    \/ \E w \in Worker : WorkerStep(w) \/ WakeSpuriously(w)

Spec == Init /\ [][Next]_vars

\* Threads are scheduled and decoding returns; the UI owes nothing.
FairSpec == Spec /\ \A w \in Worker : WF_vars(WorkerStep(w))

-----------------------------------------------------------------------------
(* Properties *)

\* Type invariant of the queue, the workers and the results.
TypeOK ==
    /\ generations \in [active : Gen, preparing : Gen \cup {NoGen}]
    /\ queued \in [Key -> QueuedJob \cup {None}]
    /\ heap \subseteq HeapEntry
    /\ running \in [JobId -> RunningJob \cup {None}]
    /\ maxSpeculative \in 0 .. 1
    /\ nextId \in 0 .. MaxJobs
    /\ shuttingDown \in BOOLEAN
    /\ pc \in [Worker -> {"idle", "waiting", "taken", "decoding", "sending", "exited"}]
    /\ job \in [Worker -> ScheduledJob \cup {None}]
    /\ sent \subseteq ScheduledJob

\* A page is never wanted twice: for each key at most one job waits or runs
\* uncancelled, so no page is decoded by two workers for the same request
\* (submit with has_live_running against pop_next, cancellation and finish).
OneLiveJobPerKey ==
    \A k \in Key :
        LET live == {i \in RunningIds : running[i].key = k /\ ~running[i].cancelled}
        IN  /\ \A i, j \in live : i = j
            /\ queued[k] # None => live = {}

\* The heap never drifts from the map: after any sequence of submissions,
\* reorderings, generation changes and pops it lists every waiting job once,
\* with its current priority, and nothing else (rebuild_heap, pop_next).
HeapMirrorsQueued ==
    /\ heap = RebuiltHeap(generations, queued)
    /\ QueuedKeys(queued) \subseteq AcceptedKeys(generations)

\* Workers busy with the job, from wait_take to finish.
Busy == {w \in Worker : pc[w] \in {"taken", "decoding"}}

\* Prefetching never takes more than one thread: however jobs are cancelled,
\* promoted or resubmitted, two workers never hold speculative jobs at once,
\* a cancelled job counting until its worker is done with it (pop_next).
OneSpeculativeDecoder ==
    \A v, w \in Busy :
        Speculative(running[job[v].id].class) /\ Speculative(running[job[w].id].class)
            => v = w

\* No lost wakeup: while a worker sleeps on the condition variable, every job
\* that could start has a worker of its own on the way to look for it
\* (notify_one in submit, notify_all elsewhere, none in retain_desired_keys).
NoLostWakeup ==
    Waiting # {} => Cardinality({e \in heap : Startable(e)}) <= Cardinality(Idle)

\* Whether the waiting job of key k would go before that of key c now.
MoreUrgent(k, c) == Before(EntryOf(generations, queued, k), EntryOf(generations, queued, c))

\* A worker that takes a job takes the most urgent one by the priorities of
\* this moment: any more urgent job that stays behind is a prefetch held back
\* by a running visible page or a full lane (rebuild_heap, pop_next).
TakesMostUrgent ==
    [][\A w \in Worker : pc[w] = "idle" /\ pc'[w] = "taken" =>
          \A k \in Key : queued[k] # None /\ MoreUrgent(k, job'[w].key) =>
              Speculative(queued[k].class) /\ LaneClosed]_vars

\* The tickets of DecodeTickets as the queue holds them.
OpenTickets ==
    {[id |-> queued[k].id, key |-> k] : k \in QueuedKeys(queued)}
        \cup {[id |-> i, key |-> running[i].key] :
                i \in {r \in RunningIds : ~running[r].cancelled}}

AnsweredTickets == sent \cup {job[w] : w \in {v \in Worker : pc[v] = "sending"}}

Tickets == INSTANCE DecodeTickets WITH
    MaxTickets <- MaxJobs, next <- nextId, open <- OpenTickets,
    answered <- AnsweredTickets, closed <- shuttingDown

\* The queue keeps the promise of DecodeTickets: every adopted result answers
\* a request that was never withdrawn since it was made, once; changing
\* generations, shrinking the window and shutting down withdraw (submit,
\* set_generations, retain_desired_keys, finish, shutdown).
ImplementsTickets == Tickets!Spec

\* A visible page that waits does not wait for ever: it is started, withdrawn
\* or reduced to a prefetch, whatever is submitted meanwhile.
VisibleJobStarts ==
    \A k \in Key : (queued[k] # None /\ queued[k].class = "Visible")
                       ~> (queued[k] = None \/ queued[k].class # "Visible")

\* shutdown ends every worker thread, asleep, waking or decoding.
ShutdownEndsWorkers == shuttingDown ~> \A w \in Worker : pc[w] = "exited"

=============================================================================
