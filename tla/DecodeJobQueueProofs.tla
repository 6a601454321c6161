------------------------ MODULE DecodeJobQueueProofs ------------------------
(***************************************************************************)
(* Proofs about DecodeJobQueue for any number of workers, pages, distances, *)
(* generations and jobs.                                                   *)
(*                                                                         *)
(* The inductive invariant IInv adds to the checked invariants what makes   *)
(* them survive a step: job ids are never reused and name one job, every    *)
(* busy worker holds exactly the running entry of its job, and whatever is  *)
(* not cancelled belongs to an accepted generation.                         *)
(***************************************************************************)
EXTENDS DecodeJobQueue, FiniteSetTheorems, TLAPS

-----------------------------------------------------------------------------
(* The inductive invariant *)

\* The ids in use were handed out before.
IdsIssued ==
    /\ \A k \in Key : queued[k] # None => queued[k].id < nextId
    /\ \A i \in JobId : running[i] # None => i < nextId

\* An id names one job: waiting under one key, or running, not both.
IdsDistinct ==
    /\ \A k, c \in Key :
        queued[k] # None /\ queued[c] # None /\ queued[k].id = queued[c].id => k = c
    /\ \A k \in Key : queued[k] # None => running[queued[k].id] = None

\* What is not cancelled is of an accepted generation.
LiveAccepted ==
    \A i \in JobId : running[i] # None /\ ~running[i].cancelled =>
        Accepts(generations, running[i].key.gen)

\* A busy worker holds the running entry of its job, alone.
WorkersHoldJobs ==
    /\ \A w \in Worker : pc[w] \in {"taken", "decoding", "sending"} => job[w] # None
    /\ \A w \in Busy :
        /\ running[job[w].id] # None
        /\ running[job[w].id].key = job[w].key
    /\ \A v, w \in Busy : job[v].id = job[w].id => v = w

\* At most one running job is speculative, cancelled or not.
OneSpeculativeRunning ==
    \A i, j \in JobId :
        /\ running[i] # None /\ Speculative(running[i].class)
        /\ running[j] # None /\ Speculative(running[j].class)
        => i = j

\* After shutdown nothing waits and nothing runs uncancelled.
ShutdownClears ==
    shuttingDown => /\ \A k \in Key : queued[k] = None
                    /\ \A i \in JobId : running[i] # None => running[i].cancelled

IInv ==
    /\ TypeOK
    /\ HeapMirrorsQueued
    /\ IdsIssued
    /\ IdsDistinct
    /\ LiveAccepted
    /\ OneLiveJobPerKey
    /\ WorkersHoldJobs
    /\ OneSpeculativeRunning
    /\ ShutdownClears

-----------------------------------------------------------------------------
(* Lemmas about the helpers *)

\* The initial state satisfies the inductive invariant.
LEMMA InitIInv == Init => IInv
  <1>. SUFFICES ASSUME Init PROVE IInv
    OBVIOUS
  <1>. USE BoundAssumption, NoneAssumption DEF Init
  <1>1. TypeOK
    <2>1. generations \in [active : Gen, preparing : Gen \cup {NoGen}]
      BY DEF Gen
    <2>2. nextId \in 0 .. MaxJobs /\ maxSpeculative \in 0 .. 1
      OBVIOUS
    <2>3. QED
      BY <2>1, <2>2 DEF TypeOK
  <1>2. HeapMirrorsQueued
    BY DEF HeapMirrorsQueued, RebuiltHeap, QueuedKeys
  <1>3. IdsIssued /\ IdsDistinct /\ LiveAccepted /\ OneLiveJobPerKey
        /\ OneSpeculativeRunning /\ ShutdownClears
    BY DEF IdsIssued, IdsDistinct, LiveAccepted, OneLiveJobPerKey, RunningIds,
           OneSpeculativeRunning, ShutdownClears
  <1>4. WorkersHoldJobs
    BY DEF WorkersHoldJobs, Busy
  <1>5. QED
    BY <1>1, <1>2, <1>3, <1>4 DEF IInv

\* No heap entry is ever stale or refused, so pop_next drops none.
LEMMA NoUnfitEntry == ASSUME IInv, NEW e \in heap PROVE ~Unfit(e) /\ e.key \in Key
  BY DEF IInv, TypeOK, HeapMirrorsQueued, RebuiltHeap, EntryOf, QueuedKeys, AcceptedKeys,
         Unfit, Key

\* Rebuilding the heap yields well-formed entries.
LEMMA RebuiltHeapType ==
  ASSUME NEW gens \in [active : Gen, preparing : Gen \cup {NoGen}],
         NEW q \in [Key -> QueuedJob \cup {None}]
  PROVE  RebuiltHeap(gens, q) \subseteq HeapEntry
  <1>1. SUFFICES ASSUME NEW k \in Key, q[k] # None
                 PROVE  EntryOf(gens, q, k) \in HeapEntry
    BY DEF RebuiltHeap, QueuedKeys
  <1>2. q[k] \in QueuedJob
    BY <1>1
  <1>3. ClassRank(q[k].class) \in 1 .. 3
    BY <1>2 DEF ClassRank, QueuedJob, Class
  <1>4. GenRank(gens, k.gen) \in 1 .. 2
    BY DEF GenRank
  <1>5. QED
    BY <1>1, <1>2, <1>3, <1>4 DEF EntryOf, HeapEntry, QueuedJob

\* Raising stop flags keeps the running map well formed.
LEMMA CancelType ==
  ASSUME NEW run \in [JobId -> RunningJob \cup {None}], NEW keep
  PROVE  /\ Cancel(run, keep) \in [JobId -> RunningJob \cup {None}]
         /\ \A i \in JobId :
              /\ Cancel(run, keep)[i] = None <=> run[i] = None
              /\ run[i] # None =>
                   /\ Cancel(run, keep)[i].key = run[i].key
                   /\ Cancel(run, keep)[i].class = run[i].class
                   /\ Cancel(run, keep)[i].cancelled <=> run[i].cancelled \/ run[i].key \notin keep
  BY NoneAssumption DEF Cancel, RunningJob

\* Notification moves sleeping workers only.
LEMMA AwakeType ==
  ASSUME TypeOK
  PROVE  /\ Awake(pc) \in [Worker -> {"idle", "waiting", "taken", "decoding", "sending", "exited"}]
         /\ \A w \in Worker : Awake(pc)[w] # pc[w] => pc[w] = "waiting" /\ Awake(pc)[w] = "idle"
  BY DEF TypeOK, Awake

\* Dropping keys keeps the queued map well formed.
LEMMA RetainType ==
  ASSUME NEW q \in [Key -> QueuedJob \cup {None}], NEW keep
  PROVE  /\ Retain(q, keep) \in [Key -> QueuedJob \cup {None}]
         /\ \A k \in Key : Retain(q, keep)[k] = IF k \in keep THEN q[k] ELSE None
  BY DEF Retain

-----------------------------------------------------------------------------
(* Every step preserves the inductive invariant *)

\* Withdrawing the keys outside `keep' from both maps, with or without new
\* generations, keeps everything the invariant says of the two maps.
LEMMA WithdrawStep ==
  ASSUME IInv, NEW keep,
         generations' \in [active : Gen, preparing : Gen \cup {NoGen}],
         queued' = Retain(queued, keep),
         running' = Cancel(running, keep),
         heap' = RebuiltHeap(generations', queued'),
         \A k \in Key : k \in keep /\ Accepts(generations, k.gen) => Accepts(generations', k.gen),
         UNCHANGED <<maxSpeculative, nextId, job, sent>>,
         shuttingDown' = shuttingDown \/ (shuttingDown' = TRUE /\ keep = {}),
         pc' = pc \/ pc' = Awake(pc)
  PROVE  IInv'
  <1>. USE DEF IInv
  <1>1. /\ queued' \in [Key -> QueuedJob \cup {None}]
        /\ \A k \in Key : queued'[k] = IF k \in keep THEN queued[k] ELSE None
    BY RetainType DEF TypeOK
  <1>2. /\ running' \in [JobId -> RunningJob \cup {None}]
        /\ \A i \in JobId :
              /\ running'[i] = None <=> running[i] = None
              /\ running[i] # None =>
                   /\ running'[i].key = running[i].key
                   /\ running'[i].class = running[i].class
                   /\ running'[i].cancelled <=> running[i].cancelled \/ running[i].key \notin keep
    BY CancelType DEF TypeOK
  <1>3. heap' \subseteq HeapEntry
    BY <1>1, RebuiltHeapType
  <1>4. /\ pc' \in [Worker -> {"idle", "waiting", "taken", "decoding", "sending", "exited"}]
        /\ \A w \in Worker : pc'[w] \in {"taken", "decoding", "sending"} => pc'[w] = pc[w]
    BY AwakeType DEF TypeOK
  <1>5. TypeOK'
    BY <1>1, <1>2, <1>3, <1>4 DEF TypeOK
  <1>6. HeapMirrorsQueued'
    BY <1>1 DEF HeapMirrorsQueued, QueuedKeys, AcceptedKeys
  <1>7. IdsIssued' /\ IdsDistinct'
    BY <1>1, <1>2 DEF IdsIssued, IdsDistinct, TypeOK, QueuedJob
  <1>8. \A i \in JobId : running[i] # None => running[i].key \in Key
    BY DEF TypeOK, RunningJob
  <1>9. LiveAccepted'
    BY <1>2, <1>8 DEF LiveAccepted
  <1>10. OneLiveJobPerKey'
    BY <1>1, <1>2 DEF OneLiveJobPerKey, RunningIds
  <1>11. \A w \in Worker : pc[w] \in {"taken", "decoding"} => job[w].id \in JobId
    BY NoneAssumption DEF TypeOK, WorkersHoldJobs, ScheduledJob
  <1>12. WorkersHoldJobs'
    BY <1>2, <1>4, <1>11 DEF WorkersHoldJobs, Busy
  <1>13. OneSpeculativeRunning'
    BY <1>2 DEF OneSpeculativeRunning
  <1>14. ShutdownClears'
    BY <1>1, <1>2 DEF ShutdownClears
  <1>15. QED
    BY <1>5, <1>6, <1>7, <1>9, <1>10, <1>12, <1>13, <1>14

\* Announcing generations withdraws what they no longer accept.
LEMMA SetGenerationsStep ==
  ASSUME IInv, NEW a \in Gen, NEW p \in Gen \cup {NoGen}, SetGenerations(a, p)
  PROVE  IInv'
  <1>. DEFINE gens == [active |-> a, preparing |-> p]
  <1>1. gens \in [active : Gen, preparing : Gen \cup {NoGen}]
    OBVIOUS
  <1>2. \A k \in Key : k \in AcceptedKeys(gens) => Accepts(gens, k.gen)
    BY DEF AcceptedKeys
  <1>3. /\ generations' = gens
        /\ queued' = Retain(queued, AcceptedKeys(gens))
        /\ running' = Cancel(running, AcceptedKeys(gens))
        /\ heap' = RebuiltHeap(generations', queued')
        /\ pc' = Awake(pc)
        /\ UNCHANGED <<maxSpeculative, nextId, shuttingDown, job, sent>>
    BY DEF SetGenerations, Regenerate
  <1>. HIDE DEF gens
  <1>4. QED
    BY <1>1, <1>2, <1>3, WithdrawStep

\* retain_desired_keys and shutdown withdraw, too.
LEMMA RetainDesiredKeysStep ==
  ASSUME IInv, NEW desired, RetainDesiredKeys(desired)
  PROVE  IInv'
  BY WithdrawStep DEF RetainDesiredKeys, IInv, TypeOK

\* Shutdown withdraws everything and leaves the flag raised.
LEMMA ShutdownStep == ASSUME IInv, Shutdown PROVE IInv'
  <1>1. queued' = Retain(queued, {}) /\ heap' = RebuiltHeap(generations', queued')
    BY DEF Shutdown, Retain, RebuiltHeap, QueuedKeys
  <1>2. QED
    BY <1>1, WithdrawStep DEF Shutdown, IInv, TypeOK

\* A new bound for the prefetch lane touches no job.
LEMMA SetMaxSpeculativeStep ==
  ASSUME IInv, NEW max \in 0 .. 1, SetMaxSpeculative(max)
  PROVE  IInv'
  <1>. USE DEF IInv, SetMaxSpeculative
  <1>1. /\ pc' \in [Worker -> {"idle", "waiting", "taken", "decoding", "sending", "exited"}]
        /\ \A w \in Worker : pc'[w] \in {"taken", "decoding", "sending"} => pc'[w] = pc[w]
    BY AwakeType DEF TypeOK
  <1>2. TypeOK'
    BY <1>1 DEF TypeOK
  <1>3. /\ HeapMirrorsQueued' /\ IdsIssued' /\ IdsDistinct' /\ LiveAccepted'
        /\ OneSpeculativeRunning' /\ ShutdownClears'
    BY DEF HeapMirrorsQueued, IdsIssued, IdsDistinct, LiveAccepted,
           OneSpeculativeRunning, ShutdownClears
  <1>4. OneLiveJobPerKey'
    BY DEF OneLiveJobPerKey, RunningIds
  <1>5. WorkersHoldJobs'
    BY <1>1 DEF WorkersHoldJobs, Busy
  <1>6. QED
    BY <1>2, <1>3, <1>4, <1>5

\* A submission adds a fresh job for a key nobody works on, or updates one.
LEMMA SubmitStep ==
  ASSUME IInv, NEW k \in Key, NEW class \in Class, NEW distance \in Distance,
         Submit(k, class, distance)
  PROVE  IInv'
  <1>. USE BoundAssumption, NoneAssumption DEF IInv
  <1>1. /\ \A c \in Key \ {k} : queued'[c] = queued[c]
        /\ queued'[k] \in QueuedJob /\ queued'[k] # None
        /\ queued[k] # None => queued'[k].id = queued[k].id /\ nextId' = nextId
        /\ queued[k] = None => queued'[k].id = nextId /\ nextId' = nextId + 1 /\ nextId < MaxJobs
    BY DEF Submit, TypeOK, QueuedJob, JobId
  <1>2. /\ queued' \in [Key -> QueuedJob \cup {None}]
        /\ nextId' \in 0 .. MaxJobs /\ nextId <= nextId'
    BY <1>1 DEF Submit, TypeOK
  <1>3. /\ pc' \in [Worker -> {"idle", "waiting", "taken", "decoding", "sending", "exited"}]
        /\ \A w \in Worker : pc'[w] \in {"taken", "decoding", "sending"} => pc'[w] = pc[w]
    BY DEF Submit, OneWoken, TypeOK
  <1>4. heap' = RebuiltHeap(generations', queued') /\ heap' \subseteq HeapEntry
    BY <1>2, RebuiltHeapType DEF Submit, TypeOK
  <1>5. UNCHANGED <<generations, running, maxSpeculative, shuttingDown, job, sent>>
    BY DEF Submit
  <1>6. TypeOK'
    BY <1>2, <1>3, <1>4, <1>5 DEF TypeOK
  <1>7. HeapMirrorsQueued'
    BY <1>1, <1>4, <1>5 DEF HeapMirrorsQueued, QueuedKeys, AcceptedKeys, Submit
  <1>8. IdsIssued'
    BY <1>1, <1>2, <1>5 DEF IdsIssued, TypeOK, QueuedJob, JobId
  <1>9. IdsDistinct'
    BY <1>1, <1>5 DEF IdsDistinct, IdsIssued, TypeOK, QueuedJob, JobId
  <1>10. LiveAccepted' /\ OneSpeculativeRunning'
    BY <1>5 DEF LiveAccepted, OneSpeculativeRunning
  <1>11. OneLiveJobPerKey'
    BY <1>1, <1>5 DEF OneLiveJobPerKey, RunningIds, Submit, HasLiveRunning
  <1>12. WorkersHoldJobs'
    BY <1>3, <1>5 DEF WorkersHoldJobs, Busy
  <1>13. ShutdownClears'
    BY <1>5 DEF ShutdownClears, Submit
  <1>14. QED
    BY <1>6, <1>7, <1>8, <1>9, <1>10, <1>11, <1>12, <1>13

\* The speculative lane admits a job only when no speculative job runs.
LEMMA OpenLaneIsEmpty ==
  ASSUME TypeOK, ~LaneClosed
  PROVE  \A i \in JobId : running[i] # None => ~Speculative(running[i].class)
  <1>. DEFINE S == {i \in RunningIds : Speculative(running[i].class)}
  <1>1. IsFiniteSet(S)
    <2>1. IsFiniteSet(JobId)
      BY BoundAssumption, FS_Interval DEF JobId
    <2>2. S \subseteq JobId
      BY DEF RunningIds
    <2>. HIDE DEF S
    <2>3. QED
      BY <2>1, <2>2, FS_Subset
  <1>2. Cardinality(S) < 1 /\ Cardinality(S) \in Nat
    <2>1. Cardinality(S) \in Nat
      BY <1>1, FS_CardinalityType
    <2>2. ~(Cardinality(S) >= maxSpeculative)
      BY DEF LaneClosed
    <2>. HIDE DEF S
    <2>3. QED
      BY <2>1, <2>2 DEF TypeOK
  <1>3. S = {}
    <2>. HIDE DEF S
    <2>1. QED
      BY <1>1, <1>2, FS_EmptySet
  <1>4. QED
    BY <1>3 DEF RunningIds

\* Popping an entry leaves exactly the other waiting jobs on the heap.
LEMMA PopOne ==
  ASSUME IInv, NEW e \in heap, Remove({e} \cup {f \in heap : Before(f, e) /\ Unfit(f)}),
         UNCHANGED generations
  PROVE  /\ e.key \in Key /\ queued[e.key] # None /\ e.id = queued[e.key].id
         /\ queued' \in [Key -> QueuedJob \cup {None}]
         /\ queued'[e.key] = None
         /\ \A k \in Key \ {e.key} : queued'[k] = queued[k]
         /\ heap' = heap \ {e}
         /\ HeapMirrorsQueued'
  <1>. USE DEF IInv
  <1>1. {f \in heap : Before(f, e) /\ Unfit(f)} = {}
    BY NoUnfitEntry
  <1>2. heap' = heap \ {e} /\ queued' = Retain(queued, Key \ {f.key : f \in {e}})
    BY <1>1 DEF Remove
  <1>3. {f.key : f \in {e}} = {e.key}
    OBVIOUS
  <1>4. /\ e.key \in Key /\ e.key \in QueuedKeys(queued)
        /\ e = EntryOf(generations, queued, e.key)
    <2>1. PICK k \in QueuedKeys(queued) : e = EntryOf(generations, queued, k)
      BY DEF HeapMirrorsQueued, RebuiltHeap
    <2>2. e.key = k
      BY <2>1 DEF EntryOf
    <2>3. QED
      BY <2>1, <2>2 DEF QueuedKeys
  <1>5. /\ queued' \in [Key -> QueuedJob \cup {None}]
        /\ queued'[e.key] = None
        /\ \A k \in Key \ {e.key} : queued'[k] = queued[k]
    BY <1>2, <1>3, <1>4, RetainType DEF TypeOK
  <1>6. \A k \in Key : EntryOf(generations, queued, k).key = k
    BY DEF EntryOf
  <1>7. \A k \in Key \ {e.key} :
           EntryOf(generations', queued', k) = EntryOf(generations, queued, k)
    BY <1>5 DEF EntryOf
  <1>8. QueuedKeys(queued') = QueuedKeys(queued) \ {e.key}
    BY <1>5 DEF QueuedKeys
  <1>9. RebuiltHeap(generations', queued') = RebuiltHeap(generations, queued) \ {e}
    BY <1>4, <1>6, <1>7, <1>8 DEF RebuiltHeap, AcceptedKeys, QueuedKeys
  <1>10. HeapMirrorsQueued'
    BY <1>2, <1>8, <1>9 DEF HeapMirrorsQueued, AcceptedKeys
  <1>11. QED
    BY <1>2, <1>4, <1>5, <1>10 DEF EntryOf, QueuedKeys

\* wait_take starts the next job.
LEMMA TakeStep == ASSUME IInv, NEW u \in Worker, Take(u) PROVE IInv'
  <1>. USE BoundAssumption, NoneAssumption DEF IInv
  <1>1. PICK e \in heap :
          /\ IsNext(e)
          /\ Remove({e} \cup {f \in heap : Before(f, e) /\ Unfit(f)})
          /\ running' = [running EXCEPT ![e.id] =
                [key |-> e.key, class |-> queued[e.key].class, cancelled |-> FALSE]]
          /\ job' = [job EXCEPT ![u] = [id |-> e.id, key |-> e.key]]
    BY DEF Take
  <1>2. /\ pc[u] = "idle" /\ pc' = [pc EXCEPT ![u] = "taken"]
        /\ UNCHANGED <<generations, maxSpeculative, nextId, shuttingDown, sent>>
    BY DEF Take
  <1>3. /\ e.key \in Key /\ queued[e.key] # None /\ e.id = queued[e.key].id
        /\ queued' \in [Key -> QueuedJob \cup {None}]
        /\ queued'[e.key] = None
        /\ \A k \in Key \ {e.key} : queued'[k] = queued[k]
        /\ heap' = heap \ {e}
        /\ HeapMirrorsQueued'
    BY <1>1, <1>2, PopOne
  <1>4. e.id \in JobId /\ queued[e.key].class \in Class /\ e.id < nextId
    BY <1>3 DEF TypeOK, QueuedJob, IdsIssued
  <1>5. /\ running' \in [JobId -> RunningJob \cup {None}]
        /\ running'[e.id] # None /\ running'[e.id].key = e.key
        /\ ~running'[e.id].cancelled /\ running'[e.id].class = queued[e.key].class
        /\ \A i \in JobId \ {e.id} : running'[i] = running[i]
        /\ running[e.id] = None
    <2>. DEFINE r == [key |-> e.key, class |-> queued[e.key].class, cancelled |-> FALSE]
    <2>1. r \in RunningJob
      BY <1>3, <1>4, Zenon DEF RunningJob
    <2>2. r.key = e.key /\ ~r.cancelled /\ r.class = queued[e.key].class
      OBVIOUS
    <2>3. running' = [running EXCEPT ![e.id] = r]
      BY <1>1
    <2>4. running[e.id] = None
      BY <1>3 DEF IdsDistinct
    <2>. HIDE DEF r
    <2>5. r # None
      BY <2>1
    <2>6. QED
      BY <2>1, <2>2, <2>3, <2>4, <2>5, <1>4 DEF TypeOK
  <1>6. /\ job' \in [Worker -> ScheduledJob \cup {None}]
        /\ job'[u] # None /\ job'[u].id = e.id /\ job'[u].key = e.key
        /\ \A w \in Worker \ {u} : job'[w] = job[w]
    BY <1>1, <1>3, <1>4 DEF TypeOK, ScheduledJob
  <1>7. TypeOK'
    BY <1>2, <1>3, <1>5, <1>6 DEF TypeOK
  <1>8. IdsIssued'
    BY <1>2, <1>3, <1>4, <1>5 DEF IdsIssued
  <1>9. IdsDistinct'
    BY <1>3, <1>4, <1>5 DEF IdsDistinct, TypeOK, QueuedJob
  <1>10. LiveAccepted'
    <2>1. Accepts(generations, e.key.gen)
      BY <1>1, NoUnfitEntry DEF Unfit
    <2>2. QED
      BY <2>1, <1>2, <1>5 DEF LiveAccepted
  <1>11. OneLiveJobPerKey'
    BY <1>3, <1>4, <1>5 DEF OneLiveJobPerKey, RunningIds
  <1>12. WorkersHoldJobs'
    <2>1. \A w \in Worker : pc[w] \in {"taken", "decoding", "sending"} => job[w].id \in JobId
      BY DEF TypeOK, WorkersHoldJobs, ScheduledJob
    <2>2. \A w \in Worker \ {u} : pc'[w] = pc[w]
      BY <1>2 DEF TypeOK
    <2>3. \A w \in Busy : w # u /\ job[w].id # e.id
      BY <1>2, <1>5 DEF Busy, WorkersHoldJobs
    <2>4. \A w \in Busy' : w = u \/ w \in Busy
      BY <2>2 DEF Busy
    <2>5. \A w \in Busy : running'[job'[w].id] = running[job[w].id]
      BY <1>5, <1>6, <2>1, <2>3 DEF Busy
    <2>6. \A w \in Worker : pc'[w] \in {"taken", "decoding", "sending"} => job'[w] # None
      BY <1>6, <2>2 DEF WorkersHoldJobs
    <2>7. \A w \in Busy' : running'[job'[w].id] # None /\ running'[job'[w].id].key = job'[w].key
      BY <1>5, <1>6, <2>3, <2>4, <2>5 DEF WorkersHoldJobs, Busy
    <2>8. \A v, w \in Busy' : job'[v].id = job'[w].id => v = w
      BY <1>6, <2>3, <2>4 DEF WorkersHoldJobs, Busy
    <2>9. QED
      BY <2>6, <2>7, <2>8 DEF WorkersHoldJobs
  <1>13. OneSpeculativeRunning'
    <2>1. Speculative(queued[e.key].class) =>
            \A i \in JobId : running[i] # None => ~Speculative(running[i].class)
      BY <1>1, OpenLaneIsEmpty DEF IsNext, Startable
    <2>2. QED
      BY <2>1, <1>5 DEF OneSpeculativeRunning
  <1>14. ShutdownClears'
    BY <1>2, <1>3 DEF ShutdownClears
  <1>15. QED
    BY <1>3, <1>7, <1>8, <1>9, <1>10, <1>11, <1>12, <1>13, <1>14

\* A wait_take that finds nothing changes neither the heap nor the map.
LEMMA PopNone ==
  ASSUME IInv, Remove({f \in heap : Unfit(f)})
  PROVE  heap' = heap /\ queued' = queued
  <1>1. {f \in heap : Unfit(f)} = {}
    BY NoUnfitEntry
  <1>2. {f.key : f \in {}} = {}
    OBVIOUS
  <1>3. heap' = heap /\ queued' = Retain(queued, Key)
    BY <1>1, <1>2 DEF Remove
  <1>4. QED
    BY <1>3 DEF Retain, IInv, TypeOK

\* Steps that touch neither map nor the jobs of busy workers: falling asleep,
\* leaving, waking, starting to decode, sending a result.
LEMMA WorkerMovesStep ==
  ASSUME IInv, UNCHANGED <<generations, queued, heap, running, maxSpeculative, nextId,
                           shuttingDown>>,
         NEW u \in Worker,
         NEW to \in {"idle", "waiting", "taken", "decoding", "exited"},
         pc' = [pc EXCEPT ![u] = to],
         to = "decoding" => pc[u] = "taken" /\ job' = job,
         to # "taken",
         job' = job \/ job' = [job EXCEPT ![u] = None],
         sent' \subseteq ScheduledJob
  PROVE  IInv'
  <1>. USE DEF IInv
  <1>1. TypeOK'
    BY DEF TypeOK
  <1>2. /\ HeapMirrorsQueued' /\ IdsIssued' /\ IdsDistinct' /\ LiveAccepted'
        /\ OneSpeculativeRunning' /\ ShutdownClears'
    BY DEF HeapMirrorsQueued, IdsIssued, IdsDistinct, LiveAccepted,
           OneSpeculativeRunning, ShutdownClears
  <1>3. OneLiveJobPerKey'
    BY DEF OneLiveJobPerKey, RunningIds
  <1>4. WorkersHoldJobs'
    <2>1. \A w \in Worker : pc'[w] \in {"taken", "decoding", "sending"} =>
             pc[w] \in {"taken", "decoding", "sending"} /\ job'[w] = job[w]
      BY DEF TypeOK
    <2>2. \A w \in Busy' : w \in Busy /\ job'[w] = job[w]
      BY DEF Busy, TypeOK
    <2>3. QED
      BY <2>1, <2>2 DEF WorkersHoldJobs
  <1>5. QED
    BY <1>1, <1>2, <1>3, <1>4

\* A worker that finds no job falls asleep, or leaves after shutdown.
LEMMA SleepExitStep == ASSUME IInv, NEW u \in Worker, Sleep(u) \/ Exit(u) PROVE IInv'
  <1>1. heap' = heap /\ queued' = queued
    BY PopNone DEF Sleep, Exit
  <1>2. UNCHANGED <<generations, running, maxSpeculative, nextId, shuttingDown, job, sent>>
    BY DEF Sleep, Exit
  <1>3. pc' = [pc EXCEPT ![u] = "waiting"] \/ pc' = [pc EXCEPT ![u] = "exited"]
    BY DEF Sleep, Exit
  <1>4. sent' \subseteq ScheduledJob
    BY <1>2 DEF IInv, TypeOK
  <1>5. QED
    BY <1>1, <1>2, <1>3, <1>4, WorkerMovesStep

\* A worker between wait_take and finish, and after it, keeps its job.
LEMMA MoveStep ==
  ASSUME IInv, NEW u \in Worker, WakeSpuriously(u) \/ StartDecode(u) \/ Send(u)
  PROVE  IInv'
  <1>1. UNCHANGED <<generations, queued, heap, running, maxSpeculative, nextId, shuttingDown>>
    BY DEF WakeSpuriously, StartDecode, Send, queueVars
  <1>2. CASE WakeSpuriously(u)
    <2>1. sent' \subseteq ScheduledJob
      BY <1>2 DEF WakeSpuriously, IInv, TypeOK
    <2>2. QED
      BY <1>1, <1>2, <2>1, WorkerMovesStep DEF WakeSpuriously
  <1>3. CASE StartDecode(u)
    <2>1. sent' \subseteq ScheduledJob
      BY <1>3 DEF StartDecode, IInv, TypeOK
    <2>2. QED
      BY <1>1, <1>3, <2>1, WorkerMovesStep DEF StartDecode
  <1>4. CASE Send(u)
    <2>1. job[u] \in ScheduledJob
      BY <1>4 DEF Send, IInv, TypeOK, WorkersHoldJobs
    <2>2. sent' \subseteq ScheduledJob
      BY <1>4, <2>1 DEF Send, IInv, TypeOK
    <2>3. QED
      BY <1>1, <1>4, <2>2, WorkerMovesStep DEF Send
  <1>5. QED
    BY <1>2, <1>3, <1>4

\* finish frees the id, the lane and the worker.
LEMMA FinishStep ==
  ASSUME IInv, NEW u \in Busy, NEW next \in {"idle", "sending"}, Finish(u, next),
         sent' = sent,
         job' = job \/ (next = "idle" /\ job' = [job EXCEPT ![u] = None])
  PROVE  IInv'
  <1>. USE NoneAssumption DEF IInv, Finish
  <1>1. u \in Worker /\ job[u] \in ScheduledJob /\ job[u].id \in JobId
    BY DEF Busy, TypeOK, WorkersHoldJobs, ScheduledJob
  <1>2. /\ running' \in [JobId -> RunningJob \cup {None}]
        /\ running'[job[u].id] = None
        /\ \A i \in JobId : i # job[u].id => running'[i] = running[i]
    BY <1>1 DEF TypeOK
  <1>3. /\ pc' \in [Worker -> {"idle", "waiting", "taken", "decoding", "sending", "exited"}]
        /\ pc'[u] = next
        /\ \A w \in Worker \ {u} :
              pc'[w] \in {"taken", "decoding", "sending"} => pc'[w] = pc[w]
    BY <1>1, AwakeType DEF TypeOK
  <1>4. /\ job' \in [Worker -> ScheduledJob \cup {None}]
        /\ \A w \in Worker \ {u} : job'[w] = job[w]
        /\ next = "sending" => job'[u] = job[u]
    BY <1>1 DEF TypeOK
  <1>5. TypeOK'
    BY <1>2, <1>3, <1>4 DEF TypeOK
  <1>6. HeapMirrorsQueued'
    BY DEF HeapMirrorsQueued
  <1>7. IdsIssued' /\ IdsDistinct'
    BY <1>2 DEF IdsIssued, IdsDistinct, TypeOK, QueuedJob
  <1>8. LiveAccepted' /\ OneSpeculativeRunning' /\ ShutdownClears'
    BY <1>2 DEF LiveAccepted, OneSpeculativeRunning, ShutdownClears
  <1>9. OneLiveJobPerKey'
    BY <1>2 DEF OneLiveJobPerKey, RunningIds
  <1>10. WorkersHoldJobs'
    <2>1. \A w \in Busy' : w \in Busy /\ w # u /\ job'[w] = job[w]
      BY <1>3, <1>4 DEF Busy
    <2>2. \A w \in Busy : job[w].id \in JobId
      BY DEF Busy, TypeOK, WorkersHoldJobs, ScheduledJob
    <2>3. \A w \in Busy' : running'[job'[w].id] = running[job[w].id]
      BY <2>1, <2>2, <1>2 DEF WorkersHoldJobs
    <2>4. \A w \in Worker : pc'[w] \in {"taken", "decoding", "sending"} => job'[w] # None
      BY <1>1, <1>3, <1>4 DEF WorkersHoldJobs
    <2>5. QED
      BY <2>1, <2>3, <2>4 DEF WorkersHoldJobs
  <1>11. QED
    BY <1>5, <1>6, <1>7, <1>8, <1>9, <1>10

\* The generations the UI announces stay within bounds.
LEMMA NewestType == ASSUME TypeOK PROVE Newest \in Gen
  BY DEF TypeOK, Newest

\* Every operation of the UI thread preserves the invariant.
LEMMA UIStepIInv == ASSUME IInv, UIStep PROVE IInv'
  <1>1. Newest \in Gen
    BY NewestType DEF IInv
  <1>2. CASE BeginNewGeneration
    <2>1. Newest + 1 \in Gen
      BY <1>1, <1>2, BoundAssumption DEF BeginNewGeneration, Gen
    <2>2. QED
      BY <1>2, <2>1, SetGenerationsStep DEF BeginNewGeneration
  <1>3. CASE BeginLazyGeneration
    <2>1. Newest + 1 \in Gen
      BY <1>1, <1>3, BoundAssumption DEF BeginLazyGeneration, Gen
    <2>2. QED
      BY <1>1, <1>3, <2>1, SetGenerationsStep DEF BeginLazyGeneration
  <1>4. CASE \E k \in Key, class \in Class, distance \in Distance :
               k.gen <= Newest /\ Submit(k, class, distance)
    <2>1. PICK k \in Key, class \in Class, distance \in Distance : Submit(k, class, distance)
      BY <1>4
    <2>2. QED
      BY <2>1, SubmitStep
  <1>5. CASE \E withdrawn \in SUBSET HeldKeys : RetainDesiredKeys(Key \ withdrawn)
    <2>1. PICK withdrawn \in SUBSET HeldKeys : RetainDesiredKeys(Key \ withdrawn)
      BY <1>5
    <2>2. QED
      BY <2>1, RetainDesiredKeysStep
  <1>6. CASE \E max \in 0 .. 1 : SetMaxSpeculative(max)
    <2>1. PICK max \in 0 .. 1 : SetMaxSpeculative(max)
      BY <1>6
    <2>2. QED
      BY <2>1, SetMaxSpeculativeStep
  <1>7. CASE Shutdown
    BY <1>7, ShutdownStep
  <1>8. QED
    BY <1>2, <1>3, <1>4, <1>5, <1>6, <1>7 DEF UIStep

\* Every step of a worker preserves the invariant.
LEMMA WorkerStepIInv ==
  ASSUME IInv, NEW w \in Worker, WorkerStep(w) \/ WakeSpuriously(w)
  PROVE  IInv'
  <1>1. CASE Take(w)
    BY <1>1, TakeStep
  <1>2. CASE Sleep(w) \/ Exit(w)
    BY <1>2, SleepExitStep
  <1>3. CASE WakeSpuriously(w) \/ StartDecode(w) \/ Send(w)
    BY <1>3, MoveStep
  <1>4. CASE SkipCancelled(w)
    <2>1. /\ w \in Busy /\ Finish(w, "idle") /\ sent' = sent
          /\ job' = [job EXCEPT ![w] = None]
      BY <1>4 DEF SkipCancelled, Busy
    <2>2. QED
      BY <2>1, FinishStep
  <1>5. CASE FinishWanted(w)
    <2>1. w \in Busy /\ Finish(w, "sending") /\ sent' = sent /\ job' = job
      BY <1>5 DEF FinishWanted, Busy
    <2>2. QED
      BY <2>1, FinishStep
  <1>6. CASE FinishUnwanted(w)
    <2>1. /\ w \in Busy /\ Finish(w, "idle") /\ sent' = sent
          /\ job' = [job EXCEPT ![w] = None]
      BY <1>6 DEF FinishUnwanted, Busy
    <2>2. QED
      BY <2>1, FinishStep
  <1>7. QED
    BY <1>1, <1>2, <1>3, <1>4, <1>5, <1>6 DEF WorkerStep

\* The inductive invariant holds in every reachable state.
THEOREM Invariance == Spec => []IInv
  <1>1. Init => IInv
    BY InitIInv
  <1>2. IInv /\ [Next]_vars => IInv'
    <2>. SUFFICES ASSUME IInv, [Next]_vars PROVE IInv'
      OBVIOUS
    <2>1. CASE UIStep
      BY <2>1, UIStepIInv
    <2>2. CASE \E w \in Worker : WorkerStep(w) \/ WakeSpuriously(w)
      BY <2>2, WorkerStepIInv
    <2>3. CASE UNCHANGED vars
      BY <2>3 DEF vars, queueVars, IInv, TypeOK, HeapMirrorsQueued, IdsIssued, IdsDistinct,
              LiveAccepted, OneLiveJobPerKey, RunningIds, WorkersHoldJobs, Busy,
              OneSpeculativeRunning, ShutdownClears
    <2>4. QED
      BY <2>1, <2>2, <2>3 DEF Next
  <1>3. QED
    BY <1>1, <1>2, PTL DEF Spec

-----------------------------------------------------------------------------
(* What follows from the invariant *)

\* Type correctness.
THEOREM TypeCorrect == Spec => []TypeOK
  <1>1. IInv => TypeOK
    BY DEF IInv
  <1>2. QED
    BY <1>1, Invariance, PTL

\* No page is decoded twice at once for the same request (submit, pop_next,
\* finish and every way to cancel).
THEOREM NoDuplicateDecode == Spec => []OneLiveJobPerKey
  <1>1. IInv => OneLiveJobPerKey
    BY DEF IInv
  <1>2. QED
    BY <1>1, Invariance, PTL

\* The heap and the map never drift apart (rebuild_heap, pop_next).
THEOREM HeapStaysCurrent == Spec => []HeapMirrorsQueued
  <1>1. IInv => HeapMirrorsQueued
    BY DEF IInv
  <1>2. QED
    BY <1>1, Invariance, PTL

\* Prefetch occupies at most one worker thread (pop_next).
THEOREM PrefetchKeepsToOneThread == Spec => []OneSpeculativeDecoder
  <1>1. IInv => OneSpeculativeDecoder
    <2>. SUFFICES ASSUME IInv, NEW v \in Busy, NEW w \in Busy,
                         Speculative(running[job[v].id].class),
                         Speculative(running[job[w].id].class)
                  PROVE  v = w
      BY DEF OneSpeculativeDecoder
    <2>1. job[v].id \in JobId /\ job[w].id \in JobId
      BY DEF IInv, TypeOK, WorkersHoldJobs, Busy, ScheduledJob
    <2>2. job[v].id = job[w].id
      BY <2>1 DEF IInv, WorkersHoldJobs, OneSpeculativeRunning
    <2>3. QED
      BY <2>2 DEF IInv, WorkersHoldJobs
  <1>2. QED
    BY <1>1, Invariance, PTL

-----------------------------------------------------------------------------
(* The scheduler implements DecodeTickets *)

\* Cancelling and dropping only withdraws tickets.
LEMMA WithdrawTickets ==
  ASSUME IInv, NEW keep,
         queued' = Retain(queued, keep), running' = Cancel(running, keep)
  PROVE  OpenTickets' \subseteq OpenTickets
  <1>1. \A k \in Key : queued'[k] # None => queued'[k] = queued[k]
    BY RetainType DEF IInv, TypeOK
  <1>2. \A i \in JobId :
          /\ running'[i] = None <=> running[i] = None
          /\ running[i] # None =>
               /\ running'[i].key = running[i].key
               /\ running'[i].cancelled <=> running[i].cancelled \/ running[i].key \notin keep
    BY CancelType DEF IInv, TypeOK
  <1>3. QED
    BY <1>1, <1>2 DEF OpenTickets, QueuedKeys, RunningIds

\* The results on their way are those of the workers about to send.
LEMMA AnsweredUnchanged ==
  ASSUME UNCHANGED <<sent>>,
         \A w \in Worker : pc'[w] = "sending" <=> pc[w] = "sending",
         \A w \in Worker : pc[w] = "sending" => job'[w] = job[w]
  PROVE  AnsweredTickets' = AnsweredTickets
  BY DEF AnsweredTickets

\* Announcing generations only withdraws tickets.
LEMMA RegenerateTickets ==
  ASSUME IInv, NEW a, NEW p, SetGenerations(a, p)
  PROVE  Tickets!Withdraw
  <1>1. OpenTickets' \subseteq OpenTickets
    BY WithdrawTickets DEF SetGenerations, Regenerate
  <1>2. AnsweredTickets' = AnsweredTickets
    <2>1. \A w \in Worker : pc'[w] = "sending" <=> pc[w] = "sending"
      BY AwakeType DEF SetGenerations, IInv, TypeOK, Awake
    <2>2. UNCHANGED <<sent, job>>
      BY DEF SetGenerations
    <2>3. QED
      BY <2>1, <2>2, AnsweredUnchanged
  <1>3. QED
    BY <1>1, <1>2 DEF Tickets!Withdraw, SetGenerations

\* A submission opens the ticket of its key, or finds it open.
LEMMA SubmitTickets ==
  ASSUME IInv, NEW k \in Key, NEW class \in Class, NEW distance \in Distance,
         Submit(k, class, distance)
  PROVE  Tickets!Ask(k) \/ UNCHANGED Tickets!vars
  <1>. USE NoneAssumption DEF IInv
  <1>1. AnsweredTickets' = AnsweredTickets
    <2>1. \A w \in Worker : pc'[w] = "sending" <=> pc[w] = "sending"
      BY DEF Submit, OneWoken, TypeOK
    <2>2. UNCHANGED <<sent, job>>
      BY DEF Submit
    <2>3. QED
      BY <2>1, <2>2, AnsweredUnchanged
  <1>2. CASE queued[k] # None
    <2>1. /\ \A c \in Key : queued'[c] = None <=> queued[c] = None
          /\ \A c \in Key : queued[c] # None => queued'[c].id = queued[c].id
      BY <1>2 DEF Submit, TypeOK, QueuedJob
    <2>2. OpenTickets' = OpenTickets
      BY <2>1 DEF OpenTickets, QueuedKeys, RunningIds, Submit
    <2>3. QED
      BY <1>1, <1>2, <2>2 DEF Tickets!vars, Submit
  <1>3. CASE queued[k] = None
    <2>1. /\ \A c \in Key \ {k} : queued'[c] = queued[c]
          /\ queued'[k] # None /\ queued'[k].id = nextId
      <3>. DEFINE j == [id |-> nextId, class |-> class, distance |-> distance]
      <3>1. nextId < MaxJobs /\ queued' = [queued EXCEPT ![k] = j]
        BY <1>3 DEF Submit
      <3>2. nextId \in JobId
        BY <3>1, BoundAssumption DEF TypeOK, JobId
      <3>3. j \in QueuedJob /\ j.id = nextId
        BY <3>2 DEF QueuedJob
      <3>. HIDE DEF j
      <3>4. QED
        BY <3>1, <3>3 DEF TypeOK
    <2>2. OpenTickets' = OpenTickets \cup {[id |-> nextId, key |-> k]}
      BY <1>3, <2>1 DEF OpenTickets, QueuedKeys, RunningIds, Submit
    <2>3. \A t \in OpenTickets : t.key # k
      BY <1>3 DEF OpenTickets, QueuedKeys, Submit, HasLiveRunning
    <2>4. QED
      BY <1>1, <1>3, <2>2, <2>3 DEF Tickets!Ask, Submit
  <1>4. QED
    BY <1>2, <1>3

\* Starting a job leaves the tickets alone: waiting and running ones are open alike.
LEMMA TakeTickets == ASSUME IInv, NEW u \in Worker, Take(u) PROVE UNCHANGED Tickets!vars
  <1>. USE NoneAssumption DEF IInv
  <1>1. PICK e \in heap :
          /\ Remove({e} \cup {f \in heap : Before(f, e) /\ Unfit(f)})
          /\ running' = [running EXCEPT ![e.id] =
                [key |-> e.key, class |-> queued[e.key].class, cancelled |-> FALSE]]
          /\ job' = [job EXCEPT ![u] = [id |-> e.id, key |-> e.key]]
    BY DEF Take
  <1>2. /\ e.key \in Key /\ queued[e.key] # None /\ e.id = queued[e.key].id
        /\ queued'[e.key] = None
        /\ \A k \in Key \ {e.key} : queued'[k] = queued[k]
    BY <1>1, PopOne DEF Take
  <1>3. e.id \in JobId /\ queued[e.key] \in QueuedJob /\ running[e.id] = None
    BY <1>2 DEF TypeOK, QueuedJob, IdsDistinct
  <1>4. TypeOK'
    BY TakeStep
  <1>5. /\ running'[e.id] # None /\ running'[e.id].key = e.key
        /\ ~running'[e.id].cancelled
        /\ \A i \in JobId \ {e.id} : running'[i] = running[i]
    <2>1. running'[e.id] = [key |-> e.key, class |-> queued[e.key].class, cancelled |-> FALSE]
      BY <1>1, <1>3 DEF TypeOK
    <2>2. running'[e.id] \in RunningJob
      BY <2>1, <1>2, <1>3 DEF RunningJob, QueuedJob
    <2>3. QED
      BY <1>1, <1>3, <2>1, <2>2 DEF TypeOK
  <1>6. OpenTickets' = OpenTickets
    BY <1>2, <1>3, <1>5 DEF OpenTickets, QueuedKeys, RunningIds
  <1>7. AnsweredTickets' = AnsweredTickets
    <2>1. \A w \in Worker : pc'[w] = "sending" <=> pc[w] = "sending"
      BY DEF Take, TypeOK
    <2>2. \A w \in Worker : pc[w] = "sending" => job'[w] = job[w]
      BY <1>1 DEF Take, TypeOK
    <2>3. sent' = sent
      BY DEF Take
    <2>4. QED
      BY <2>1, <2>2, <2>3, AnsweredUnchanged
  <1>8. QED
    BY <1>6, <1>7 DEF Take, Tickets!vars

\* finish answers the ticket of an uncancelled job and no other.
LEMMA FinishTickets ==
  ASSUME IInv, NEW u \in Busy, NEW next \in {"idle", "sending"}, Finish(u, next)
  PROVE  /\ OpenTickets' = OpenTickets \ {job[u]}
         /\ job[u] \in ScheduledJob
         /\ job[u] \in OpenTickets <=> ~running[job[u].id].cancelled
         /\ \A w \in Worker \ {u} : pc'[w] = "sending" <=> pc[w] = "sending"
         /\ pc'[u] = next /\ pc[u] # "sending"
  <1>. USE NoneAssumption DEF IInv, Finish
  <1>1. /\ u \in Worker /\ job[u] \in ScheduledJob /\ job[u].id \in JobId
        /\ running[job[u].id] # None /\ running[job[u].id].key = job[u].key
    BY DEF Busy, TypeOK, WorkersHoldJobs, ScheduledJob
  <1>2. job[u] = [id |-> job[u].id, key |-> job[u].key]
    BY <1>1 DEF ScheduledJob
  <1>3. /\ running'[job[u].id] = None
        /\ \A i \in JobId : i # job[u].id => running'[i] = running[i]
    BY <1>1 DEF TypeOK
  <1>4. \A k \in QueuedKeys(queued) : queued[k].id # job[u].id
    BY <1>1 DEF QueuedKeys, IdsDistinct
  <1>5. job[u] \in OpenTickets <=> ~running[job[u].id].cancelled
    BY <1>1, <1>2, <1>4 DEF OpenTickets, RunningIds
  <1>6. OpenTickets' = OpenTickets \ {job[u]}
    <2>. DEFINE Q == {[id |-> queued[k].id, key |-> k] : k \in QueuedKeys(queued)}
                R == {[id |-> i, key |-> running[i].key] :
                        i \in {r \in RunningIds : ~running[r].cancelled}}
    <2>1. Q' = Q /\ job[u] \notin Q
      BY <1>2, <1>4 DEF QueuedKeys
    <2>2. R' = R \ {job[u]}
      BY <1>1, <1>2, <1>3 DEF RunningIds
    <2>3. OpenTickets = Q \cup R
      BY DEF OpenTickets
    <2>4. OpenTickets' = Q' \cup R'
      BY DEF OpenTickets
    <2>5. QED
      BY <2>1, <2>2, <2>3, <2>4
  <1>7. \A w \in Worker \ {u} : pc'[w] = "sending" <=> pc[w] = "sending"
    BY <1>1, AwakeType DEF TypeOK, Awake
  <1>8. pc'[u] = next /\ pc[u] # "sending"
    BY <1>1, AwakeType DEF Busy, TypeOK
  <1>9. QED
    BY <1>1, <1>5, <1>6, <1>7, <1>8

\* Every operation of the UI thread is a step, or a stutter, of the tickets.
LEMMA UIStepTickets == ASSUME IInv, UIStep PROVE [Tickets!Next]_(Tickets!vars)
  <1>1. CASE BeginNewGeneration \/ BeginLazyGeneration
    BY <1>1, RegenerateTickets DEF BeginNewGeneration, BeginLazyGeneration, Tickets!Next
  <1>2. CASE \E k \in Key, class \in Class, distance \in Distance :
               k.gen <= Newest /\ Submit(k, class, distance)
    <2>1. PICK k \in Key, class \in Class, distance \in Distance : Submit(k, class, distance)
      BY <1>2
    <2>2. QED
      BY <2>1, SubmitTickets DEF Tickets!Next
  <1>3. CASE \E withdrawn \in SUBSET HeldKeys : RetainDesiredKeys(Key \ withdrawn)
    <2>1. OpenTickets' \subseteq OpenTickets
      BY <1>3, WithdrawTickets DEF RetainDesiredKeys
    <2>2. UNCHANGED <<sent, pc, job, nextId, shuttingDown>>
      BY <1>3 DEF RetainDesiredKeys
    <2>3. AnsweredTickets' = AnsweredTickets
      BY <2>2 DEF AnsweredTickets
    <2>4. Tickets!Withdraw
      BY <2>1, <2>2, <2>3 DEF Tickets!Withdraw
    <2>5. QED
      BY <2>4 DEF Tickets!Next
  <1>4. CASE \E max \in 0 .. 1 : SetMaxSpeculative(max)
    <2>1. /\ UNCHANGED <<queued, running, sent, job, nextId, shuttingDown>>
          /\ pc' = Awake(pc)
      BY <1>4 DEF SetMaxSpeculative
    <2>2. AnsweredTickets' = AnsweredTickets
      BY <2>1, AwakeType, AnsweredUnchanged DEF IInv, TypeOK, Awake
    <2>3. OpenTickets' = OpenTickets
      BY <2>1 DEF OpenTickets, QueuedKeys, RunningIds
    <2>4. QED
      BY <2>1, <2>2, <2>3 DEF Tickets!vars
  <1>5. CASE Shutdown
    <2>1. queued' = [k \in Key |-> None] /\ running' = Cancel(running, {})
      BY <1>5 DEF Shutdown
    <2>2. OpenTickets' = {}
      BY <2>1, CancelType DEF OpenTickets, QueuedKeys, RunningIds, IInv, TypeOK
    <2>3. pc' = Awake(pc) /\ UNCHANGED <<sent, job, nextId>> /\ shuttingDown' = TRUE
      BY <1>5 DEF Shutdown
    <2>4. AnsweredTickets' = AnsweredTickets
      BY <2>3, AwakeType, AnsweredUnchanged DEF IInv, TypeOK, Awake
    <2>5. Tickets!Close
      BY <2>2, <2>3, <2>4 DEF Tickets!Close
    <2>6. QED
      BY <2>5 DEF Tickets!Next
  <1>6. QED
    BY <1>1, <1>2, <1>3, <1>4, <1>5 DEF UIStep

\* Every step of a worker is a step, or a stutter, of the tickets.
LEMMA WorkerStepTickets ==
  ASSUME IInv, NEW u \in Worker, WorkerStep(u) \/ WakeSpuriously(u)
  PROVE  [Tickets!Next]_(Tickets!vars)
  <1>. USE NoneAssumption DEF IInv
  <1>1. CASE Take(u)
    BY <1>1, TakeTickets
  <1>2. CASE Sleep(u) \/ Exit(u) \/ WakeSpuriously(u) \/ StartDecode(u)
    <2>1. UNCHANGED <<queued, running, nextId, shuttingDown, job, sent>>
      BY <1>2, PopNone DEF Sleep, Exit, WakeSpuriously, StartDecode, queueVars
    <2>2. \A w \in Worker : pc'[w] = "sending" <=> pc[w] = "sending"
      BY <1>2 DEF Sleep, Exit, WakeSpuriously, StartDecode, TypeOK
    <2>3. AnsweredTickets' = AnsweredTickets
      BY <2>1, <2>2, AnsweredUnchanged
    <2>4. OpenTickets' = OpenTickets
      BY <2>1 DEF OpenTickets, QueuedKeys, RunningIds
    <2>5. QED
      BY <2>1, <2>3, <2>4 DEF Tickets!vars
  <1>3. CASE FinishWanted(u)
    <2>1. u \in Busy /\ Finish(u, "sending") /\ job' = job /\ sent' = sent
      BY <1>3 DEF FinishWanted, Busy
    <2>2. ~running[job[u].id].cancelled
      BY <1>3 DEF FinishWanted, ResultWanted
    <2>3. /\ OpenTickets' = OpenTickets \ {job[u]} /\ job[u] \in OpenTickets
          /\ \A w \in Worker \ {u} : pc'[w] = "sending" <=> pc[w] = "sending"
          /\ pc'[u] = "sending" /\ pc[u] # "sending"
      BY <2>1, <2>2, FinishTickets
    <2>4. AnsweredTickets' = AnsweredTickets \cup {job[u]}
      BY <2>1, <2>3 DEF AnsweredTickets
    <2>5. Tickets!Answer(job[u])
      BY <2>1, <2>3, <2>4 DEF Tickets!Answer, Finish
    <2>6. QED
      BY <2>3, <2>5 DEF Tickets!Next
  <1>4. CASE SkipCancelled(u) \/ FinishUnwanted(u)
    <2>1. /\ u \in Busy /\ Finish(u, "idle") /\ sent' = sent
          /\ job' = [job EXCEPT ![u] = None]
      BY <1>4 DEF SkipCancelled, FinishUnwanted, Busy
    <2>2. running[job[u].id].cancelled
      BY <1>4, <2>1 DEF SkipCancelled, FinishUnwanted, ResultWanted, LiveAccepted, Busy,
         TypeOK, WorkersHoldJobs, ScheduledJob
    <2>3. /\ OpenTickets' = OpenTickets
          /\ \A w \in Worker \ {u} : pc'[w] = "sending" <=> pc[w] = "sending"
          /\ pc'[u] = "idle" /\ pc[u] # "sending"
      <3>1. /\ OpenTickets' = OpenTickets \ {job[u]}
            /\ job[u] \in OpenTickets <=> ~running[job[u].id].cancelled
            /\ \A w \in Worker \ {u} : pc'[w] = "sending" <=> pc[w] = "sending"
            /\ pc'[u] = "idle" /\ pc[u] # "sending"
        BY <2>1, FinishTickets
      <3>2. job[u] \notin OpenTickets
        BY <2>2, <3>1
      <3>3. QED
        BY <3>1, <3>2
    <2>4. AnsweredTickets' = AnsweredTickets
      BY <2>1, <2>3, AnsweredUnchanged DEF TypeOK
    <2>5. QED
      BY <2>1, <2>3, <2>4 DEF Tickets!vars, Finish
  <1>5. CASE Send(u)
    <2>1. /\ UNCHANGED <<queued, running, nextId, shuttingDown>>
          /\ pc[u] = "sending" /\ sent' = sent \cup {job[u]}
          /\ pc' = [pc EXCEPT ![u] = "idle"] /\ job' = [job EXCEPT ![u] = None]
      BY <1>5 DEF Send, queueVars
    <2>2. /\ pc'[u] = "idle"
          /\ \A w \in Worker \ {u} : pc'[w] = pc[w] /\ job'[w] = job[w]
      BY <2>1 DEF TypeOK
    <2>3. AnsweredTickets' = AnsweredTickets
      BY <2>1, <2>2 DEF AnsweredTickets
    <2>4. OpenTickets' = OpenTickets
      BY <2>1 DEF OpenTickets, QueuedKeys, RunningIds
    <2>5. QED
      BY <2>1, <2>3, <2>4 DEF Tickets!vars
  <1>6. QED
    BY <1>1, <1>2, <1>3, <1>4, <1>5 DEF WorkerStep

\* The detailed scheduler implements the abstract one: its steps open,
\* withdraw or answer tickets, or change none.
THEOREM Refinement == Spec => ImplementsTickets
  <1>1. Init => Tickets!Init
    BY DEF Init, Tickets!Init, OpenTickets, AnsweredTickets, QueuedKeys, RunningIds
  <1>2. IInv /\ [Next]_vars => [Tickets!Next]_(Tickets!vars)
    <2>. SUFFICES ASSUME IInv, [Next]_vars PROVE [Tickets!Next]_(Tickets!vars)
      OBVIOUS
    <2>1. CASE UIStep
      BY <2>1, UIStepTickets
    <2>2. CASE \E w \in Worker : WorkerStep(w) \/ WakeSpuriously(w)
      BY <2>2, WorkerStepTickets
    <2>3. CASE UNCHANGED vars
      BY <2>3 DEF vars, queueVars, Tickets!vars, OpenTickets, AnsweredTickets, QueuedKeys,
         RunningIds
    <2>4. QED
      BY <2>1, <2>2, <2>3 DEF Next
  <1>3. QED
    BY <1>1, <1>2, Invariance, PTL DEF Spec, ImplementsTickets, Tickets!Spec

-----------------------------------------------------------------------------
(* No wakeup is lost.  The invariant itself is inductive given IInv: what    *)
(* each step does to the number of jobs that could start, and to the number *)
(* of workers on the way to look for one, is counted below.                 *)

\* The entries of the heap that may start now.
StartableJobs == {e \in heap : Startable(e)}

\* The heap is finite, its entries bearing distinct ids.
LEMMA StartableFinite == IInv => IsFiniteSet(StartableJobs)
  <1>. SUFFICES ASSUME IInv PROVE IsFiniteSet(StartableJobs)
    OBVIOUS
  <1>. DEFINE f == [e \in heap |-> e.id]
  <1>1. IsFiniteSet(JobId)
    BY BoundAssumption, FS_Interval DEF JobId
  <1>2. f \in Injection(heap, JobId)
    <2>1. \A e \in heap : e.id \in JobId
      BY DEF IInv, TypeOK, HeapEntry
    <2>2. ASSUME NEW d \in heap, NEW e \in heap, d.id = e.id
          PROVE  d = e
      <3>1. PICK k \in QueuedKeys(queued), c \in QueuedKeys(queued) :
              d = EntryOf(generations, queued, k) /\ e = EntryOf(generations, queued, c)
        BY DEF IInv, HeapMirrorsQueued, RebuiltHeap
      <3>2. queued[k].id = queued[c].id
        BY <2>2, <3>1 DEF EntryOf
      <3>3. k = c
        BY <3>2 DEF IInv, IdsDistinct, QueuedKeys
      <3>4. QED
        BY <3>1, <3>3
    <2>3. QED
      BY <2>1, <2>2 DEF Injection, IsInjective
  <1>3. IsFiniteSet(heap)
    BY <1>1, <1>2, FS_Injection
  <1>4. QED
    BY <1>3, FS_Subset DEF StartableJobs

\* The same after a step.
LEMMA StartableFiniteNext == IInv' => IsFiniteSet(StartableJobs)'
  BY StartableFinite, PTL

\* The workers on the way to look for a job are finitely many.
LEMMA IdleFinite == IsFiniteSet(Idle)
  BY WorkerAssumption, FS_Subset DEF Idle

\* An entry of the heap is held back only by the speculative lane.
LEMMA HeldBackByLane ==
  ASSUME IInv, NEW k \in Key, queued[k] # None
  PROVE  /\ EntryOf(generations, queued, k) \in heap
         /\ Startable(EntryOf(generations, queued, k))
              <=> ~(Speculative(queued[k].class) /\ LaneClosed)
  <1>. DEFINE e == EntryOf(generations, queued, k)
  <1>1. e \in heap
    BY DEF IInv, HeapMirrorsQueued, RebuiltHeap, QueuedKeys
  <1>2. e.key = k
    BY DEF EntryOf
  <1>3. ~Unfit(e)
    BY <1>1, NoUnfitEntry
  <1>. HIDE DEF e
  <1>4. QED
    BY <1>1, <1>2, <1>3 DEF Startable, e

\* The entries of the heap that may start, key by key.
StartableByKey ==
    {EntryOf(generations, queued, k) :
        k \in {c \in QueuedKeys(queued) : ~(Speculative(queued[c].class) /\ LaneClosed)}}

LEMMA StartableJobsByKey == IInv => StartableJobs = StartableByKey
  <1>. SUFFICES ASSUME IInv PROVE StartableJobs = StartableByKey
    OBVIOUS
  <1>1. heap = {EntryOf(generations, queued, k) : k \in QueuedKeys(queued)}
    BY DEF IInv, HeapMirrorsQueued, RebuiltHeap
  <1>2. \A k \in QueuedKeys(queued) :
          Startable(EntryOf(generations, queued, k))
             <=> ~(Speculative(queued[k].class) /\ LaneClosed)
    BY HeldBackByLane DEF QueuedKeys
  <1>3. QED
    BY <1>1, <1>2 DEF StartableJobs, StartableByKey

\* The same after a step.
LEMMA StartableJobsByKeyNext == IInv' => (StartableJobs = StartableByKey)'
  BY StartableJobsByKey, PTL

\* Notifying everybody leaves nobody asleep.
LEMMA NobodyAsleep ==
  ASSUME \A w \in Worker : pc'[w] # "waiting" PROVE NoLostWakeup'
  BY DEF NoLostWakeup, Waiting

\* The lane counts running jobs, cancelled or not.
LEMMA LaneUnchanged ==
  ASSUME IInv, NEW keep, running' = running \/ running' = Cancel(running, keep),
         maxSpeculative' = maxSpeculative
  PROVE  LaneClosed' = LaneClosed
  <1>1. \A i \in JobId :
          /\ running'[i] = None <=> running[i] = None
          /\ running[i] # None => running'[i].class = running[i].class
    BY CancelType DEF IInv, TypeOK
  <1>2. RunningIds' = RunningIds
    BY <1>1 DEF RunningIds
  <1>3. \A i \in RunningIds : running'[i].class = running[i].class
    BY <1>1 DEF RunningIds
  <1>4. {i \in RunningIds : Speculative(running[i].class)}'
          = {i \in RunningIds : Speculative(running[i].class)}
    BY <1>2, <1>3
  <1>5. QED
    BY <1>2, <1>3, <1>4 DEF LaneClosed

\* submit adds at most one job that could start, and wakes one worker for it.
LEMMA SubmitWakes ==
  ASSUME IInv, NoLostWakeup, NEW k \in Key, NEW class \in Class, NEW distance \in Distance,
         Submit(k, class, distance)
  PROVE  NoLostWakeup'
  <1>1. CASE Waiting = {}
    <2>1. pc' = pc
      BY <1>1 DEF Submit, OneWoken, Waiting
    <2>2. QED
      BY <1>1, <2>1 DEF NoLostWakeup, Waiting
  <1>2. CASE Waiting # {}
    <2>1. PICK w \in Waiting : pc' = [pc EXCEPT ![w] = "idle"]
      BY <1>2 DEF Submit, OneWoken, Waiting
    <2>2. Idle' = Idle \cup {w} /\ w \notin Idle
      BY <2>1 DEF Idle, Waiting, IInv, TypeOK
    <2>3. Cardinality(Idle') = Cardinality(Idle) + 1
      BY <2>2, IdleFinite, FS_AddElement
    <2>. DEFINE new == EntryOf(generations, queued', k)
    <2>4. StartableJobs' \subseteq StartableJobs \cup {new}
      <3>1. IInv'
        BY SubmitStep
      <3>2. \A c \in Key \ {k} : queued'[c] = queued[c]
        BY DEF Submit, IInv, TypeOK
      <3>3. \A c \in Key \ {k} :
              EntryOf(generations, queued', c) = EntryOf(generations, queued, c)
        BY <3>2 DEF EntryOf
      <3>4. LaneClosed' = LaneClosed /\ generations' = generations
        BY LaneUnchanged DEF Submit
      <3>5. StartableJobs' =
              {EntryOf(generations, queued', c) :
                c \in {d \in QueuedKeys(queued') : ~(Speculative(queued'[d].class) /\ LaneClosed)}}
        BY <3>1, <3>4, StartableJobsByKeyNext DEF StartableByKey
      <3>6. QED
        BY <3>2, <3>3, <3>5, StartableJobsByKey DEF QueuedKeys, StartableByKey
    <2>5. Cardinality(StartableJobs') <= Cardinality(StartableJobs) + 1
      <3>1. /\ IsFiniteSet(StartableJobs \cup {new})
            /\ Cardinality(StartableJobs \cup {new}) <= Cardinality(StartableJobs) + 1
        <4>1. IsFiniteSet(StartableJobs) /\ Cardinality(StartableJobs) \in Nat
          BY StartableFinite, FS_CardinalityType
        <4>2. /\ IsFiniteSet(StartableJobs \cup {new})
              /\ Cardinality(StartableJobs \cup {new}) =
                   IF new \in StartableJobs THEN Cardinality(StartableJobs)
                   ELSE Cardinality(StartableJobs) + 1
          BY <4>1, FS_AddElement, Zenon
        <4>3. QED
          BY <4>1, <4>2
      <3>2. /\ Cardinality(StartableJobs') <= Cardinality(StartableJobs \cup {new})
            /\ IsFiniteSet(StartableJobs')
        BY <2>4, <3>1, FS_Subset
      <3>3. QED
        BY <3>1, <3>2, StartableFinite, FS_CardinalityType
    <2>6. Cardinality(StartableJobs) <= Cardinality(Idle)
      BY <1>2 DEF NoLostWakeup, StartableJobs
    <2>7. IsFiniteSet(StartableJobs')
      BY SubmitStep, StartableFiniteNext
    <2>8. Cardinality(StartableJobs') <= Cardinality(Idle')
      BY <2>3, <2>5, <2>6, <2>7, IdleFinite, StartableFinite, FS_CardinalityType
    <2>9. QED
      BY <2>8 DEF NoLostWakeup, StartableJobs
  <1>3. QED
    BY <1>1, <1>2

\* retain_desired_keys, which wakes nobody, makes no further job startable.
LEMMA RetainWakes ==
  ASSUME IInv, NoLostWakeup, NEW desired, RetainDesiredKeys(desired)
  PROVE  NoLostWakeup'
  <1>1. IInv' /\ generations' = generations /\ pc' = pc
    BY RetainDesiredKeysStep DEF RetainDesiredKeys
  <1>2. LaneClosed' = LaneClosed
    BY LaneUnchanged DEF RetainDesiredKeys
  <1>3. \A c \in Key : queued'[c] # None => queued'[c] = queued[c]
    BY RetainType DEF RetainDesiredKeys, IInv, TypeOK
  <1>4. \A c \in Key : queued'[c] # None =>
          EntryOf(generations, queued', c) = EntryOf(generations, queued, c)
    BY <1>3 DEF EntryOf
  <1>5. StartableJobs' =
          {EntryOf(generations, queued', c) :
             c \in {d \in QueuedKeys(queued') : ~(Speculative(queued'[d].class) /\ LaneClosed)}}
    BY <1>1, <1>2, StartableJobsByKeyNext DEF StartableByKey
  <1>6. StartableJobs' \subseteq StartableJobs
    BY <1>3, <1>4, <1>5, StartableJobsByKey DEF QueuedKeys, StartableByKey
  <1>7. Cardinality(StartableJobs') <= Cardinality(StartableJobs)
    BY <1>6, StartableFinite, FS_Subset
  <1>8. Waiting' = Waiting /\ Idle' = Idle
    BY <1>1 DEF Waiting, Idle
  <1>9. IsFiniteSet(StartableJobs) /\ IsFiniteSet(StartableJobs')
    BY <1>1, StartableFinite, StartableFiniteNext
  <1>10. QED
    BY <1>7, <1>8, <1>9, IdleFinite, FS_CardinalityType DEF NoLostWakeup, StartableJobs

\* A started job leaves the heap with the worker that took it, and can only
\* close the lane.
LEMMA TakeWakes ==
  ASSUME IInv, NoLostWakeup, NEW u \in Worker, Take(u)
  PROVE  NoLostWakeup'
  <1>. USE NoneAssumption
  <1>1. PICK e \in heap :
          /\ IsNext(e)
          /\ Remove({e} \cup {f \in heap : Before(f, e) /\ Unfit(f)})
          /\ running' = [running EXCEPT ![e.id] =
                [key |-> e.key, class |-> queued[e.key].class, cancelled |-> FALSE]]
    BY DEF Take
  <1>2. /\ pc[u] = "idle" /\ pc' = [pc EXCEPT ![u] = "taken"]
        /\ generations' = generations /\ maxSpeculative' = maxSpeculative
    BY DEF Take
  <1>3. /\ e.key \in Key /\ queued[e.key] # None /\ e.id = queued[e.key].id
        /\ queued'[e.key] = None
        /\ \A k \in Key \ {e.key} : queued'[k] = queued[k]
        /\ heap' = heap \ {e}
    BY <1>1, <1>2, PopOne
  <1>4. IInv'
    BY TakeStep
  <1>5. /\ running[e.id] = None /\ e.id \in JobId
        /\ \A i \in JobId \ {e.id} : running'[i] = running[i]
    BY <1>1, <1>3 DEF IInv, IdsDistinct, TypeOK, QueuedJob
  <1>6. LaneClosed => LaneClosed'
    <2>. DEFINE S == {i \in RunningIds : Speculative(running[i].class)}
    <2>1. RunningIds \subseteq RunningIds' /\ \A i \in RunningIds : running'[i] = running[i]
      BY <1>5 DEF RunningIds
    <2>2. S \subseteq S' /\ S' \subseteq JobId
      BY <2>1 DEF RunningIds
    <2>. HIDE DEF S
    <2>3. IsFiniteSet(S') /\ IsFiniteSet(S)
      <3>1. IsFiniteSet(JobId)
        BY BoundAssumption, FS_Interval DEF JobId
      <3>2. QED
        BY <2>2, <3>1, FS_Subset
    <2>4. /\ Cardinality(S) <= Cardinality(S')
          /\ Cardinality(S) \in Nat /\ Cardinality(S') \in Nat
      BY <2>2, <2>3, FS_Subset, FS_CardinalityType
    <2>5. maxSpeculative \in Nat
      BY DEF IInv, TypeOK
    <2>. USE DEF S
    <2>6. QED
      BY <1>2, <2>1, <2>4, <2>5 DEF LaneClosed
  <1>7. StartableJobs' \subseteq StartableJobs \ {e}
    <2>1. StartableJobs' =
            {EntryOf(generations, queued', c) :
               c \in {d \in QueuedKeys(queued') : ~(Speculative(queued'[d].class) /\ LaneClosed')}}
      BY <1>2, <1>4, StartableJobsByKeyNext DEF StartableByKey
    <2>2. \A c \in QueuedKeys(queued') :
            /\ c \in QueuedKeys(queued) /\ queued'[c] = queued[c]
            /\ EntryOf(generations, queued', c) = EntryOf(generations, queued, c)
      BY <1>3 DEF QueuedKeys, EntryOf
    <2>3. StartableJobs' \subseteq StartableJobs
      BY <1>6, <2>1, <2>2, StartableJobsByKey DEF StartableByKey
    <2>4. QED
      BY <1>3, <2>3 DEF StartableJobs
  <1>8. e \in StartableJobs
    BY <1>1 DEF IsNext, StartableJobs
  <1>9. Idle' = Idle \ {u} /\ u \in Idle /\ Waiting' = Waiting
    BY <1>2 DEF Idle, Waiting, IInv, TypeOK
  <1>10. /\ Cardinality(StartableJobs \ {e}) = Cardinality(StartableJobs) - 1
         /\ IsFiniteSet(StartableJobs \ {e})
    BY <1>8, StartableFinite, FS_RemoveElement
  <1>11. Cardinality(StartableJobs') <= Cardinality(StartableJobs \ {e})
    BY <1>7, <1>10, FS_Subset
  <1>12. Cardinality(Idle') = Cardinality(Idle) - 1
    BY <1>9, IdleFinite, FS_RemoveElement
  <1>13. IsFiniteSet(StartableJobs) /\ IsFiniteSet(StartableJobs')
    BY <1>4, StartableFinite, StartableFiniteNext
  <1>14. /\ Cardinality(StartableJobs) \in Nat /\ Cardinality(StartableJobs') \in Nat
         /\ Cardinality(Idle) \in Nat
    BY <1>13, IdleFinite, FS_CardinalityType
  <1>15. QED
    BY <1>9, <1>10, <1>11, <1>12, <1>14 DEF NoLostWakeup, StartableJobs

\* A worker sleeps, or leaves, only when nothing could start.
LEMMA SleepWakes ==
  ASSUME IInv, NEW u \in Worker, Sleep(u) \/ Exit(u)
  PROVE  NoLostWakeup'
  <1>1. heap' = heap /\ queued' = queued
    BY PopNone DEF Sleep, Exit
  <1>2. UNCHANGED <<generations, running, maxSpeculative>> /\ StartableJobs = {}
    BY DEF Sleep, Exit, NothingStartable, StartableJobs
  <1>3. StartableJobs' = {}
    BY <1>1, <1>2 DEF StartableJobs, Startable, Unfit, LaneClosed, RunningIds
  <1>4. Cardinality(StartableJobs') = 0
    BY <1>3, FS_EmptySet
  <1>5. IsFiniteSet(Idle')
    BY WorkerAssumption, FS_Subset DEF Idle
  <1>6. Cardinality(Idle') \in Nat
    BY <1>5, FS_CardinalityType
  <1>7. QED
    BY <1>4, <1>6 DEF NoLostWakeup, StartableJobs

\* Starting to decode, sending and waking up take no worker from the search.
LEMMA MoveWakes ==
  ASSUME IInv, NoLostWakeup, NEW u \in Worker, WakeSpuriously(u) \/ StartDecode(u) \/ Send(u)
  PROVE  NoLostWakeup'
  <1>1. UNCHANGED queueVars
    BY DEF WakeSpuriously, StartDecode, Send
  <1>2. StartableJobs' = StartableJobs
    BY <1>1 DEF queueVars, StartableJobs, Startable, Unfit, LaneClosed, RunningIds
  <1>3. Idle \subseteq Idle' /\ Waiting' \subseteq Waiting
    BY DEF WakeSpuriously, StartDecode, Send, Idle, Waiting, IInv, TypeOK
  <1>4. IsFiniteSet(Idle')
    BY WorkerAssumption, FS_Subset DEF Idle
  <1>5. Cardinality(Idle) <= Cardinality(Idle')
    BY <1>3, <1>4, FS_Subset
  <1>6. /\ Cardinality(Idle) \in Nat /\ Cardinality(Idle') \in Nat
        /\ Cardinality(StartableJobs) \in Nat
    BY <1>4, IdleFinite, StartableFinite, FS_CardinalityType
  <1>7. QED
    BY <1>2, <1>3, <1>5, <1>6 DEF NoLostWakeup, StartableJobs

\* finish notifies everybody.
LEMMA FinishWakes ==
  ASSUME IInv, NEW u \in Worker, NEW next \in {"idle", "sending"}, Finish(u, next)
  PROVE  NoLostWakeup'
  <1>1. \A w \in Worker : Awake(pc)[w] # "waiting"
    BY DEF Awake
  <1>2. \A w \in Worker : pc'[w] # "waiting"
    BY <1>1 DEF Finish, Awake
  <1>3. QED
    BY <1>2, NobodyAsleep

\* The UI notifies after every change that could let a job start.
LEMMA UIStepWakes == ASSUME IInv, NoLostWakeup, UIStep PROVE NoLostWakeup'
  <1>1. CASE pc' = Awake(pc)
    BY <1>1, NobodyAsleep DEF Awake
  <1>2. CASE BeginNewGeneration \/ BeginLazyGeneration
    BY <1>1, <1>2 DEF BeginNewGeneration, BeginLazyGeneration, SetGenerations
  <1>3. CASE \E k \in Key, class \in Class, distance \in Distance :
               k.gen <= Newest /\ Submit(k, class, distance)
    BY <1>3, SubmitWakes
  <1>4. CASE \E withdrawn \in SUBSET HeldKeys : RetainDesiredKeys(Key \ withdrawn)
    BY <1>4, RetainWakes
  <1>5. CASE \E max \in 0 .. 1 : SetMaxSpeculative(max)
    BY <1>1, <1>5 DEF SetMaxSpeculative
  <1>6. CASE Shutdown
    BY <1>1, <1>6 DEF Shutdown
  <1>7. QED
    BY <1>2, <1>3, <1>4, <1>5, <1>6 DEF UIStep

\* No worker step leaves a job behind that a sleeping worker would have to start.
LEMMA WorkerStepWakes ==
  ASSUME IInv, NoLostWakeup, NEW w \in Worker, WorkerStep(w) \/ WakeSpuriously(w)
  PROVE  NoLostWakeup'
  <1>1. CASE Take(w)
    BY <1>1, TakeWakes
  <1>2. CASE Sleep(w) \/ Exit(w)
    BY <1>2, SleepWakes
  <1>3. CASE WakeSpuriously(w) \/ StartDecode(w) \/ Send(w)
    BY <1>3, MoveWakes
  <1>4. CASE SkipCancelled(w) \/ FinishWanted(w) \/ FinishUnwanted(w)
    BY <1>4, FinishWakes DEF SkipCancelled, FinishWanted, FinishUnwanted
  <1>5. QED
    BY <1>1, <1>2, <1>3, <1>4 DEF WorkerStep

\* Whenever a worker sleeps, every job that could start has a worker of its
\* own on the way to look for it: one notification per submission suffices, and
\* retain_desired_keys needs none (submit, retain_desired_keys, wait_take).
THEOREM NoWakeupIsLost == Spec => []NoLostWakeup
  <1>1. Init => NoLostWakeup
    BY DEF Init, NoLostWakeup, Waiting
  <1>2. IInv /\ NoLostWakeup /\ [Next]_vars => NoLostWakeup'
    <2>. SUFFICES ASSUME IInv, NoLostWakeup, [Next]_vars PROVE NoLostWakeup'
      OBVIOUS
    <2>1. CASE UIStep
      BY <2>1, UIStepWakes
    <2>2. CASE \E w \in Worker : WorkerStep(w) \/ WakeSpuriously(w)
      BY <2>2, WorkerStepWakes
    <2>3. CASE UNCHANGED vars
      BY <2>3 DEF vars, queueVars, NoLostWakeup, Waiting, Idle, Startable, Unfit, LaneClosed,
              RunningIds
    <2>4. QED
      BY <2>1, <2>2, <2>3 DEF Next
  <1>3. QED
    BY <1>1, <1>2, Invariance, PTL DEF Spec

-----------------------------------------------------------------------------
(* Priorities *)

\* A job goes before another or after it, never both.
LEMMA BeforeAsymmetric ==
  ASSUME NEW e \in HeapEntry, NEW f \in HeapEntry, Before(e, f) PROVE ~Before(f, e)
  <1>1. ASSUME NEW g \in HeapEntry
        PROVE  g.genRank \in Int /\ g.classRank \in Int /\ g.distance \in Int /\ g.id \in Int
    <2>1. g.genRank \in 1 .. 2 /\ g.classRank \in 1 .. 3 /\ g.distance \in Distance /\ g.id \in JobId
      BY DEF HeapEntry
    <2>2. g.genRank \in Int /\ g.classRank \in Int
      BY <2>1
    <2>3. g.distance \in Nat
      BY <2>1, DistanceAssumption, Zenon
    <2>4. g.id \in Int
      BY <2>1, BoundAssumption DEF JobId
    <2>5. QED
      BY <2>2, <2>3, <2>4
  <1>2. QED
    BY <1>1 DEF Before

\* Only wait_take turns an idle worker into one that holds a job.
LEMMA OnlyTakeStarts ==
  ASSUME IInv, Next, NEW w \in Worker, pc[w] = "idle", pc'[w] = "taken"
  PROVE  Take(w)
  <1>1. pc' # pc /\ pc' # Awake(pc) /\ pc' \notin OneWoken(pc)
    BY DEF Awake, OneWoken, IInv, TypeOK
  <1>2. ~UIStep
    BY <1>1 DEF UIStep, BeginNewGeneration, BeginLazyGeneration, SetGenerations, Submit,
            RetainDesiredKeys, SetMaxSpeculative, Shutdown
  <1>3. PICK u \in Worker : WorkerStep(u) \/ WakeSpuriously(u)
    BY <1>2 DEF Next
  <1>4. ASSUME ~Take(u) PROVE FALSE
    <2>1. \A to : pc' = [pc EXCEPT ![u] = to] => u = w /\ to = "taken"
      BY DEF IInv, TypeOK
    <2>2. \A to : pc' = [Awake(pc) EXCEPT ![u] = to] => u = w /\ to = "taken"
      BY DEF IInv, TypeOK, Awake
    <2>3. QED
      BY <1>3, <1>4, <2>1, <2>2 DEF WorkerStep, WakeSpuriously, Sleep, Exit, SkipCancelled,
         StartDecode, FinishWanted, FinishUnwanted, Send, Finish
  <1>5. u = w
    BY <1>3, <1>4 DEF Take, IInv, TypeOK
  <1>6. QED
    BY <1>4, <1>5

\* A worker that takes a job takes the most urgent one that may start, by the
\* priorities of this moment (rebuild_heap, pop_next).
THEOREM MostUrgentFirst == Spec => TakesMostUrgent
  <1>1. IInv /\ [Next]_vars =>
          [\A w \in Worker : pc[w] = "idle" /\ pc'[w] = "taken" =>
             \A k \in Key : queued[k] # None /\ MoreUrgent(k, job'[w].key) =>
                 Speculative(queued[k].class) /\ LaneClosed]_vars
    <2>. SUFFICES ASSUME IInv, Next, NEW w \in Worker, pc[w] = "idle", pc'[w] = "taken",
                         NEW k \in Key, queued[k] # None, MoreUrgent(k, job'[w].key)
                  PROVE  Speculative(queued[k].class) /\ LaneClosed
      OBVIOUS
    <2>1. PICK e \in heap : IsNext(e) /\ job' = [job EXCEPT ![w] = [id |-> e.id, key |-> e.key]]
      BY OnlyTakeStarts DEF Take
    <2>2. job'[w].key = e.key
      BY <2>1 DEF IInv, TypeOK
    <2>3. PICK c \in QueuedKeys(queued) : e = EntryOf(generations, queued, c)
      BY DEF IInv, HeapMirrorsQueued, RebuiltHeap
    <2>4. e.key = c
      BY <2>3 DEF EntryOf
    <2>. DEFINE f == EntryOf(generations, queued, k)
    <2>5. f \in heap /\ (Startable(f) <=> ~(Speculative(queued[k].class) /\ LaneClosed))
      BY HeldBackByLane
    <2>6. Before(f, e)
      BY <2>2, <2>3, <2>4 DEF MoreUrgent
    <2>. HIDE DEF f
    <2>7. e \in HeapEntry /\ f \in HeapEntry
      BY <2>5 DEF IInv, TypeOK
    <2>8. ~Before(e, f) /\ f # e
      BY <2>6, <2>7, BeforeAsymmetric
    <2>9. QED
      BY <2>1, <2>5, <2>8 DEF IsNext
  <1>2. QED
    BY <1>1, Invariance, PTL DEF Spec, TakesMostUrgent

=============================================================================
