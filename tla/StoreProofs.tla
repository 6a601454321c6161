------------------------------ MODULE StoreProofs ------------------------------
(***************************************************************************)
(* What the database keeps, for any number of paths, records, files, rows,  *)
(* generations and events.  Identity: the tables that tell which record a   *)
(* path and a fingerprint belong to agree in every state, although two      *)
(* threads decide on what they read before, and what the user attached to a *)
(* record stays.  Settings: what the user said of a file is what the file   *)
(* shows after it was moved and migrated.  Backups: every state the user    *)
(* has not let go of is in a file that can be restored, and the names of    *)
(* the files tell their age, whatever the clock does.  With the page cache,  *)
(* they are what MCStores takes side by side.                                *)
(***************************************************************************)
EXTENDS MCStores, CacheProofs

Prints == Bodies \cup {NoFp}

TablesTyped ==
  /\ ids \in [Ids -> Records \cup {NoRec}] /\ index \in [Paths -> 0 .. MaxId]
  /\ fps \subseteq Bodies \X Ids /\ next \in Nat \ {0}
  /\ disk \in [Paths -> Files \cup {NoFile}] /\ events \in 0 .. MaxEvents

\* What a decision says of the path it was made for, and keeps saying: its record and
\* the orphan are not the same, for the orphan was seen elsewhere.
Sound(d, p) ==
  /\ d.fp \in Prints /\ d.do \in {"update", "merge", "move", "create"}
  /\ d.do \in {"update", "merge"} => d.id \in Ids
  /\ d.do \in {"move", "create"} => d.id = 0
  /\ d.do \in {"merge", "move"} => d.orphan \in Ids /\ d.was # p

JobOK(j) ==
  /\ j.at \in {"observed", "decided"} =>
       j.path \in Paths /\ j.stat \in 1 .. MaxEvents /\ j.fp \in Prints
  /\ j.at = "decided" => Sound(j.d, j.path)
  /\ j.at = "adopt" => j.blank \in Ids /\ j.orphan \in Ids
  /\ j.at = "delete" => j.id \in Ids

JobsOK == job = [t \in Threads |-> job[t]] /\ \A t \in Threads : JobOK(job[t])

IInv == TablesTyped /\ IndexesAgree /\ JobsOK

-------------------------------------------------------------------------------
(* Records and jobs *)

LEMMA RecordExists ==
  ASSUME NEW r \in Records
  PROVE  r # NoRec
<1>1. DOMAIN r = {"path", "stat", "fp", "confirmed"}
  BY DEF Records
<1>2. DOMAIN NoRec = {"path"}
  BY DEF NoRec
<1> QED
  BY <1>1, <1>2

LEMMA SeenIsRecord ==
  ASSUME NEW p \in Paths, NEW stat \in 1 .. MaxEvents, NEW fp \in Prints
  PROVE  /\ Seen(p, stat, fp) \in Records /\ Seen(p, stat, fp) # NoRec
         /\ Seen(p, stat, fp).path = p /\ Seen(p, stat, fp).fp = fp
<1>1. Seen(p, stat, fp) \in Records
  BY DEF Seen, Records, Prints
<1> QED
  BY <1>1, RecordExists DEF Seen

LEMMA GoLands ==
  ASSUME JobsOK, NEW t \in Threads, NEW j, JobOK(j), Go(t, j)
  PROVE  JobsOK'
<1>1. job' = [job EXCEPT ![t] = j] /\ job = [u \in Threads |-> job[u]]
  BY DEF Go, JobsOK
<1>2. job' = [u \in Threads |-> job'[u]]
  BY <1>1
<1>3. job'[t] = j /\ \A u \in Threads \ {t} : job'[u] = job[u]
  BY <1>1
<1>4. \A u \in Threads : JobOK(job'[u])
  BY <1>3 DEF JobsOK
<1>5. \A u \in Threads : JobOK(job[u])'
  BY <1>4 DEF JobOK
<1> QED
  BY <1>2, <1>5 DEF JobsOK

\* Jobs that refer to no path or record.
LEMMA PlainJob ==
  ASSUME NEW j, j.at \notin {"observed", "decided", "adopt", "delete"}
  PROVE  JobOK(j)
BY DEF JobOK

-------------------------------------------------------------------------------
(* The operations on the tables *)

\* fp_index_replace
LEMMA RefpAgrees ==
  ASSUME NEW F, NEW i \in Ids, NEW new \in Prints, NoFp \notin Bodies,
         F \subseteq Bodies \X Ids
  PROVE  /\ Refp(F, i, new) \subseteq Bodies \X Ids
         /\ \A b \in Bodies, k \in Ids :
              <<b, k>> \in Refp(F, i, new) <=> IF k = i THEN b = new ELSE <<b, k>> \in F
<1>1. CASE new = NoFp
  BY <1>1 DEF Refp, Prints
<1>2. CASE new # NoFp
  BY <1>2 DEF Refp, Prints
<1> QED
  BY <1>1, <1>2

LEMMA RewriteKeeps ==
  ASSUME IdentityAssumption, TablesTyped, IndexesAgree,
         NEW p \in Paths, NEW i \in Ids, index[p] = i,
         NEW stat \in 1 .. MaxEvents, NEW fp \in Prints, Rewrite(i, p, stat, fp),
         UNCHANGED world
  PROVE  TablesTyped' /\ IndexesAgree'
<1> DEFINE r == Seen(p, stat, fp)
<1>1. r \in Records /\ r # NoRec /\ r.path = p /\ r.fp = fp
  BY SeenIsRecord
<1>2. /\ ids' = [ids EXCEPT ![i] = r] /\ fps' = Refp(fps, i, fp)
      /\ index' = index /\ next' = next /\ disk' = disk /\ events' = events
  BY DEF Rewrite, world
<1> HIDE DEF r
<1>3. ids'[i] = r /\ \A k \in Ids \ {i} : ids'[k] = ids[k]
  BY <1>2 DEF TablesTyped
<1>4. /\ fps' \subseteq Bodies \X Ids
      /\ \A b \in Bodies, k \in Ids :
           <<b, k>> \in fps' <=> IF k = i THEN b = fp ELSE <<b, k>> \in fps
  BY <1>2, RefpAgrees DEF TablesTyped, IdentityAssumption
<1>5. Exists(i) /\ ids[i].path = p
  BY DEF IndexesAgree, PathsAgree, Ids, IdentityAssumption
<1>6. TablesTyped'
  BY <1>1, <1>2, <1>4 DEF TablesTyped
<1>7. PathsAgree'
  BY <1>1, <1>2, <1>3, <1>5 DEF IndexesAgree, PathsAgree, Exists, TablesTyped, Ids
<1>8. RecordsAgree'
  BY <1>1, <1>2, <1>3, <1>5 DEF IndexesAgree, RecordsAgree, Exists
<1>9. PrintsAgree'
  <2> SUFFICES ASSUME NEW k \in Ids, NEW b \in Bodies
               PROVE  <<b, k>> \in fps' <=> ids'[k] # NoRec /\ ids'[k].fp = b
    BY DEF PrintsAgree, Exists
  <2>1. CASE k = i
    BY <1>1, <1>3, <1>4, <2>1
  <2>2. CASE k # i
    BY <1>3, <1>4, <2>2 DEF IndexesAgree, PrintsAgree, Exists
  <2> QED
    BY <2>1, <2>2
<1>10. Unused'
  BY <1>2, <1>3, <1>5 DEF IndexesAgree, Unused, Exists
<1> QED
  BY <1>6, <1>7, <1>8, <1>9, <1>10 DEF IndexesAgree

\* A new record takes a path that no record has.
LEMMA CreateKeeps ==
  ASSUME IdentityAssumption, TablesTyped, IndexesAgree,
         NEW p \in Paths, index[p] = 0,
         NEW stat \in 1 .. MaxEvents, NEW fp \in Prints, Create(p, stat, fp),
         UNCHANGED world
  PROVE  TablesTyped' /\ IndexesAgree' /\ index'[p] \in Ids
<1> DEFINE r == Seen(p, stat, fp)
           i == next
<1>1. r \in Records /\ r # NoRec /\ r.path = p /\ r.fp = fp
  BY SeenIsRecord
<1>2. i \in Ids /\ i \in Nat /\ i # 0 /\ MaxId \in Nat /\ next + 1 \in Nat \ {0}
  BY DEF Create, TablesTyped, Ids, IdentityAssumption
<1>3. /\ ids' = [ids EXCEPT ![i] = r] /\ fps' = Refp(fps, i, fp)
      /\ index' = [index EXCEPT ![p] = i] /\ next' = i + 1
      /\ disk' = disk /\ events' = events
  BY DEF Create, world
<1>4. ~Exists(i)
  BY <1>2 DEF IndexesAgree, Unused
<1>5. /\ \A k \in Ids : k >= next + 1 => k >= next /\ k # next
  BY <1>2 DEF Ids
<1> HIDE DEF r, i
<1>6. ids'[i] = r /\ \A k \in Ids \ {i} : ids'[k] = ids[k]
  BY <1>2, <1>3 DEF TablesTyped
<1>7. index'[p] = i /\ \A q \in Paths \ {p} : index'[q] = index[q]
  BY <1>3 DEF TablesTyped
<1>8. /\ fps' \subseteq Bodies \X Ids
      /\ \A b \in Bodies, k \in Ids :
           <<b, k>> \in fps' <=> IF k = i THEN b = fp ELSE <<b, k>> \in fps
  BY <1>2, <1>3, RefpAgrees DEF TablesTyped, IdentityAssumption
<1>9. TablesTyped'
  <2>1. index' \in [Paths -> 0 .. MaxId]
    BY <1>2, <1>3 DEF TablesTyped, Ids
  <2>2. ids' \in [Ids -> Records \cup {NoRec}]
    BY <1>1, <1>3 DEF TablesTyped
  <2>3. next' \in Nat \ {0}
    BY <1>2, <1>3 DEF i
  <2> QED
    BY <1>3, <1>8, <2>1, <2>2, <2>3 DEF TablesTyped
<1>10. PathsAgree'
  <2> SUFFICES ASSUME NEW q \in Paths, index'[q] # 0
               PROVE  ids'[index'[q]] # NoRec /\ ids'[index'[q]].path = q
    BY DEF PathsAgree, Exists
  <2>1. CASE q = p
    BY <1>1, <1>6, <1>7, <2>1
  <2>2. CASE q # p
    <3>1. index'[q] = index[q] /\ index[q] \in Ids /\ Exists(index[q]) /\ ids[index[q]].path = q
      BY <1>7, <2>2 DEF IndexesAgree, PathsAgree, TablesTyped, Ids
    <3> QED
      BY <1>4, <1>6, <3>1 DEF Exists
  <2> QED
    BY <2>1, <2>2
<1>11. RecordsAgree'
  <2> SUFFICES ASSUME NEW k \in Ids, ids'[k] # NoRec
               PROVE  index'[ids'[k].path] = k
    BY DEF RecordsAgree, Exists
  <2>1. CASE k = i
    BY <1>1, <1>6, <1>7, <2>1
  <2>2. CASE k # i
    <3>1. ids'[k] = ids[k] /\ Exists(k) /\ index[ids[k].path] = k /\ ids[k].path \in Paths
      BY <1>6, <2>2 DEF IndexesAgree, RecordsAgree, TablesTyped, Exists, Records
    <3>2. ids[k].path # p
      BY <3>1 DEF Ids
    <3> QED
      BY <1>7, <3>1, <3>2
  <2> QED
    BY <2>1, <2>2
<1>12. PrintsAgree'
  <2> SUFFICES ASSUME NEW k \in Ids, NEW b \in Bodies
               PROVE  <<b, k>> \in fps' <=> ids'[k] # NoRec /\ ids'[k].fp = b
    BY DEF PrintsAgree, Exists
  <2>1. CASE k = i
    BY <1>1, <1>6, <1>8, <2>1
  <2>2. CASE k # i
    BY <1>6, <1>8, <2>2 DEF IndexesAgree, PrintsAgree, Exists
  <2> QED
    BY <2>1, <2>2
<1>13. Unused'
  <2> SUFFICES ASSUME NEW k \in Ids, k >= next' PROVE ids'[k] = NoRec
    BY DEF Unused, Exists
  <2>1. k # i /\ k >= next
    BY <1>3, <1>5 DEF i
  <2> QED
    BY <1>6, <2>1 DEF IndexesAgree, Unused, Exists
<1> QED
  BY <1>2, <1>7, <1>9, <1>10, <1>11, <1>12, <1>13 DEF IndexesAgree

\* A record moves to a path whose record, if there is one, is given up.
LEMMA RelocateKeeps ==
  ASSUME IdentityAssumption, TablesTyped, IndexesAgree,
         NEW p \in Paths, NEW i \in Ids, Exists(i), ids[i].path # p,
         NEW blank, index[p] = blank,
         NEW stat \in 1 .. MaxEvents, NEW fp \in Prints, Relocate(i, p, stat, fp, blank),
         UNCHANGED world
  PROVE  TablesTyped' /\ IndexesAgree' /\ index'[p] = i
<1> DEFINE r == Seen(p, stat, fp)
           old == ids[i].path
           F == {x \in fps : x[2] # blank}
<1>1. r \in Records /\ r # NoRec /\ r.path = p /\ r.fp = fp
  BY SeenIsRecord
<1>2. /\ ids' = [k \in Ids |-> IF k = i THEN r ELSE IF k = blank THEN NoRec ELSE ids[k]]
      /\ index' = [index EXCEPT ![old] = 0, ![p] = i]
      /\ fps' = Refp(F, i, fp) /\ next' = next /\ disk' = disk /\ events' = events
  BY DEF Relocate, world
<1>3. old \in Paths /\ old # p /\ index[old] = i /\ blank \in 0 .. MaxId /\ blank # i
  BY DEF TablesTyped, Exists, Records, IndexesAgree, RecordsAgree, PathsAgree, Ids
<1>4. F \subseteq Bodies \X Ids /\ \A b \in Bodies, k \in Ids :
                                     <<b, k>> \in F <=> <<b, k>> \in fps /\ k # blank
  BY DEF TablesTyped
<1> HIDE DEF r, old, F
<1>5. /\ ids'[i] = r /\ (blank # 0 => ids'[blank] = NoRec)
      /\ \A k \in Ids \ {i, blank} : ids'[k] = ids[k]
  BY <1>2, <1>3 DEF Ids
<1>6. /\ index'[p] = i /\ index'[old] = 0
      /\ \A q \in Paths \ {p, old} : index'[q] = index[q]
  BY <1>2, <1>3 DEF TablesTyped
<1>7. /\ fps' \subseteq Bodies \X Ids
      /\ \A b \in Bodies, k \in Ids :
           <<b, k>> \in fps' <=> IF k = i THEN b = fp ELSE <<b, k>> \in fps /\ k # blank
  BY <1>2, <1>4, RefpAgrees DEF IdentityAssumption
<1>8. TablesTyped'
  <2>1. index' \in [Paths -> 0 .. MaxId]
    BY <1>2, <1>3 DEF TablesTyped, Ids, IdentityAssumption
  <2>2. ids' \in [Ids -> Records \cup {NoRec}]
    BY <1>1, <1>2 DEF TablesTyped
  <2> QED
    BY <1>2, <1>7, <2>1, <2>2 DEF TablesTyped
<1>9. PathsAgree'
  <2> SUFFICES ASSUME NEW q \in Paths, index'[q] # 0
               PROVE  ids'[index'[q]] # NoRec /\ ids'[index'[q]].path = q
    BY DEF PathsAgree, Exists
  <2>1. CASE q = p
    BY <1>1, <1>5, <1>6, <2>1
  <2>2. CASE q # p
    <3>1. /\ index'[q] = index[q] /\ index[q] \in Ids /\ Exists(index[q])
          /\ ids[index[q]].path = q /\ q # old
      BY <1>6, <2>2 DEF IndexesAgree, PathsAgree, TablesTyped, Ids
    <3>2. index[q] # i /\ index[q] # blank
      BY <2>2, <3>1 DEF old, IndexesAgree, PathsAgree
    <3> QED
      BY <1>5, <3>1, <3>2 DEF Exists
  <2> QED
    BY <2>1, <2>2
<1>10. RecordsAgree'
  <2> SUFFICES ASSUME NEW k \in Ids, ids'[k] # NoRec
               PROVE  index'[ids'[k].path] = k
    BY DEF RecordsAgree, Exists
  <2>1. CASE k = i
    BY <1>1, <1>5, <1>6, <2>1
  <2>2. CASE k # i
    <3>1. k # blank
      BY <1>5 DEF Ids
    <3>2. ids'[k] = ids[k] /\ Exists(k) /\ index[ids[k].path] = k /\ ids[k].path \in Paths
      BY <1>5, <2>2, <3>1 DEF IndexesAgree, RecordsAgree, TablesTyped, Exists, Records
    <3>3. ids[k].path # p /\ ids[k].path # old
      BY <1>3, <2>2, <3>1, <3>2
    <3> QED
      BY <1>6, <3>2, <3>3
  <2> QED
    BY <2>1, <2>2
<1>11. PrintsAgree'
  <2> SUFFICES ASSUME NEW k \in Ids, NEW b \in Bodies
               PROVE  <<b, k>> \in fps' <=> ids'[k] # NoRec /\ ids'[k].fp = b
    BY DEF PrintsAgree, Exists
  <2>1. CASE k = i
    BY <1>1, <1>5, <1>7, <2>1
  <2>2. CASE k # i /\ k = blank
    BY <1>5, <1>7, <2>2 DEF Ids
  <2>3. CASE k # i /\ k # blank
    BY <1>5, <1>7, <2>3 DEF IndexesAgree, PrintsAgree, Exists
  <2> QED
    BY <2>1, <2>2, <2>3
<1>12. Unused'
  <2> SUFFICES ASSUME NEW k \in Ids, k >= next PROVE ids'[k] = NoRec
    BY <1>2 DEF Unused, Exists
  <2>1. ids[k] = NoRec
    BY DEF IndexesAgree, Unused, Exists
  <2>2. k # i
    BY <2>1 DEF Exists
  <2>3. CASE k = blank
    BY <1>5, <2>3 DEF Ids
  <2>4. CASE k # blank
    BY <1>5, <2>1, <2>2, <2>4
  <2> QED
    BY <2>3, <2>4
<1> QED
  BY <1>6, <1>8, <1>9, <1>10, <1>11, <1>12 DEF IndexesAgree

\* delete_id
LEMMA DeleteKeeps ==
  ASSUME IdentityAssumption, TablesTyped, IndexesAgree, NEW i \in Ids,
         ids' = [ids EXCEPT ![i] = NoRec],
         index' = [p \in Paths |-> IF index[p] = i THEN 0 ELSE index[p]],
         fps' = {x \in fps : x[2] # i}, next' = next, UNCHANGED world
  PROVE  TablesTyped' /\ IndexesAgree'
<1>1. ids'[i] = NoRec /\ \A k \in Ids \ {i} : ids'[k] = ids[k]
  BY DEF TablesTyped
<1>2. \A p \in Paths : index'[p] = IF index[p] = i THEN 0 ELSE index[p]
  OBVIOUS
<1>3. /\ fps' \subseteq Bodies \X Ids
      /\ \A b \in Bodies, k \in Ids : <<b, k>> \in fps' <=> <<b, k>> \in fps /\ k # i
  BY DEF TablesTyped
<1>4. TablesTyped'
  <2>1. index' \in [Paths -> 0 .. MaxId]
    BY DEF TablesTyped, IdentityAssumption
  <2> QED
    BY <1>3, <2>1 DEF TablesTyped, world
<1>5. PathsAgree'
  <2> SUFFICES ASSUME NEW q \in Paths, index'[q] # 0
               PROVE  ids'[index'[q]] # NoRec /\ ids'[index'[q]].path = q
    BY DEF PathsAgree, Exists
  <2>1. index'[q] = index[q] /\ index[q] # i /\ index[q] \in Ids
    BY <1>2 DEF TablesTyped, Ids
  <2> QED
    BY <1>1, <2>1 DEF IndexesAgree, PathsAgree, Exists
<1>6. RecordsAgree'
  <2> SUFFICES ASSUME NEW k \in Ids, ids'[k] # NoRec
               PROVE  index'[ids'[k].path] = k
    BY DEF RecordsAgree, Exists
  <2>1. k # i /\ ids'[k] = ids[k]
    BY <1>1
  <2>2. index[ids[k].path] = k /\ ids[k].path \in Paths
    BY <2>1 DEF IndexesAgree, RecordsAgree, Exists, TablesTyped, Records
  <2> QED
    BY <1>2, <2>1, <2>2
<1>7. PrintsAgree'
  <2> SUFFICES ASSUME NEW k \in Ids, NEW b \in Bodies
               PROVE  <<b, k>> \in fps' <=> ids'[k] # NoRec /\ ids'[k].fp = b
    BY DEF PrintsAgree, Exists
  <2>1. CASE k = i
    BY <1>1, <1>3, <2>1
  <2>2. CASE k # i
    BY <1>1, <1>3, <2>2 DEF IndexesAgree, PrintsAgree, Exists
  <2> QED
    BY <2>1, <2>2
<1>8. Unused'
  BY <1>1 DEF IndexesAgree, Unused, Exists
<1> QED
  BY <1>4, <1>5, <1>6, <1>7, <1>8 DEF IndexesAgree

\* mark_unconfirmed
LEMMA UnconfirmKeeps ==
  ASSUME TablesTyped, IndexesAgree, NEW i \in Ids, Exists(i),
         ids' = [ids EXCEPT ![i].confirmed = FALSE], UNCHANGED <<world, index, fps, next>>
  PROVE  TablesTyped' /\ IndexesAgree'
<1> DEFINE r == [ids[i] EXCEPT !.confirmed = FALSE]
<1>1. ids[i] \in Records
  BY DEF TablesTyped, Exists
<1>2. r \in Records /\ r.path = ids[i].path /\ r.fp = ids[i].fp
  BY <1>1 DEF Records
<1>3. ids' = [ids EXCEPT ![i] = r]
  BY DEF TablesTyped
<1> HIDE DEF r
<1>4. ids'[i] = r /\ \A k \in Ids \ {i} : ids'[k] = ids[k]
  BY <1>3 DEF TablesTyped
<1>5. r # NoRec
  BY <1>2, RecordExists
<1>6. \A k \in Ids : /\ ids'[k] # NoRec <=> Exists(k)
                     /\ ids'[k].path = ids[k].path /\ ids'[k].fp = ids[k].fp
  BY <1>2, <1>4, <1>5 DEF Exists
<1>7. TablesTyped'
  BY <1>2, <1>3 DEF TablesTyped, world
<1>8. PathsAgree'
  <2> SUFFICES ASSUME NEW q \in Paths, index[q] # 0
               PROVE  ids'[index[q]] # NoRec /\ ids'[index[q]].path = q
    BY DEF PathsAgree, Exists
  <2>1. index[q] \in Ids
    BY DEF TablesTyped, Ids
  <2> QED
    BY <1>6, <2>1 DEF IndexesAgree, PathsAgree
<1>9. RecordsAgree' /\ PrintsAgree' /\ Unused'
  BY <1>6 DEF IndexesAgree, RecordsAgree, PrintsAgree, Unused, Exists
<1> QED
  BY <1>7, <1>8, <1>9 DEF IndexesAgree

LEMMA SameTables ==
  ASSUME TablesTyped, IndexesAgree, UNCHANGED tables,
         disk' \in [Paths -> Files \cup {NoFile}], events' \in 0 .. MaxEvents
  PROVE  TablesTyped' /\ IndexesAgree'
BY DEF tables, TablesTyped, IndexesAgree, PathsAgree, RecordsAgree, PrintsAgree, Unused,
       Exists

-------------------------------------------------------------------------------
(* Looking and deciding *)

LEMMA AfterIsPlain ==
  ASSUME NEW t, NEW p
  PROVE  JobOK(After(t, p))
<1>1. After(t, p).at \in {"idle", "found"}
  BY DEF After, Found, Idle
<1> QED
  BY <1>1, PlainJob

LEMMA LookKeeps ==
  ASSUME IdentityAssumption, IInv, NEW t \in Threads, NEW p \in Paths, Look(t, p)
  PROVE  IInv'
<1>1. JobsOK'
  BY AfterIsPlain, GoLands DEF Look, IInv
<1>2. CASE disk[p] = NoFile /\ t = "worker" /\ index[p] # 0
  <2>1. index[p] \in Ids /\ Exists(index[p])
    BY <1>2 DEF IInv, TablesTyped, IndexesAgree, PathsAgree, Ids
  <2> QED
    BY <1>1, <1>2, <2>1, UnconfirmKeeps DEF Look, IInv
<1>3. CASE ~(disk[p] = NoFile /\ t = "worker" /\ index[p] # 0)
  <2>1. UNCHANGED tables /\ UNCHANGED world
    BY <1>3 DEF Look, tables
  <2> QED
    BY <1>1, <2>1, SameTables DEF IInv, world, TablesTyped
<1> QED
  BY <1>2, <1>3

\* A step that changes only what one thread is in the middle of.
LEMMA JobStep ==
  ASSUME IInv, NEW t \in Threads, NEW j, JobOK(j), Go(t, j), UNCHANGED <<world, tables>>
  PROVE  IInv'
BY GoLands, SameTables DEF IInv, world, TablesTyped

LEMMA ObserveKeeps ==
  ASSUME IdentityAssumption, IInv, NEW t \in Threads, NEW p \in Paths, Observe(t, p)
  PROVE  IInv'
<1>1. disk[p] \in Files /\ disk[p].body \in Bodies /\ disk[p].stat \in 1 .. MaxEvents
  BY DEF Observe, IInv, TablesTyped, Files
<1>2. PICK fp \in Prints : Go(t, Resolving(p, disk[p].stat, fp))
  BY <1>1 DEF Observe, Prints
<1>3. JobOK(Resolving(p, disk[p].stat, fp))
  BY <1>1 DEF Resolving, JobOK
<1> QED
  BY <1>2, <1>3, JobStep DEF Observe

LEMMA MoveSourcesWithin ==
  ASSUME NEW S, NEW o
  PROVE  MoveSources(S, o) \subseteq S
BY DEF MoveSources, Ranked

LEMMA UpdatesSound ==
  ASSUME IInv, NEW p \in Paths, NEW o, o.path = p, o.fp \in Prints, index[p] # 0,
         NEW gone \in SUBSET Candidates(o), NEW d \in Updates(index[p], o, gone)
  PROVE  Sound(d, p)
<1> DEFINE i == index[p]
           fp == IF o.fp = NoFp THEN ids[i].fp ELSE o.fp
<1>1. i \in Ids /\ ids[i] \in Records
  BY DEF IInv, TablesTyped, IndexesAgree, PathsAgree, Exists, Ids
<1>2. fp \in Prints
  BY <1>1 DEF Records, Prints
<1> HIDE DEF fp
<1>3. \A j \in gone : j \in Ids /\ ids[j].path # p
  BY DEF Candidates
<1>4. CASE \E j \in MoveSources(gone, o) : d = Decision("merge", i, fp, j, 0, "move", {})
  <2>1. PICK j \in gone : d = Decision("merge", i, fp, j, 0, "move", {})
    BY <1>4, MoveSourcesWithin
  <2>2. /\ d.do = "merge" /\ d.fp = fp /\ d.id = i /\ d.orphan = j
        /\ d.was = IF j = 0 THEN "none" ELSE ids[j].path
    BY <2>1 DEF Decision
  <2>3. j # 0
    BY <1>3 DEF Ids
  <2> QED
    BY <1>1, <1>2, <1>3, <2>2, <2>3 DEF Sound
<1>5. CASE \E ask : d = Decision("update", i, fp, 0, 0, "move", ask)
  <2>1. d.do = "update" /\ d.fp = fp /\ d.id = i
    BY <1>5 DEF Decision
  <2> QED
    BY <1>1, <1>2, <2>1 DEF Sound
<1> QED
  BY <1>4, <1>5 DEF Updates, fp

LEMMA CreationsSound ==
  ASSUME IInv, NEW p \in Paths, NEW o, o.path = p, o.fp \in Prints,
         NEW gone \in SUBSET Candidates(o), NEW d \in Creations(o, gone)
  PROVE  Sound(d, p)
<1>1. \A j \in gone : j \in Ids /\ ids[j].path # p
  BY DEF Candidates
<1>2. CASE \E j \in MoveSources(gone, o) : d = Decision("move", 0, o.fp, j, 0, "move", {})
  <2>1. PICK j \in gone : d = Decision("move", 0, o.fp, j, 0, "move", {})
    BY <1>2, MoveSourcesWithin
  <2>2. /\ d.do = "move" /\ d.fp = o.fp /\ d.id = 0 /\ d.orphan = j
        /\ d.was = IF j = 0 THEN "none" ELSE ids[j].path
    BY <2>1 DEF Decision
  <2>3. j # 0
    BY <1>1 DEF Ids
  <2> QED
    BY <1>1, <2>2, <2>3 DEF Sound
<1>3. CASE \E fp \in Prints : \E source, kind, ask : d = Decision("create", 0, fp, 0, source, kind, ask)
  <2>1. d.do = "create" /\ d.fp \in Prints /\ d.id = 0
    BY <1>3 DEF Decision
  <2> QED
    BY <2>1 DEF Sound
<1>4. NoFp \in Prints
  BY DEF Prints
<1>5. CASE d = Decision("create", 0, NoFp, 0, 0, "copy", {})
  BY <1>3, <1>4, <1>5
<1>6. CASE d = Decision("create", 0, o.fp, 0, 0, "move", MoveAsk(gone))
  BY <1>3, <1>6
<1>7. CASE d = Decision("create", 0, o.fp, 0, CopySource(o), "copy", CopyAsk(o))
  BY <1>3, <1>7
<1> QED
  BY <1>2, <1>5, <1>6, <1>7 DEF Creations

LEMMA DecideKeeps ==
  ASSUME IdentityAssumption, IInv, NEW t \in Threads, Decide(t)
  PROVE  IInv'
<1> DEFINE o == job[t]
<1>1. o.path \in Paths /\ o.stat \in 1 .. MaxEvents /\ o.fp \in Prints
  BY DEF Decide, IInv, JobsOK, JobOK
<1>2. PICK gone \in SUBSET {c \in Candidates(o) : Absent(c)} :
        \E d \in IF index[o.path] # 0 THEN Updates(index[o.path], o, gone)
                                      ELSE Creations(o, gone) :
          Go(t, [at |-> "decided", path |-> o.path, stat |-> o.stat, fp |-> o.fp,
                 tries |-> o.tries, d |-> d])
  BY DEF Decide
<1>3. PICK d \in IF index[o.path] # 0 THEN Updates(index[o.path], o, gone)
                                      ELSE Creations(o, gone) :
          Go(t, [at |-> "decided", path |-> o.path, stat |-> o.stat, fp |-> o.fp,
                 tries |-> o.tries, d |-> d])
  BY <1>2
<1>4. gone \in SUBSET Candidates(o)
  BY <1>2
<1>5. Sound(d, o.path)
  BY <1>1, <1>3, <1>4, UpdatesSound, CreationsSound
<1>6. JobOK([at |-> "decided", path |-> o.path, stat |-> o.stat, fp |-> o.fp,
             tries |-> o.tries, d |-> d])
  BY <1>1, <1>5 DEF JobOK
<1> QED
  BY <1>3, <1>6, JobStep DEF Decide

-------------------------------------------------------------------------------
(* Applying a decision: what Holds checks again is what the operations need *)

LEMMA WriteKeeps ==
  ASSUME IdentityAssumption, IInv, NEW j, j.at = "decided", JobOK(j),
         Holds(j.d, j.path), Write(j), UNCHANGED world
  PROVE  TablesTyped' /\ IndexesAgree'
<1> DEFINE p == j.path
           d == j.d
<1>1. p \in Paths /\ j.stat \in 1 .. MaxEvents /\ j.fp \in Prints /\ Sound(d, p)
  BY DEF JobOK
<1>2. index[p] = d.id
  BY DEF Holds
<1>3. d.orphan \in Ids => Exists(d.orphan) /\ ids[d.orphan].path = d.was
  BY DEF Holds, Ids
<1>4. TablesTyped /\ IndexesAgree
  BY DEF IInv
<1>5. CASE d.do = "update"
  <2>1. Rewrite(d.id, p, j.stat, d.fp)
    BY <1>5 DEF Write
  <2>2. d.id \in Ids /\ d.fp \in Prints
    BY <1>1, <1>5 DEF Sound
  <2> HIDE DEF p, d
  <2> QED
    BY <1>1, <1>2, <1>4, <2>1, <2>2, RewriteKeeps
<1>6. CASE d.do = "merge"
  <2>1. Relocate(d.orphan, p, j.stat, j.fp, d.id)
    BY <1>6 DEF Write
  <2>2. d.orphan \in Ids /\ d.was # p
    BY <1>1, <1>6 DEF Sound
  <2> HIDE DEF p, d
  <2> QED
    BY <1>1, <1>2, <1>3, <1>4, <2>1, <2>2, RelocateKeeps
<1>7. CASE d.do = "move"
  <2>1. Relocate(d.orphan, p, j.stat, j.fp, 0)
    BY <1>7 DEF Write
  <2>2. d.orphan \in Ids /\ d.was # p /\ index[p] = 0
    BY <1>1, <1>2, <1>7 DEF Sound
  <2> HIDE DEF p, d
  <2> QED
    BY <1>1, <1>3, <1>4, <2>1, <2>2, RelocateKeeps
<1>8. CASE d.do = "create"
  <2>1. Create(p, j.stat, j.fp)
    BY <1>8 DEF Write
  <2>2. index[p] = 0
    BY <1>1, <1>2, <1>8 DEF Sound
  <2> HIDE DEF p, d
  <2> QED
    BY <1>1, <1>4, <2>1, <2>2, CreateKeeps
<1> QED
  BY <1>1, <1>5, <1>6, <1>7, <1>8 DEF Sound

LEMMA ApplyKeeps ==
  ASSUME IdentityAssumption, IInv, NEW t \in Threads, Apply(t)
  PROVE  IInv'
<1>1. JobOK(job[t])
  BY DEF IInv, JobsOK
<1>2. TablesTyped' /\ IndexesAgree'
  BY <1>1, WriteKeeps DEF Apply
<1>3. \A i : JobOK(Next1(t, job[t], i))
  <2> SUFFICES ASSUME NEW i PROVE JobOK(Next1(t, job[t], i))
    OBVIOUS
  <2>1. Next1(t, job[t], i).at \in {"found", "clone", "ask", "idle"}
    BY DEF Next1, Idle
  <2> QED
    BY <2>1, PlainJob
<1>4. PICK i : Go(t, Next1(t, job[t], i))
  BY DEF Apply
<1>5. JobsOK'
  BY <1>3, <1>4, GoLands DEF IInv
<1> QED
  BY <1>2, <1>5 DEF IInv

LEMMA ConflictKeeps ==
  ASSUME IdentityAssumption, IInv, NEW t \in Threads, Conflict(t)
  PROVE  IInv'
<1> DEFINE j == job[t]
           again == [Resolving(j.path, j.stat, j.fp) EXCEPT !.tries = j.tries + 1]
<1>1. JobOK(again)
  <2>1. j.path \in Paths /\ j.stat \in 1 .. MaxEvents /\ j.fp \in Prints
    BY DEF Conflict, IInv, JobsOK, JobOK
  <2>2. /\ again.at = "observed" /\ again.path = j.path /\ again.stat = j.stat
        /\ again.fp = j.fp
    BY DEF Resolving
  <2> QED
    BY <2>1, <2>2 DEF JobOK
<1>2. JobOK(After(t, j.path))
  BY AfterIsPlain
<1>3. Go(t, again) \/ Go(t, After(t, j.path))
  BY DEF Conflict
<1> QED
  BY <1>1, <1>2, <1>3, JobStep DEF Conflict

-------------------------------------------------------------------------------
(* What follows, the dialog and the worker's other jobs *)

LEMMA FollowUpKeeps ==
  ASSUME IdentityAssumption, IInv, NEW t \in Threads, FollowUp(t)
  PROVE  IInv'
<1>1. UNCHANGED <<world, tables>>
  BY DEF FollowUp, CloneRead, CloneWrite, Ask, Answered
<1>2. PICK j : j.at \in {"fill", "answered", "idle"} /\ Go(t, j)
  <2>1. CASE CloneRead(t)
    BY <2>1 DEF CloneRead, Idle
  <2>2. CASE CloneWrite(t)
    BY <2>2 DEF CloneWrite, Idle
  <2>3. CASE Ask(t) \/ Answered(t)
    BY <2>3 DEF Ask, Answered, Idle
  <2> QED
    BY <2>1, <2>2, <2>3 DEF FollowUp
<1> QED
  BY <1>1, <1>2, PlainJob, JobStep

LEMMA UserWriteKeeps ==
  ASSUME IdentityAssumption, IInv, UserWrite
  PROVE  IInv'
<1>1. UNCHANGED tables /\ disk' = disk /\ events' \in 0 .. MaxEvents
  BY DEF UserWrite, Event, IInv, TablesTyped, IdentityAssumption
<1>2. JobOK(Idle) /\ Go("ui", Idle) /\ "ui" \in Threads
  BY PlainJob DEF UserWrite, Idle, Threads
<1> QED
  BY <1>1, <1>2, GoLands, SameTables DEF IInv, TablesTyped

LEMMA AdoptKeeps ==
  ASSUME IdentityAssumption, IInv, Adopt
  PROVE  IInv'
<1> DEFINE b == job["ui"].blank
           c == job["ui"].orphan
           done == [at |-> "answered", kind |-> "move", subject |-> b]
<1>1. b \in Ids /\ c \in Ids /\ "ui" \in Threads
  BY DEF Adopt, IInv, JobsOK, JobOK, Threads
<1>2. JobOK(Idle) /\ JobOK(done)
  BY PlainJob DEF Idle
<1>3. CASE Exists(b) /\ Exists(c) /\ b # c
  <2>1. Relocate(c, ids[b].path, ids[b].stat, ids[b].fp, b) /\ Go("ui", done) /\ UNCHANGED world
    BY <1>3 DEF Adopt
  <2>2. /\ ids[b].path \in Paths /\ ids[b].stat \in 1 .. MaxEvents /\ ids[b].fp \in Prints
        /\ index[ids[b].path] = b /\ ids[c].path # ids[b].path
    BY <1>1, <1>3 DEF IInv, TablesTyped, IndexesAgree, RecordsAgree, Exists, Records, Prints
  <2>3. JobsOK'
    BY <1>1, <1>2, <2>1, GoLands DEF IInv
  <2> HIDE DEF b, c
  <2>4. TablesTyped' /\ IndexesAgree'
    BY <1>1, <1>3, <2>1, <2>2, RelocateKeeps DEF IInv
  <2> QED
    BY <2>3, <2>4 DEF IInv
<1>4. CASE ~(Exists(b) /\ Exists(c) /\ b # c)
  <2>1. Go("ui", Idle) /\ UNCHANGED <<world, tables>>
    BY <1>4 DEF Adopt
  <2> QED
    BY <1>1, <1>2, <2>1, JobStep
<1> QED
  BY <1>3, <1>4

LEMMA ChooseKeeps ==
  ASSUME IdentityAssumption, IInv, NEW k, NEW s \in Ids, NEW c \in Ids, Choose(k, s, c)
  PROVE  IInv'
<1> DEFINE clone == [at |-> "clone", from |-> c, to |-> s, asked |-> TRUE]
           adopt == [at |-> "adopt", blank |-> s, orphan |-> c]
<1>1. JobOK(clone) /\ JobOK(adopt) /\ "ui" \in Threads
  BY DEF JobOK, Threads
<1>2. (Go("ui", clone) \/ Go("ui", adopt)) /\ UNCHANGED <<world, tables>>
  BY DEF Choose
<1> HIDE DEF clone, adopt
<1> QED
  BY <1>1, <1>2, JobStep

LEMMA UpkeepKeeps ==
  ASSUME IdentityAssumption, IInv, Upkeep
  PROVE  IInv'
<1>1. "worker" \in Threads /\ JobOK(Idle)
  BY PlainJob DEF Threads, Idle
<1>2. CASE PruneWrite
  BY <1>1, <1>2, JobStep DEF PruneWrite
<1>3. CASE SweepDelete
  <2>1. job["worker"].id \in Ids /\ JobsOK'
    BY <1>1, <1>3, GoLands DEF SweepDelete, IInv, JobsOK, JobOK
  <2>2. CASE Exists(job["worker"].id)
    BY <1>3, <2>1, <2>2, DeleteKeeps DEF SweepDelete, IInv
  <2>3. CASE ~Exists(job["worker"].id)
    <3>1. UNCHANGED <<world, tables>> /\ Go("worker", Idle)
      BY <1>3, <2>3 DEF SweepDelete, tables
    <3> QED
      BY <1>1, <3>1, JobStep
  <2> QED
    BY <2>2, <2>3
<1>4. ASSUME NEW i \in Ids, SweepCheck(i)
      PROVE  IInv'
  <2>1. JobOK([at |-> "delete", id |-> i])
    BY DEF JobOK
  <2> QED
    BY <1>1, <1>4, <2>1, JobStep DEF SweepCheck
<1>5. ASSUME NEW i \in Ids, NEW k \in Kinds, PruneLook(k, i)
      PROVE  IInv'
  <2>1. PICK kept : Go("worker", [at |-> "prune", kind |-> k, subject |-> i, kept |-> kept])
    BY <1>5 DEF PruneLook
  <2>2. JobOK([at |-> "prune", kind |-> k, subject |-> i, kept |-> kept])
    BY DEF JobOK
  <2> QED
    BY <1>1, <1>5, <2>1, <2>2, JobStep DEF PruneLook
<1> QED
  BY <1>2, <1>3, <1>4, <1>5 DEF Upkeep

-------------------------------------------------------------------------------
(* The world outside *)

LEMMA WorldKeeps ==
  ASSUME IdentityAssumption, IInv, World
  PROVE  IInv'
<1>1. CASE Restart
  <2>1. job' = [t \in Threads |-> Idle] /\ UNCHANGED <<world, tables>>
    BY <1>1 DEF Restart
  <2>2. \A t \in Threads : JobOK(job[t])'
    BY <2>1 DEF JobOK, Idle
  <2>3. JobsOK'
    BY <2>1, <2>2 DEF JobsOK
  <2> QED
    BY <2>1, <2>3, SameTables DEF IInv, world, TablesTyped
<1>2. CASE ~Restart
  <2>1. UNCHANGED tables /\ job' = job /\ events' \in 0 .. MaxEvents
    BY <1>2 DEF World, WriteFile, CopyFile, MoveFile, DeleteFile, Event, IInv, TablesTyped,
                IdentityAssumption
  <2>2. disk' \in [Paths -> Files \cup {NoFile}]
    <3> USE DEF IInv, TablesTyped
    <3>1. ASSUME NEW p \in Paths, NEW b \in Bodies, WriteFile(p, b)
          PROVE  disk' \in [Paths -> Files \cup {NoFile}]
      <4>1. events + 1 \in 1 .. MaxEvents
        BY <3>1 DEF WriteFile, Event, IdentityAssumption
      <4>2. [stat |-> events + 1, body |-> b] \in Files
        BY <4>1 DEF Files
      <4> QED
        BY <3>1, <4>2 DEF WriteFile
    <3>2. ASSUME NEW p \in Paths, DeleteFile(p)
          PROVE  disk' \in [Paths -> Files \cup {NoFile}]
      BY <3>2 DEF DeleteFile
    <3>3. ASSUME NEW p \in Paths, NEW q \in Paths, CopyFile(p, q) \/ MoveFile(p, q)
          PROVE  disk' \in [Paths -> Files \cup {NoFile}]
      BY <3>3 DEF CopyFile, MoveFile
    <3> QED
      BY <1>2, <3>1, <3>2, <3>3 DEF World
  <2>3. JobsOK'
    BY <2>1 DEF IInv, JobsOK, JobOK
  <2> QED
    BY <2>1, <2>2, <2>3, SameTables DEF IInv
<1> QED
  BY <1>1, <1>2

-------------------------------------------------------------------------------
(* The specification *)

LEMMA InitHolds ==
  ASSUME IdentityAssumption, Init
  PROVE  IInv
<1>1. PICK n \in {0, Known} : Resolved(n)
  BY DEF Init
<1>2. n \in Nat /\ n <= MaxId /\ n <= MaxEvents /\ 1 .. n \subseteq Ids
  BY <1>1 DEF IdentityAssumption, Ids
<1>3. PICK place \in [1 .. n -> Paths], body \in [1 .. n -> Bodies],
           d \in [1 .. n -> Marks \cup {"none"}] :
    /\ \A i, j \in 1 .. n : place[i] = place[j] => i = j
    /\ disk \in [Paths -> {NoFile} \cup {[stat |-> i, body |-> body[i]] : i \in 1 .. n}]
    /\ events = Known
    /\ ids = [i \in Ids |-> IF i <= n THEN Seen(place[i], i, body[i]) ELSE NoRec]
    /\ index = [p \in Paths |-> IF \E i \in 1 .. n : place[i] = p
                               THEN CHOOSE i \in 1 .. n : place[i] = p ELSE 0]
    /\ fps = {<<body[i], i>> : i \in 1 .. n} /\ next = n + 1
    /\ data = [i \in Ids |-> IF i <= n THEN d[i] ELSE "none"]
    /\ asks = [q \in Kinds \X Ids |-> {}]
    /\ job = [t \in Threads |-> Idle]
    /\ raced = FALSE
  BY <1>1, Zenon DEF Resolved
<1>4. \A i \in 1 .. n :
        /\ Seen(place[i], i, body[i]) \in Records /\ Seen(place[i], i, body[i]) # NoRec
        /\ Seen(place[i], i, body[i]).path = place[i] /\ Seen(place[i], i, body[i]).fp = body[i]
  BY <1>2, SeenIsRecord DEF Prints, IdentityAssumption
<1>5. \A i \in 1 .. n : ids[i] = Seen(place[i], i, body[i])
  BY <1>2, <1>3
<1>6. \A i \in Ids : i \in 1 .. n \/ ids[i] = NoRec
  BY <1>2, <1>3 DEF Ids
<1>7. \A p \in Paths : IF \E i \in 1 .. n : place[i] = p
                       THEN index[p] \in 1 .. n /\ place[index[p]] = p ELSE index[p] = 0
  BY <1>3
<1>8. TablesTyped
  <2>1. ids \in [Ids -> Records \cup {NoRec}]
    <3>1. \A i \in Ids : ids[i] \in Records \cup {NoRec}
      BY <1>4, <1>5, <1>6
    <3> QED
      BY <1>3, <3>1
  <2>2. index \in [Paths -> 0 .. MaxId]
    <3>1. \A p \in Paths : index[p] \in 0 .. MaxId
      BY <1>2, <1>7 DEF IdentityAssumption
    <3> QED
      BY <1>3, <3>1
  <2>3. disk \in [Paths -> Files \cup {NoFile}]
    <3>1. \A i \in 1 .. n : [stat |-> i, body |-> body[i]] \in Files
      <4> SUFFICES ASSUME NEW i \in 1 .. n PROVE [stat |-> i, body |-> body[i]] \in Files
        OBVIOUS
      <4>1. i \in 1 .. MaxEvents /\ body[i] \in Bodies
        BY <1>2 DEF IdentityAssumption
      <4> QED
        BY <4>1 DEF Files
    <3> DEFINE D == {NoFile} \cup {[stat |-> i, body |-> body[i]] : i \in 1 .. n}
    <3>2. disk \in [Paths -> D]
      BY <1>3
    <3>3. D \subseteq Files \cup {NoFile}
      BY <3>1
    <3> HIDE DEF D
    <3> QED
      BY <3>2, <3>3
  <2>4. fps \subseteq Bodies \X Ids
    <3>1. \A i \in 1 .. n : i \in Ids /\ body[i] \in Bodies
      BY <1>2 DEF Ids, IdentityAssumption
    <3>2. fps = {<<body[i], i>> : i \in 1 .. n}
      BY <1>3
    <3> HIDE DEF Ids
    <3> QED
      BY ONLY <3>1, <3>2
  <2>5. next \in Nat \ {0} /\ events \in 0 .. MaxEvents
    BY <1>2, <1>3 DEF IdentityAssumption
  <2> QED
    BY <2>1, <2>2, <2>3, <2>4, <2>5 DEF TablesTyped
<1>9. PathsAgree
  BY <1>4, <1>5, <1>7 DEF PathsAgree, Exists
<1>10. RecordsAgree
  <2> SUFFICES ASSUME NEW k \in Ids, Exists(k) PROVE index[ids[k].path] = k
    BY DEF RecordsAgree
  <2>1. k \in 1 .. n /\ ids[k].path = place[k] /\ place[k] \in Paths
    BY <1>4, <1>5, <1>6 DEF Exists
  <2>2. index[place[k]] \in 1 .. n /\ place[index[place[k]]] = place[k]
    BY <1>7, <2>1
  <2> QED
    BY <1>3, <2>1, <2>2
<1>11. PrintsAgree
  <2> SUFFICES ASSUME NEW k \in Ids, NEW b \in Bodies
               PROVE  <<b, k>> \in fps <=> Exists(k) /\ ids[k].fp = b
    BY DEF PrintsAgree
  <2>1. <<b, k>> \in fps <=> k \in 1 .. n /\ body[k] = b
    BY <1>3
  <2>2. k \in 1 .. n => Exists(k) /\ ids[k].fp = body[k]
    BY <1>4, <1>5 DEF Exists
  <2>3. k \notin 1 .. n => ~Exists(k)
    BY <1>6 DEF Exists
  <2> QED
    BY <2>1, <2>2, <2>3
<1>12. Unused
  <2> SUFFICES ASSUME NEW k \in Ids, k >= next PROVE ids[k] = NoRec
    BY DEF Unused, Exists
  <2>1. k \notin 1 .. n
    BY <1>2, <1>3
  <2> QED
    BY <1>6, <2>1
<1>13. JobsOK
  BY <1>3 DEF JobsOK, JobOK, Idle
<1> QED
  BY <1>8, <1>9, <1>10, <1>11, <1>12, <1>13 DEF IInv, IndexesAgree

LEMMA NextKeeps ==
  ASSUME IdentityAssumption, IInv, Next
  PROVE  IInv'
<1>1. ASSUME NEW t \in Threads, Resolve(t)
      PROVE  IInv'
  BY <1>1, LookKeeps, ObserveKeeps, DecideKeeps, ApplyKeeps, ConflictKeeps DEF Resolve
<1>2. CASE Dialog
  <2>1. ASSUME NEW k, NEW s, Decline(k, s)
        PROVE  IInv'
    <3>1. UNCHANGED <<world, tables, job>>
      BY <2>1 DEF Decline
    <3>2. JobsOK'
      BY <3>1 DEF IInv, JobsOK, JobOK
    <3> QED
      BY <3>1, <3>2, SameTables DEF IInv, world, TablesTyped
  <2> QED
    BY <1>2, <2>1, AdoptKeeps, ChooseKeeps DEF Dialog
<1> QED
  BY <1>1, <1>2, FollowUpKeeps, UserWriteKeeps, UpkeepKeeps, WorldKeeps DEF Next

\* The invariant: the tables are typed and agree, and what each thread is about to do
\* fits the tables as they will be when `apply' has looked at them again.
THEOREM Invariance == ASSUME IdentityAssumption PROVE Spec => []IInv
<1>1. Init => IInv
  BY InitHolds
<1>2. IInv /\ [Next]_vars => IInv'
  <2> SUFFICES ASSUME IInv, [Next]_vars PROVE IInv'
    OBVIOUS
  <2>1. CASE UNCHANGED vars
    <3>1. UNCHANGED <<world, tables, job>>
      BY <2>1 DEF vars
    <3>2. JobsOK'
      BY <3>1 DEF IInv, JobsOK, JobOK
    <3> QED
      BY <3>1, <3>2, SameTables DEF IInv, world, TablesTyped
  <2> QED
    BY <2>1, NextKeeps
<1> QED
  BY <1>1, <1>2, PTL DEF Spec

\* Whatever two threads decide on what they read before, a path leads to the record that
\* has it, a record is found by its path and by its fingerprint, and no id is given
\* out twice (read_snapshot, decide and apply of src/file_identity.rs).
THEOREM IndexesInStep == ASSUME IdentityAssumption PROVE Spec => []IndexesAgree
<1>1. IInv => IndexesAgree
  BY DEF IInv
<1> QED
  BY <1>1, Invariance, PTL

-------------------------------------------------------------------------------
(* What the user attached *)

DataTyped == data = [i \in Ids |-> data[i]] /\ raced \in BOOLEAN

\* Nobody attached anything to a record that job `j' is about to drop or to fill, and
\* what it is about to delete is unconfirmed.
Free(j, rows, recs) ==
  /\ j.at = "decided" /\ j.d.do = "merge" => rows[j.d.id] = "none"
  /\ j.at = "adopt" => rows[j.blank] = "none"
  /\ j.at = "fill" => rows[j.to] = "none"
  /\ j.at = "delete" /\ recs[j.id] # NoRec => ~recs[j.id].confirmed

JobsFree == ~raced => \A t \in Threads : Free(job[t], data, ids)

DataInv == IInv /\ DataTyped /\ JobsFree

\* What a step may do to user data, outside the windows
DataStep ==
  \A i \in Ids :
    Exists(i) /\ HasData(i) /\ ~raced =>
      \/ data'[i] = data[i] /\ ids'[i] # NoRec
      \/ job["ui"].at = "found" /\ job["ui"].id = i /\ job' # job
      \/ ids'[i] = NoRec /\ data'[i] = "none" /\ ~ids[i].confirmed

\* A step of one thread, which unless it races leaves free what the others rely on
LEMMA StepFree ==
  ASSUME DataInv, NEW t \in Threads, NEW j, Go(t, j),
         ~raced' => ~raced /\ Free(j, data', ids'),
         ~raced' => \A u \in Threads \ {t} :
                      Free(job[u], data, ids) => Free(job[u], data', ids')
  PROVE  JobsFree'
<1>1. \A u \in Threads : job'[u] = IF u = t THEN j ELSE job[u]
  BY DEF Go, DataInv, IInv, JobsOK
<1>2. ASSUME ~raced', NEW u \in Threads PROVE Free(job'[u], data', ids')
  BY <1>1, <1>2 DEF DataInv, JobsFree
<1> QED BY <1>2 DEF JobsFree

LEMMA JobFree ==
  ASSUME DataInv, NEW t \in Threads, NEW j, Go(t, j), UNCHANGED <<ids, data, raced>>,
         ~raced => Free(j, data, ids)
  PROVE  DataTyped' /\ JobsFree' /\ DataStep
<1>1. DataTyped' /\ DataStep
  BY DEF DataInv, DataTyped, DataStep, Exists
<1>2. ids' = ids /\ data' = data /\ raced' = raced
  OBVIOUS
<1>3. JobsFree'
  BY <1>2, StepFree
<1> QED BY <1>1, <1>3

LEMMA PlainFree ==
  ASSUME NEW j, j.at \notin {"decided", "adopt", "fill", "delete"}, NEW rows, NEW recs
  PROVE  Free(j, rows, recs)
BY DEF Free

LEMMA LookStays ==
  ASSUME DataInv, NEW t \in Threads, NEW p \in Paths, Look(t, p)
  PROVE  DataTyped' /\ JobsFree' /\ DataStep
<1>1. /\ Go(t, After(t, p)) /\ data' = data /\ raced' = raced
      /\ After(t, p).at \in {"idle", "found"}
  BY DEF Look, After, Found, Idle
<1>2. Free(After(t, p), data', ids')
  BY <1>1, PlainFree
<1>3. \A i \in Ids : ids[i] # NoRec => ids'[i] # NoRec
  <2>1. CASE ids' = ids
    BY <2>1
  <2>2. CASE index[p] # 0 /\ ids' = [ids EXCEPT ![index[p]].confirmed = FALSE]
    <3>1. index[p] \in Ids /\ ids[index[p]] \in Records
      BY <2>2 DEF DataInv, IInv, TablesTyped, IndexesAgree, PathsAgree, Exists, Ids
    <3>2. [ids[index[p]] EXCEPT !.confirmed = FALSE] \in Records
      BY <3>1 DEF Records
    <3>3. [ids[index[p]] EXCEPT !.confirmed = FALSE] # NoRec
      BY <3>2, RecordExists
    <3>4. ids' = [ids EXCEPT ![index[p]] = [ids[index[p]] EXCEPT !.confirmed = FALSE]]
      BY <2>2, <3>1 DEF DataInv, IInv, TablesTyped
    <3> QED BY <3>1, <3>3, <3>4 DEF DataInv, IInv, TablesTyped
  <2> QED BY <2>1, <2>2 DEF Look
<1>4. \A i \in Ids : ids'[i] # NoRec =>
        ids[i] # NoRec /\ (~ids[i].confirmed => ~ids'[i].confirmed)
  <2>1. CASE ids' = ids
    BY <2>1
  <2>2. CASE index[p] # 0 /\ ids' = [ids EXCEPT ![index[p]].confirmed = FALSE]
    <3>1. index[p] \in Ids /\ ids[index[p]] \in Records
      BY <2>2 DEF DataInv, IInv, TablesTyped, IndexesAgree, PathsAgree, Exists, Ids
    <3>2. ids[index[p]] # NoRec
      BY <3>1, RecordExists
    <3>3. [ids[index[p]] EXCEPT !.confirmed = FALSE].confirmed = FALSE
      BY <3>1 DEF Records
    <3>4. ids' = [ids EXCEPT ![index[p]] = [ids[index[p]] EXCEPT !.confirmed = FALSE]]
      BY <2>2, <3>1 DEF DataInv, IInv, TablesTyped
    <3> QED BY <3>1, <3>2, <3>3, <3>4 DEF DataInv, IInv, TablesTyped
  <2> QED BY <2>1, <2>2 DEF Look
<1>5. \A u \in Threads : Free(job[u], data, ids) => Free(job[u], data', ids')
  <2>1. \A u \in Threads : job[u].at = "delete" => job[u].id \in Ids
    BY DEF DataInv, IInv, JobsOK, JobOK
  <2> QED BY <1>1, <1>4, <2>1 DEF Free
<1>6. JobsFree'
  BY <1>1, <1>2, <1>5, StepFree
<1>7. DataTyped' /\ DataStep
  BY <1>1, <1>3 DEF DataInv, DataTyped, DataStep, Exists
<1> QED BY <1>6, <1>7

LEMMA DecideStays ==
  ASSUME DataInv, NEW t \in Threads, Decide(t)
  PROVE  DataTyped' /\ JobsFree' /\ DataStep
<1> DEFINE o == job[t]
           decided(d) == [at |-> "decided", path |-> o.path, stat |-> o.stat, fp |-> o.fp,
                          tries |-> o.tries, d |-> d]
<1>1. PICK gone \in SUBSET {c \in Candidates(o) : Absent(c)} :
        \E d \in IF index[o.path] # 0 THEN Updates(index[o.path], o, gone)
                                      ELSE Creations(o, gone) : Go(t, decided(d))
  BY DEF Decide
<1>2. PICK d \in IF index[o.path] # 0 THEN Updates(index[o.path], o, gone)
                                      ELSE Creations(o, gone) : Go(t, decided(d))
  BY <1>1
<1>3. d.do = "merge" => data[d.id] = "none"
  <2>1. CASE index[o.path] # 0
    <3> DEFINE i == index[o.path]
    <3>1. d \in Updates(i, o, gone)
      BY <1>2, <2>1
    <3>2. d.do = "merge" => MayYield(i, o) /\ d.id = i
      BY <3>1 DEF Updates, Decision
    <3> QED BY <3>2 DEF MayYield, HasData
  <2>2. CASE index[o.path] = 0
    <3>1. d \in Creations(o, gone)
      BY <1>2, <2>2
    <3>2. d.do # "merge"
      BY <3>1 DEF Creations, Decision
    <3> QED BY <3>2
  <2> QED BY <2>1, <2>2
<1>4. Free(decided(d), data, ids)
  BY <1>3 DEF Free
<1>5. UNCHANGED <<ids, data, raced>>
  BY DEF Decide, tables
<1> HIDE DEF decided
<1> QED BY <1>2, <1>4, <1>5, JobFree

LEMMA ConflictStays ==
  ASSUME DataInv, NEW t \in Threads, Conflict(t)
  PROVE  DataTyped' /\ JobsFree' /\ DataStep
<1> DEFINE j == job[t]
           again == [Resolving(j.path, j.stat, j.fp) EXCEPT !.tries = j.tries + 1]
<1>1. Go(t, again) \/ Go(t, After(t, j.path))
  BY DEF Conflict
<1>2. again.at = "observed" /\ After(t, j.path).at \in {"idle", "found"}
  BY DEF Resolving, After, Found, Idle
<1>3. UNCHANGED <<ids, data, raced>>
  BY DEF Conflict, tables
<1> HIDE DEF again, j
<1> QED BY <1>1, <1>2, <1>3, PlainFree, JobFree

LEMMA ApplyStays ==
  ASSUME IdentityAssumption, DataInv, NEW t \in Threads, Apply(t)
  PROVE  DataTyped' /\ JobsFree' /\ DataStep
<1> DEFINE j == job[t]
           d == j.d
           k == index'[j.path]
<1>1. /\ Holds(d, j.path) /\ Write(j) /\ Go(t, Next1(t, j, k)) /\ data' = data
      /\ raced' = (raced \/ Doomed(k)) /\ j.at = "decided"
  BY DEF Apply
<1>2. j.path \in Paths /\ j.stat \in 1 .. MaxEvents /\ j.fp \in Prints /\ Sound(d, j.path)
  BY <1>1 DEF DataInv, IInv, JobsOK, JobOK
<1>3. /\ ids \in [Ids -> Records \cup {NoRec}] /\ index \in [Paths -> 0 .. MaxId]
  BY DEF DataInv, IInv, TablesTyped
<1> HIDE DEF k
<1>4. /\ \A i \in Ids \ {k} : ids'[i] = ids[i] \/ (ids'[i] = NoRec /\ d.do = "merge" /\ i = d.id)
      /\ k \in Ids => ids'[k] # NoRec
  <2>1. CASE d.do = "update"
    <3>1. d.id \in Ids /\ d.fp \in Prints /\ k = d.id
      BY <1>1, <1>2, <2>1 DEF Sound, Write, Rewrite, Holds, k
    <3>2. ids' = [ids EXCEPT ![d.id] = Seen(j.path, j.stat, d.fp)]
      BY <1>1, <2>1 DEF Write, Rewrite
    <3>3. Seen(j.path, j.stat, d.fp) # NoRec
      BY <1>2, <3>1, SeenIsRecord
    <3> QED BY <1>3, <3>1, <3>2, <3>3
  <2>2. ASSUME NEW b, NEW i \in Ids, Relocate(i, j.path, j.stat, j.fp, b),
               b = 0 \/ (d.do = "merge" /\ b = d.id)
        PROVE  /\ \A h \in Ids \ {k} : ids'[h] = ids[h] \/ (ids'[h] = NoRec /\ d.do = "merge" /\ h = d.id)
               /\ k \in Ids => ids'[k] # NoRec
    <3>1. k = i
      BY <1>2, <1>3, <2>2 DEF Relocate, k
    <3>2. \A h \in Ids : ids'[h] = IF h = i THEN Seen(j.path, j.stat, j.fp)
                                   ELSE IF h = b THEN NoRec ELSE ids[h]
      BY <2>2 DEF Relocate
    <3>3. Seen(j.path, j.stat, j.fp) # NoRec
      BY <1>2, SeenIsRecord
    <3>4. \A h \in Ids : h # 0
      BY DEF Ids
    <3> QED BY <2>2, <3>1, <3>2, <3>3, <3>4
  <2>3. CASE d.do \in {"merge", "move"}
    <3>1. d.orphan \in Ids
      BY <1>2, <2>3 DEF Sound
    <3>2. \/ d.do = "merge" /\ Relocate(d.orphan, j.path, j.stat, j.fp, d.id)
          \/ Relocate(d.orphan, j.path, j.stat, j.fp, 0)
      BY <1>1, <2>3 DEF Write
    <3> QED BY <2>2, <3>1, <3>2
  <2>4. CASE d.do = "create"
    <3>1. ids' = [ids EXCEPT ![next] = Seen(j.path, j.stat, j.fp)] /\ index' = [index EXCEPT ![j.path] = next]
      BY <1>1, <2>4 DEF Write, Create
    <3>2. k = next
      BY <1>2, <1>3, <3>1 DEF k
    <3>3. Seen(j.path, j.stat, j.fp) # NoRec
      BY <1>2, SeenIsRecord
    <3> QED BY <1>3, <3>1, <3>2, <3>3
  <2> QED BY <1>2, <2>1, <2>3, <2>4 DEF Sound
<1>5. Next1(t, j, k).at \in {"found", "clone", "ask", "idle"}
  BY DEF Next1, Idle
<1>6. Free(Next1(t, j, k), data', ids')
  BY <1>5, PlainFree
<1>7. ASSUME ~raced', NEW u \in Threads \ {t}, Free(job[u], data, ids)
      PROVE  Free(job[u], data', ids')
  <2>1. job[u].at = "delete" => job[u].id \in Ids /\ job[u].id # k
    BY <1>1, <1>7 DEF DataInv, DataTyped, IInv, JobsOK, JobOK, Doomed
  <2> QED BY <1>1, <1>4, <1>7, <2>1 DEF Free
<1>8. ~raced' => ~raced
  BY <1>1 DEF DataInv, DataTyped
<1>9. JobsFree'
  BY <1>1, <1>6, <1>7, <1>8, StepFree
<1>10. DataTyped'
  BY <1>1 DEF DataInv, DataTyped, Doomed
<1>11. DataStep
  <2> SUFFICES ASSUME NEW i \in Ids, Exists(i), HasData(i), ~raced
               PROVE  data'[i] = data[i] /\ ids'[i] # NoRec
    BY DEF DataStep
  <2>1. d.do = "merge" => d.id # i
    BY <1>1 DEF DataInv, JobsFree, Free, HasData
  <2> QED BY <1>1, <1>4, <2>1 DEF Exists
<1> QED BY <1>9, <1>10, <1>11

\* The user's own write, and the copy of another record's data: they take nothing from
\* under another thread, or the step is one that races.
LEMMA DataWritten ==
  ASSUME DataInv, NEW t \in Threads, NEW i, NEW v, NEW j,
         data' = [data EXCEPT ![i] = v], ids' = ids, Go(t, j),
         j.at \notin {"decided", "adopt", "fill", "delete"},
         raced' \in BOOLEAN, ~raced' => ~raced /\ ~Claimed(t, i)
  PROVE  DataTyped' /\ JobsFree' /\ \A k \in Ids : k # i => data'[k] = data[k]
<1>1. data = [k \in Ids |-> data[k]]
  BY DEF DataInv, DataTyped
<1>2. \A k \in Ids : data'[k] = IF k = i THEN v ELSE data[k]
  BY <1>1
<1>3. data' = [k \in Ids |-> data'[k]]
  BY <1>1
<1>4. DataTyped'
  BY <1>3 DEF DataTyped
<1>5. Free(j, data', ids')
  BY PlainFree
<1>6. ASSUME ~raced', NEW u \in Threads \ {t}, Free(job[u], data, ids)
      PROVE  Free(job[u], data', ids')
  <2>1. ~Claimed(t, i)
    BY <1>6
  <2>2. /\ job[u].at = "decided" /\ job[u].d.do = "merge" => job[u].d.id # i
        /\ job[u].at = "adopt" => job[u].blank # i
        /\ job[u].at = "fill" => job[u].to # i
    BY <2>1 DEF Claimed
  <2>3. \A k : k # i => data'[k] = data[k] \/ k \notin Ids
    BY <1>2
  <2>4. /\ job[u].at = "decided" /\ job[u].d.do = "merge" => job[u].d.id \in Ids
        /\ job[u].at = "adopt" => job[u].blank \in Ids
    BY DEF DataInv, IInv, JobsOK, JobOK, Sound
  <2>5. job[u].at = "fill" => data'[job[u].to] = data[job[u].to]
    BY <2>2
  <2> QED BY <1>6, <2>2, <2>3, <2>4, <2>5 DEF Free
<1>7. JobsFree'
  BY <1>5, <1>6, StepFree
<1> QED BY <1>2, <1>4, <1>7

LEMMA FollowUpStays ==
  ASSUME DataInv, NEW t \in Threads, FollowUp(t)
  PROVE  DataTyped' /\ JobsFree' /\ DataStep
<1>1. CASE CloneRead(t)
  <2> DEFINE c == job[t]
             fill == [at |-> "fill", to |-> c.to, with |-> data[c.from], asked |-> c.asked]
             answered == [at |-> "answered", kind |-> "copy", subject |-> c.to]
  <2>1. (Go(t, fill) /\ ~HasData(c.to)) \/ Go(t, answered) \/ Go(t, Idle)
    BY <1>1 DEF CloneRead
  <2>2. answered.at = "answered" /\ Idle.at = "idle"
    BY DEF Idle
  <2>3. ~HasData(c.to) => Free(fill, data, ids)
    BY DEF Free, HasData
  <2>4. UNCHANGED <<ids, data, raced>>
    BY <1>1 DEF CloneRead, tables
  <2> HIDE DEF fill, answered, c
  <2> QED BY <2>1, <2>2, <2>3, <2>4, PlainFree, JobFree
<1>2. CASE CloneWrite(t)
  <2> DEFINE c == job[t]
             answered == [at |-> "answered", kind |-> "copy", subject |-> c.to]
  <2>1. (Go(t, answered) \/ Go(t, Idle)) /\ answered.at = "answered" /\ Idle.at = "idle"
    BY <1>2 DEF CloneWrite, Idle
  <2>2. /\ data' = [data EXCEPT ![c.to] = c.with] /\ ids' = ids
        /\ raced' = (raced \/ Claimed(t, c.to)) /\ c.at = "fill"
    BY <1>2 DEF CloneWrite, tables
  <2>3. raced' \in BOOLEAN
    BY <2>2 DEF DataInv, DataTyped, Claimed
  <2>4. ~raced => data[c.to] = "none"
    BY <2>2 DEF DataInv, JobsFree, Free
  <2> HIDE DEF c, answered
  <2>5. DataTyped' /\ JobsFree' /\ \A k \in Ids : k # c.to => data'[k] = data[k]
    BY <2>1, <2>2, <2>3, DataWritten
  <2> QED BY <2>2, <2>4, <2>5 DEF DataStep, Exists, HasData
<1>3. CASE Ask(t) \/ Answered(t)
  <2>1. Go(t, Idle) /\ UNCHANGED <<ids, data, raced>> /\ Idle.at = "idle"
    BY <1>3 DEF Ask, Answered, Idle, tables
  <2> QED BY <2>1, PlainFree, JobFree
<1> QED BY <1>1, <1>2, <1>3 DEF FollowUp

LEMMA UserWriteStays ==
  ASSUME DataInv, UserWrite
  PROVE  DataTyped' /\ JobsFree' /\ DataStep
<1> DEFINE i == job["ui"].id
<1>1. "ui" \in Threads /\ Idle.at = "idle"
  BY DEF Threads, Idle
<1>2. PICK v \in Data : data' = [data EXCEPT ![i] = v]
  BY DEF UserWrite
<1>3. /\ job["ui"].at = "found" /\ Go("ui", Idle) /\ ids' = ids
      /\ raced' = (raced \/ ~Exists(i) \/ Claimed("ui", i))
  BY DEF UserWrite, tables
<1>4. raced' \in BOOLEAN
  BY <1>3 DEF DataInv, DataTyped, Claimed
<1>5. job'["ui"] = Idle
  BY <1>1, <1>3 DEF Go, DataInv, IInv, JobsOK
<1>6. job' # job
  BY <1>1, <1>3, <1>5
<1> HIDE DEF i
<1>7. DataTyped' /\ JobsFree' /\ \A k \in Ids : k # i => data'[k] = data[k]
  BY <1>1, <1>2, <1>3, <1>4, DataWritten
<1> QED BY <1>3, <1>6, <1>7 DEF DataStep, Exists, i

LEMMA DialogStays ==
  ASSUME DataInv, Dialog
  PROVE  DataTyped' /\ JobsFree' /\ DataStep
<1>1. "ui" \in Threads /\ Idle.at = "idle"
  BY DEF Threads, Idle
<1>2. CASE Adopt
  <2> DEFINE b == job["ui"].blank
             c == job["ui"].orphan
             done == [at |-> "answered", kind |-> "move", subject |-> b]
  <2>1. b \in Ids /\ c \in Ids /\ data' = data /\ done.at = "answered" /\ job["ui"].at = "adopt"
    BY <1>1, <1>2 DEF Adopt, DataInv, IInv, JobsOK, JobOK
  <2>2. CASE Exists(b) /\ Exists(c) /\ b # c
    <3>1. Relocate(c, ids[b].path, ids[b].stat, ids[b].fp, b) /\ Go("ui", done) /\ raced' = (raced \/ Doomed(c))
      BY <1>2, <2>2 DEF Adopt
    <3> DEFINE r == Seen(ids[b].path, ids[b].stat, ids[b].fp)
    <3>2. r # NoRec
      <4>1. ids[b] \in Records
        BY <2>1, <2>2 DEF DataInv, IInv, TablesTyped, Exists
      <4>2. ids[b].path \in Paths /\ ids[b].stat \in 1 .. MaxEvents /\ ids[b].fp \in Prints
        BY <4>1 DEF Records, Prints
      <4> QED BY <4>2, SeenIsRecord
    <3>3. \A k \in Ids : ids'[k] = IF k = c THEN r ELSE IF k = b THEN NoRec ELSE ids[k]
      BY <3>1 DEF Relocate
    <3> HIDE DEF r, done, b, c
    <3>4. Free(done, data', ids')
      BY <2>1, PlainFree
    <3>5. ASSUME ~raced', NEW u \in Threads \ {"ui"}, Free(job[u], data, ids)
          PROVE  Free(job[u], data', ids')
      <4>1. job[u].at = "delete" => job[u].id \in Ids /\ job[u].id # c
        BY <3>1, <3>5 DEF DataInv, DataTyped, IInv, JobsOK, JobOK, Doomed
      <4> QED BY <2>1, <3>3, <3>5, <4>1 DEF Free
    <3>6. (~raced' => ~raced) /\ raced' \in BOOLEAN
      BY <3>1 DEF DataInv, DataTyped, Doomed
    <3>7. JobsFree'
      BY <1>1, <3>1, <3>4, <3>5, <3>6, StepFree
    <3>8. DataTyped'
      BY <2>1, <3>6 DEF DataInv, DataTyped
    <3>9. ~raced => data[b] = "none"
      BY <1>1, <2>1 DEF DataInv, JobsFree, Free, b
    <3>10. DataStep
      BY <2>1, <3>2, <3>3, <3>9 DEF DataStep, Exists, HasData
    <3> QED BY <3>7, <3>8, <3>10
  <2>3. CASE ~(Exists(b) /\ Exists(c) /\ b # c)
    <3>1. Go("ui", Idle) /\ UNCHANGED <<ids, data, raced>>
      BY <1>2, <2>3 DEF Adopt, tables
    <3> QED BY <1>1, <3>1, PlainFree, JobFree
  <2> QED BY <2>2, <2>3
<1>3. ASSUME NEW k \in Kinds, NEW s \in Ids, Decline(k, s)
      PROVE  DataTyped' /\ JobsFree' /\ DataStep
  <2>1. ids' = ids /\ data' = data /\ raced' = raced /\ job' = job
    BY <1>3 DEF Decline, tables
  <2> QED BY <2>1 DEF DataInv, DataTyped, JobsFree, DataStep, Exists
<1>4. ASSUME NEW k \in Kinds, NEW s \in Ids, NEW c \in Ids, Choose(k, s, c)
      PROVE  DataTyped' /\ JobsFree' /\ DataStep
  <2> DEFINE clone == [at |-> "clone", from |-> c, to |-> s, asked |-> TRUE]
             adopt == [at |-> "adopt", blank |-> s, orphan |-> c]
  <2>1. Go("ui", clone) \/ (Go("ui", adopt) /\ ~HasData(s))
    BY <1>4 DEF Choose, Kinds
  <2>2. Free(clone, data, ids) /\ (~HasData(s) => Free(adopt, data, ids))
    BY DEF Free, HasData
  <2>3. UNCHANGED <<ids, data, raced>>
    BY <1>4 DEF Choose, tables
  <2> HIDE DEF clone, adopt
  <2> QED BY <1>1, <2>1, <2>2, <2>3, JobFree
<1> QED BY <1>2, <1>3, <1>4 DEF Dialog

LEMMA UpkeepStays ==
  ASSUME DataInv, Upkeep
  PROVE  DataTyped' /\ JobsFree' /\ DataStep
<1>1. "worker" \in Threads /\ Idle.at = "idle"
  BY DEF Threads, Idle
<1>2. CASE PruneWrite
  <2>1. Go("worker", Idle) /\ UNCHANGED <<ids, data, raced>>
    BY <1>2 DEF PruneWrite, tables
  <2> QED BY <1>1, <2>1, PlainFree, JobFree
<1>3. ASSUME NEW i \in Ids, SweepCheck(i)
      PROVE  DataTyped' /\ JobsFree' /\ DataStep
  <2>1. /\ Go("worker", [at |-> "delete", id |-> i]) /\ UNCHANGED <<ids, data, raced>>
        /\ ~ids[i].confirmed
    BY <1>3 DEF SweepCheck, tables
  <2>2. Free([at |-> "delete", id |-> i], data, ids)
    BY <2>1 DEF Free
  <2> QED BY <1>1, <2>1, <2>2, JobFree
<1>4. ASSUME NEW i \in Ids, NEW k \in Kinds, PruneLook(k, i)
      PROVE  DataTyped' /\ JobsFree' /\ DataStep
  <2>1. PICK kept : Go("worker", [at |-> "prune", kind |-> k, subject |-> i, kept |-> kept])
    BY <1>4 DEF PruneLook
  <2>2. UNCHANGED <<ids, data, raced>>
    BY <1>4 DEF PruneLook, tables
  <2>3. Free([at |-> "prune", kind |-> k, subject |-> i, kept |-> kept], data, ids)
    BY PlainFree
  <2> QED BY <1>1, <2>1, <2>2, <2>3, JobFree
<1>5. CASE SweepDelete
  <2> DEFINE i == job["worker"].id
  <2>1. i \in Ids /\ job["worker"].at = "delete" /\ Go("worker", Idle) /\ raced' = raced
    BY <1>1, <1>5 DEF SweepDelete, DataInv, IInv, JobsOK, JobOK
  <2>2. CASE Exists(i)
    <3>1. ids' = [ids EXCEPT ![i] = NoRec] /\ data' = [data EXCEPT ![i] = "none"]
      BY <1>5, <2>2 DEF SweepDelete
    <3>2. ~raced => ~ids[i].confirmed
      BY <1>1, <2>1, <2>2 DEF DataInv, JobsFree, Free, Exists
    <3> HIDE DEF i
    <3>3. data = [k \in Ids |-> data[k]]
      BY DEF DataInv, DataTyped
    <3>4. data' = [k \in Ids |-> data'[k]]
      BY <3>1, <3>3
    <3>5. \A k \in Ids : data'[k] = IF k = i THEN "none" ELSE data[k]
      BY <3>1, <3>3
    <3>6. \A k \in Ids : ids'[k] = IF k = i THEN NoRec ELSE ids[k]
      BY <3>1 DEF DataInv, IInv, TablesTyped
    <3>7. ASSUME ~raced, NEW u \in Threads \ {"worker"}, Free(job[u], data, ids)
          PROVE  Free(job[u], data', ids')
      <4>1. /\ job[u].at = "delete" => job[u].id \in Ids
            /\ job[u].at = "decided" /\ job[u].d.do = "merge" => job[u].d.id \in Ids
            /\ job[u].at = "adopt" => job[u].blank \in Ids
        BY DEF DataInv, IInv, JobsOK, JobOK, Sound
      <4>2. \A k : data[k] = "none" => data'[k] = "none"
        BY <2>1, <3>1, <3>3, <3>5
      <4> QED BY <3>6, <3>7, <4>1, <4>2 DEF Free
    <3>8. Free(Idle, data', ids')
      BY <1>1, PlainFree
    <3>9. JobsFree'
      BY <1>1, <2>1, <3>7, <3>8, StepFree
    <3>10. DataTyped'
      BY <2>1, <3>4 DEF DataInv, DataTyped
    <3>11. DataStep
      BY <2>2, <3>2, <3>5, <3>6 DEF DataStep, Exists
    <3> QED BY <3>9, <3>10, <3>11
  <2>3. CASE ~Exists(i)
    <3>1. UNCHANGED <<ids, data, raced>>
      BY <1>5, <2>3 DEF SweepDelete
    <3> QED BY <1>1, <2>1, <3>1, PlainFree, JobFree
  <2> QED BY <2>2, <2>3
<1> QED BY <1>2, <1>3, <1>4, <1>5 DEF Upkeep

LEMMA WorldStays ==
  ASSUME DataInv, World \/ UNCHANGED vars
  PROVE  DataTyped' /\ JobsFree' /\ DataStep
<1>1. ids' = ids /\ data' = data /\ raced' = raced
  BY DEF World, Restart, WriteFile, CopyFile, MoveFile, DeleteFile, vars, tables
<1>2. job' = job \/ job' = [t \in Threads |-> Idle]
  BY DEF World, Restart, WriteFile, CopyFile, MoveFile, DeleteFile, vars
<1>3. JobsFree'
  BY <1>1, <1>2 DEF DataInv, JobsFree, Free, Idle
<1> QED BY <1>1, <1>3 DEF DataInv, DataTyped, DataStep, Exists

LEMMA NextStays ==
  ASSUME IdentityAssumption, DataInv, [Next]_vars
  PROVE  DataTyped' /\ JobsFree' /\ DataStep
<1>1. ASSUME NEW t \in Threads, Resolve(t)
      PROVE  DataTyped' /\ JobsFree' /\ DataStep
  <2>1. ASSUME NEW p \in Paths, Observe(t, p)
        PROVE  DataTyped' /\ JobsFree' /\ DataStep
    <3>1. PICK fp : Go(t, Resolving(p, disk[p].stat, fp))
      BY <2>1 DEF Observe
    <3>2. Resolving(p, disk[p].stat, fp).at = "observed" /\ UNCHANGED <<ids, data, raced>>
      BY <2>1 DEF Observe, Resolving, tables
    <3> QED BY <3>1, <3>2, PlainFree, JobFree
  <2> QED BY <1>1, <2>1, LookStays, DecideStays, ApplyStays, ConflictStays DEF Resolve
<1> QED BY <1>1, FollowUpStays, UserWriteStays, DialogStays, UpkeepStays, WorldStays DEF Next

\* What two threads are about to drop, fill or delete is free to be, outside the windows.
THEOREM TakenIsFree == ASSUME IdentityAssumption PROVE Spec => []DataInv
<1>1. Init => DataInv
  <2> SUFFICES ASSUME Init PROVE DataInv
    OBVIOUS
  <2>1. IInv
    BY InitHolds
  <2>2. PICK n \in {0, Known} : Resolved(n)
    BY DEF Init
  <2>3. PICK place \in [1 .. n -> Paths], body \in [1 .. n -> Bodies],
             d \in [1 .. n -> Marks \cup {"none"}] :
      /\ \A i, j \in 1 .. n : place[i] = place[j] => i = j
      /\ disk \in [Paths -> {NoFile} \cup {[stat |-> i, body |-> body[i]] : i \in 1 .. n}]
      /\ events = Known
      /\ ids = [i \in Ids |-> IF i <= n THEN Seen(place[i], i, body[i]) ELSE NoRec]
      /\ index = [p \in Paths |-> IF \E i \in 1 .. n : place[i] = p
                                 THEN CHOOSE i \in 1 .. n : place[i] = p ELSE 0]
      /\ fps = {<<body[i], i>> : i \in 1 .. n} /\ next = n + 1
      /\ data = [i \in Ids |-> IF i <= n THEN d[i] ELSE "none"]
      /\ asks = [q \in Kinds \X Ids |-> {}]
      /\ job = [t \in Threads |-> Idle]
      /\ raced = FALSE
    BY <2>2, Zenon DEF Resolved
  <2>4. job = [t \in Threads |-> Idle] /\ raced = FALSE
    BY <2>3
  <2>5. DataTyped
    BY <2>3, <2>4 DEF DataTyped
  <2>6. JobsFree
    BY <2>4 DEF JobsFree, Free, Idle
  <2> QED BY <2>1, <2>5, <2>6 DEF DataInv
<1>2. DataInv /\ [Next]_vars => DataInv'
  <2> SUFFICES ASSUME DataInv, [Next]_vars PROVE DataInv'
    OBVIOUS
  <2>1. IInv'
    <3>1. CASE UNCHANGED vars
      <4>1. UNCHANGED <<world, tables, job>>
        BY <3>1 DEF vars
      <4>2. JobsOK'
        BY <4>1 DEF DataInv, IInv, JobsOK, JobOK
      <4> QED BY <4>1, <4>2, SameTables DEF DataInv, IInv, world, TablesTyped
    <3> QED BY <3>1, NextKeeps DEF DataInv
  <2> QED BY <2>1, NextStays DEF DataInv
<1> QED BY <1>1, <1>2, PTL DEF Spec

\* What the user attached to a record changes only when the user changes it and goes only
\* with a record the sweep found unconfirmed, outside the windows between a check and
\* the transaction that relies on it (apply, adopt_orphan, clone_inheritable_data, delete_id).
THEOREM DataIsKept == ASSUME IdentityAssumption PROVE Spec => UserDataStays
<1>1. DataInv /\ [Next]_vars =>
        [\A i \in Ids :
           Exists(i) /\ HasData(i) /\ ~raced =>
             \/ data'[i] = data[i] /\ ids'[i] # NoRec
             \/ job["ui"].at = "found" /\ job["ui"].id = i /\ job' # job
             \/ ids'[i] = NoRec /\ data'[i] = "none" /\ ~ids[i].confirmed]_vars
  BY NextStays DEF DataStep
<1> QED BY <1>1, TakenIsFree, PTL DEF Spec, UserDataStays

-----------------------------------------------------------------------------
(* The types of what is kept for a record *)

\* What a job carries into the tables of user data and of questions
JobFits(j) ==
  /\ j.at = "decided" => j.d.ask \subseteq Ids
  /\ j.at = "fill" => j.with \in Data
  /\ j.at = "ask" => j.ask \subseteq Ids
  /\ j.at = "prune" => j.kept \subseteq Ids

JobsFit == \A t \in Threads : JobFits(job[t])

RowsTyped ==
  /\ data \in [Ids -> Data] /\ asks \in [Kinds \X Ids -> SUBSET Ids]
  /\ next <= MaxId + 1

TypeInv == DataInv /\ RowsTyped /\ JobsFit

LEMMA FitLands ==
  ASSUME IInv, JobsFit, NEW t \in Threads, NEW j, JobFits(j), Go(t, j)
  PROVE  JobsFit'
<1>1. \A u \in Threads : job'[u] = IF u = t THEN j ELSE job[u]
  BY DEF Go, IInv, JobsOK
<1>2. \A u \in Threads : JobFits(job'[u])
  BY <1>1 DEF JobsFit
<1> QED BY <1>2 DEF JobsFit, JobFits

LEMMA PlainFits ==
  ASSUME NEW j, j.at \notin {"decided", "fill", "ask", "prune"}
  PROVE  JobFits(j)
BY DEF JobFits

\* The candidates of a question are records.
LEMMA AsksRecords ==
  ASSUME NEW o, NEW i, NEW gone \in SUBSET Candidates(o),
         NEW d \in Updates(i, o, gone) \cup Creations(o, gone)
  PROVE  d.ask \subseteq Ids
<1>1. gone \subseteq Ids /\ MoveAsk(gone) \subseteq Ids /\ CopyAsk(o) \subseteq Ids
  BY DEF Candidates, MoveAsk, CopyAsk, CopyHolders
<1>2. \E do, id, fp, orphan, source, kind, ask :
        d = Decision(do, id, fp, orphan, source, kind, ask)
          /\ ask \in {{}, MoveAsk(gone), CopyAsk(o)}
  BY DEF Updates, Creations
<1>3. d.ask \in {{}, MoveAsk(gone), CopyAsk(o)}
  BY <1>2 DEF Decision
<1> QED BY <1>1, <1>3

LEMMA ResolveFits ==
  ASSUME IdentityAssumption, TypeInv, NEW t \in Threads, Resolve(t)
  PROVE  RowsTyped' /\ JobsFit'
<1>1. IInv /\ RowsTyped /\ JobsFit
  BY DEF TypeInv, DataInv
<1>2. \A p : JobFits(After(t, p))
  <2>1. \A p : After(t, p).at \in {"idle", "found"}
    BY DEF After, Found, Idle
  <2> QED BY <2>1, PlainFits
<1>3. ASSUME NEW p \in Paths, Look(t, p) PROVE RowsTyped' /\ JobsFit'
  BY <1>1, <1>2, <1>3, FitLands DEF Look, RowsTyped
<1>4. ASSUME NEW p \in Paths, Observe(t, p) PROVE RowsTyped' /\ JobsFit'
  <2>1. PICK fp : Go(t, Resolving(p, disk[p].stat, fp))
    BY <1>4 DEF Observe
  <2>2. JobFits(Resolving(p, disk[p].stat, fp))
    BY PlainFits DEF Resolving
  <2>3. UNCHANGED <<data, asks, next>>
    BY <1>4 DEF Observe, tables
  <2> QED BY <1>1, <2>1, <2>2, <2>3, FitLands DEF RowsTyped
<1>5. CASE Decide(t)
  <2> DEFINE o == job[t]
             decided(d) == [at |-> "decided", path |-> o.path, stat |-> o.stat,
                            fp |-> o.fp, tries |-> o.tries, d |-> d]
  <2>1. PICK gone \in SUBSET {c \in Candidates(o) : Absent(c)} :
          \E d \in IF index[o.path] # 0 THEN Updates(index[o.path], o, gone)
                                        ELSE Creations(o, gone) : Go(t, decided(d))
    BY <1>5 DEF Decide
  <2>2. PICK d \in Updates(index[o.path], o, gone) \cup Creations(o, gone) : Go(t, decided(d))
    BY <2>1
  <2>3. gone \in SUBSET Candidates(o)
    BY <2>1
  <2>4. d.ask \subseteq Ids
    BY <2>2, <2>3, AsksRecords
  <2>5. JobFits(decided(d))
    BY <2>4 DEF JobFits
  <2>6. UNCHANGED <<data, asks, next>>
    BY <1>5 DEF Decide, tables
  <2> QED BY <1>1, <2>2, <2>5, <2>6, FitLands DEF RowsTyped
<1>6. CASE Apply(t)
  <2>1. \A i : JobFits(Next1(t, job[t], i))
    <3>1. job[t].d.ask \subseteq Ids
      BY <1>1, <1>6 DEF Apply, JobsFit, JobFits
    <3> SUFFICES ASSUME NEW i PROVE JobFits(Next1(t, job[t], i))
      OBVIOUS
    <3> QED BY <3>1 DEF Next1, JobFits, Idle
  <2>2. JobsFit'
    BY <1>1, <1>6, <2>1, FitLands DEF Apply
  <2>3. Sound(job[t].d, job[t].path) /\ Write(job[t])
    BY <1>1, <1>6 DEF Apply, IInv, JobsOK, JobOK
  <2>4. next' = next \/ (next <= MaxId /\ next' = next + 1)
    BY <2>3 DEF Sound, Write, Rewrite, Relocate, Create
  <2>5. next' <= MaxId + 1
    BY <1>1, <2>4 DEF RowsTyped, IInv, TablesTyped, IdentityAssumption
  <2>6. data' = data /\ asks' = asks
    BY <1>6 DEF Apply
  <2> QED BY <1>1, <2>2, <2>5, <2>6 DEF RowsTyped
<1>7. CASE Conflict(t)
  <2> DEFINE j == job[t]
             again == [Resolving(j.path, j.stat, j.fp) EXCEPT !.tries = j.tries + 1]
  <2>1. JobFits(again)
    BY PlainFits DEF Resolving
  <2>2. Go(t, again) \/ Go(t, After(t, j.path))
    BY <1>7 DEF Conflict
  <2>3. UNCHANGED <<data, asks, next>>
    BY <1>7 DEF Conflict, tables
  <2> QED BY <1>1, <1>2, <2>1, <2>2, <2>3, FitLands DEF RowsTyped
<1> QED BY <1>3, <1>4, <1>5, <1>6, <1>7 DEF Resolve

LEMMA FollowUpFits ==
  ASSUME TypeInv, NEW t \in Threads, FollowUp(t)
  PROVE  RowsTyped' /\ JobsFit'
<1>1. IInv /\ RowsTyped /\ JobsFit
  BY DEF TypeInv, DataInv
<1>2. JobFits(Idle)
  BY PlainFits DEF Idle
<1>3. CASE CloneRead(t)
  <2> DEFINE src == job[t].from
             fill == [at |-> "fill", to |-> job[t].to, with |-> data[src],
                      asked |-> job[t].asked]
  <2>1. \/ Signed(src) /\ Go(t, fill)
        \/ \E j : j.at \in {"answered", "idle"} /\ Go(t, j)
    BY <1>3 DEF CloneRead, Idle
  <2>2. PICK j : Go(t, j) /\ (j.at \in {"answered", "idle"} \/ (Signed(src) /\ j = fill))
    BY <2>1
  <2>3. JobFits(j)
    BY <2>2 DEF JobFits, Signed, Data
  <2>4. UNCHANGED <<data, asks, next>>
    BY <1>3 DEF CloneRead, tables
  <2> QED BY <1>1, <2>2, <2>3, <2>4, FitLands DEF RowsTyped
<1>4. CASE CloneWrite(t)
  <2>1. PICK j : Go(t, j) /\ j.at \in {"answered", "idle"}
    BY <1>4 DEF CloneWrite, Idle
  <2>2. job[t].with \in Data /\ data' = [data EXCEPT ![job[t].to] = job[t].with]
    BY <1>1, <1>4 DEF CloneWrite, JobsFit, JobFits
  <2>3. data' \in [Ids -> Data]
    BY <1>1, <2>2 DEF RowsTyped
  <2>4. UNCHANGED <<asks, next>>
    BY <1>4 DEF CloneWrite, tables
  <2> QED BY <1>1, <2>1, <2>3, <2>4, PlainFits, FitLands DEF RowsTyped
<1>5. CASE Ask(t)
  <2> DEFINE q == <<job[t].kind, job[t].subject>>
  <2>1. job[t].ask \subseteq Ids
    BY <1>1, <1>5 DEF Ask, JobsFit, JobFits
  <2>2. asks' = asks \/ asks' = [asks EXCEPT ![q] = job[t].ask]
    BY <1>1, <1>5 DEF Ask, RowsTyped
  <2>3. asks' \in [Kinds \X Ids -> SUBSET Ids]
    BY <1>1, <2>1, <2>2 DEF RowsTyped
  <2>4. UNCHANGED <<data, next>> /\ Go(t, Idle)
    BY <1>5 DEF Ask, tables
  <2> QED BY <1>1, <1>2, <2>3, <2>4, FitLands DEF RowsTyped
<1>6. CASE Answered(t)
  <2>1. UNCHANGED <<data, next>> /\ Go(t, Idle)
    BY <1>6 DEF Answered, tables
  <2>2. asks' \in [Kinds \X Ids -> SUBSET Ids]
    BY <1>1, <1>6 DEF Answered, RowsTyped
  <2> QED BY <1>1, <1>2, <2>1, <2>2, FitLands DEF RowsTyped
<1> QED BY <1>3, <1>4, <1>5, <1>6 DEF FollowUp

LEMMA OthersFit ==
  ASSUME TypeInv, UserWrite \/ Dialog \/ World
  PROVE  RowsTyped' /\ JobsFit'
<1>1. IInv /\ RowsTyped /\ JobsFit /\ "ui" \in Threads
  BY DEF TypeInv, DataInv, Threads
<1>2. JobFits(Idle)
  BY PlainFits DEF Idle
<1>3. CASE UserWrite
  <2>1. data' \in [Ids -> Data] /\ Go("ui", Idle) /\ UNCHANGED <<asks, next>>
    BY <1>1, <1>3 DEF UserWrite, RowsTyped, tables
  <2> QED BY <1>1, <1>2, <2>1, FitLands DEF RowsTyped
<1>4. CASE Adopt
  <2>1. PICK j : Go("ui", j) /\ j.at \in {"answered", "idle"}
    BY <1>4 DEF Adopt, Idle
  <2>2. UNCHANGED <<data, asks, next>>
    BY <1>4 DEF Adopt, Relocate, tables
  <2> QED BY <1>1, <2>1, <2>2, PlainFits, FitLands DEF RowsTyped
<1>5. ASSUME NEW k \in Kinds, NEW s \in Ids, Decline(k, s) PROVE RowsTyped' /\ JobsFit'
  <2>1. asks' = [asks EXCEPT ![<<k, s>>] = {}] /\ UNCHANGED <<data, next, job>>
    BY <1>5 DEF Decline, tables
  <2>2. asks' \in [Kinds \X Ids -> SUBSET Ids]
    BY <1>1, <2>1 DEF RowsTyped
  <2> QED BY <1>1, <2>1, <2>2 DEF RowsTyped, JobsFit, JobFits
<1>6. ASSUME NEW k \in Kinds, NEW s \in Ids, NEW c \in Ids, Choose(k, s, c)
      PROVE  RowsTyped' /\ JobsFit'
  <2> DEFINE j == IF k = "copy"
                  THEN [at |-> "clone", from |-> c, to |-> s, asked |-> TRUE]
                  ELSE [at |-> "adopt", blank |-> s, orphan |-> c]
  <2>1. Go("ui", j) /\ j.at \in {"clone", "adopt"}
    BY <1>6 DEF Choose
  <2>2. UNCHANGED <<data, asks, next>>
    BY <1>6 DEF Choose, tables
  <2> QED BY <1>1, <2>1, <2>2, PlainFits, FitLands DEF RowsTyped
<1>7. CASE World
  <2>1. UNCHANGED <<data, asks, next>>
    BY <1>7 DEF World, Restart, DeleteFile, WriteFile, CopyFile, MoveFile, tables
  <2>2. job' = job \/ job' = [t \in Threads |-> Idle]
    BY <1>7 DEF World, Restart, DeleteFile, WriteFile, CopyFile, MoveFile
  <2>3. \A t \in Threads : JobFits(job'[t])
    BY <1>1, <1>2, <2>2 DEF JobsFit
  <2> QED BY <1>1, <2>1, <2>3 DEF RowsTyped, JobsFit, JobFits
<1> QED BY <1>3, <1>4, <1>5, <1>6, <1>7 DEF Dialog

LEMMA UpkeepFits ==
  ASSUME TypeInv, Upkeep
  PROVE  RowsTyped' /\ JobsFit'
<1>1. IInv /\ RowsTyped /\ JobsFit /\ "worker" \in Threads
  BY DEF TypeInv, DataInv, Threads
<1>2. JobFits(Idle)
  BY PlainFits DEF Idle
<1>3. ASSUME NEW k \in Kinds, NEW s \in Ids, PruneLook(k, s) PROVE RowsTyped' /\ JobsFit'
  <2> DEFINE looked(kept) == [at |-> "prune", kind |-> k, subject |-> s, kept |-> kept]
             held == {c \in asks[k, s] : Exists(c) /\ c # s}
  <2>1. held \subseteq Ids
    BY <1>1 DEF RowsTyped
  <2>2. \E kept \in SUBSET held : Go("worker", looked(kept))
    BY <1>3 DEF PruneLook
  <2>3. PICK kept \in SUBSET held : Go("worker", looked(kept))
    BY <2>2
  <2>4. JobFits(looked(kept))
    BY <2>1 DEF JobFits
  <2>5. UNCHANGED <<data, asks, next>>
    BY <1>3 DEF PruneLook, tables
  <2> QED BY <1>1, <2>3, <2>4, <2>5, FitLands DEF RowsTyped
<1>4. CASE PruneWrite
  <2>1. job["worker"].kept \subseteq Ids
    BY <1>1, <1>4 DEF PruneWrite, JobsFit, JobFits
  <2>2. asks' \in [Kinds \X Ids -> SUBSET Ids]
    BY <1>1, <1>4, <2>1 DEF PruneWrite, RowsTyped
  <2>3. UNCHANGED <<data, next>> /\ Go("worker", Idle)
    BY <1>4 DEF PruneWrite, tables
  <2> QED BY <1>1, <1>2, <2>2, <2>3, FitLands DEF RowsTyped
<1>5. ASSUME NEW i \in Ids, SweepCheck(i) PROVE RowsTyped' /\ JobsFit'
  <2>1. JobFits([at |-> "delete", id |-> i])
    BY PlainFits
  <2>2. UNCHANGED <<data, asks, next>> /\ Go("worker", [at |-> "delete", id |-> i])
    BY <1>5 DEF SweepCheck, tables
  <2> QED BY <1>1, <2>1, <2>2, FitLands DEF RowsTyped
<1>6. CASE SweepDelete
  <2>1. data' \in [Ids -> Data]
    BY <1>1, <1>6 DEF SweepDelete, RowsTyped, Data
  <2>2. UNCHANGED <<asks, next>> /\ Go("worker", Idle)
    BY <1>6 DEF SweepDelete
  <2> QED BY <1>1, <1>2, <2>1, <2>2, FitLands DEF RowsTyped
<1> QED BY <1>3, <1>4, <1>5, <1>6 DEF Upkeep

\* Every variable keeps its type: user data is of the kinds the tables hold, the candidates
\* of a question are records, and no more ids are given out than the bound allows.
THEOREM IdentityTypeCorrect == ASSUME IdentityAssumption PROVE Spec => []TypeOK
<1>1. Init => RowsTyped /\ JobsFit
  <2> SUFFICES ASSUME NEW n \in {0, Known}, Resolved(n) PROVE RowsTyped /\ JobsFit
    BY DEF Init
  <2>1. n \in 0 .. MaxId /\ next = n + 1
    BY DEF Resolved, IdentityAssumption
  <2>2. next <= MaxId + 1
    BY <2>1 DEF IdentityAssumption
  <2>3. data \in [Ids -> Data]
    <3>1. PICK d \in [1 .. n -> Marks \cup {"none"}] :
            data = [i \in Ids |-> IF i <= n THEN d[i] ELSE "none"]
      BY DEF Resolved
    <3>2. \A i \in Ids : i <= n => d[i] \in Data
      BY <2>1, <3>1 DEF Ids, Data
    <3> QED BY <3>1, <3>2 DEF Data
  <2>4. asks \in [Kinds \X Ids -> SUBSET Ids]
    BY DEF Resolved
  <2>5. \A t \in Threads : job[t] = Idle
    BY DEF Resolved
  <2>6. JobsFit
    BY <2>5, PlainFits DEF JobsFit, Idle
  <2> QED BY <2>2, <2>3, <2>4, <2>6 DEF RowsTyped
<1>2. TypeInv /\ [Next]_vars => (RowsTyped /\ JobsFit)'
  <2> SUFFICES ASSUME TypeInv, [Next]_vars PROVE RowsTyped' /\ JobsFit'
    OBVIOUS
  <2>1. CASE UNCHANGED vars
    BY <2>1 DEF vars, tables, TypeInv, RowsTyped, JobsFit, JobFits
  <2>2. CASE Next
    BY <2>2, ResolveFits, FollowUpFits, OthersFit, UpkeepFits DEF Next
  <2> QED BY <2>1, <2>2
<1>3. TypeInv => TypeOK
  <2> SUFFICES ASSUME TypeInv PROVE TypeOK
    OBVIOUS
  <2>1. TablesTyped /\ raced \in BOOLEAN /\ RowsTyped
    BY DEF TypeInv, DataInv, IInv, DataTyped
  <2>2. next \in 1 .. MaxId + 1
    BY <2>1 DEF TablesTyped, RowsTyped, IdentityAssumption
  <2> QED BY <2>1, <2>2 DEF TablesTyped, RowsTyped, TypeOK
<1> QED BY <1>1, <1>2, <1>3, TakenIsFree, PTL DEF Spec, TypeInv

-----------------------------------------------------------------------------
(* Settings: what the user said is what the file shows *)

Former(r) == {p \in PathKeys : r.history[p] > 0}

PathRecords ==
  {r \in [path : PathKeys, origin : PathKeys, history : [PathKeys -> Nat]] : IsFiniteSet(Former(r))}

SettingsTyped ==
  /\ SettingsTypeOK
  /\ rec \in [Archives -> {NoRecord} \cup PathRecords]
  /\ \A f, g \in Archives : at[f] = at[g] /\ at[f] # Nowhere => f = g

\* Where the rows are that were written for a file before it had a record
Home(f) == IF HasRecord(f) THEN rec[f].origin ELSE at[f]

FormerRow(f, k) == IF Home(f) = Nowhere THEN "none" ELSE v1[Home(f)][k]

\* What a file shows, if nothing but its home has rows for it
ShownAs(v, former) == IF v = "unmigrated" THEN former ELSE IF v = "cleared" THEN "none" ELSE v

Shown(f, k) ==
  IF k = "bookmark" THEN IF bookmark[f] # "none" THEN bookmark[f] ELSE FormerRow(f, k)
  ELSE ShownAs(row[f][k], FormerRow(f, k))

\* A setting that is read from the former tables
ReadsFormer(f, k) == k = "bookmark" \/ row[f][k] = "unmigrated"

\* Each row of the former tables has a file it was written for: it is at the home of the
\* file, or was written elsewhere while the record had not followed, and then either the
\* setting is astray or the file does not read the former tables any more.
RowsHaveFiles ==
  \A p \in PathKeys, k \in SettingKinds :
    /\ v1[p][k] = "none" <=> from[p][k] = "none"
    /\ \A f \in Archives : from[p][k] = f =>
         p = Home(f) \/ <<f, k>> \in astray \/ ~ReadsFormer(f, k)

ApartFromOthers == \A f \in Archives \ mixed, g \in Archives : ~Met(f, g) /\ ~Met(g, f)

ShownAsSaid ==
  \A f \in Archives \ mixed, k \in SettingKinds : <<f, k>> \notin astray => want[f][k] = Shown(f, k)

Untouched ==
  \A f \in Archives : ~HasRecord(f) =>
    /\ bookmark[f] = "none" /\ \A k \in Slots : row[f][k] = "unmigrated"
    /\ \A k \in SettingKinds : <<f, k>> \notin astray

SettingsInv == SettingsTyped /\ RowsHaveFiles /\ ApartFromOthers /\ ShownAsSaid /\ Untouched

LEMMA RecordTypes ==
  ASSUME SettingsTyped, NEW f \in Archives
  PROVE  /\ HasRecord(f) <=> rec[f] \in PathRecords
         /\ HasRecord(f) => /\ rec[f].path \in PathKeys /\ rec[f].origin \in PathKeys
                            /\ rec[f].history \in [PathKeys -> Nat] /\ IsFiniteSet(Former(rec[f]))
         /\ at[f] \in PathKeys \cup {Nowhere}
         /\ Home(f) \in PathKeys \cup {Nowhere}
<1>1. rec[f] \in {NoRecord} \cup PathRecords
  BY DEF SettingsTyped
<1>2. NoRecord \notin PathRecords
  <2>1. ASSUME NEW r \in PathRecords PROVE r # NoRecord
    <3>1. r.path # NoRecord.path
      BY SettingsAssumption DEF PathRecords, NoRecord
    <3> QED BY <3>1
  <2> QED BY <2>1
<1>3. at[f] \in PathKeys \cup {Nowhere}
  BY DEF SettingsTyped, SettingsTypeOK
<1>4. HasRecord(f) <=> rec[f] \in PathRecords
  BY <1>1, <1>2 DEF HasRecord
<1>5. HasRecord(f) => /\ rec[f].path \in PathKeys /\ rec[f].origin \in PathKeys
                      /\ rec[f].history \in [PathKeys -> Nat] /\ IsFiniteSet(Former(rec[f]))
  BY <1>4 DEF PathRecords
<1> QED BY <1>3, <1>4, <1>5 DEF Home

LEMMA WaysOf ==
  ASSUME SettingsTyped, NEW f \in Archives
  PROVE  Ways(f) \subseteq PathKeys /\ (Home(f) # Nowhere => Home(f) \in Ways(f))
<1>1. CASE HasRecord(f)
  BY <1>1, RecordTypes DEF Ways, Keys, Home
<1>2. CASE ~HasRecord(f)
  BY <1>2, RecordTypes DEF Ways, Home
<1> QED BY <1>1, <1>2

\* A file that has met no other finds only rows of its own.
LEMMA OwnRows ==
  ASSUME SettingsInv, NEW f \in Archives \ mixed, NEW p \in Ways(f), NEW k \in SettingKinds
  PROVE  v1[p][k] = "none" \/
         (from[p][k] = f /\ (p = Home(f) \/ <<f, k>> \in astray \/ ~ReadsFormer(f, k)))
<1>1. p \in PathKeys
  BY WaysOf DEF SettingsInv
<1>2. from[p][k] \in Archives \cup {"none"}
  BY <1>1 DEF SettingsInv, SettingsTyped, SettingsTypeOK
<1>3. from[p][k] \in {f, "none"}
  <2>1. ASSUME NEW g \in Archives, from[p][k] = g, g # f PROVE FALSE
    <3>1. Met(f, g)
      BY <2>1 DEF Met
    <3> QED BY <3>1 DEF SettingsInv, ApartFromOthers
  <2> QED BY <1>2, <2>1
<1> QED BY <1>1, <1>3 DEF SettingsInv, RowsHaveFiles

LEMMA LegacyIsHome ==
  ASSUME SettingsInv, NEW f \in Archives \ mixed, HasRecord(f), NEW k \in SettingKinds,
         <<f, k>> \notin astray, ReadsFormer(f, k)
  PROVE  Legacy(rec[f], k) = FormerRow(f, k)
<1>1. /\ rec[f].origin \in PathKeys /\ Home(f) = rec[f].origin /\ Home(f) # Nowhere
      /\ Keys(rec[f]) \subseteq Ways(f)
  BY RecordTypes, SettingsAssumption DEF SettingsInv, Home, Ways
<1>2. ASSUME NEW p \in Keys(rec[f]) PROVE v1[p][k] = "none" \/ p = rec[f].origin
  BY <1>1, OwnRows
<1>3. rec[f].path \in Keys(rec[f]) /\ {p \in PathKeys : rec[f].history[p] > 0} \subseteq Keys(rec[f])
  BY DEF Keys
<1> DEFINE former == {p \in PathKeys : rec[f].history[p] > 0 /\ v1[p][k] # "none"}
<1>4. \A p \in former : p = rec[f].origin /\ v1[p][k] # "none"
  BY <1>2, <1>3
<1>5. v1[rec[f].origin][k] # "none" \/ former = {}
  BY <1>4
<1>6. v1[rec[f].path][k] # "none" => rec[f].path = rec[f].origin
  BY <1>2, <1>3
<1>7. Legacy(rec[f], k) = v1[rec[f].origin][k]
  BY <1>5, <1>6 DEF Legacy
<1> QED BY <1>1, <1>7 DEF FormerRow

\* The latest of the former paths that have a row
LEMMA LatestFormer ==
  ASSUME NEW T \in SUBSET PathKeys, T # {}, NEW h \in [PathKeys -> Nat]
  PROVE  LET p == CHOOSE p \in T : \A q \in T : h[p] <= h[q]
         IN  p \in T /\ \A q \in T : h[p] <= h[q]
<1> DEFINE places == {h[p] : p \in T}
<1>1. places \subseteq Nat /\ places # {}
  OBVIOUS
<1>2. \E n \in places : \A m \in places : ~(<<m, n>> \in OpToRel(<, Nat))
  <2> HIDE DEF places
  <2> QED BY <1>1, NatLessThanWellFounded, WFMin
<1>3. PICK n \in places : \A m \in places : ~(m < n)
  BY <1>1, <1>2 DEF OpToRel
<1>4. PICK p \in T : h[p] = n
  OBVIOUS
<1>5. \A q \in T : h[p] <= h[q]
  BY <1>1, <1>3, <1>4
<1> QED BY <1>5

LEMMA LegacyType ==
  ASSUME SettingsTyped, NEW f \in Archives, HasRecord(f), NEW k \in SettingKinds
  PROVE  Legacy(rec[f], k) \in Opt
<1> DEFINE former == {p \in PathKeys : rec[f].history[p] > 0 /\ v1[p][k] # "none"}
           last == CHOOSE p \in former : \A q \in former : rec[f].history[p] <= rec[f].history[q]
<1>1. /\ rec[f].path \in PathKeys /\ rec[f].origin \in PathKeys
      /\ rec[f].history \in [PathKeys -> Nat]
  BY RecordTypes
<1>2. former # {} => last \in former
  <2>1. former \in SUBSET PathKeys
    OBVIOUS
  <2> HIDE DEF former
  <2> QED BY <1>1, <2>1, LatestFormer
<1>3. former # {} => last \in PathKeys
  BY <1>2
<1>4. \A p \in PathKeys : v1[p][k] \in Opt
  BY DEF SettingsTyped, SettingsTypeOK
<1>5. Legacy(rec[f], k) \in {v1[rec[f].path][k], v1[rec[f].origin][k]} \/
      (former # {} /\ Legacy(rec[f], k) = v1[last][k])
  BY DEF Legacy
<1> HIDE DEF last, former
<1> QED BY <1>1, <1>3, <1>4, <1>5

LEMMA EffectiveType ==
  ASSUME SettingsTyped, NEW f \in Archives, HasRecord(f), NEW k \in SettingKinds
  PROVE  Effective(f, k) \in Opt
<1>1. Legacy(rec[f], k) \in Opt
  BY LegacyType
<1>2. CASE k = "bookmark"
  BY <1>1, <1>2 DEF Effective, SettingsTyped, SettingsTypeOK
<1>3. CASE k # "bookmark"
  <2>1. row[f][k] \in Values \cup {"unmigrated", "cleared"}
    BY <1>3 DEF SettingsTyped, SettingsTypeOK, SettingKinds
  <2> QED BY <1>1, <1>3, <2>1 DEF Effective, Opt
<1> QED BY <1>2, <1>3

LEMMA EffectiveIsShown ==
  ASSUME SettingsInv, NEW f \in Archives \ mixed, HasRecord(f), NEW k \in SettingKinds,
         <<f, k>> \notin astray
  PROVE  Effective(f, k) = Shown(f, k)
<1>1. ReadsFormer(f, k) => Legacy(rec[f], k) = FormerRow(f, k)
  BY LegacyIsHome
<1>2. CASE k = "bookmark"
  BY <1>1, <1>2 DEF Effective, Shown, ReadsFormer
<1>3. CASE k # "bookmark"
  BY <1>1, <1>3 DEF Effective, Shown, ShownAs, ReadsFormer
<1> QED BY <1>2, <1>3

\* migrate moves values over and changes nothing that is shown.
LEMMA MigrateShowsTheSame ==
  ASSUME SettingsTyped, NEW f \in Archives, HasRecord(f)
  PROVE  /\ Migrated(f) \in [Slots -> Values \cup {"cleared"}]
         /\ SettingsInv /\ f \notin mixed =>
              \A k \in Slots : <<f, k>> \notin astray =>
                \A x : ShownAs(Migrated(f)[k], x) = Shown(f, k)
<1>1. ASSUME NEW k \in Slots
      PROVE  /\ Migrated(f)[k] \in Values \cup {"cleared"}
             /\ SettingsInv /\ f \notin mixed /\ <<f, k>> \notin astray =>
                  \A x : ShownAs(Migrated(f)[k], x) = Shown(f, k)
  <2>1. k \in SettingKinds /\ k # "bookmark"
    BY SettingsAssumption DEF SettingKinds
  <2>2. Legacy(rec[f], k) \in Opt /\ row[f][k] \in Values \cup {"unmigrated", "cleared"}
    BY <2>1, LegacyType DEF SettingsTyped, SettingsTypeOK
  <2>3. Migrated(f)[k] = IF row[f][k] # "unmigrated" THEN row[f][k]
                         ELSE IF Legacy(rec[f], k) = "none" THEN "cleared" ELSE Legacy(rec[f], k)
    BY DEF Migrated
  <2>4. SettingsInv /\ f \notin mixed /\ <<f, k>> \notin astray /\ row[f][k] = "unmigrated"
          => Legacy(rec[f], k) = FormerRow(f, k)
    BY <2>1, LegacyIsHome DEF ReadsFormer
  <2>5. Migrated(f)[k] \in Values \cup {"cleared"}
    BY <2>2, <2>3 DEF Opt
  <2>6. ASSUME SettingsInv, f \notin mixed, <<f, k>> \notin astray, NEW x
        PROVE  ShownAs(Migrated(f)[k], x) = Shown(f, k)
    <3>1. Shown(f, k) = ShownAs(row[f][k], FormerRow(f, k))
      BY <2>1 DEF Shown
    <3>2. "unmigrated" \notin Values /\ "cleared" \notin Values
      BY SettingsAssumption
    <3>3. CASE row[f][k] = "unmigrated"
      BY <2>2, <2>3, <2>4, <2>6, <3>1, <3>2, <3>3 DEF ShownAs, Opt
    <3>4. CASE row[f][k] # "unmigrated"
      BY <2>3, <3>1, <3>4 DEF ShownAs
    <3> QED BY <3>3, <3>4
  <2> QED BY <2>5, <2>6
<1>2. Migrated(f) = [k \in Slots |-> Migrated(f)[k]]
  BY DEF Migrated
<1> QED BY <1>1, <1>2

LEMMA SettingsInvInit == SettingsInit => SettingsInv
<1> SUFFICES ASSUME SettingsInit PROVE SettingsInv
  OBVIOUS
<1>1. \A f \in Archives : ~HasRecord(f) /\ Home(f) = at[f]
  BY DEF SettingsInit, HasRecord, Home
<1>2. /\ at \in [Archives -> PathKeys \cup {Nowhere}]
      /\ \A f, g \in Archives : at[f] = at[g] /\ at[f] # Nowhere => f = g
      /\ want \in [Archives -> [SettingKinds -> Opt]]
  BY DEF SettingsInit
<1>3. ASSUME NEW p \in PathKeys, NEW k \in SettingKinds
      PROVE  /\ from[p][k] \in Archives \cup {"none"}
             /\ \A f \in Archives : from[p][k] = f <=> (at[f] = p /\ want[f][k] # "none")
             /\ v1[p][k] = IF from[p][k] = "none" THEN "none" ELSE want[from[p][k]][k]
  <2>1. from[p][k] = IF \E f \in Archives : at[f] = p /\ want[f][k] # "none"
                     THEN CHOOSE f \in Archives : at[f] = p ELSE "none"
    BY DEF SettingsInit
  <2>2. v1[p][k] = IF from[p][k] = "none" THEN "none" ELSE want[from[p][k]][k]
    BY DEF SettingsInit
  <2>3. p # Nowhere /\ "none" \notin Archives
    BY SettingsAssumption
  <2>4. CASE \E f \in Archives : at[f] = p /\ want[f][k] # "none"
    <3>1. PICK f \in Archives : at[f] = p /\ want[f][k] # "none"
      BY <2>4
    <3>2. from[p][k] = CHOOSE g \in Archives : at[g] = p
      BY <2>1, <2>4
    <3>3. (CHOOSE g \in Archives : at[g] = p) = f
      BY <1>2, <2>3, <3>1
    <3> QED BY <1>2, <2>2, <2>3, <3>1, <3>2, <3>3
  <2>5. CASE ~\E f \in Archives : at[f] = p /\ want[f][k] # "none"
    BY <2>1, <2>2, <2>3, <2>5
  <2> QED BY <2>4, <2>5
<1>4. SettingsTyped
  <2>1. v1 \in [PathKeys -> [SettingKinds -> Opt]]
    <3>1. ASSUME NEW p \in PathKeys, NEW k \in SettingKinds
          PROVE  (IF from[p][k] = "none" THEN "none" ELSE want[from[p][k]][k]) \in Opt
      BY <1>2, <1>3, <3>1 DEF Opt
    <3> QED BY <3>1 DEF SettingsInit
  <2>2. from \in [PathKeys -> [SettingKinds -> Archives \cup {"none"}]]
    <3>1. from = [p \in PathKeys |-> [k \in SettingKinds |-> from[p][k]]]
      BY DEF SettingsInit
    <3> QED BY <1>3, <3>1
  <2>3. /\ row \in [Archives -> [Slots -> Values \cup {"unmigrated", "cleared"}]]
        /\ bookmark \in [Archives -> Opt] /\ mixed \subseteq Archives
        /\ rec \in [Archives -> {NoRecord} \cup PathRecords]
        /\ astray \subseteq Archives \X SettingKinds
    BY DEF SettingsInit, Opt
  <2>4. moves \in 0 .. MaxMoves /\ writes \in 0 .. MaxWrites
    BY SettingsAssumption DEF SettingsInit
  <2> QED BY <1>2, <2>1, <2>2, <2>3, <2>4 DEF SettingsTyped, SettingsTypeOK
<1>5. RowsHaveFiles
  <2>1. ASSUME NEW p \in PathKeys, NEW k \in SettingKinds
        PROVE  v1[p][k] = "none" <=> from[p][k] = "none"
    BY <1>3, SettingsAssumption
  <2> QED BY <1>1, <1>3, <2>1 DEF RowsHaveFiles
<1>6. ApartFromOthers
  <2>1. ASSUME NEW f \in Archives, NEW g \in Archives, NEW p \in Ways(f), NEW k \in SettingKinds,
               from[p][k] = g
        PROVE  f = g
    <3>1. p = at[f] /\ at[f] # Nowhere
      BY <1>1 DEF Ways
    <3> QED BY <1>2, <1>3, <2>1, <3>1
  <2> QED BY <2>1 DEF ApartFromOthers, Met
<1>7. Untouched
  BY DEF SettingsInit, Untouched
<1>8. ASSUME NEW f \in Archives, NEW k \in SettingKinds
      PROVE  want[f][k] = Shown(f, k)
  <2>1. want[f][k] = FormerRow(f, k)
    <3>1. CASE at[f] = Nowhere
      BY <1>1, <3>1 DEF FormerRow, SettingsInit
    <3>2. CASE at[f] # Nowhere
      <4>1. at[f] \in PathKeys
        BY <1>2, <3>2
      <4>2. CASE want[f][k] # "none"
        BY <1>1, <1>3, <4>1, <4>2, SettingsAssumption DEF FormerRow
      <4>3. CASE want[f][k] = "none"
        <5>1. ASSUME NEW g \in Archives, from[at[f]][k] = g PROVE FALSE
          <6>1. at[g] = at[f] /\ want[g][k] # "none"
            BY <1>3, <4>1, <5>1
          <6> QED BY <1>2, <3>2, <4>3, <6>1
        <5> QED BY <1>1, <1>3, <3>2, <4>1, <4>3, <5>1 DEF FormerRow
      <4> QED BY <4>2, <4>3
    <3> QED BY <3>1, <3>2
  <2>2. Shown(f, k) = FormerRow(f, k)
    BY DEF SettingsInit, Shown, ShownAs, SettingKinds
  <2> QED BY <2>1, <2>2
<1>9. ShownAsSaid
  BY <1>8 DEF ShownAsSaid
<1> QED BY <1>4, <1>5, <1>6, <1>7, <1>9 DEF SettingsInv

\* After a step that is watched, files that are not mixed have met no other.
LEMMA WatchKeepsApart ==
  ASSUME Watch, SettingsTyped
  PROVE  ApartFromOthers' /\ mixed \subseteq mixed' /\ (mixed \subseteq Archives => mixed' \subseteq Archives)
<1>1. mixed' = mixed \cup {f \in Archives : \E g \in Archives : (Met(f, g) \/ Met(g, f))'}
  BY DEF Watch
<1> QED BY <1>1 DEF ApartFromOthers

LEMMA FirstRecordKeeps == ASSUME SettingsInv, NEW f \in Archives, FirstRecord(f) PROVE SettingsInv'
<1> DEFINE r == [path |-> at[f], origin |-> at[f], history |-> [p \in PathKeys |-> 0]]
<1>1. /\ at' = at /\ v1' = v1 /\ row' = row /\ bookmark' = bookmark /\ moves' = moves
      /\ writes' = writes /\ want' = want /\ from' = from /\ rec' = [rec EXCEPT ![f] = r]
      /\ astray' = astray
      /\ ~HasRecord(f) /\ at[f] \in PathKeys /\ Watch /\ SettingsTyped
  BY DEF FirstRecord, SettingsInv, SettingsTyped, SettingsTypeOK
<1>2. r \in PathRecords
  <2>1. Former(r) = {}
    BY DEF Former
  <2> QED BY <1>1, <2>1, FS_EmptySet DEF PathRecords
<1>3. rec' \in [Archives -> {NoRecord} \cup PathRecords]
  BY <1>1, <1>2 DEF SettingsTyped
<1>4. ApartFromOthers' /\ mixed \subseteq mixed' /\ mixed' \subseteq Archives
  BY <1>1, WatchKeepsApart DEF SettingsTyped, SettingsTypeOK
<1>5. SettingsTyped'
  BY <1>1, <1>3, <1>4 DEF SettingsTyped, SettingsTypeOK
<1>6. r # NoRecord
  BY <1>1, SettingsAssumption DEF NoRecord
<1>7. \A g \in Archives : Home(g)' = Home(g) /\ (HasRecord(g) => HasRecord(g)')
  BY <1>1, <1>6 DEF Home, HasRecord, SettingsTyped
<1>8. \A g \in Archives, k \in SettingKinds : Shown(g, k)' = Shown(g, k)
  BY <1>1, <1>7 DEF Shown, ShownAs, FormerRow
<1>9. RowsHaveFiles'
  BY <1>1, <1>7 DEF SettingsInv, RowsHaveFiles, ReadsFormer
<1>10. ShownAsSaid'
  BY <1>1, <1>4, <1>8 DEF SettingsInv, ShownAsSaid
<1>11. Untouched'
  BY <1>1, <1>7 DEF SettingsInv, Untouched
<1> QED BY <1>4, <1>5, <1>9, <1>10, <1>11 DEF SettingsInv

LEMMA RelocatedType ==
  ASSUME NEW r \in PathRecords, NEW p \in PathKeys
  PROVE  Relocated(r, p) \in PathRecords /\ Relocated(r, p).origin = r.origin
<1> DEFINE kept == {q \in PathKeys \ {r.path, p} : r.history[q] > 0}
           place(q) == 1 + Cardinality({o \in kept : r.history[o] <= r.history[q]})
           h == [q \in PathKeys |-> IF q = r.path THEN 1
                                    ELSE IF q \in kept /\ place(q) <= HistoryMax THEN place(q) ELSE 0]
<1>1. /\ r.path \in PathKeys /\ r.origin \in PathKeys /\ r.history \in [PathKeys -> Nat]
      /\ IsFiniteSet(Former(r)) /\ r = [path |-> r.path, origin |-> r.origin, history |-> r.history]
  BY DEF PathRecords
<1>2. IsFiniteSet(kept)
  <2>1. kept \in SUBSET Former(r)
    BY DEF Former
  <2> QED BY <1>1, <2>1, FS_Subset
<1>3. ASSUME NEW q \in kept PROVE place(q) \in Nat
  <2> DEFINE ahead == {o \in kept : r.history[o] <= r.history[q]}
  <2>1. ahead \in SUBSET kept
    OBVIOUS
  <2>2. IsFiniteSet(ahead)
    <3> HIDE DEF kept, ahead
    <3> QED BY <1>2, <2>1, FS_Subset
  <2>3. Cardinality(ahead) \in Nat
    <3> HIDE DEF kept, ahead
    <3> QED BY <2>2, FS_CardinalityType
  <2> QED BY <2>3
<1>4. h \in [PathKeys -> Nat]
  <2> HIDE DEF place, kept
  <2> QED BY <1>3
<1>5. Relocated(r, p) = [r EXCEPT !.path = p, !.history = h]
  BY DEF Relocated
<1>6. Relocated(r, p) = [path |-> p, origin |-> r.origin, history |-> h]
  <2> HIDE DEF h
  <2> QED BY <1>1, <1>5
<1>7. IsFiniteSet({q \in PathKeys : h[q] > 0})
  <2>1. {q \in PathKeys : h[q] > 0} \in SUBSET (kept \cup {r.path})
    <3> HIDE DEF place, kept
    <3> QED OBVIOUS
  <2>2. IsFiniteSet(kept \cup {r.path})
    <3> HIDE DEF kept
    <3> QED BY <1>2, FS_AddElement
  <2> HIDE DEF h, kept
  <2> QED BY <2>1, <2>2, FS_Subset
<1> HIDE DEF h
<1> QED BY <1>1, <1>4, <1>6, <1>7 DEF PathRecords, Former

LEMMA FollowMoveKeeps == ASSUME SettingsInv, NEW f \in Archives, FollowMove(f) PROVE SettingsInv'
<1> DEFINE r == Relocated(rec[f], at[f])
<1>1. /\ at' = at /\ v1' = v1 /\ row' = row /\ bookmark' = bookmark /\ moves' = moves
      /\ writes' = writes /\ want' = want /\ from' = from /\ rec' = [rec EXCEPT ![f] = r]
      /\ astray' = astray
      /\ HasRecord(f) /\ at[f] \in PathKeys /\ Watch /\ SettingsTyped
  BY DEF FollowMove, SettingsInv, SettingsTyped, SettingsTypeOK
<1>2. r \in PathRecords /\ r.origin = rec[f].origin
  BY <1>1, RecordTypes, RelocatedType
<1>3. r # NoRecord
  <2>1. r.path \in PathKeys
    BY <1>2 DEF PathRecords
  <2> HIDE DEF r
  <2> QED BY <2>1, SettingsAssumption DEF NoRecord
<1> HIDE DEF r
<1>4. ApartFromOthers' /\ mixed \subseteq mixed' /\ mixed' \subseteq Archives
  BY <1>1, WatchKeepsApart DEF SettingsTyped, SettingsTypeOK
<1>5. SettingsTyped'
  BY <1>1, <1>2, <1>4 DEF SettingsTyped, SettingsTypeOK
<1>6. \A g \in Archives : Home(g)' = Home(g) /\ (HasRecord(g) => HasRecord(g)')
  BY <1>1, <1>2, <1>3 DEF Home, HasRecord, SettingsTyped
<1>7. \A g \in Archives, k \in SettingKinds : Shown(g, k)' = Shown(g, k)
  BY <1>1, <1>6 DEF Shown, ShownAs, FormerRow
<1>8. RowsHaveFiles'
  BY <1>1, <1>6 DEF SettingsInv, RowsHaveFiles, ReadsFormer
<1>9. ShownAsSaid'
  BY <1>1, <1>4, <1>7 DEF SettingsInv, ShownAsSaid
<1>10. Untouched'
  BY <1>1, <1>6 DEF SettingsInv, Untouched
<1> QED BY <1>4, <1>5, <1>8, <1>9, <1>10 DEF SettingsInv

\* Where ways and rows stay, or rows only go, no files meet.
LEMMA StillApart ==
  ASSUME SettingsInv, mixed' = mixed, at' = at, rec' = rec,
         \A p \in PathKeys, k \in SettingKinds : from'[p][k] \in {from[p][k], "none"}
  PROVE  ApartFromOthers'
<1>1. \A f \in Archives : Ways(f)' = Ways(f) /\ Ways(f) \subseteq PathKeys
  BY WaysOf DEF SettingsInv, Ways, HasRecord, Keys
<1>2. ASSUME NEW f \in Archives, NEW g \in Archives, Met(f, g)' PROVE Met(f, g)
  BY <1>1, <1>2, SettingsAssumption DEF Met
<1> QED BY <1>2 DEF SettingsInv, ApartFromOthers

LEMMA SetSlotKeeps ==
  ASSUME SettingsInv, NEW f \in Archives, NEW k \in Slots, NEW v \in Opt, SetSlot(f, k, v)
  PROVE  SettingsInv'
<1> DEFINE s == IF v = "none" THEN "cleared" ELSE v
<1>1. /\ at' = at /\ rec' = rec /\ v1' = v1 /\ bookmark' = bookmark /\ moves' = moves
      /\ from' = from /\ mixed' = mixed /\ HasRecord(f) /\ SettingsTyped
      /\ astray' = astray \ {<<f, k>>}
      /\ row' = [row EXCEPT ![f] = [Migrated(f) EXCEPT ![k] = s]]
      /\ want' = [want EXCEPT ![f][k] = v] /\ writes' = writes + 1 /\ writes < MaxWrites
  BY DEF SetSlot, Said, Here, SettingsInv
<1>2. k \in SettingKinds /\ k # "bookmark" /\ \A j \in Slots : j \in SettingKinds /\ j # "bookmark"
  BY SettingsAssumption DEF SettingKinds
<1>3. /\ Migrated(f) \in [Slots -> Values \cup {"cleared"}]
      /\ f \notin mixed => \A j \in Slots : <<f, j>> \notin astray =>
           \A x : ShownAs(Migrated(f)[j], x) = Shown(f, j)
  BY <1>1, MigrateShowsTheSame
<1>4. s \in Values \cup {"cleared"} /\ \A x : ShownAs(s, x) = v
  BY SettingsAssumption DEF Opt, ShownAs
<1> HIDE DEF s
<1>5. SettingsTyped'
  <2>1. row' \in [Archives -> [Slots -> Values \cup {"unmigrated", "cleared"}]]
    <3>1. [Migrated(f) EXCEPT ![k] = s] \in [Slots -> Values \cup {"unmigrated", "cleared"}]
      BY <1>3, <1>4
    <3> QED BY <1>1, <3>1 DEF SettingsTyped, SettingsTypeOK
  <2>2. want' \in [Archives -> [SettingKinds -> Opt]]
    BY <1>1, <1>2 DEF SettingsTyped, SettingsTypeOK
  <2>3. writes' \in 0 .. MaxWrites
    BY <1>1, SettingsAssumption DEF SettingsTyped, SettingsTypeOK
  <2> QED BY <1>1, <2>1, <2>2, <2>3 DEF SettingsTyped, SettingsTypeOK
<1>6. RowsHaveFiles' /\ ApartFromOthers'
  <2>1. ApartFromOthers'
    BY <1>1, StillApart
  <2>2. ASSUME NEW g \in Archives, NEW j \in SettingKinds
        PROVE  /\ Home(g)' = Home(g)
               /\ <<g, j>> \in astray \/ ~ReadsFormer(g, j) =>
                    <<g, j>> \in astray' \/ ~ReadsFormer(g, j)'
    <3>1. Home(g)' = Home(g)
      BY <1>1 DEF Home, HasRecord
    <3>2. CASE g # f \/ j = "bookmark"
      <4>1. g # f => row'[g] = row[g]
        BY <1>1 DEF SettingsTyped, SettingsTypeOK
      <4> QED BY <1>1, <1>2, <3>1, <3>2, <4>1 DEF ReadsFormer
    <3>3. CASE g = f /\ j # "bookmark"
      <4>1. j \in Slots
        BY <3>3 DEF SettingKinds
      <4>2. row'[f][j] \in Values \cup {"cleared"}
        BY <1>1, <1>3, <1>4, <4>1 DEF SettingsTyped, SettingsTypeOK
      <4>3. row'[f][j] # "unmigrated"
        BY <4>2, SettingsAssumption
      <4> QED BY <3>1, <3>3, <4>3 DEF ReadsFormer
    <3> QED BY <3>2, <3>3
  <2>3. RowsHaveFiles'
    BY <1>1, <2>2 DEF SettingsInv, RowsHaveFiles
  <2> QED BY <2>1, <2>3
<1>7. Untouched'
  <2>1. ASSUME NEW g \in Archives, g # f PROVE row'[g] = row[g]
    BY <1>1, <2>1 DEF SettingsTyped, SettingsTypeOK
  <2> QED BY <1>1, <2>1 DEF SettingsInv, Untouched, HasRecord
<1>8. ShownAsSaid'
  <2>1. \A g \in Archives, j \in SettingKinds : FormerRow(g, j)' = FormerRow(g, j)
    BY <1>1 DEF FormerRow, Home, HasRecord
  <2>2. ASSUME NEW g \in Archives \ mixed, NEW j \in SettingKinds,
               <<g, j>> \notin astray'
        PROVE  want'[g][j] = Shown(g, j)'
    <3>1. <<g, j>> \notin astray \/ (g = f /\ j = k)
      BY <1>1, <2>2
    <3>2. <<g, j>> \notin astray => want[g][j] = Shown(g, j)
      BY DEF SettingsInv, ShownAsSaid
    <3>3. CASE g # f \/ j = "bookmark"
      <4>1. want'[g][j] = want[g][j]
        BY <1>1, <1>2, <3>3 DEF SettingsTyped, SettingsTypeOK
      <4>2. g # f => row'[g] = row[g]
        BY <1>1 DEF SettingsTyped, SettingsTypeOK
      <4> QED BY <1>1, <1>2, <2>1, <3>1, <3>2, <3>3, <4>1, <4>2 DEF Shown
    <3>4. CASE g = f /\ j = k
      <4>1. want'[f][k] = v
        BY <1>1, <1>2 DEF SettingsTyped, SettingsTypeOK
      <4>2. row'[f][k] = s
        BY <1>1, <1>3 DEF SettingsTyped, SettingsTypeOK
      <4> QED BY <1>2, <1>4, <3>4, <4>1, <4>2 DEF Shown
    <3>5. CASE g = f /\ j # k /\ j # "bookmark"
      <4>1. want'[f][j] = want[f][j]
        BY <1>1, <1>2, <3>5 DEF SettingsTyped, SettingsTypeOK
      <4>2. j \in Slots
        BY <3>5 DEF SettingKinds
      <4>3. row'[f][j] = Migrated(f)[j]
        BY <1>1, <1>3, <3>5, <4>2 DEF SettingsTyped, SettingsTypeOK
      <4>4. Shown(f, j)' = ShownAs(Migrated(f)[j], FormerRow(f, j)')
        BY <3>5, <4>3 DEF Shown
      <4>5. Shown(f, j)' = Shown(f, j)
        BY <1>3, <3>1, <3>5, <4>2, <4>4
      <4> QED BY <3>1, <3>2, <3>5, <4>1, <4>5
    <3> QED BY <3>3, <3>4, <3>5
  <2> QED BY <1>1, <2>2 DEF ShownAsSaid
<1> QED BY <1>5, <1>6, <1>7, <1>8 DEF SettingsInv

LEMMA SetBookmarkKeeps ==
  ASSUME SettingsInv, NEW f \in Archives, NEW v \in Opt, SetBookmark(f, v)
  PROVE  SettingsInv'
<1> DEFINE gone(p, k) == v = "none" /\ p \in Keys(rec[f]) /\ k = "bookmark"
<1>1. /\ at' = at /\ rec' = rec /\ row' = row /\ moves' = moves
      /\ mixed' = mixed /\ astray' = astray /\ HasRecord(f) /\ SettingsTyped
      /\ bookmark' = [bookmark EXCEPT ![f] = v]
      /\ want' = [want EXCEPT ![f]["bookmark"] = v] /\ writes' = writes + 1 /\ writes < MaxWrites
  BY DEF SetBookmark, Said, Here, SettingsInv
<1>2. /\ v1 \in [PathKeys -> [SettingKinds -> Opt]]
      /\ from \in [PathKeys -> [SettingKinds -> Archives \cup {"none"}]]
      /\ want \in [Archives -> [SettingKinds -> Opt]] /\ bookmark \in [Archives -> Opt]
      /\ "bookmark" \in SettingKinds /\ "none" \in Opt
  BY <1>1 DEF SettingsTyped, SettingsTypeOK, SettingKinds, Opt
<1>3. v1' \in [PathKeys -> [SettingKinds -> Opt]] /\ from' \in [PathKeys -> [SettingKinds -> Archives \cup {"none"}]]
  <2>1. CASE v = "none"
    <3>1. \A p \in PathKeys :
            /\ [v1[p] EXCEPT !["bookmark"] = "none"] \in [SettingKinds -> Opt]
            /\ [from[p] EXCEPT !["bookmark"] = "none"] \in [SettingKinds -> Archives \cup {"none"}]
      BY <1>2
    <3> QED BY <1>2, <2>1, <3>1 DEF SetBookmark
  <2>2. CASE v # "none"
    BY <1>2, <2>2 DEF SetBookmark
  <2> QED BY <2>1, <2>2
<1>4. ASSUME NEW p \in PathKeys, NEW k \in SettingKinds
      PROVE  IF gone(p, k) THEN v1'[p][k] = "none" /\ from'[p][k] = "none"
                           ELSE v1'[p][k] = v1[p][k] /\ from'[p][k] = from[p][k]
  <2>1. CASE v = "none"
    <3>1. /\ [v1[p] EXCEPT !["bookmark"] = "none"][k] = (IF k = "bookmark" THEN "none" ELSE v1[p][k])
          /\ [from[p] EXCEPT !["bookmark"] = "none"][k] = (IF k = "bookmark" THEN "none" ELSE from[p][k])
      BY <1>2
    <3> QED BY <2>1, <3>1 DEF SetBookmark
  <2>2. CASE v # "none"
    BY <2>2 DEF SetBookmark
  <2> QED BY <2>1, <2>2
<1>5. SettingsTyped'
  <2>1. want' \in [Archives -> [SettingKinds -> Opt]] /\ bookmark' \in [Archives -> Opt]
    BY <1>1, <1>2
  <2>2. writes' \in 0 .. MaxWrites
    BY <1>1, SettingsAssumption DEF SettingsTyped, SettingsTypeOK
  <2> QED BY <1>1, <1>3, <2>1, <2>2 DEF SettingsTyped, SettingsTypeOK
<1>6. ApartFromOthers'
  BY <1>1, <1>4, StillApart
<1>7. RowsHaveFiles'
  <2>1. \A g \in Archives : Home(g)' = Home(g)
    BY <1>1 DEF Home, HasRecord
  <2> QED BY <1>1, <1>4, <2>1, SettingsAssumption DEF SettingsInv, RowsHaveFiles, ReadsFormer
<1>8. Untouched'
  BY <1>1, <1>2 DEF SettingsInv, Untouched, HasRecord
<1>9. ASSUME NEW g \in Archives \ mixed, NEW k \in SettingKinds, <<g, k>> \notin astray
      PROVE  want'[g][k] = Shown(g, k)'
  <2>1. want[g][k] = Shown(g, k) /\ Home(g)' = Home(g)
    BY <1>1, <1>9 DEF SettingsInv, ShownAsSaid, Home, HasRecord
  <2>2. CASE k # "bookmark"
    <3>1. want'[g][k] = want[g][k]
      BY <1>1, <1>2, <2>2
    <3>2. FormerRow(g, k)' = FormerRow(g, k)
      BY <1>1, <1>4, <2>1, <2>2, RecordTypes DEF FormerRow
    <3> QED BY <1>1, <2>1, <2>2, <3>1, <3>2 DEF Shown
  <2>3. CASE k = "bookmark" /\ g = f
    <3>1. want'[g][k] = v /\ bookmark'[g] = v
      BY <1>1, <1>2, <2>3
    <3>2. CASE v = "none"
      <4>1. Home(f) \in Keys(rec[f]) /\ Home(f) \in PathKeys
        BY <1>1, RecordTypes DEF Home, Keys
      <4>2. v1'[Home(f)]["bookmark"] = "none"
        BY <1>2, <1>4, <3>2, <4>1
      <4> QED BY <2>1, <2>3, <3>1, <3>2, <4>2 DEF Shown, FormerRow
    <3>3. CASE v # "none"
      BY <2>3, <3>1, <3>3 DEF Shown
    <3> QED BY <3>2, <3>3
  <2>4. CASE k = "bookmark" /\ g # f
    <3>1. want'[g][k] = want[g][k] /\ bookmark'[g] = bookmark[g]
      BY <1>1, <1>2, <2>4
    <3>2. FormerRow(g, k)' = FormerRow(g, k)
      <4>1. CASE Home(g) = Nowhere
        BY <2>1, <4>1 DEF FormerRow
      <4>2. CASE Home(g) # Nowhere
        <5>1. Home(g) \in PathKeys /\ Home(g) \in Ways(g)
          BY <1>1, <4>2, RecordTypes, WaysOf
        <5>2. v1[Home(g)][k] = "none" \/ from[Home(g)][k] = g
          BY <5>1, OwnRows
        <5>3. CASE from[Home(g)][k] = g
          <6>1. Home(g) \notin Keys(rec[f])
            <7>1. Keys(rec[f]) \subseteq Ways(f)
              BY <1>1 DEF Ways
            <7>2. ~Met(f, g)
              BY DEF SettingsInv, ApartFromOthers
            <7> QED BY <2>4, <5>3, <7>1, <7>2 DEF Met
          <6> QED BY <1>4, <2>1, <5>1, <6>1 DEF FormerRow
        <5>4. CASE v1[Home(g)][k] = "none"
          BY <1>4, <2>1, <5>1, <5>4 DEF FormerRow
        <5> QED BY <5>2, <5>3, <5>4
      <4> QED BY <4>1, <4>2
    <3> QED BY <2>1, <2>4, <3>1, <3>2 DEF Shown
  <2> QED BY <2>2, <2>3, <2>4
<1>10. ShownAsSaid'
  BY <1>1, <1>9 DEF ShownAsSaid
<1> QED BY <1>5, <1>6, <1>7, <1>8, <1>10 DEF SettingsInv

LEMMA SetByPathKeeps ==
  ASSUME SettingsInv, NEW f \in Archives, NEW k \in SettingKinds, NEW v \in Opt, SetByPath(f, k, v)
  PROVE  SettingsInv'
<1> DEFINE here == at[f]
<1>1. /\ at' = at /\ rec' = rec /\ row' = row /\ bookmark' = bookmark /\ moves' = moves
      /\ SettingsTyped /\ Watch /\ here \in PathKeys
      /\ astray' = IF HasRecord(f) THEN astray \cup {<<f, k>>} ELSE astray
      /\ v1' = [v1 EXCEPT ![here][k] = v]
      /\ from' = [from EXCEPT ![here][k] = IF v = "none" THEN "none" ELSE f]
      /\ want' = [want EXCEPT ![f][k] = v] /\ writes' = writes + 1 /\ writes < MaxWrites
  BY DEF SetByPath, Said, SettingsInv, SettingsTyped, SettingsTypeOK
<1> HIDE DEF here
<1>2. /\ v1 \in [PathKeys -> [SettingKinds -> Opt]]
      /\ from \in [PathKeys -> [SettingKinds -> Archives \cup {"none"}]]
      /\ want \in [Archives -> [SettingKinds -> Opt]] /\ f # "none"
  BY <1>1, SettingsAssumption DEF SettingsTyped, SettingsTypeOK
<1>3. v1'[here][k] = v /\ from'[here][k] = IF v = "none" THEN "none" ELSE f
  BY <1>1, <1>2
<1>4. \A p \in PathKeys, j \in SettingKinds : p # here \/ j # k =>
        v1'[p][j] = v1[p][j] /\ from'[p][j] = from[p][j]
  BY <1>1, <1>2
<1>5. ApartFromOthers' /\ mixed \subseteq mixed' /\ mixed' \subseteq Archives
  BY <1>1, WatchKeepsApart DEF SettingsTyped, SettingsTypeOK
<1>6. SettingsTyped'
  <2>1. /\ v1' \in [PathKeys -> [SettingKinds -> Opt]] /\ want' \in [Archives -> [SettingKinds -> Opt]]
        /\ from' \in [PathKeys -> [SettingKinds -> Archives \cup {"none"}]]
    BY <1>1, <1>2
  <2>2. writes' \in 0 .. MaxWrites
    BY <1>1, SettingsAssumption DEF SettingsTyped, SettingsTypeOK
  <2> QED BY <1>1, <1>5, <2>1, <2>2 DEF SettingsTyped, SettingsTypeOK
<1>7. /\ \A g \in Archives : Home(g)' = Home(g) /\ Ways(g)' = Ways(g)
      /\ (~HasRecord(f) => Home(f) = here) /\ here \in Ways(f)
  BY <1>1, SettingsAssumption DEF Home, Ways, HasRecord, Keys, here
<1>8. RowsHaveFiles'
  <2>1. ASSUME NEW p \in PathKeys, NEW j \in SettingKinds
        PROVE  /\ v1'[p][j] = "none" <=> from'[p][j] = "none"
               /\ \A g \in Archives : from'[p][j] = g =>
                    p = Home(g) \/ <<g, j>> \in astray' \/ ~ReadsFormer(g, j)
    <3>1. /\ v1[p][j] = "none" <=> from[p][j] = "none"
          /\ \A g \in Archives : from[p][j] = g =>
               p = Home(g) \/ <<g, j>> \in astray \/ ~ReadsFormer(g, j)
      BY DEF SettingsInv, RowsHaveFiles
    <3>2. CASE p # here \/ j # k
      BY <1>1, <1>4, <3>1, <3>2
    <3>3. CASE p = here /\ j = k
      BY <1>1, <1>2, <1>3, <1>7, <3>3, SettingsAssumption
    <3> QED BY <3>2, <3>3
  <2> QED BY <1>1, <1>7, <2>1 DEF RowsHaveFiles, ReadsFormer
<1>9. Untouched'
  BY <1>1 DEF SettingsInv, Untouched, HasRecord
<1>10. ASSUME NEW g \in Archives \ mixed', NEW j \in SettingKinds, <<g, j>> \notin astray'
       PROVE  want'[g][j] = Shown(g, j)'
  <2>1. g \notin mixed /\ want[g][j] = Shown(g, j)
    BY <1>1, <1>5, <1>10 DEF SettingsInv, ShownAsSaid
  <2>2. CASE g = f /\ j = k
    <3>1. want'[g][j] = v /\ ~HasRecord(f)
      BY <1>1, <1>2, <1>10, <2>2
    <3>2. FormerRow(g, j)' = v
      BY <1>1, <1>3, <1>7, <2>2, <3>1, SettingsAssumption DEF FormerRow
    <3>3. Shown(g, j)' = FormerRow(g, j)'
      BY <1>1, <2>2, <3>1 DEF SettingsInv, Untouched, Shown, ShownAs, SettingKinds
    <3> QED BY <3>1, <3>2, <3>3
  <2>3. CASE ~(g = f /\ j = k)
    <3>1. want'[g][j] = want[g][j]
      BY <1>1, <1>2, <2>3
    <3>2. FormerRow(g, j)' = FormerRow(g, j)
      <4>1. CASE Home(g) = Nowhere
        BY <1>7, <4>1 DEF FormerRow
      <4>2. CASE Home(g) # Nowhere
        <5>1. Home(g) \in PathKeys /\ Home(g) \in Ways(g)
          BY <1>1, <4>2, RecordTypes, WaysOf
        <5>2. CASE Home(g) # here \/ j # k
          BY <1>4, <1>7, <5>1, <5>2 DEF FormerRow
        <5>3. CASE Home(g) = here /\ j = k
          <6>1. g # f
            BY <2>3, <5>3
          <6>2. v = "none"
            <7>1. SUFFICES ASSUME v # "none" PROVE FALSE
              OBVIOUS
            <7>2. from'[here][k] = f /\ here \in Ways(g)'
              BY <1>3, <1>7, <5>1, <5>3, <7>1
            <7>3. Met(g, f)'
              BY <6>1, <7>2 DEF Met
            <7> QED BY <1>5, <7>3 DEF ApartFromOthers
          <6>3. v1[here][k] = "none"
            <7>1. v1[here][k] = "none" \/ from[here][k] = g
              BY <2>1, <5>1, <5>3, OwnRows
            <7>2. from[here][k] # g
              <8>1. ~Met(f, g)
                BY <2>1 DEF SettingsInv, ApartFromOthers
              <8> QED BY <1>7, <6>1, <8>1 DEF Met
            <7> QED BY <7>1, <7>2
          <6> QED BY <1>3, <1>7, <5>3, <6>2, <6>3 DEF FormerRow
        <5> QED BY <5>2, <5>3
      <4> QED BY <4>1, <4>2
    <3> QED BY <1>1, <2>1, <3>1, <3>2 DEF Shown
  <2> QED BY <2>2, <2>3
<1>11. ShownAsSaid'
  BY <1>10 DEF ShownAsSaid
<1> QED BY <1>5, <1>6, <1>8, <1>9, <1>11 DEF SettingsInv

LEMMA CloneKeeps ==
  ASSUME SettingsInv, NEW f \in Archives, NEW g \in Archives, Clone(g, f)
  PROVE  SettingsInv'
<1> DEFINE e(k) == Effective(g, k)
           taken == \E k \in Slots : e(k) # "none"
           new == [k \in Slots |-> IF e(k) # "none" THEN e(k) ELSE Migrated(f)[k]]
<1>1. /\ at' = at /\ rec' = rec /\ v1' = v1 /\ moves' = moves /\ writes' = writes
      /\ from' = from /\ mixed' = mixed /\ astray' = astray /\ HasRecord(f) /\ HasRecord(g) /\ SettingsTyped
      /\ row' = IF taken THEN [row EXCEPT ![f] = new] ELSE row
      /\ bookmark' = IF e("bookmark") # "none" THEN [bookmark EXCEPT ![f] = e("bookmark")] ELSE bookmark
      /\ want' = [want EXCEPT ![f] = [k \in SettingKinds |-> IF e(k) # "none" THEN e(k) ELSE want[f][k]]]
  BY DEF Clone, SettingsInv
<1>2. \A k \in SettingKinds : e(k) \in Opt
  BY <1>1, EffectiveType
<1> HIDE DEF e
<1>3. /\ "bookmark" \in SettingKinds /\ \A k \in Slots : k \in SettingKinds /\ k # "bookmark"
      /\ \A k \in SettingKinds : k # "bookmark" => k \in Slots
  BY SettingsAssumption DEF SettingKinds
<1>4. /\ Migrated(f) \in [Slots -> Values \cup {"cleared"}]
      /\ f \notin mixed => \A j \in Slots : <<f, j>> \notin astray =>
           \A x : ShownAs(Migrated(f)[j], x) = Shown(f, j)
  BY <1>1, MigrateShowsTheSame
<1>5. /\ row \in [Archives -> [Slots -> Values \cup {"unmigrated", "cleared"}]]
      /\ bookmark \in [Archives -> Opt] /\ want \in [Archives -> [SettingKinds -> Opt]]
  BY <1>1 DEF SettingsTyped, SettingsTypeOK
<1>6. new \in [Slots -> Values \cup {"unmigrated", "cleared"}]
  BY <1>2, <1>3, <1>4 DEF Opt
<1>7. SettingsTyped'
  <2>1. row' \in [Archives -> [Slots -> Values \cup {"unmigrated", "cleared"}]]
    <3> HIDE DEF new, taken
    <3> QED BY <1>1, <1>5, <1>6
  <2>2. bookmark' \in [Archives -> Opt]
    BY <1>1, <1>2, <1>3, <1>5
  <2>3. want' \in [Archives -> [SettingKinds -> Opt]]
    BY <1>1, <1>2, <1>5
  <2> QED BY <1>1, <2>1, <2>2, <2>3 DEF SettingsTyped, SettingsTypeOK
<1>8. RowsHaveFiles' /\ ApartFromOthers'
  <2>1. ApartFromOthers'
    BY <1>1, StillApart
  <2>2. ASSUME NEW h \in Archives, NEW j \in SettingKinds
        PROVE  Home(h)' = Home(h) /\ (~ReadsFormer(h, j) => ~ReadsFormer(h, j)')
    <3>1. Home(h)' = Home(h)
      BY <1>1 DEF Home, HasRecord
    <3>2. ASSUME j # "bookmark", row[h][j] # "unmigrated" PROVE row'[h][j] # "unmigrated"
      <4>1. j \in Slots /\ new[j] # "unmigrated"
        BY <1>2, <1>3, <1>4, <3>2, SettingsAssumption DEF Opt
      <4> HIDE DEF new, taken
      <4> QED BY <1>1, <1>5, <3>2, <4>1
    <3> QED BY <3>1, <3>2 DEF ReadsFormer
  <2>3. RowsHaveFiles'
    BY <1>1, <2>2 DEF SettingsInv, RowsHaveFiles
  <2> QED BY <2>1, <2>3
<1>9. \A h \in Archives : h # f => row'[h] = row[h] /\ bookmark'[h] = bookmark[h] /\ want'[h] = want[h]
  BY <1>1, <1>5
<1>10. Untouched'
  BY <1>1, <1>9 DEF SettingsInv, Untouched, HasRecord
<1>11. ASSUME NEW h \in Archives \ mixed, NEW j \in SettingKinds, <<h, j>> \notin astray
       PROVE  want'[h][j] = Shown(h, j)'
  <2>1. want[h][j] = Shown(h, j) /\ FormerRow(h, j)' = FormerRow(h, j)
    BY <1>1, <1>11 DEF SettingsInv, ShownAsSaid, FormerRow, Home, HasRecord
  <2>2. CASE h # f
    BY <1>9, <2>1, <2>2 DEF Shown
  <2>3. CASE h = f
    <3>1. want'[f][j] = IF e(j) # "none" THEN e(j) ELSE want[f][j]
      BY <1>1, <1>5
    <3>2. CASE j = "bookmark"
      BY <1>1, <1>5, <2>1, <2>3, <3>1, <3>2 DEF Shown
    <3>3. CASE j # "bookmark"
      <4>1. j \in Slots
        BY <1>3, <3>3
      <4>2. CASE e(j) # "none"
        <5>1. row'[f][j] = e(j)
          BY <1>1, <1>5, <4>1, <4>2
        <5>2. e(j) \in Values
          BY <1>2, <4>2 DEF Opt
        <5> QED BY <2>3, <3>1, <3>3, <4>2, <5>1, <5>2, SettingsAssumption DEF Shown, ShownAs
      <4>3. CASE e(j) = "none"
        <5>1. row'[f][j] = Migrated(f)[j] \/ row'[f][j] = row[f][j]
          BY <1>1, <1>5, <4>1, <4>3
        <5>2. Shown(f, j)' = ShownAs(row'[f][j], FormerRow(f, j))
          BY <2>1, <2>3, <3>3 DEF Shown
        <5>3. Shown(f, j) = ShownAs(row[f][j], FormerRow(f, j))
          BY <3>3 DEF Shown
        <5>4. ShownAs(Migrated(f)[j], FormerRow(f, j)) = Shown(f, j)
          BY <1>1, <1>4, <1>11, <2>3, <4>1
        <5> QED BY <2>1, <2>3, <3>1, <4>3, <5>1, <5>2, <5>3, <5>4
      <4> QED BY <4>2, <4>3
    <3> QED BY <3>2, <3>3
  <2> QED BY <2>2, <2>3
<1>12. ShownAsSaid'
  BY <1>1, <1>11 DEF ShownAsSaid
<1> QED BY <1>7, <1>8, <1>10, <1>12 DEF SettingsInv

LEMMA MoveKeeps ==
  ASSUME SettingsInv, NEW f \in Archives, NEW p \in PathKeys, Move(f, p)
  PROVE  SettingsInv'
<1>1. /\ rec' = rec /\ v1' = v1 /\ row' = row /\ bookmark' = bookmark /\ writes' = writes
      /\ want' = want /\ from' = from /\ astray' = astray /\ at' = [at EXCEPT ![f] = p] /\ Watch /\ SettingsTyped
      /\ moves' = moves + 1 /\ moves < MaxMoves /\ \A g \in Archives : at[g] # p
      /\ at[f] # Nowhere /\ ~HasRecord(f) => \A k \in SettingKinds : from[at[f]][k] # f
  BY DEF Move, SettingsInv
<1>2. /\ at \in [Archives -> PathKeys \cup {Nowhere}]
      /\ from \in [PathKeys -> [SettingKinds -> Archives \cup {"none"}]] /\ p # Nowhere
  BY <1>1, SettingsAssumption DEF SettingsTyped, SettingsTypeOK
<1>3. ApartFromOthers' /\ mixed \subseteq mixed' /\ mixed' \subseteq Archives
  BY <1>1, WatchKeepsApart DEF SettingsTyped, SettingsTypeOK
<1>4. SettingsTyped'
  <2>1. at' \in [Archives -> PathKeys \cup {Nowhere}]
    BY <1>1, <1>2
  <2>2. \A g, h \in Archives : at'[g] = at'[h] /\ at'[g] # Nowhere => g = h
    BY <1>1, <1>2 DEF SettingsTyped
  <2>3. moves' \in 0 .. MaxMoves
    BY <1>1, SettingsAssumption DEF SettingsTyped, SettingsTypeOK
  <2> QED BY <1>1, <1>3, <2>1, <2>2, <2>3 DEF SettingsTyped, SettingsTypeOK
<1>5. \A g \in Archives : (HasRecord(g)' <=> HasRecord(g)) /\ (g # f \/ HasRecord(f) => Home(g)' = Home(g))
  BY <1>1, <1>2 DEF Home, HasRecord
<1>6. ASSUME ~HasRecord(f), NEW q \in PathKeys, NEW k \in SettingKinds PROVE from[q][k] # f
  <2>1. <<f, k>> \notin astray /\ ReadsFormer(f, k)
    BY <1>6 DEF SettingsInv, Untouched, ReadsFormer, SettingKinds
  <2>2. from[q][k] = f => q = at[f]
    BY <1>6, <2>1 DEF SettingsInv, RowsHaveFiles, Home
  <2> QED BY <1>1, <1>6, <2>2, SettingsAssumption
<1>7. RowsHaveFiles'
  BY <1>1, <1>5, <1>6 DEF SettingsInv, RowsHaveFiles, ReadsFormer
<1>8. Untouched'
  BY <1>1, <1>5 DEF SettingsInv, Untouched
<1>9. ASSUME NEW g \in Archives \ mixed', NEW k \in SettingKinds, <<g, k>> \notin astray
      PROVE  want'[g][k] = Shown(g, k)'
  <2>1. g \notin mixed /\ want[g][k] = Shown(g, k)
    BY <1>3, <1>9 DEF SettingsInv, ShownAsSaid
  <2>2. CASE g # f \/ HasRecord(f)
    BY <1>1, <1>5, <2>1, <2>2 DEF Shown, FormerRow
  <2>3. CASE g = f /\ ~HasRecord(f)
    <3>1. Home(f) = at[f] /\ Home(f)' = p /\ Ways(f)' = {p}
      BY <1>1, <1>2, <1>5, <2>3 DEF Home, Ways
    <3>2. FormerRow(f, k) = "none"
      <4>1. CASE at[f] = Nowhere
        BY <3>1, <4>1 DEF FormerRow
      <4>2. CASE at[f] # Nowhere
        <5>1. Home(f) \in Ways(f) /\ Home(f) \in PathKeys
          BY <1>1, <1>2, <3>1, <4>2, WaysOf
        <5>2. v1[Home(f)][k] = "none"
          BY <1>6, <2>1, <2>3, <5>1, OwnRows
        <5> QED BY <5>2 DEF FormerRow
      <4> QED BY <4>1, <4>2
    <3>3. FormerRow(f, k)' = "none"
      <4>1. from[p][k] = "none"
        <5>1. ASSUME NEW h \in Archives, from[p][k] = h PROVE FALSE
          <6>1. h # f
            BY <1>6, <2>3, <5>1
          <6>2. Met(f, h)'
            BY <1>1, <3>1, <5>1, <6>1 DEF Met
          <6> QED BY <1>3, <2>3, <6>2 DEF ApartFromOthers
        <5> QED BY <1>2, <5>1
      <4> QED BY <1>1, <3>1, <4>1 DEF SettingsInv, RowsHaveFiles, FormerRow
    <3>4. bookmark[f] = "none" /\ (k # "bookmark" => row[f][k] = "unmigrated")
      BY <2>3 DEF SettingsInv, Untouched, SettingKinds
    <3> QED BY <1>1, <2>1, <2>3, <3>2, <3>3, <3>4 DEF Shown, ShownAs
  <2> QED BY <2>2, <2>3
<1>10. ShownAsSaid'
  BY <1>1, <1>9 DEF ShownAsSaid
<1> QED BY <1>3, <1>4, <1>7, <1>8, <1>10 DEF SettingsInv

LEMMA SettingsInvNext == SettingsInv /\ [SettingsNext]_settingsVars => SettingsInv'
<1> SUFFICES ASSUME SettingsInv, [SettingsNext]_settingsVars PROVE SettingsInv'
  OBVIOUS
<1>1. CASE UNCHANGED settingsVars
  <2>1. /\ at' = at /\ rec' = rec /\ v1' = v1 /\ row' = row /\ bookmark' = bookmark
        /\ moves' = moves /\ writes' = writes /\ want' = want /\ from' = from /\ mixed' = mixed
        /\ astray' = astray
    BY <1>1 DEF settingsVars
  <2>2. \A f \in Archives : Home(f)' = Home(f) /\ (HasRecord(f)' <=> HasRecord(f))
    BY <2>1 DEF Home, HasRecord
  <2>3. ApartFromOthers'
    BY <2>1, StillApart
  <2>4. SettingsTyped' /\ RowsHaveFiles' /\ Untouched'
    BY <2>1, <2>2 DEF SettingsInv, SettingsTyped, SettingsTypeOK, RowsHaveFiles,
       ReadsFormer, Untouched
  <2>5. ShownAsSaid'
    BY <2>1, <2>2 DEF SettingsInv, ShownAsSaid, Shown, FormerRow
  <2> QED BY <2>3, <2>4, <2>5 DEF SettingsInv
<1>2. CASE SettingsNext
  BY <1>2, FirstRecordKeeps, FollowMoveKeeps, SetSlotKeeps, SetBookmarkKeeps, SetByPathKeeps,
     CloneKeeps, MoveKeeps DEF SettingsNext
<1> QED BY <1>1, <1>2

\* The invariant of the settings: a row of the former tables that a file reads is its own
\* and at its home, and with what was migrated these rows make up what the user said - but
\* for files mixed with others and for settings made by path while the record was elsewhere.
THEOREM SettingsInvariance == SettingsSpec => []SettingsInv
<1> QED BY SettingsInvInit, SettingsInvNext, PTL DEF SettingsSpec

\* Every row of the former and of the new tables keeps its type.
THEOREM SettingsTypeCorrect == SettingsSpec => []SettingsTypeOK
<1>1. SettingsInv => SettingsTypeOK
  BY DEF SettingsInv, SettingsTyped
<1> QED BY <1>1, SettingsInvariance, PTL

\* A resolved file shows what the user last said of it (resolve, legacy_*), through moves
\* (relocate), migration (migrate, bookmark_modify) and copies (clone_inheritable_data),
\* for any number of files, paths and settings, unless the file met another's rows or the
\* setting was last made by path, the record not having followed the file (ensure_record).
THEOREM SettingIsFollowed == SettingsSpec => []SettingFollows
<1>1. SettingsInv => SettingFollows
  <2> SUFFICES ASSUME SettingsInv, NEW f \in Archives \ mixed, NEW k \in SettingKinds, HasRecord(f),
                      <<f, k>> \notin astray
               PROVE  Effective(f, k) = want[f][k]
    BY DEF SettingFollows
  <2> QED BY EffectiveIsShown DEF SettingsInv, ShownAsSaid
<1> QED BY <1>1, SettingsInvariance, PTL

-----------------------------------------------------------------------------
(* Backups: names of database files and their order *)

\* A set of files with names of their own
Named(S) ==
  /\ IsFiniteSet(S)
  /\ \A a \in S : a.ts \in Nat /\ a.seq \in Nat
  /\ \A a, b \in S : <<a.ts, a.seq>> = <<b.ts, b.seq>> => a = b

LEMMA Ordered ==
  ASSUME NEW S, Named(S), NEW a \in S, NEW b \in S
  PROVE  /\ Before(a, b) \/ Before(b, a) \/ a = b
         /\ ~(Before(a, b) /\ Before(b, a)) /\ ~Before(a, a)
         /\ \A c \in S : Before(a, b) /\ Before(b, c) => Before(a, c)
<1>1. a.ts \in Nat /\ a.seq \in Nat /\ b.ts \in Nat /\ b.seq \in Nat
  BY DEF Named
<1>2. a.ts = b.ts /\ a.seq = b.seq => a = b
  BY DEF Named
<1>3. \A c \in S : c.ts \in Nat /\ c.seq \in Nat
  BY DEF Named
<1>4. Before(a, b) \/ Before(b, a) \/ a = b
  BY <1>1, <1>2 DEF Before
<1>5. ~(Before(a, b) /\ Before(b, a)) /\ ~Before(a, a)
  BY <1>1 DEF Before
<1>6. \A c \in S : Before(a, b) /\ Before(b, c) => Before(a, c)
  BY <1>1, <1>3 DEF Before
<1> QED BY <1>4, <1>5, <1>6

LEMMA NamedSubset ==
  ASSUME NEW S, Named(S), NEW T \in SUBSET S
  PROVE  Named(T)
<1>1. IsFiniteSet(T)
  BY FS_Subset DEF Named
<1> QED BY <1>1 DEF Named

LEMMA LatestIsLast ==
  ASSUME NEW S, Named(S), S # {}
  PROVE  Latest(S) \in S /\ \A b \in S \ {Latest(S)} : Before(b, Latest(S))
<1> DEFINE after(a) == {b \in S : Before(a, b)}
           F == {after(a) : a \in S}
<1>1. IsFiniteSet(S) /\ F \in SUBSET SUBSET S /\ F # {}
  <2>1. \A U \in F : U \subseteq S
    OBVIOUS
  <2>2. F # {}
    OBVIOUS
  <2>3. IsFiniteSet(S)
    BY DEF Named
  <2> HIDE DEF F
  <2> QED BY <2>1, <2>2, <2>3
<1>2. PICK T \in F : \A U \in F : U \subseteq T => U = T
  <2> HIDE DEF F
  <2> QED BY <1>1, Smallest
<1>3. PICK a \in S : T = after(a)
  OBVIOUS
<1>4. T = {}
  <2> SUFFICES ASSUME NEW b \in S, Before(a, b) PROVE FALSE
    BY <1>3
  <2>1. after(b) \subseteq after(a)
    BY Ordered
  <2>2. after(b) = after(a)
    BY <1>2, <1>3, <2>1
  <2>3. b \in after(a) /\ b \notin after(b)
    BY Ordered
  <2> QED BY <2>2, <2>3
<1>5. \A b \in S \ {a} : Before(b, a)
  BY <1>3, <1>4, Ordered
<1> QED BY <1>5 DEF Latest

LEMMA OldestIsFirst ==
  ASSUME NEW S, Named(S), S # {}
  PROVE  Oldest(S) \in S /\ \A b \in S \ {Oldest(S)} : Before(Oldest(S), b)
<1> DEFINE ahead(a) == {b \in S : Before(b, a)}
           F == {ahead(a) : a \in S}
<1>1. IsFiniteSet(S) /\ F \in SUBSET SUBSET S /\ F # {}
  <2>1. \A U \in F : U \subseteq S
    OBVIOUS
  <2>2. F # {}
    OBVIOUS
  <2>3. IsFiniteSet(S)
    BY DEF Named
  <2> HIDE DEF F
  <2> QED BY <2>1, <2>2, <2>3
<1>2. PICK T \in F : \A U \in F : U \subseteq T => U = T
  <2> HIDE DEF F
  <2> QED BY <1>1, Smallest
<1>3. PICK a \in S : T = ahead(a)
  OBVIOUS
<1>4. T = {}
  <2> SUFFICES ASSUME NEW b \in S, Before(b, a) PROVE FALSE
    BY <1>3
  <2>1. ahead(b) \subseteq ahead(a)
    BY Ordered
  <2>2. ahead(b) = ahead(a)
    BY <1>2, <1>3, <2>1
  <2>3. b \in ahead(a) /\ b \notin ahead(b)
    BY Ordered
  <2> QED BY <2>2, <2>3
<1>5. \A b \in S \ {a} : Before(a, b)
  BY <1>3, <1>4, Ordered
<1> QED BY <1>5 DEF Oldest

\* next_dest is later than every file there is.
LEMMA NextDestIsNewest ==
  ASSUME NEW S, Named(S), clock \in Nat, NEW what, NEW n
  PROVE  LET f == NextDest(S, what, n)
         IN  /\ f.ts \in Nat /\ f.seq \in Nat /\ f.what = what /\ f.born = n
             /\ f.ts = clock \/ (S # {} /\ f.ts = Latest(S).ts)
             /\ f.seq = 1 \/ (S # {} /\ f.seq = Latest(S).seq + 1)
             /\ f = [ts |-> f.ts, seq |-> f.seq, what |-> what, born |-> n]
             /\ \A b \in S : Before(b, f)
<1> DEFINE f == NextDest(S, what, n)
<1>1. CASE S # {} /\ Latest(S).ts >= clock
  <2>1. f = [ts |-> Latest(S).ts, seq |-> Latest(S).seq + 1, what |-> what, born |-> n]
    BY <1>1 DEF NextDest
  <2>2. Latest(S) \in S /\ \A b \in S \ {Latest(S)} : Before(b, Latest(S))
    BY <1>1, LatestIsLast
  <2>3. Latest(S).ts \in Nat /\ Latest(S).seq \in Nat
    BY <2>2 DEF Named
  <2>4. ASSUME NEW b \in S PROVE Before(b, f)
    <3>1. b.ts \in Nat /\ b.seq \in Nat
      BY DEF Named
    <3>2. CASE b = Latest(S)
      BY <2>1, <2>3, <3>2 DEF Before
    <3>3. CASE Before(b, Latest(S))
      BY <2>1, <2>3, <3>1, <3>3 DEF Before
    <3> QED BY <2>2, <3>2, <3>3
  <2> QED BY <1>1, <2>1, <2>3, <2>4
<1>2. CASE ~(S # {} /\ Latest(S).ts >= clock)
  <2>1. f = [ts |-> clock, seq |-> 1, what |-> what, born |-> n]
    BY <1>2 DEF NextDest
  <2>2. ASSUME NEW b \in S PROVE Before(b, f)
    <3>1. Latest(S) \in S /\ \A c \in S \ {Latest(S)} : Before(c, Latest(S))
      BY LatestIsLast
    <3>2. /\ b.ts \in Nat /\ b.seq \in Nat
          /\ Latest(S).ts \in Nat /\ Latest(S).seq \in Nat
      BY <3>1 DEF Named
    <3>3. Latest(S).ts < clock
      BY <1>2, <3>2
    <3>4. b.ts <= Latest(S).ts
      BY <3>1, <3>2 DEF Before
    <3> QED BY <2>1, <3>2, <3>3, <3>4 DEF Before
  <2> QED BY <2>1, <2>2
<1> QED BY <1>1, <1>2

\* A new file beside those there are
LEMMA PlaceNewest ==
  ASSUME NEW S, Named(S), NEW f, f.ts \in Nat, f.seq \in Nat, \A b \in S : Before(b, f)
  PROVE  Place(S, f) = S \cup {f} /\ Named(S \cup {f}) /\ f \notin S
<1>1. \A b \in S : <<b.ts, b.seq>> # <<f.ts, f.seq>> /\ b # f
  BY DEF Before, Named
<1>2. IsFiniteSet(S \cup {f})
  BY FS_AddElement DEF Named
<1> QED BY <1>1, <1>2 DEF Place, Named


\* How many files of S are later than f
LaterIn(S, f) == Cardinality({b \in S : Before(f, b)})

LEMMA AfterIsNat ==
  ASSUME NEW S, Named(S), NEW f
  PROVE  LaterIn(S, f) \in Nat
<1>1. IsFiniteSet({b \in S : Before(f, b)})
  BY FS_Subset DEF Named
<1> QED BY <1>1, FS_CardinalityType DEF LaterIn

LEMMA AfterNewest ==
  ASSUME NEW S, Named(S), NEW f \in S, \A b \in S \ {f} : Before(b, f)
  PROVE  LaterIn(S, f) = 0
<1>1. {b \in S : Before(f, b)} = {}
  BY Ordered
<1> QED BY <1>1, FS_EmptySet DEF LaterIn

LEMMA AfterMore ==
  ASSUME NEW S, Named(S), NEW a \in S,
         NEW f, f.ts \in Nat, f.seq \in Nat, f \notin S, \A b \in S : Before(b, f)
  PROVE  LaterIn(S \cup {f}, a) = LaterIn(S, a) + 1
<1> DEFINE T == {b \in S : Before(a, b)}
<1>1. {b \in S \cup {f} : Before(a, b)} = T \cup {f}
  OBVIOUS
<1>2. IsFiniteSet(T) /\ f \notin T
  BY FS_Subset DEF Named
<1>3. Cardinality(T \cup {f}) = Cardinality(T) + 1
  BY <1>2, FS_AddElement
<1> QED BY <1>1, <1>3 DEF LaterIn

LEMMA AfterFewer ==
  ASSUME NEW S, Named(S), NEW T \in SUBSET S, NEW a
  PROVE  LaterIn(T, a) <= LaterIn(S, a)
<1> DEFINE U == {b \in S : Before(a, b)}
           V == {b \in T : Before(a, b)}
<1>1. IsFiniteSet(U) /\ V \in SUBSET U
  BY FS_Subset DEF Named
<1>2. Cardinality(V) <= Cardinality(U)
  BY <1>1, FS_Subset
<1> QED BY <1>2 DEF LaterIn

LEMMA AfterOldest ==
  ASSUME NEW S, Named(S), S # {}
  PROVE  LaterIn(S, Oldest(S)) = Cardinality(S) - 1
<1>1. Oldest(S) \in S /\ \A b \in S \ {Oldest(S)} : Before(Oldest(S), b)
  BY OldestIsFirst
<1>2. {b \in S : Before(Oldest(S), b)} = S \ {Oldest(S)}
  BY <1>1, Ordered
<1>3. Cardinality(S \ {Oldest(S)}) = Cardinality(S) - 1
  BY <1>1, FS_RemoveElement DEF Named
<1> QED BY <1>2, <1>3 DEF LaterIn

IsNewest(S, d) == d \in S /\ \A b \in S \ {d} : Before(b, d)

\* A copy that ends in the file it began in: the newest
LEMMA PlaceSame ==
  ASSUME NEW S, Named(S), NEW d, IsNewest(S, d),
         NEW f, f.ts = d.ts, f.seq = d.seq
  PROVE  /\ Place(S, f) = (S \ {d}) \cup {f}
         /\ Named(S \ {d}) /\ f \notin S \ {d}
         /\ \A b \in S \ {d} : Before(b, f)
         /\ Named(Place(S, f))
         /\ \A a \in S \ {d} : LaterIn(Place(S, f), a) = LaterIn(S, a)
<1> DEFINE R == S \ {d}
<1>1. d \in S /\ d.ts \in Nat /\ d.seq \in Nat
  BY DEF Named, IsNewest
<1>2. Place(S, f) = R \cup {f}
  BY <1>1 DEF Place, Named
<1>3. Named(R)
  BY NamedSubset
<1>4. \A b \in R : Before(b, f)
  BY DEF Before, IsNewest
<1>5. f \notin R /\ d \notin R
  BY <1>3, <1>4, <1>1 DEF Named, Before
<1>6. Named(R \cup {f})
  <2> HIDE DEF R
  <2> QED BY <1>1, <1>3, <1>4, PlaceNewest
<1>7. ASSUME NEW a \in R PROVE LaterIn(R \cup {f}, a) = LaterIn(S, a)
  <2>1. \A b \in R : Before(b, d)
    BY DEF IsNewest
  <2>2. S = R \cup {d}
    BY <1>1
  <2> HIDE DEF R
  <2>3. LaterIn(R \cup {f}, a) = LaterIn(R, a) + 1
    BY <1>1, <1>3, <1>4, <1>5, AfterMore
  <2>4. LaterIn(R \cup {d}, a) = LaterIn(R, a) + 1
    BY <1>1, <1>3, <1>5, <2>1, AfterMore
  <2> QED BY <2>2, <2>3, <2>4
<1> QED BY <1>2, <1>3, <1>4, <1>5, <1>6, <1>7

-----------------------------------------------------------------------------
(* Backups: nothing the user has not let go of is lost *)

Counted ==
  /\ stage = "start" => starts >= 1
  /\ \A a \in before : a.seq <= a.born /\ a.born <= starts /\ (stage = "start" => a.born < starts)
  /\ \A a \in gens : a.seq <= a.born /\ a.born <= made

NoneTorn ==
  /\ pending # Torn /\ live \notin {Torn, Missing} /\ undo \notin {Torn, Missing}
  /\ \A g \in gens : g.what \notin {Torn, Missing}

\* What is in place where a start has got to
InPlace ==
  /\ stage \in {"start", "copying", "copied", "swap", "back"} => pending # Missing
  /\ stage \in {"start", "copying", "copied", "running"} => db # Missing
  /\ stage \in {"swap", "back"} => db = Missing
  /\ stage = "rotate" => db = live

\* The file a start has put the database into
PutAway ==
  /\ stage = "start" => dest = Gone
  /\ stage = "copying" => dest \in before /\ dest.what = Torn
  /\ stage = "copied" => dest \in before /\ dest.what = db
  /\ stage = "swap" => dest = Gone \/ dest \in before
  /\ stage = "back" => dest \in before
  /\ stage \in {"copying", "copied", "swap", "back"} /\ dest \in before =>
       \A b \in before \ {dest} : Before(b, dest)

LiveKept ==
  /\ strays \in Nat
  /\ strays < KeepBefore =>
       db = live \/ \E f \in before : f.what = live /\ LaterIn(before, f) <= strays

UndoKept ==
  undo # 0 => \E f \in before :
    /\ f.what = undo
    /\ stage \in {"copying", "copied", "swap", "back"} => f # dest
    /\ stage = "rotate" => LaterIn(before, f) < KeepBefore

RestoreInv ==
  /\ RestoreTypeOK /\ Named(before) /\ Named(gens) /\ NamesInOrder
  /\ Counted /\ NoneTorn /\ InPlace /\ PutAway /\ LiveKept /\ UndoKept

\* Files of generations before n, named in their order
Numbered(S, n) ==
  /\ Named(S) /\ S \subseteq Saved
  /\ \A a \in S : a.seq <= a.born /\ a.born < n
  /\ \A a, b \in S : a.born < b.born => Before(a, b)

\* next_dest, at a place in the order of its own
LEMMA NewFile ==
  ASSUME NEW S, NEW n \in Nat, n >= 1, n <= MaxMade + MaxStarts, Numbered(S, n),
         NEW what \in Contents, clock \in 0 .. MaxClock
  PROVE  LET f == NextDest(S, what, n)
         IN  /\ f \in Saved /\ f.what = what /\ f.born = n /\ f.seq <= n
             /\ f \notin S /\ Place(S, f) = S \cup {f}
             /\ \A b \in S : Before(b, f)
             /\ Named(S \cup {f})
             /\ \A a, b \in S \cup {f} : a.born < b.born => Before(a, b)
             /\ LaterIn(S \cup {f}, f) = 0
             /\ \A a \in S : LaterIn(S \cup {f}, a) = LaterIn(S, a) + 1
<1> DEFINE f == NextDest(S, what, n)
<1> USE DEF Numbered
<1>1. MaxMade \in Nat /\ MaxStarts \in Nat /\ MaxClock \in Nat
  BY RestoreAssumption
<1>2. clock \in Nat
  BY <1>1
<1>3. /\ f.ts \in Nat /\ f.seq \in Nat /\ f.what = what /\ f.born = n
      /\ f.ts = clock \/ (S # {} /\ f.ts = Latest(S).ts)
      /\ f.seq = 1 \/ (S # {} /\ f.seq = Latest(S).seq + 1)
      /\ f = [ts |-> f.ts, seq |-> f.seq, what |-> what, born |-> n]
      /\ \A b \in S : Before(b, f)
  <2> HIDE DEF f
  <2> QED BY <1>2, NextDestIsNewest DEF f
<1> HIDE DEF f
<1>4. S # {} => Latest(S) \in S
  BY LatestIsLast
<1>5. f.ts \in 0 .. MaxClock
  <2>1. \A a \in S : a.ts \in 0 .. MaxClock
    BY DEF Saved
  <2> QED BY <1>3, <1>4, <2>1
<1>6. f.seq >= 1 /\ f.seq <= n
  <2>1. \A a \in S : a.seq \in Nat /\ a.born \in Nat /\ a.seq <= a.born /\ a.born < n
    BY DEF Saved, Named
  <2>2. S # {} => Latest(S).seq + 1 <= n /\ Latest(S).seq \in Nat
    BY <1>4, <2>1
  <2> QED BY <1>3, <2>2
<1>7. f \in Saved
  <2>1. f.seq \in 1 .. MaxMade + MaxStarts
    BY <1>1, <1>3, <1>6
  <2> QED BY <1>3, <1>5, <2>1 DEF Saved
<1>8. Place(S, f) = S \cup {f} /\ Named(S \cup {f}) /\ f \notin S
  BY <1>3, PlaceNewest
<1>9. \A a, b \in S \cup {f} : a.born < b.born => Before(a, b)
  <2>1. \A a \in S : a.born \in Nat /\ a.born < n
    BY DEF Saved
  <2>2. ASSUME NEW a \in S PROVE (f.born < a.born => Before(f, a)) /\ ~(f.born < f.born)
    BY <1>3, <2>1
  <2> QED BY <1>3, <2>2
<1>10. LaterIn(S \cup {f}, f) = 0
  BY <1>3, <1>8, AfterNewest
<1>11. \A a \in S : LaterIn(S \cup {f}, a) = LaterIn(S, a) + 1
  BY <1>3, <1>8, AfterMore
<1> QED BY <1>3, <1>6, <1>7, <1>8, <1>9, <1>10, <1>11 DEF f

LEMMA RestoreInvInit == RestoreInit => RestoreInv
<1> SUFFICES ASSUME RestoreInit PROVE RestoreInv
  OBVIOUS
<1> USE DEF RestoreInit, Torn, Missing, Blank, Gone
<1>1. RestoreTypeOK
  BY RestoreAssumption DEF RestoreTypeOK, Contents, Stages, Saved
<1>2. Named(before) /\ Named(gens)
  BY FS_EmptySet DEF Named
<1>3. NamesInOrder
  BY DEF NamesInOrder
<1>4. Counted /\ NoneTorn /\ InPlace /\ PutAway
  BY DEF Counted, NoneTorn, InPlace, PutAway
<1>5. LiveKept /\ UndoKept
  BY DEF LiveKept, UndoKept
<1> QED BY <1>1, <1>2, <1>3, <1>4, <1>5 DEF RestoreInv

\* Steps that leave the files alone keep what is said of the files.
LEMMA FilesStay ==
  ASSUME RestoreInv, before' = before, gens' = gens
  PROVE  /\ Named(before)' /\ Named(gens)' /\ NamesInOrder'
         /\ gens' \subseteq Saved /\ before' \subseteq Saved
<1>1. Named(before)' /\ Named(gens)'
  BY DEF RestoreInv, Named
<1>2. NamesInOrder'
  BY DEF RestoreInv, NamesInOrder, Before
<1> QED BY <1>1, <1>2 DEF RestoreInv, RestoreTypeOK

LEMMA StartKeeps == RestoreInv /\ Start => RestoreInv'
<1> SUFFICES ASSUME RestoreInv, Start PROVE RestoreInv'
  OBVIOUS
<1> USE DEF Torn, Blank, Missing, Gone
<1>1. RestoreTypeOK' /\ Named(before)' /\ Named(gens)' /\ NamesInOrder'
  <2>1. starts' \in 0 .. MaxStarts
    BY RestoreAssumption DEF Start, RestoreInv, RestoreTypeOK
  <2>2. stage' \in Stages
    BY DEF Start, Stages
  <2> QED BY <2>1, <2>2, FilesStay DEF Start, RestoreInv, RestoreTypeOK
<1>2. Counted'
  <2>1. starts \in Nat
    BY RestoreAssumption DEF RestoreInv, RestoreTypeOK
  <2>2. \A a \in before : a.born \in Nat
    BY DEF RestoreInv, RestoreTypeOK, Saved
  <2> QED BY <2>1, <2>2 DEF Start, RestoreInv, Counted
<1>3. NoneTorn'
  BY DEF Start, history, RestoreInv, NoneTorn
<1>4. InPlace'
  BY DEF Start, RestoreInv, InPlace
<1>5. PutAway' /\ UndoKept'
  <2>1. \A f \in before : f.what # Missing
    BY RestoreAssumption DEF RestoreInv, RestoreTypeOK, Saved, Contents
  <2>2. dest' \notin before'
    BY <2>1 DEF Start
  <2>3. PutAway'
    BY <2>2 DEF Start, PutAway
  <2>4. UndoKept'
    BY <2>2 DEF Start, history, RestoreInv, UndoKept
  <2> QED BY <2>3, <2>4
<1>6. LiveKept'
  BY DEF Start, history, RestoreInv, LiveKept
<1> QED BY <1>1, <1>2, <1>3, <1>4, <1>5, <1>6 DEF RestoreInv

\* The database, or what has been copied of it, put beside those put away before
LEMMA PutAwayKeeps ==
  ASSUME RestoreInv, stage = "start", NEW what \in Contents,
         before' = Place(before, NextDest(before, what, starts)),
         dest' = NextDest(before, what, starts),
         what = db \/ db' = db,
         Stray,
         UNCHANGED <<pending, gens, clock, edits, made, starts, live, undo>>
  PROVE  /\ Named(before)' /\ Named(gens)' /\ NamesInOrder'
         /\ before' \subseteq Saved /\ dest' \in before' /\ dest'.what = what
         /\ (stage' # "start" => Counted')
         /\ \A b \in before' \ {dest'} : Before(b, dest')
         /\ LiveKept' /\ (stage' # "rotate" => UndoKept')
<1> USE DEF Torn, Blank, Missing, Gone
<1> DEFINE f == NextDest(before, what, starts)
<1>1. /\ starts \in Nat /\ starts <= MaxStarts /\ clock \in 0 .. MaxClock
      /\ MaxMade \in Nat /\ MaxStarts \in Nat
      /\ gens \subseteq Saved /\ before \subseteq Saved
      /\ Named(before) /\ Named(gens)
  BY RestoreAssumption DEF RestoreInv, RestoreTypeOK
<1>2. \A a \in before : a.seq <= a.born /\ a.born < starts /\ a.born \in Nat
  BY <1>1 DEF RestoreInv, Counted, Saved
<1>3. starts >= 1
  BY <1>1 DEF RestoreInv, Counted
<1>4. \A a, b \in before : a.born < b.born => Before(a, b)
  BY DEF RestoreInv, NamesInOrder
<1>5. /\ f \in Saved /\ f.what = what /\ f.born = starts /\ f.seq <= starts
      /\ f \notin before /\ Place(before, f) = before \cup {f}
      /\ \A b \in before : Before(b, f)
      /\ Named(before \cup {f})
      /\ \A a, b \in before \cup {f} : a.born < b.born => Before(a, b)
      /\ LaterIn(before \cup {f}, f) = 0
      /\ \A a \in before : LaterIn(before \cup {f}, a) = LaterIn(before, a) + 1
  <2>1. starts <= MaxMade + MaxStarts
    BY <1>1
  <2>2. Numbered(before, starts)
    BY <1>1, <1>2, <1>4 DEF Numbered
  <2> HIDE DEF f
  <2> QED BY <1>1, <1>3, <2>1, <2>2, NewFile DEF f
<1> HIDE DEF f
<1>6. before' = before \cup {f} /\ dest' = f /\ gens' = gens
  BY <1>5 DEF f
<1>7. Named(before)' /\ Named(gens)'
  BY <1>1, <1>5, <1>6 DEF Named
<1>8. NamesInOrder'
  BY <1>5, <1>6 DEF RestoreInv, NamesInOrder, Before
<1>9. before' \subseteq Saved /\ dest' \in before' /\ dest'.what = what
  BY <1>1, <1>5, <1>6
<1>10. stage' # "start" => Counted'
  <2>1. ASSUME NEW a \in before' PROVE a.seq <= a.born /\ a.born <= starts
    BY <1>1, <1>2, <1>5, <1>6
  <2> QED BY <1>6, <2>1 DEF RestoreInv, Counted
<1>11. \A b \in before' \ {dest'} : Before(b, dest')
  BY <1>5, <1>6
<1>12. LiveKept'
  <2>1. strays' \in Nat
    BY DEF RestoreInv, LiveKept, Stray
  <2>2. ASSUME strays' < KeepBefore, db = live
        PROVE  db' = live \/ \E a \in before' : a.what = live /\ LaterIn(before', a) <= strays'
    <3>1. CASE db' = db
      BY <2>2, <3>1
    <3>2. CASE what = db
      <4>1. f \in before' /\ f.what = live
        BY <1>5, <1>6, <2>2, <3>2
      <4>2. LaterIn(before', f) = 0
        BY <1>5, <1>6
      <4>3. LaterIn(before', f) <= strays'
        BY <2>1, <4>2
      <4> QED BY <4>1, <4>3
    <3> QED BY <3>1, <3>2
  <2>3. ASSUME strays' < KeepBefore, db # live
        PROVE  \E a \in before' : a.what = live /\ LaterIn(before', a) <= strays'
    <3>1. strays \in Nat /\ strays' = strays + 1 /\ KeepBefore \in Nat
      BY <2>3, RestoreAssumption DEF RestoreInv, LiveKept, Stray
    <3>2. PICK a \in before : a.what = live /\ LaterIn(before, a) <= strays
      BY <2>3, <3>1 DEF RestoreInv, LiveKept
    <3>3. LaterIn(before, a) \in Nat
      BY <1>1, AfterIsNat
    <3>4. LaterIn(before', a) = LaterIn(before, a) + 1
      BY <1>5, <1>6, <3>2
    <3>5. LaterIn(before', a) <= strays'
      BY <3>1, <3>2, <3>3, <3>4
    <3> QED BY <1>6, <3>2, <3>5
  <2> QED BY <2>1, <2>2, <2>3 DEF LiveKept
<1>13. stage' # "rotate" => UndoKept'
  BY <1>5, <1>6 DEF RestoreInv, UndoKept
<1> QED BY <1>7, <1>8, <1>9, <1>10, <1>11, <1>12, <1>13

LEMMA EvacuateKeeps == RestoreInv /\ Evacuate => RestoreInv'
<1> SUFFICES ASSUME RestoreInv, Evacuate PROVE RestoreInv'
  OBVIOUS
<1> USE DEF Torn, Blank, Missing, Gone
<1>1. stage = "start" /\ db \in Contents
  BY DEF Evacuate, RestoreInv, RestoreTypeOK, InPlace
<1>2. /\ Named(before)' /\ Named(gens)' /\ NamesInOrder'
      /\ before' \subseteq Saved /\ dest' \in before' /\ dest'.what = db
      /\ (stage' # "start" => Counted')
      /\ \A b \in before' \ {dest'} : Before(b, dest')
      /\ LiveKept' /\ (stage' # "rotate" => UndoKept')
  BY <1>1, PutAwayKeeps DEF Evacuate
<1>3. RestoreTypeOK'
  BY <1>2 DEF Evacuate, Stages, RestoreInv, RestoreTypeOK
<1>4. NoneTorn' /\ InPlace' /\ PutAway'
  BY <1>2 DEF Evacuate, RestoreInv, NoneTorn, InPlace, PutAway
<1> QED BY <1>2, <1>3, <1>4 DEF Evacuate, RestoreInv

LEMMA StartCopyKeeps == RestoreInv /\ StartCopy => RestoreInv'
<1> SUFFICES ASSUME RestoreInv, StartCopy PROVE RestoreInv'
  OBVIOUS
<1> USE DEF Torn, Blank, Missing, Gone
<1>1. stage = "start" /\ Torn \in Contents
  BY DEF StartCopy, Contents
<1>2. /\ Named(before)' /\ Named(gens)' /\ NamesInOrder'
      /\ before' \subseteq Saved /\ dest' \in before' /\ dest'.what = Torn
      /\ (stage' # "start" => Counted')
      /\ \A b \in before' \ {dest'} : Before(b, dest')
      /\ LiveKept' /\ (stage' # "rotate" => UndoKept')
  <2>1. Stray
    BY DEF StartCopy, Stray
  <2>2. UNCHANGED <<pending, gens, clock, edits, made, starts, live, undo, db>>
    BY DEF StartCopy
  <2>3. /\ before' = Place(before, NextDest(before, Torn, starts))
        /\ dest' = NextDest(before, Torn, starts)
    BY DEF StartCopy
  <2> HIDE DEF Torn
  <2> QED BY <1>1, <2>1, <2>2, <2>3, PutAwayKeeps
<1>3. RestoreTypeOK'
  BY <1>2 DEF StartCopy, Stages, RestoreInv, RestoreTypeOK
<1>4. NoneTorn' /\ InPlace' /\ PutAway'
  BY <1>2 DEF StartCopy, RestoreInv, NoneTorn, InPlace, PutAway
<1> QED BY <1>2, <1>3, <1>4 DEF StartCopy, RestoreInv

LEMMA EndCopyKeeps == RestoreInv /\ EndCopy => RestoreInv'
<1> SUFFICES ASSUME RestoreInv, EndCopy PROVE RestoreInv'
  OBVIOUS
<1> USE DEF Torn, Blank, Missing, Gone
<1> DEFINE f == [dest EXCEPT !.what = db]
           rest == before \ {dest}
<1>1. /\ stage = "copying" /\ stage' = "copied" /\ db' = db /\ gens' = gens
      /\ before' = Place(before, f) /\ dest' = f
  BY DEF EndCopy
<1>2. /\ dest \in before /\ dest.what = Torn /\ \A b \in rest : Before(b, dest)
      /\ Named(before) /\ Named(gens) /\ before \subseteq Saved /\ dest \in Saved
      /\ db \in Contents
  BY <1>1 DEF RestoreInv, RestoreTypeOK, PutAway, InPlace
<1>3. f \in Saved /\ f.ts = dest.ts /\ f.seq = dest.seq /\ f.born = dest.born /\ f.what = db
  BY <1>2 DEF Saved
<1>4. /\ Place(before, f) = rest \cup {f}
      /\ Named(rest) /\ f \notin rest
      /\ \A b \in rest : Before(b, f)
      /\ Named(Place(before, f))
      /\ \A a \in rest : LaterIn(Place(before, f), a) = LaterIn(before, a)
  <2>1. IsNewest(before, dest)
    BY <1>2 DEF IsNewest
  <2>2. Named(before) /\ f.ts = dest.ts /\ f.seq = dest.seq
    BY <1>2, <1>3
  <2> HIDE DEF f
  <2> QED BY <2>1, <2>2, PlaceSame
<1> HIDE DEF f
<1>5. before' = rest \cup {f} /\ dest' = f
  BY <1>1, <1>4
<1>6. RestoreTypeOK'
  BY <1>1, <1>2, <1>3, <1>5 DEF EndCopy, RestoreInv, RestoreTypeOK, Stages
<1>7. Named(before)' /\ Named(gens)'
  BY <1>1, <1>2, <1>4 DEF Named
<1>8. NamesInOrder'
  <2>1. \A a, b \in before : a.born < b.born => Before(a, b)
    BY DEF RestoreInv, NamesInOrder
  <2>2. ASSUME NEW a \in rest PROVE (a.born < f.born => Before(a, f)) /\ (f.born < a.born => Before(f, a))
    BY <1>2, <1>3, <2>1 DEF Before
  <2>3. ~(f.born < f.born)
    BY <1>3 DEF Saved
  <2>4. \A a, b \in before' : a.born < b.born => Before(a, b)
    BY <1>5, <2>1, <2>2, <2>3
  <2> QED BY <1>1, <2>4 DEF RestoreInv, NamesInOrder, Before
<1>9. Counted'
  <2>1. \A a \in before : a.seq <= a.born /\ a.born <= starts
    BY DEF RestoreInv, Counted
  <2>2. \A a \in before' : a.seq <= a.born /\ a.born <= starts
    BY <1>2, <1>3, <1>5, <2>1
  <2> QED BY <1>1, <2>2 DEF EndCopy, RestoreInv, Counted
<1>10. NoneTorn' /\ InPlace'
  BY DEF EndCopy, history, RestoreInv, NoneTorn, InPlace
<1>11. PutAway'
  BY <1>1, <1>3, <1>4, <1>5 DEF PutAway
<1>12. LiveKept'
  <2>1. live' = live /\ strays' = strays
    BY DEF EndCopy, history
  <2>2. \A a \in before : a.what = live => a \in rest
    BY <1>2 DEF RestoreInv, NoneTorn
  <2>3. \A a \in rest : LaterIn(before', a) = LaterIn(before, a) /\ a \in before'
    BY <1>1, <1>4, <1>5
  <2> QED BY <1>1, <2>1, <2>2, <2>3 DEF RestoreInv, LiveKept
<1>13. UndoKept'
  <2>1. undo' = undo
    BY DEF EndCopy, history
  <2> QED BY <1>1, <1>4, <1>5, <2>1 DEF RestoreInv, UndoKept
<1> QED BY <1>6, <1>7, <1>8, <1>9, <1>10, <1>11, <1>12, <1>13 DEF RestoreInv

LEMMA EndMoveKeeps == RestoreInv /\ EndMove => RestoreInv'
<1> SUFFICES ASSUME RestoreInv, EndMove PROVE RestoreInv'
  OBVIOUS
<1> USE DEF Torn, Blank, Missing, Gone
<1>1. RestoreTypeOK' /\ Named(before)' /\ Named(gens)' /\ NamesInOrder'
  BY FilesStay DEF EndMove, Stages, RestoreInv, RestoreTypeOK
<1>2. Counted' /\ NoneTorn' /\ InPlace' /\ PutAway'
  BY DEF EndMove, history, RestoreInv, Counted, NoneTorn, InPlace, PutAway
<1>3. LiveKept'
  <2>1. /\ dest \in before /\ dest.what = db /\ Named(before)
        /\ \A b \in before \ {dest} : Before(b, dest)
    BY DEF EndMove, RestoreInv, PutAway
  <2>2. LaterIn(before, dest) = 0
    BY <2>1, AfterNewest
  <2>3. strays \in Nat
    BY DEF RestoreInv, LiveKept
  <2>4. LaterIn(before, dest) <= strays
    BY <2>2, <2>3
  <2> QED BY <2>1, <2>4 DEF EndMove, history, RestoreInv, LiveKept
<1>4. UndoKept'
  BY DEF EndMove, history, RestoreInv, UndoKept
<1> QED BY <1>1, <1>2, <1>3, <1>4 DEF RestoreInv

LEMMA GiveUpKeeps == RestoreInv /\ GiveUp => RestoreInv'
<1> SUFFICES ASSUME RestoreInv, GiveUp PROVE RestoreInv'
  OBVIOUS
<1>1. RestoreTypeOK' /\ Named(before)' /\ Named(gens)' /\ NamesInOrder'
  BY FilesStay DEF GiveUp, Stages, RestoreInv, RestoreTypeOK
<1>2. Counted' /\ NoneTorn' /\ InPlace' /\ PutAway'
  BY DEF GiveUp, history, RestoreInv, Counted, NoneTorn, InPlace, PutAway
<1>3. LiveKept' /\ UndoKept'
  BY DEF GiveUp, history, RestoreInv, LiveKept, UndoKept
<1> QED BY <1>1, <1>2, <1>3 DEF RestoreInv

LEMMA SwapKeeps == RestoreInv /\ Swap => RestoreInv'
<1> SUFFICES ASSUME RestoreInv, Swap PROVE RestoreInv'
  OBVIOUS
<1> USE DEF Torn, Blank, Missing, Gone
<1>1. RestoreTypeOK' /\ Named(before)' /\ Named(gens)' /\ NamesInOrder'
  <2>1. Missing \in Contents \cup {Missing} /\ stage' \in Stages
    BY DEF Swap, Stages
  <2> QED BY <2>1, FilesStay DEF Swap, RestoreInv, RestoreTypeOK
<1>2. Counted'
  BY DEF Swap, RestoreInv, Counted
<1>3. NoneTorn'
  BY DEF Swap, RestoreInv, NoneTorn, InPlace
<1>4. InPlace' /\ PutAway'
  BY DEF Swap, InPlace, PutAway
<1>5. LiveKept'
  BY DEF Swap, LiveKept
<1>6. UndoKept'
  <2>1. db # live
    BY DEF Swap, RestoreInv, InPlace, NoneTorn
  <2>2. ASSUME strays < KeepBefore
        PROVE  \E f \in before : f.what = live /\ LaterIn(before, f) < KeepBefore
    <3>1. PICK f \in before : f.what = live /\ LaterIn(before, f) <= strays
      BY <2>1, <2>2 DEF RestoreInv, LiveKept
    <3>2. LaterIn(before, f) \in Nat /\ strays \in Nat /\ KeepBefore \in Nat
      BY RestoreAssumption, AfterIsNat DEF RestoreInv, LiveKept
    <3> QED BY <2>2, <3>1, <3>2
  <2> QED BY <2>2 DEF Swap, UndoKept
<1> QED BY <1>1, <1>2, <1>3, <1>4, <1>5, <1>6 DEF RestoreInv

LEMMA SwapFailsKeeps == RestoreInv /\ SwapFails => RestoreInv'
<1> SUFFICES ASSUME RestoreInv, SwapFails PROVE RestoreInv'
  OBVIOUS
<1>1. RestoreTypeOK' /\ Named(before)' /\ Named(gens)' /\ NamesInOrder'
  BY FilesStay DEF SwapFails, Stages, RestoreInv, RestoreTypeOK
<1>2. Counted' /\ NoneTorn' /\ InPlace' /\ PutAway'
  BY DEF SwapFails, history, RestoreInv, Counted, NoneTorn, InPlace, PutAway
<1>3. LiveKept' /\ UndoKept'
  BY DEF SwapFails, history, RestoreInv, LiveKept, UndoKept
<1> QED BY <1>1, <1>2, <1>3 DEF RestoreInv

LEMMA MoveBackKeeps == RestoreInv /\ MoveBack => RestoreInv'
<1> SUFFICES ASSUME RestoreInv, MoveBack PROVE RestoreInv'
  OBVIOUS
<1> USE DEF Torn, Blank, Missing, Gone
<1>1. /\ stage = "back" /\ stage' = "open" /\ gens' = gens /\ live' = live /\ undo' = undo
      /\ strays' = strays /\ starts' = starts /\ made' = made /\ pending' = pending
      /\ dest \in before /\ db = Missing /\ before' \subseteq before /\ Named(before)
      /\ before \subseteq Saved /\ Named(gens)
  BY DEF MoveBack, history, RestoreInv, RestoreTypeOK, InPlace, PutAway
<1>2. db' \in Contents \cup {Missing}
  <2>1. dest.what \in Contents
    BY <1>1 DEF Saved
  <2>2. Torn \in Contents
    BY DEF Contents
  <2> QED BY <2>1, <2>2 DEF MoveBack
<1>3. RestoreTypeOK'
  BY <1>1, <1>2 DEF MoveBack, Stages, RestoreInv, RestoreTypeOK
<1>4. Named(before)' /\ Named(gens)'
  <2>1. Named(before')
    BY <1>1, NamedSubset
  <2> QED BY <1>1, <2>1 DEF Named
<1>5. NamesInOrder'
  BY <1>1 DEF RestoreInv, NamesInOrder, Before
<1>6. Counted' /\ NoneTorn' /\ InPlace' /\ PutAway'
  BY <1>1 DEF RestoreInv, Counted, NoneTorn, InPlace, PutAway
<1>7. LiveKept'
  <2>1. strays \in Nat
    BY DEF RestoreInv, LiveKept
  <2>2. ASSUME strays < KeepBefore
        PROVE  db' = live \/ \E f \in before' : f.what = live /\ LaterIn(before', f) <= strays
    <3>1. live # Missing
      BY DEF RestoreInv, NoneTorn
    <3>2. PICK f \in before : f.what = live /\ LaterIn(before, f) <= strays
      BY <1>1, <2>2, <3>1 DEF RestoreInv, LiveKept
    <3>3. (db' = dest.what /\ f = dest) \/ f \in before'
      BY <1>1 DEF MoveBack
    <3>4. LaterIn(before', f) <= strays
      <4>1. LaterIn(before', f) <= LaterIn(before, f)
        BY <1>1, AfterFewer
      <4>2. LaterIn(before', f) \in Nat /\ LaterIn(before, f) \in Nat
        BY <1>1, AfterIsNat, NamedSubset
      <4> QED BY <2>1, <3>2, <4>1, <4>2
    <3> QED BY <3>2, <3>3, <3>4
  <2> QED BY <1>1, <2>1, <2>2 DEF LiveKept
<1>8. UndoKept'
  <2>1. \A f \in before : f # dest => f \in before'
    BY DEF MoveBack
  <2> QED BY <1>1, <2>1 DEF RestoreInv, UndoKept
<1> QED BY <1>3, <1>4, <1>5, <1>6, <1>7, <1>8 DEF RestoreInv

LEMMA RotateBeforeKeeps == RestoreInv /\ RotateBefore => RestoreInv'
<1> SUFFICES ASSUME RestoreInv, RotateBefore PROVE RestoreInv'
  OBVIOUS
<1> USE DEF Torn, Blank, Missing, Gone
<1>1. /\ stage = "rotate" /\ stage' \in {"rotate", "open"} /\ gens' = gens /\ live' = live
      /\ undo' = undo /\ db' = db /\ strays' = strays /\ starts' = starts /\ made' = made
      /\ pending' = pending /\ db = live /\ before' \subseteq before /\ Named(before)
      /\ before \subseteq Saved /\ Named(gens)
  BY DEF RotateBefore, history, RestoreInv, RestoreTypeOK, InPlace
<1>2. RestoreTypeOK'
  BY <1>1 DEF RotateBefore, Stages, RestoreInv, RestoreTypeOK
<1>3. Named(before)' /\ Named(gens)'
  <2>1. Named(before')
    BY <1>1, NamedSubset
  <2> QED BY <1>1, <2>1 DEF Named
<1>4. NamesInOrder'
  BY <1>1 DEF RestoreInv, NamesInOrder, Before
<1>5. Counted' /\ NoneTorn' /\ InPlace' /\ PutAway'
  BY <1>1 DEF RestoreInv, Counted, NoneTorn, InPlace, PutAway
<1>6. LiveKept'
  BY <1>1 DEF RestoreInv, LiveKept
<1>7. UndoKept'
  <2>1. CASE before' = before
    BY <1>1, <2>1 DEF RestoreInv, UndoKept
  <2>2. ASSUME undo # 0, before' = before \ {Oldest(before)}, Cardinality(before) > KeepBefore
        PROVE  \E f \in before' : f.what = undo /\ LaterIn(before', f) < KeepBefore
    <3>1. PICK f \in before : f.what = undo /\ LaterIn(before, f) < KeepBefore
      BY <1>1, <2>2 DEF RestoreInv, UndoKept
    <3>2. /\ Cardinality(before) \in Nat /\ KeepBefore \in Nat
          /\ LaterIn(before, f) \in Nat /\ LaterIn(before', f) \in Nat
      BY <1>1, RestoreAssumption, FS_CardinalityType, AfterIsNat, NamedSubset DEF Named
    <3>3. LaterIn(before, Oldest(before)) = Cardinality(before) - 1
      BY <1>1, AfterOldest
    <3>4. f \in before'
      BY <2>2, <3>1, <3>2, <3>3
    <3>5. LaterIn(before', f) <= LaterIn(before, f)
      BY <1>1, AfterFewer
    <3> QED BY <3>1, <3>2, <3>4, <3>5
  <2>3. before' = before \/ (before' = before \ {Oldest(before)} /\ Cardinality(before) > KeepBefore)
    BY DEF RotateBefore
  <2> QED BY <1>1, <2>1, <2>2, <2>3 DEF UndoKept
<1> QED BY <1>2, <1>3, <1>4, <1>5, <1>6, <1>7 DEF RestoreInv

LEMMA CreateGenerationKeeps == RestoreInv /\ CreateGeneration => RestoreInv'
<1> SUFFICES ASSUME RestoreInv, CreateGeneration PROVE RestoreInv'
  OBVIOUS
<1> USE DEF Torn, Blank, Missing, Gone
<1> DEFINE f == NextDest(gens, db, made + 1)
<1>1. /\ db \in Contents /\ clock \in 0 .. MaxClock
      /\ MaxMade \in Nat /\ MaxStarts \in Nat /\ made \in Nat /\ made < MaxMade
      /\ gens \subseteq Saved /\ Named(gens) /\ Named(before)
  BY RestoreAssumption DEF CreateGeneration, RestoreInv, RestoreTypeOK, InPlace
<1>2. \A a \in gens : a.seq <= a.born /\ a.born < made + 1
  <2>1. \A a \in gens : a.born \in Nat
    BY <1>1 DEF Saved
  <2> QED BY <1>1, <2>1 DEF RestoreInv, Counted
<1>3. /\ f \in Saved /\ f.what = db /\ f.born = made + 1 /\ f.seq <= made + 1
      /\ Place(gens, f) = gens \cup {f} /\ Named(gens \cup {f})
      /\ \A a, b \in gens \cup {f} : a.born < b.born => Before(a, b)
  <2>1. \A a, b \in gens : a.born < b.born => Before(a, b)
    BY DEF RestoreInv, NamesInOrder
  <2>2. made + 1 \in Nat /\ made + 1 >= 1 /\ made + 1 <= MaxMade + MaxStarts
    BY <1>1
  <2>3. Numbered(gens, made + 1)
    BY <1>1, <1>2, <2>1 DEF Numbered
  <2>4. db \in Contents /\ clock \in 0 .. MaxClock
    BY <1>1
  <2>5. f.what = db
    BY DEF NextDest
  <2>6. f \in Saved /\ f.born = made + 1 /\ f.seq <= made + 1
    BY <2>2, <2>3, <2>4, NewFile
  <2>7. Place(gens, f) = gens \cup {f} /\ Named(gens \cup {f})
    BY <2>2, <2>3, <2>4, NewFile
  <2>8. \A a, b \in gens \cup {f} : a.born < b.born => Before(a, b)
    BY <2>2, <2>3, <2>4, NewFile
  <2> QED BY <2>5, <2>6, <2>7, <2>8
<1> HIDE DEF f
<1>4. /\ gens' \subseteq gens \cup {f} /\ before' = before /\ db' = db /\ made' = made + 1
      /\ pending' = pending /\ stage' = stage /\ dest' = dest /\ clock' = clock
      /\ edits' = edits /\ starts' = starts /\ live' = live /\ undo' = undo /\ strays' = strays
  BY <1>3 DEF CreateGeneration, history, Rotated, f
<1>5. RestoreTypeOK'
  BY <1>1, <1>3, <1>4 DEF RestoreInv, RestoreTypeOK
<1>6. Named(before)' /\ Named(gens)'
  <2>1. Named(gens')
    BY <1>3, <1>4, NamedSubset
  <2> QED BY <1>1, <1>4, <2>1 DEF Named
<1>7. NamesInOrder'
  <2>1. \A a, b \in gens' : a.born < b.born => Before(a, b)
    BY <1>3, <1>4
  <2> QED BY <1>4, <2>1 DEF RestoreInv, NamesInOrder, Before
<1>8. Counted'
  <2>1. \A a \in gens' : a.seq <= a.born /\ a.born <= made'
    <3>1. \A a \in gens : a.born \in Nat
      BY <1>1 DEF Saved
    <3> QED BY <1>1, <1>2, <1>3, <1>4, <3>1
  <2> QED BY <1>4, <2>1 DEF RestoreInv, Counted
<1>9. NoneTorn'
  <2>1. \A g \in gens' : g.what \notin {Torn, Missing}
    <3>1. db # Missing /\ db # Torn
      BY DEF CreateGeneration, RestoreInv, InPlace
    <3> QED BY <1>1, <1>3, <1>4, <3>1 DEF RestoreInv, NoneTorn
  <2> QED BY <1>4, <2>1 DEF RestoreInv, NoneTorn
<1>10. InPlace' /\ PutAway' /\ LiveKept' /\ UndoKept'
  BY <1>4 DEF RestoreInv, InPlace, PutAway, LiveKept, UndoKept
<1> QED BY <1>5, <1>6, <1>7, <1>8, <1>9, <1>10 DEF RestoreInv

LEMMA RunningKeeps ==
  RestoreInv /\ (Open \/ Edit \/ RequestRestore \/ CancelRestore \/ Stop \/ SetClock) => RestoreInv'
<1> SUFFICES ASSUME RestoreInv, Open \/ Edit \/ RequestRestore \/ CancelRestore \/ Stop \/ SetClock
             PROVE  RestoreInv'
  OBVIOUS
<1> USE DEF Torn, Blank, Missing, Gone
<1>1. gens' = gens /\ before' = before /\ starts' = starts /\ made' = made /\ dest' = dest
  BY DEF Open, Edit, RequestRestore, CancelRestore, Stop, SetClock, history
<1>2. Named(before)' /\ Named(gens)' /\ NamesInOrder' /\ gens' \subseteq Saved /\ before' \subseteq Saved
  BY <1>1, FilesStay
<1>3. CASE Open
  <2>1. RestoreTypeOK'
    BY <1>1, <1>2, <1>3 DEF Open, Stages, Contents, RestoreInv, RestoreTypeOK
  <2>2. Counted' /\ NoneTorn' /\ InPlace' /\ PutAway'
    BY <1>3 DEF Open, history, RestoreInv, Counted, NoneTorn, InPlace, PutAway
  <2>3. LiveKept' /\ UndoKept'
    BY <1>3 DEF Open, history, RestoreInv, LiveKept, UndoKept, NoneTorn
  <2> QED BY <1>2, <2>1, <2>2, <2>3 DEF RestoreInv
<1>4. CASE Edit
  <2>1. edits' \in 0 .. MaxEdits /\ db' = edits' /\ edits' >= 0
    BY <1>4, RestoreAssumption DEF Edit, RestoreInv, RestoreTypeOK
  <2>2. RestoreTypeOK'
    BY <1>2, <1>4, <2>1 DEF Edit, Contents, RestoreInv, RestoreTypeOK
  <2>3. NoneTorn'
    BY <1>4, <2>1 DEF Edit, RestoreInv, NoneTorn
  <2>4. Counted' /\ InPlace' /\ PutAway'
    BY <1>4, <2>1 DEF Edit, RestoreInv, Counted, InPlace, PutAway
  <2>5. LiveKept' /\ UndoKept'
    BY <1>4 DEF Edit, RestoreInv, LiveKept, UndoKept
  <2> QED BY <1>2, <2>2, <2>3, <2>4, <2>5 DEF RestoreInv
<1>5. CASE RequestRestore \/ CancelRestore
  <2>1. pending' \in Contents \cup {Missing} /\ pending' # Torn
    BY <1>5 DEF RequestRestore, CancelRestore, RestoreInv, RestoreTypeOK, NoneTorn, Saved
  <2>2. /\ stage = "running" /\ stage' = stage /\ db' = db /\ clock' = clock /\ edits' = edits
        /\ live' = live /\ undo' = undo /\ strays' = strays
    BY <1>5 DEF RequestRestore, CancelRestore, history
  <2>3. RestoreTypeOK'
    BY <1>1, <1>2, <2>1, <2>2 DEF RestoreInv, RestoreTypeOK
  <2>4. Counted' /\ NoneTorn' /\ InPlace' /\ PutAway'
    BY <1>1, <2>1, <2>2 DEF RestoreInv, Counted, NoneTorn, InPlace, PutAway
  <2>5. LiveKept' /\ UndoKept'
    BY <1>1, <2>2 DEF RestoreInv, LiveKept, UndoKept
  <2> QED BY <1>2, <2>3, <2>4, <2>5 DEF RestoreInv
<1>6. CASE Stop \/ SetClock
  <2>1. /\ stage' \in {stage, "off"} /\ clock' \in 0 .. MaxClock /\ db' = db /\ edits' = edits
        /\ pending' = pending /\ live' = live /\ undo' = undo /\ strays' = strays
    BY <1>6 DEF Stop, SetClock, history, RestoreInv, RestoreTypeOK
  <2>2. RestoreTypeOK'
    BY <1>1, <1>2, <2>1 DEF RestoreInv, RestoreTypeOK, Stages
  <2>3. Counted' /\ NoneTorn' /\ InPlace' /\ PutAway'
    BY <1>1, <2>1 DEF RestoreInv, Counted, NoneTorn, InPlace, PutAway
  <2>4. LiveKept' /\ UndoKept'
    BY <1>1, <2>1 DEF RestoreInv, LiveKept, UndoKept
  <2> QED BY <1>2, <2>2, <2>3, <2>4 DEF RestoreInv
<1> QED BY <1>3, <1>4, <1>5, <1>6

LEMMA RestoreInvNext == RestoreInv /\ [RestoreNext]_restoreVars => RestoreInv'
<1> SUFFICES ASSUME RestoreInv, [RestoreNext]_restoreVars PROVE RestoreInv'
  OBVIOUS
<1>1. CASE UNCHANGED restoreVars
  BY <1>1 DEF restoreVars, RestoreInv, RestoreTypeOK, Named, NamesInOrder, Before, Counted,
              NoneTorn, InPlace, PutAway, LiveKept, UndoKept
<1> QED BY <1>1, StartKeeps, EvacuateKeeps, StartCopyKeeps, EndCopyKeeps, EndMoveKeeps, GiveUpKeeps,
           SwapKeeps, SwapFailsKeeps, MoveBackKeeps, RotateBeforeKeeps, CreateGenerationKeeps,
           RunningKeeps DEF RestoreNext

\* The invariant of the database files and of the restore that goes on among them
\* (db_backup.rs): names and their order, what is in place at each stage of a start, and
\* where the user's database and the one before the last restore are.
THEOREM RestoreInvariance == RestoreSpec => []RestoreInv
<1> QED BY RestoreInvInit, RestoreInvNext, PTL DEF RestoreSpec

\* Every stage of a start, every file and every name of a file is what db_backup.rs has.
THEOREM RestoreTypeCorrect == RestoreSpec => []RestoreTypeOK
<1>1. RestoreInv => RestoreTypeOK
  BY DEF RestoreInv
<1> QED BY <1>1, RestoreInvariance, PTL

\* Whatever fails in apply_pending_restore and wherever the program dies, the user's
\* database and the one the last restore replaced can still be found.
THEOREM NothingIsLost == RestoreSpec => []NothingLost
<1>1. RestoreInv => NothingLost
  BY DEF RestoreInv, LiveKept, UndoKept, NothingLost, Kept
<1> QED BY <1>1, RestoreInvariance, PTL

\* next_dest names the files in the order they are made in, whatever the clock does.
THEOREM NamesStayInOrder == RestoreSpec => []NamesInOrder
<1>1. RestoreInv => NamesInOrder
  BY DEF RestoreInv
<1> QED BY <1>1, RestoreInvariance, PTL

-----------------------------------------------------------------------------
(* The parts side by side *)

storeVars == <<part, cacheVars, vars, wideVars, settingsVars, restoreVars>>

\* A behaviour in which one store changes while the others keep still is one of the page
\* cache, of the identities (of either size), of the settings and of the backups, so what
\* is checked or proved of any of them holds of it.
THEOREM StoresSideBySide ==
  MCSpec => CacheSpec /\ Spec /\ Wide!Spec /\ SettingsSpec /\ RestoreSpec
<1>1. MCInit => CacheInit /\ Init /\ Wide!Init /\ SettingsInit /\ RestoreInit
  BY DEF MCInit, Init, Wide!Init
<1>2. [MCNext]_storeVars => /\ [CacheNext]_cacheVars /\ [Next]_vars /\ [Wide!Next]_(Wide!vars)
                            /\ [SettingsNext]_settingsVars /\ [RestoreNext]_restoreVars
  <2>1. wideVars' = wideVars => (Wide!vars)' = Wide!vars
    BY DEF wideVars, Wide!vars, Wide!world, Wide!tables
  <2> QED BY <2>1 DEF storeVars, MCNext, Pages, Identify, IdentifyMany, Attach, PutBack
<1> QED BY <1>1, <1>2, PTL
        DEF MCSpec, storeVars, CacheSpec, Spec, Wide!Spec, SettingsSpec, RestoreSpec

PartIsKnown == part \in Parts

\* Every variable keeps its type, whichever store changes: the page cache, the identities,
\* the settings or the backups.  (The larger instance of the identities is left out here:
\* its type invariant is IdentityTypeCorrect with other values of the constants.)
THEOREM StoresTypeCorrect == MCSpec => [](part # "wide" => TypesOK)
<1>1. MCInit => PartIsKnown
  BY DEF MCInit, PartIsKnown
<1>2. PartIsKnown /\ [MCNext]_storeVars => PartIsKnown'
  BY DEF storeVars, PartIsKnown, MCNext, Pages, Identify, IdentifyMany, Attach, PutBack
<1>3. PartIsKnown /\ CacheTypeOK /\ TypeOK /\ SettingsTypeOK /\ RestoreTypeOK
      => (part # "wide" => TypesOK)
  BY DEF PartIsKnown, Parts, TypesOK
<1>4. Spec => []TypeOK
  BY IdentityTypeCorrect, IdentityAssumption
<1> QED BY <1>1, <1>2, <1>3, <1>4, StoresSideBySide, CacheTypeCorrect, SettingsTypeCorrect,
           RestoreTypeCorrect, PTL DEF MCSpec, storeVars

================================================================================
