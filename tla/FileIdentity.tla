----------------------------- MODULE FileIdentity ------------------------------
(***************************************************************************)
(* How files keep their identity when they are moved, copied or rewritten  *)
(* (src/file_identity.rs, identity_pending.rs, identity_resolve.rs,        *)
(* identity_sweep.rs, view_explorer/identity_worker.rs).  A record (id)     *)
(* knows its path, the stat (size and mtime) and the fingerprint seen last. *)
(* Two threads resolve paths to records: the identity worker, file by file  *)
(* of the folder on screen, and the UI thread before it writes user data    *)
(* (ensure_record).  Both look at the file, read the database, decide, and   *)
(* apply; the database lock is released in between, so files and records     *)
(* can change under a decision, which `apply' then has to notice.           *)
(*                                                                         *)
(* User data is one value per record: a mark (rating, bookmark, settings:   *)
(* what data_signature compares), "visited" (a visit count only, which is   *)
(* user data but carries no signature) or "none".  Favorites, the v1 rows   *)
(* and the history of paths are left to FileSettings; empty files, which    *)
(* have no fingerprint, and the name in rank_orphan are left out.           *)
(***************************************************************************)
EXTENDS Integers, FiniteSets

CONSTANTS
  Paths,
  Bodies,     \* contents of files, which are their fingerprints
  NoFp,       \* fp: None
  Marks,      \* user data two records can differ in
  MaxId,      \* bound: records ever made
  Known,      \* bound: files resolved in earlier sessions
  MaxEvents,  \* bound: what the user and other programs do
  MaxTries    \* MAX_RESOLVE_ATTEMPTS

ASSUME IdentityAssumption ==
  /\ NoFp \notin Bodies /\ Marks \cap {"none", "visited"} = {}
  /\ MaxId \in Nat \ {0} /\ MaxTries \in Nat \ {0}
  /\ MaxEvents \in Nat /\ Known \in 0 .. MaxId /\ Known <= MaxEvents

VARIABLES
  disk,       \* the file at each path
  events,     \* events so far; the stat of a file is the number of its write
  ids,        \* file_id_v1
  index,      \* file_path_index_v1, 0 for no entry
  fps,        \* file_fp_index_v1
  next,       \* identity_counters_v1
  data,       \* the rows keyed by id in the tables of user data
  asks,       \* identity_pending_v1: candidates of each question, {} for none
  job,        \* what each thread is in the middle of
  raced       \* history: user data was written in a window the code leaves open

world  == <<disk, events>>
tables == <<ids, index, fps, next>>
vars   == <<world, tables, data, asks, job, raced>>

Ids     == 1 .. MaxId
Threads == {"worker", "ui"}
Kinds   == {"copy", "move"}       \* CopySource, MoveTarget
NoFile  == [stat |-> 0]
NoRec   == [path |-> "none"]
Idle    == [at |-> "idle"]
Data    == Marks \cup {"none", "visited"}

Files   == [stat : 1 .. MaxEvents, body : Bodies]
Records == [path : Paths, stat : 1 .. MaxEvents, fp : Bodies \cup {NoFp},
            confirmed : BOOLEAN]

Exists(i)  == ids[i] # NoRec
Absent(i)  == disk[ids[i].path] = NoFile
HasData(i) == data[i] # "none"                      \* id_has_user_data
Signed(i)  == data[i] \in Marks                     \* data_signature is Some

\* quick_hit: the record can be trusted without reading the file.
QuickHit(p) ==
  LET f == disk[p]  i == index[p]
  IN  /\ f # NoFile /\ i # 0
      /\ ids[i].confirmed /\ ids[i].stat = f.stat /\ ids[i].fp # NoFp

Event == events < MaxEvents /\ events' = events + 1

Go(t, j) == job' = [job EXCEPT ![t] = j]

-------------------------------------------------------------------------------
(* Looking at a file (resolve_file, observe, ensure_record, mark_unconfirmed) *)

Resolving(p, stat, fp) ==
  [at |-> "observed", path |-> p, stat |-> stat, fp |-> fp, tries |-> 1]

\* The UI thread goes on with the record the path has now, if any.
Found(p) == IF index[p] = 0 THEN Idle ELSE [at |-> "found", id |-> index[p]]

After(t, p) == IF t = "ui" THEN Found(p) ELSE Idle

\* Nothing to resolve: the stat matches, or the file is gone.
Look(t, p) ==
  /\ job[t] = Idle
  /\ QuickHit(p) \/ disk[p] = NoFile
  /\ ids' = IF disk[p] = NoFile /\ t = "worker" /\ index[p] # 0
            THEN [ids EXCEPT ![index[p]].confirmed = FALSE] ELSE ids
  /\ Go(t, After(t, p))
  /\ UNCHANGED <<world, index, fps, next, data, asks, raced>>

\* The file is read.  One written in the last three seconds (SETTLE_SECS) is left
\* for later by the worker and recorded without its fingerprint by the UI thread;
\* there is no clock: any file written in this session may be that young.
Observe(t, p) ==
  /\ job[t] = Idle /\ disk[p] # NoFile /\ ~QuickHit(p)
  /\ \E fp \in {disk[p].body} \cup (IF t = "ui" /\ disk[p].stat > Known THEN {NoFp} ELSE {}) :
       Go(t, Resolving(p, disk[p].stat, fp))
  /\ UNCHANGED <<world, tables, data, asks, raced>>

-------------------------------------------------------------------------------
(* read_snapshot and decide *)

\* The records with the same fingerprint at other paths.
Candidates(o) ==
  {i \in Ids : <<o.fp, i>> \in fps /\ Exists(i) /\ ids[i].path # o.path}

Agree(S) == \A i, j \in S : data[i] = data[j]

\* rank_orphan: the same mtime first (a move keeps it), then by name, then by age.
Ranked(S, o) ==
  LET same == {i \in S : ids[i].stat = o.stat} IN IF same # {} THEN same ELSE S

\* pick_move_source: who moved here, given the candidates that are gone...
MoveSources(gone, o) ==
  LET held == {i \in gone : Signed(i)}
  IN  IF held = {} THEN Ranked(gone, o) ELSE IF Agree(held) THEN Ranked(held, o) ELSE {}

\* ... or between whom the user has to choose.
MoveAsk(gone) ==
  LET held == {i \in gone : Signed(i)} IN IF Agree(held) THEN {} ELSE held

\* pick_copy_source
CopyHolders(o) == {i \in Candidates(o) : ~Absent(i) /\ Signed(i)}
CopySource(o) ==
  IF CopyHolders(o) # {} /\ Agree(CopyHolders(o))
  THEN CHOOSE i \in CopyHolders(o) : \A j \in CopyHolders(o) : i <= j ELSE 0
CopyAsk(o) == IF Agree(CopyHolders(o)) THEN {} ELSE CopyHolders(o)

Decision(do, id, fp, orphan, from, kind, ask) ==
  [do |-> do, id |-> id, fp |-> fp, orphan |-> orphan,
   was |-> IF orphan = 0 THEN "none" ELSE ids[orphan].path,
   from |-> from, kind |-> kind, ask |-> ask]

\* Faulty variant: the user's data is not looked at.
MayYieldAlways(i, o) == o.fp # NoFp /\ ids[i].fp # NoFp /\ ids[i].fp # o.fp

\* May the record of a path give way to a record that moved here?  Only if the
\* contents changed and nobody attached anything to it.
MayYield(i, o) ==
  /\ o.fp # NoFp /\ ids[i].fp # NoFp /\ ids[i].fp # o.fp
  /\ ~HasData(i)

\* A record that could not be read keeps the fingerprint it had.
Updates(i, o, gone) ==
  LET fp == IF o.fp = NoFp THEN ids[i].fp ELSE o.fp
      into == IF MayYield(i, o) THEN MoveSources(gone, o) ELSE {}
      ask  == IF MayYield(i, o) THEN MoveAsk(gone) ELSE {}
  IN  IF into # {} THEN {Decision("merge", i, fp, j, 0, "move", {}) : j \in into}
                   ELSE {Decision("update", i, fp, 0, 0, "move", ask)}

Creations(o, gone) ==
  IF o.fp = NoFp THEN {Decision("create", 0, NoFp, 0, 0, "copy", {})}
  ELSE IF MoveSources(gone, o) # {}
  THEN {Decision("move", 0, o.fp, j, 0, "move", {}) : j \in MoveSources(gone, o)}
  ELSE IF MoveAsk(gone) # {}
  THEN {Decision("create", 0, o.fp, 0, 0, "move", MoveAsk(gone))}
  ELSE {Decision("create", 0, o.fp, 0, CopySource(o), "copy", CopyAsk(o))}

\* A candidate whose file is not there is missing, or on a volume that is offline.
Decide(t) ==
  /\ job[t].at = "observed"
  /\ LET o == job[t]  i == index[o.path]
     IN  \E gone \in SUBSET {c \in Candidates(o) : Absent(c)} :
           \E d \in IF i # 0 THEN Updates(i, o, gone) ELSE Creations(o, gone) :
              Go(t, [at |-> "decided", path |-> o.path, stat |-> o.stat, fp |-> o.fp,
                     tries |-> o.tries, d |-> d])
  /\ UNCHANGED <<world, tables, data, asks, raced>>

-------------------------------------------------------------------------------
(* apply: one write transaction that first checks what the decision assumed *)

\* Faulty variant: who owns the path by now is not looked at.
HoldsAtAnyPath(d, p) ==
  /\ d.id # 0 => Exists(d.id)
  /\ d.orphan # 0 => Exists(d.orphan) /\ ids[d.orphan].path = d.was

Holds(d, p) ==
  /\ index[p] = d.id
  /\ d.id # 0 => Exists(d.id)
  /\ d.orphan # 0 => Exists(d.orphan) /\ ids[d.orphan].path = d.was

Refp(F, i, new) == {x \in F : x[2] # i} \cup (IF new = NoFp THEN {} ELSE {<<new, i>>})

Seen(p, stat, fp) == [path |-> p, stat |-> stat, fp |-> fp, confirmed |-> TRUE]

\* fp_index_replace and put
Rewrite(i, p, stat, fp) ==
  /\ ids' = [ids EXCEPT ![i] = Seen(p, stat, fp)]
  /\ fps' = Refp(fps, i, fp)
  /\ UNCHANGED <<index, next>>

\* relocate: the record `i' moves to `p'; the record `blank' (0: none) that was
\* there is dropped, its rows of user data are not looked for.
Relocate(i, p, stat, fp, blank) ==
  /\ ids' = [k \in Ids |-> IF k = i THEN Seen(p, stat, fp)
                           ELSE IF k = blank THEN NoRec ELSE ids[k]]
  /\ index' = [index EXCEPT ![ids[i].path] = 0, ![p] = i]
  /\ fps' = Refp({x \in fps : x[2] # blank}, i, fp)
  /\ UNCHANGED next

Create(p, stat, fp) ==
  /\ next <= MaxId
  /\ ids' = [ids EXCEPT ![next] = Seen(p, stat, fp)]
  /\ index' = [index EXCEPT ![p] = next]
  /\ fps' = Refp(fps, next, fp)
  /\ next' = next + 1

Write(j) ==
  CASE j.d.do = "update" -> Rewrite(j.d.id, j.path, j.stat, j.d.fp)
    [] j.d.do = "merge"  -> Relocate(j.d.orphan, j.path, j.stat, j.fp, j.d.id)
    [] j.d.do = "move"   -> Relocate(j.d.orphan, j.path, j.stat, j.fp, 0)
    [] j.d.do = "create" -> Create(j.path, j.stat, j.fp)

\* What the worker still has to do about the result (process_batch_prioritized);
\* the UI thread ignores it (ensure_record).
Next1(t, j, i) ==
  IF t = "ui" THEN [at |-> "found", id |-> i]
  ELSE IF j.d.from # 0
  THEN [at |-> "clone", from |-> j.d.from, to |-> i, asked |-> FALSE]
  ELSE IF j.d.ask # {}
  THEN [at |-> "ask", kind |-> j.d.kind, subject |-> i, ask |-> j.d.ask \ {i}]
  ELSE Idle

\* Another thread is about to delete record `i'.
Doomed(i) == \E t \in Threads : job[t].at = "delete" /\ job[t].id = i

Apply(t) ==
  /\ job[t].at = "decided" /\ Holds(job[t].d, job[t].path)
  /\ Write(job[t])
  /\ LET i == index'[job[t].path]
     IN  /\ Go(t, Next1(t, job[t], i))
         /\ raced' = (raced \/ Doomed(i))
  /\ UNCHANGED <<world, data, asks>>

\* IdentityError::Conflict: decide again, three times at most.
Conflict(t) ==
  /\ job[t].at = "decided" /\ ~Holds(job[t].d, job[t].path)
  /\ LET j == job[t]
     IN  Go(t, IF j.tries < MaxTries
               THEN [Resolving(j.path, j.stat, j.fp) EXCEPT !.tries = j.tries + 1]
               ELSE After(t, j.path))
  /\ UNCHANGED <<world, tables, data, asks, raced>>

-------------------------------------------------------------------------------
(* What follows a resolution, each in transactions of its own *)

\* Another thread decided, outside the lock, that record `i' is free to be dropped or
\* filled.
Claimed(t, i) ==
  \E u \in Threads \ {t} :
    \/ job[u].at = "decided" /\ job[u].d.do = "merge" /\ job[u].d.id = i
    \/ job[u].at = "adopt" /\ job[u].blank = i
    \/ job[u].at = "fill" /\ job[u].to = i

\* clone_inheritable_data reads both sides...
CloneRead(t) ==
  /\ job[t].at = "clone"
  /\ LET j == job[t]
         ok == ~HasData(j.to) /\ Exists(j.from) /\ Exists(j.to)
     IN  Go(t, IF ok /\ Signed(j.from)
               THEN [at |-> "fill", to |-> j.to, with |-> data[j.from], asked |-> j.asked]
               ELSE IF ok /\ j.asked
               THEN [at |-> "answered", kind |-> "copy", subject |-> j.to]
               ELSE Idle)
  /\ UNCHANGED <<world, tables, data, asks, raced>>

\* ... and writes over whatever the target holds by then.
CloneWrite(t) ==
  /\ job[t].at = "fill"
  /\ data' = [data EXCEPT ![job[t].to] = job[t].with]
  /\ Go(t, IF job[t].asked THEN [at |-> "answered", kind |-> "copy", subject |-> job[t].to]
                           ELSE Idle)
  /\ raced' = (raced \/ Claimed(t, job[t].to))
  /\ UNCHANGED <<world, tables, asks>>

\* identity_pending::add
Ask(t) ==
  /\ job[t].at = "ask"
  /\ asks' = [asks EXCEPT ![<<job[t].kind, job[t].subject>>] =
                IF job[t].ask = {} THEN @ ELSE job[t].ask]
  /\ Go(t, Idle)
  /\ UNCHANGED <<world, tables, data, raced>>

\* The user rates the file, opens it, changes or clears its settings: the row is
\* written under the id that was found before.
UserWrite ==
  /\ job["ui"].at = "found"
  /\ LET i == job["ui"].id
     IN  /\ \E v \in Data : data' = [data EXCEPT ![i] = v]
         /\ raced' = (raced \/ ~Exists(i) \/ Claimed("ui", i))
  /\ Event
  /\ Go("ui", Idle)
  /\ UNCHANGED <<disk, tables, asks>>

-------------------------------------------------------------------------------
(* The dialog of open questions (identity_resolve::apply, adopt_orphan) *)

\* The user picks candidate `c'; what the question assumed is checked first.
Choose(k, s, c) ==
  /\ job["ui"] = Idle /\ c \in asks[k, s]
  /\ Exists(s) /\ Exists(c)
  /\ k = "move" => ~HasData(s)
  /\ Go("ui", IF k = "copy"
              THEN [at |-> "clone", from |-> c, to |-> s, asked |-> TRUE]
              ELSE [at |-> "adopt", blank |-> s, orphan |-> c])
  /\ UNCHANGED <<world, tables, data, asks, raced>>

\* `Skip': the question is dropped, nothing is moved.
Decline(k, s) ==
  /\ job["ui"] = Idle /\ asks[k, s] # {}
  /\ asks' = [asks EXCEPT ![<<k, s>>] = {}]
  /\ UNCHANGED <<world, tables, data, job, raced>>

\* adopt_orphan takes over what the blank record had seen of the file.
Adopt ==
  /\ job["ui"].at = "adopt"
  /\ LET b == job["ui"].blank  c == job["ui"].orphan
     IN  IF Exists(b) /\ Exists(c) /\ b # c
         THEN /\ Relocate(c, ids[b].path, ids[b].stat, ids[b].fp, b)
              /\ Go("ui", [at |-> "answered", kind |-> "move", subject |-> b])
              /\ raced' = (raced \/ Doomed(c))
         ELSE Go("ui", Idle) /\ UNCHANGED <<tables, raced>>
  /\ UNCHANGED <<world, data, asks>>

\* The question goes away in a transaction of its own.
Answered(t) ==
  /\ job[t].at = "answered"
  /\ asks' = [asks EXCEPT ![<<job[t].kind, job[t].subject>>] = {}]
  /\ Go(t, Idle)
  /\ UNCHANGED <<world, tables, data, raced>>

-------------------------------------------------------------------------------
(* The worker's other jobs *)

\* identity_pending::prune decides without the lock which candidates remain...
PruneLook(k, s) ==
  /\ job["worker"] = Idle /\ asks[k, s] # {}
  /\ LET live == {c \in asks[k, s] : Exists(c) /\ c # s}
         lost == Exists(s) /\ Absent(s)
     IN  \E gone \in SUBSET {c \in live : Absent(c)}, off \in IF lost THEN BOOLEAN ELSE {FALSE} :
           LET kept == IF ~Exists(s) \/ HasData(s) \/ (lost /\ ~off) THEN {}
                       ELSE IF k = "copy" THEN live \ gone
                       ELSE {c \in live : Absent(c)}
           IN  /\ kept # asks[k, s]
               /\ Go("worker", [at |-> "prune", kind |-> k, subject |-> s, kept |-> kept])
  /\ UNCHANGED <<world, tables, data, asks, raced>>

\* ... and writes them back, whether or not the question is still there.
PruneWrite ==
  /\ job["worker"].at = "prune"
  /\ asks' = [asks EXCEPT ![<<job["worker"].kind, job["worker"].subject>>] = job["worker"].kept]
  /\ Go("worker", Idle)
  /\ UNCHANGED <<world, tables, data, raced>>

\* is_candidate, checked once more right before the deletion; the retention has run
\* out, and the volume is online.
SweepCheck(i) ==
  /\ job["worker"] = Idle
  /\ Exists(i) /\ ~ids[i].confirmed /\ Absent(i)
  /\ Go("worker", [at |-> "delete", id |-> i])
  /\ UNCHANGED <<world, tables, data, asks, raced>>

\* delete_id
SweepDelete ==
  /\ job["worker"].at = "delete"
  /\ LET i == job["worker"].id
     IN  IF Exists(i)
         THEN /\ ids' = [ids EXCEPT ![i] = NoRec]
              /\ index' = [p \in Paths |-> IF index[p] = i THEN 0 ELSE index[p]]
              /\ fps' = {x \in fps : x[2] # i}
              /\ data' = [data EXCEPT ![i] = "none"]
         ELSE UNCHANGED <<ids, index, fps, data>>
  /\ Go("worker", Idle)
  /\ UNCHANGED <<world, next, asks, raced>>

-------------------------------------------------------------------------------
(* The world outside: other programs, time, and the end of this one *)

WriteFile(p, b) ==
  /\ Event
  /\ disk' = [disk EXCEPT ![p] = [stat |-> events + 1, body |-> b]]
  /\ UNCHANGED <<tables, data, asks, job, raced>>

\* A rename, and some copies, keep the time stamp.
CopyFile(p, q) ==
  /\ Event
  /\ disk[p] # NoFile /\ p # q
  /\ disk' = [disk EXCEPT ![q] = disk[p]]
  /\ UNCHANGED <<tables, data, asks, job, raced>>

MoveFile(p, q) ==
  /\ Event
  /\ disk[p] # NoFile /\ p # q
  /\ disk' = [disk EXCEPT ![q] = disk[p], ![p] = NoFile]
  /\ UNCHANGED <<tables, data, asks, job, raced>>

DeleteFile(p) ==
  /\ Event
  /\ disk[p] # NoFile
  /\ disk' = [disk EXCEPT ![p] = NoFile]
  /\ UNCHANGED <<tables, data, asks, job, raced>>

\* The program ends at any point and is started again on the same database.
Restart ==
  /\ \E t \in Threads : job[t] # Idle
  /\ job' = [t \in Threads |-> Idle]
  /\ UNCHANGED <<world, tables, data, asks, raced>>

\* An empty database, or `Known' files resolved in earlier sessions, marked or not, which
\* were moved, copied, swapped or deleted since.
Resolved(n) ==
  \E at \in [1 .. n -> Paths], body \in [1 .. n -> Bodies], d \in [1 .. n -> Marks \cup {"none"}] :
    /\ \A i, j \in 1 .. n : at[i] = at[j] => i = j
    /\ disk \in [Paths -> {NoFile} \cup {[stat |-> i, body |-> body[i]] : i \in 1 .. n}]
    /\ events = Known
    /\ ids = [i \in Ids |-> IF i <= n THEN Seen(at[i], i, body[i]) ELSE NoRec]
    /\ index = [p \in Paths |-> IF \E i \in 1 .. n : at[i] = p
                               THEN CHOOSE i \in 1 .. n : at[i] = p ELSE 0]
    /\ fps = {<<body[i], i>> : i \in 1 .. n} /\ next = n + 1
    /\ data = [i \in Ids |-> IF i <= n THEN d[i] ELSE "none"]
    /\ asks = [q \in Kinds \X Ids |-> {}]
    /\ job = [t \in Threads |-> Idle]
    /\ raced = FALSE

Init == \E n \in {0, Known} : Resolved(n)

Resolve(t) == (\E p \in Paths : Look(t, p) \/ Observe(t, p))
                \/ Decide(t) \/ Apply(t) \/ Conflict(t)
FollowUp(t) == CloneRead(t) \/ CloneWrite(t) \/ Ask(t) \/ Answered(t)
Dialog == \/ Adopt
          \/ \E k \in Kinds, s \in Ids : Decline(k, s) \/ \E c \in Ids : Choose(k, s, c)
Upkeep == \/ PruneWrite \/ SweepDelete
          \/ \E i \in Ids : SweepCheck(i) \/ \E k \in Kinds : PruneLook(k, i)
World  == \/ Restart
          \/ \E p \in Paths : DeleteFile(p) \/ (\E b \in Bodies : WriteFile(p, b))
          \/ \E p, q \in Paths : CopyFile(p, q) \/ MoveFile(p, q)

Next == (\E t \in Threads : Resolve(t) \/ FollowUp(t)) \/ UserWrite \/ Dialog \/ Upkeep \/ World

Spec == Init /\ [][Next]_vars

-------------------------------------------------------------------------------
(* Properties *)

TypeOK ==
  /\ disk \in [Paths -> Files \cup {NoFile}] /\ events \in 0 .. MaxEvents
  /\ ids \in [Ids -> Records \cup {NoRec}] /\ index \in [Paths -> 0 .. MaxId]
  /\ fps \subseteq Bodies \X Ids /\ next \in 1 .. MaxId + 1
  /\ data \in [Ids -> Data]
  /\ asks \in [Kinds \X Ids -> SUBSET Ids]
  /\ raced \in BOOLEAN

\* A path leads to the record that has it, every record can be reached by its path,
\* the fingerprint index lists each record under its fingerprint and nothing else, and
\* an id is never given out twice: whatever two threads decided on what they had read.
PathsAgree == \A p \in Paths : index[p] # 0 => Exists(index[p]) /\ ids[index[p]].path = p
RecordsAgree == \A i \in Ids : Exists(i) => index[ids[i].path] = i
PrintsAgree ==
  \A i \in Ids, b \in Bodies : <<b, i>> \in fps <=> Exists(i) /\ ids[i].fp = b
Unused == \A i \in Ids : i >= next => ~Exists(i)
IndexesAgree == PathsAgree /\ RecordsAgree /\ PrintsAgree /\ Unused

\* What the user attached to a record changes only when the user changes it, and goes
\* only with a record the sweep found unconfirmed - outside the windows the code leaves
\* open between its check that a record is blank, or its file missing, and the
\* transaction that relies on it.
UserDataStays ==
  [][\A i \in Ids :
       Exists(i) /\ HasData(i) /\ ~raced =>
         \/ data'[i] = data[i] /\ ids'[i] # NoRec
         \/ job["ui"].at = "found" /\ job["ui"].id = i /\ job' # job
         \/ ids'[i] = NoRec /\ data'[i] = "none" /\ ~ids[i].confirmed]_vars

\* A record that is trusted on its stat alone carries the fingerprint of the file
\* (src/file_identity.rs:1109: a record without fingerprint is no match, "FPを埋めるため").
FingerprintFresh ==
  \A p \in Paths : QuickHit(p) => ids[index[p]].fp = disk[p].body
================================================================================
