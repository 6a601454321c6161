-------------------------------- MODULE DbRestore --------------------------------
(***************************************************************************)
(* Generations of the database and restoring one at the next start          *)
(* (src/db_backup.rs, dev_db_backup.rs: copy_file_atomic and move_file,      *)
(* view_explorer/backup_failure_ui.rs: open_spread_db_with_backup).  Any      *)
(* file operation can fail and the program can die between any two; a copy    *)
(* that fails leaves a torn file, except where it goes through a temporary     *)
(* file (copy_file_atomic), which is one step here.                            *)
(*                                                                         *)
(* The contents of the database is the number of edits made to it.              *)
(***************************************************************************)
EXTENDS Integers, FiniteSets

CONSTANTS
  Keep,        \* generations to keep, of the settings
  KeepBefore,  \* BEFORE_RESTORE_KEEP
  MaxEdits,    \* bound
  MaxClock,    \* bound: readings of the clock, which can go back
  MaxMade,     \* bound: generations made
  MaxStarts    \* bound

ASSUME RestoreAssumption ==
  /\ Keep \in Nat \ {0} /\ KeepBefore \in Nat \ {0}
  /\ MaxEdits \in Nat /\ MaxClock \in Nat /\ MaxMade \in Nat /\ MaxStarts \in Nat

VARIABLES
  db,        \* nekoviewer_spread.redb
  pending,   \* restore-pending-gen
  gens,      \* gen-*.redb
  before,    \* before-restore-*.redb
  stage,     \* where the program is in its start, or "running", or "off"
  dest,      \* the file the database was moved to in this start
  clock,
  edits,
  made,
  starts,
  live,      \* history: the database the user last had
  undo,      \* history: the one before the last restore
  strays     \* history: how often another one was put away since

restoreVars == <<db, pending, gens, before, stage, dest, clock, edits, made, starts, live, undo, strays>>
history == <<live, undo, strays>>

Torn     == -1      \* cannot be opened
Blank    == -2      \* created by the program
Missing  == -3
Contents == {Torn, Blank} \cup 0 .. MaxEdits
Stages   == {"off", "start", "copying", "copied", "swap", "back", "rotate", "open", "running"}
Gone     == [what |-> Missing]
Saved    == [ts : 0 .. MaxClock, seq : 1 .. MaxMade + MaxStarts, what : Contents, born : Nat]

\* sort_key, and the order of names
Before(a, b) == a.ts < b.ts \/ (a.ts = b.ts /\ a.seq < b.seq)
Latest(S) == CHOOSE a \in S : \A b \in S \ {a} : Before(b, a)
Oldest(S) == CHOOSE a \in S : \A b \in S \ {a} : Before(a, b)

\* Faulty variant: the names follow the clock.
NextDestByClock(S, what, n) == [ts |-> clock, seq |-> 1, what |-> what, born |-> n]

\* next_dest: behind the latest there is, also when the clock went back.
NextDest(S, what, n) ==
  IF S # {} /\ Latest(S).ts >= clock
  THEN [ts |-> Latest(S).ts, seq |-> Latest(S).seq + 1, what |-> what, born |-> n]
  ELSE [ts |-> clock, seq |-> 1, what |-> what, born |-> n]

\* What is left of a copy to a name: one file.
Place(S, f) == {a \in S : <<a.ts, a.seq>> # <<f.ts, f.seq>>} \cup {f}

\* rotate_stem, for a limit on the number of files: the newest stay.
Rotated(S, keep) == {a \in S : Cardinality({b \in S : Before(a, b)}) < keep}

-------------------------------------------------------------------------------
(* The start: apply_pending_restore, then the database is opened *)

Stray == strays' = IF db = live THEN strays ELSE strays + 1

Start ==
  /\ stage = "off" /\ starts < MaxStarts
  /\ starts' = starts + 1
  /\ stage' = IF pending = Missing THEN "open" ELSE IF db = Missing THEN "swap" ELSE "start"
  /\ dest' = Gone
  /\ UNCHANGED <<db, pending, gens, before, clock, edits, made, history>>

\* move_file of the database: a rename...
Evacuate ==
  /\ stage = "start"
  /\ LET f == NextDest(before, db, starts)
     IN  before' = Place(before, f) /\ dest' = f
  /\ db' = Missing /\ stage' = "swap" /\ Stray
  /\ UNCHANGED <<pending, gens, clock, edits, made, starts, live, undo>>

\* ... or, where that fails, a copy...
StartCopy ==
  /\ stage = "start"
  /\ LET f == NextDest(before, Torn, starts)
     IN  before' = Place(before, f) /\ dest' = f
  /\ stage' = "copying" /\ Stray
  /\ UNCHANGED <<db, pending, gens, clock, edits, made, starts, live, undo>>

EndCopy ==
  /\ stage = "copying"
  /\ LET f == [dest EXCEPT !.what = db]
     IN  before' = Place(before, f) /\ dest' = f
  /\ stage' = "copied"
  /\ UNCHANGED <<db, pending, gens, clock, edits, made, starts, history>>

\* ... and a deletion.
EndMove ==
  /\ stage = "copied"
  /\ db' = Missing /\ stage' = "swap"
  /\ UNCHANGED <<pending, gens, before, dest, clock, edits, made, starts, history>>

\* Faulty variant: the restore goes on without the copy.
GiveUpTheCopy ==
  /\ stage \in {"start", "copying", "copied"} \/ (stage = "swap" /\ dest = Gone)
  /\ stage' = "swap"
  /\ UNCHANGED <<db, pending, gens, before, dest, clock, edits, made, starts, history>>

\* The restore is given up; the reservation stays.
GiveUp ==
  /\ stage \in {"start", "copying", "copied"} \/ (stage = "swap" /\ dest = Gone)
  /\ stage' = "open"
  /\ UNCHANGED <<db, pending, gens, before, dest, clock, edits, made, starts, history>>

\* The reserved generation is renamed to the database.
Swap ==
  /\ stage = "swap"
  /\ db' = pending /\ pending' = Missing /\ stage' = "rotate"
  /\ undo' = IF strays < KeepBefore THEN live ELSE 0
  /\ live' = pending /\ strays' = 0
  /\ UNCHANGED <<gens, before, dest, clock, edits, made, starts>>

\* When that fails the evacuated database is moved back, if possible: by a rename, by
\* a copy, by half a copy, or not at all.
SwapFails ==
  /\ stage = "swap" /\ dest # Gone
  /\ stage' = "back"
  /\ UNCHANGED <<db, pending, gens, before, dest, clock, edits, made, starts, history>>

MoveBack ==
  /\ stage = "back"
  /\ \/ db' = dest.what /\ before' \in {before \ {dest}, before}
     \/ db' \in {Torn, Missing} /\ before' = before
  /\ stage' = "open"
  /\ UNCHANGED <<pending, gens, dest, clock, edits, made, starts, history>>

\* rotate_stem goes from the oldest on, and stops at the first it cannot delete.
RotateBefore ==
  /\ stage = "rotate"
  /\ IF Cardinality(before) > KeepBefore
     THEN \/ before' = before \ {Oldest(before)} /\ stage' = "rotate"
          \/ before' = before /\ stage' = "open"
     ELSE before' = before /\ stage' = "open"
  /\ UNCHANGED <<db, pending, gens, dest, clock, edits, made, starts, history>>

\* open_spread_db creates a database that is not there; a torn one is not opened, and
\* nothing is saved in this session.
Open ==
  /\ stage = "open"
  /\ db' = IF db = Missing THEN Blank ELSE db
  /\ stage' = "running"
  /\ UNCHANGED <<pending, gens, before, dest, clock, edits, made, starts, history>>

-------------------------------------------------------------------------------
(* The running program *)

Edit ==
  /\ stage = "running" /\ db # Torn /\ edits < MaxEdits
  /\ edits' = edits + 1 /\ db' = edits + 1 /\ live' = edits + 1 /\ strays' = 0
  /\ UNCHANGED <<pending, gens, before, stage, dest, clock, made, starts, undo>>

CreateGeneration ==
  /\ stage = "running" /\ db # Torn /\ made < MaxMade
  /\ made' = made + 1
  /\ LET all == Place(gens, NextDest(gens, db, made + 1))
     IN  gens' \in {all, Rotated(all, Keep)}
  /\ UNCHANGED <<db, pending, before, stage, dest, clock, edits, starts, history>>

\* request_restore copies the generation; it may be rotated away before the next start.
RequestRestore ==
  /\ stage = "running"
  /\ \E g \in gens : pending' = g.what
  /\ UNCHANGED <<db, gens, before, stage, dest, clock, edits, made, starts, history>>

CancelRestore ==
  /\ stage = "running" /\ pending # Missing
  /\ pending' = Missing
  /\ UNCHANGED <<db, gens, before, stage, dest, clock, edits, made, starts, history>>

\* The program ends, in its start or later.
Stop ==
  /\ stage # "off" /\ stage' = "off"
  /\ UNCHANGED <<db, pending, gens, before, dest, clock, edits, made, starts, history>>

SetClock ==
  /\ clock' \in (0 .. MaxClock) \ {clock}
  /\ UNCHANGED <<db, pending, gens, before, stage, dest, edits, made, starts, history>>

RestoreInit ==
  /\ db = 0 /\ pending = Missing /\ gens = {} /\ before = {}
  /\ stage = "off" /\ dest = Gone /\ clock = 0
  /\ edits = 0 /\ made = 0 /\ starts = 0
  /\ live = 0 /\ undo = 0 /\ strays = 0

RestoreNext ==
  \/ Start \/ Evacuate \/ StartCopy \/ EndCopy \/ EndMove \/ GiveUp
  \/ Swap \/ SwapFails \/ MoveBack \/ RotateBefore \/ Open
  \/ Edit \/ CreateGeneration \/ RequestRestore \/ CancelRestore \/ Stop \/ SetClock

RestoreSpec == RestoreInit /\ [][RestoreNext]_restoreVars

-------------------------------------------------------------------------------
RestoreTypeOK ==
  /\ db \in Contents \cup {Missing} /\ pending \in Contents \cup {Missing}
  /\ gens \subseteq Saved /\ before \subseteq Saved /\ dest \in Saved \cup {Gone}
  /\ stage \in Stages /\ clock \in 0 .. MaxClock
  /\ edits \in 0 .. MaxEdits /\ made \in 0 .. MaxMade /\ starts \in 0 .. MaxStarts

\* Whatever fails and wherever the program dies, the database the user last had and the
\* one a restore replaced are in place or among the files before-restore-* - unless starts
\* that left something else in place put that away twice before a restore went through.
Kept(c) == db = c \/ \E f \in before : f.what = c
NothingLost == (strays < KeepBefore => Kept(live)) /\ (undo # 0 => Kept(undo))

\* The order of the names is the order in which the files were made, whatever the clock
\* did, so that rotation only ever deletes older ones than it keeps.
NamesInOrder ==
  \A S \in {gens, before} : \A a, b \in S : a.born < b.born => Before(a, b)
==================================================================================
