------------------------------ MODULE FileSettings ------------------------------
(***************************************************************************)
(* What the user attached to a file, across the change from rows keyed by   *)
(* path (v1) to rows keyed by file id (v2) (src/file_settings.rs,           *)
(* spread_state.rs, FileRecord::legacy_keys and relocate in                 *)
(* file_identity.rs).  Nothing is converted in one go: a record reads the    *)
(* v1 rows of the paths it has had until its first write, which moves all    *)
(* its settings over, and v1 rows are kept.                                  *)
(*                                                                         *)
(* A file is named after the id it gets, if any.  The settings (spread, sort,*)
(* thumbnail, tags, favorite) are the Slots of one row; the bookmark, which   *)
(* is a row of its own without a "cleared" state, is the kind "bookmark".     *)
(* Which record a path resolves to is FileIdentity's; here a moved file is    *)
(* recognised, sooner or later.                                               *)
(***************************************************************************)
EXTENDS Integers, FiniteSets

CONSTANTS
  Archives,
  PathKeys,
  Nowhere,
  Slots,
  Values,
  HistoryMax,   \* HISTORY_MAX
  MaxMoves,     \* bound
  MaxWrites     \* bound: changes the user makes

ASSUME SettingsAssumption ==
  /\ Nowhere \notin PathKeys /\ "bookmark" \notin Slots /\ "none" \notin Archives
  /\ Values \cap {"none", "unmigrated", "cleared"} = {}
  /\ HistoryMax \in Nat \ {0} /\ MaxMoves \in Nat /\ MaxWrites \in Nat

VARIABLES
  at,        \* where each file is
  rec,       \* its record, if it has been resolved: path, origin, history
  v1,        \* the rows of the former tables, by path and kind
  row,       \* file_settings_v2, by file and slot
  bookmark,  \* bookmark_state_v2
  moves,
  writes,
  want,      \* history: what the user last said of each file
  from,      \* history: the file each v1 row was written for
  mixed,     \* history: files that met, one at a path with rows of the other
  astray     \* history: what was said of a file by path while its record was elsewhere

settingsVars == <<at, rec, v1, row, bookmark, moves, writes, want, from, mixed, astray>>

SettingKinds  == Slots \cup {"bookmark"}
Opt    == Values \cup {"none"}
NoRecord  == [path |-> Nowhere]
HasRecord(f) == rec[f] # NoRecord

\* legacy_*: the row of the path, of the first path or of the latest former path that has
\* one.  The history of a record gives each former path its place, 0 if it is not there.
Legacy(r, k) ==
  LET former == {p \in PathKeys : r.history[p] > 0 /\ v1[p][k] # "none"}
  IN  IF v1[r.path][k] # "none" THEN v1[r.path][k]
      ELSE IF v1[r.origin][k] # "none" \/ former = {} THEN v1[r.origin][k]
      ELSE v1[CHOOSE p \in former : \A q \in former : r.history[p] <= r.history[q]][k]

\* resolve
Effective(f, k) ==
  IF k = "bookmark"
  THEN IF bookmark[f] # "none" THEN bookmark[f] ELSE Legacy(rec[f], k)
  ELSE CASE row[f][k] = "unmigrated" -> Legacy(rec[f], k)
         [] row[f][k] = "cleared" -> "none"
         [] OTHER -> row[f][k]

\* Faulty variant: a setting that was never made is not noted as cleared.
MigratedAsIs(f) ==
  [k \in Slots |-> IF row[f][k] # "unmigrated" THEN row[f][k] ELSE Legacy(rec[f], k)]

\* migrate: all the slots at once.
Migrated(f) ==
  [k \in Slots |-> IF row[f][k] # "unmigrated" THEN row[f][k]
                   ELSE IF Legacy(rec[f], k) = "none" THEN "cleared"
                   ELSE Legacy(rec[f], k)]

\* legacy_keys
Keys(r) == {r.path, r.origin} \cup {p \in PathKeys : r.history[p] > 0}

\* Two files meet where one is at a path, or goes by it, that has a row of the other.
Ways(f) == (IF HasRecord(f) THEN Keys(rec[f]) ELSE {}) \cup ({at[f]} \ {Nowhere})
Met(f, g) == f # g /\ \E p \in Ways(f), k \in SettingKinds : from[p][k] = g

Watch == mixed' = mixed \cup {f \in Archives : \E g \in Archives : (Met(f, g) \/ Met(g, f))'}

Here(f) == at[f] # Nowhere /\ HasRecord(f) /\ rec[f].path = at[f]

HasSettings(f) == bookmark[f] # "none" \/ \E k \in Slots : row[f][k] \in Values

-------------------------------------------------------------------------------
\* A path without a record gets one (Decision::Create).
FirstRecord(f) ==
  /\ at[f] # Nowhere /\ ~HasRecord(f)
  /\ \A g \in Archives : HasRecord(g) => rec[g].path # at[f]
  /\ rec' = [rec EXCEPT ![f] = [path |-> at[f], origin |-> at[f],
                               history |-> [p \in PathKeys |-> 0]]]
  /\ UNCHANGED <<at, v1, row, bookmark, moves, writes, want, from, astray>>
  /\ Watch

\* relocate: the former path goes to the front of the history, which neither it nor the
\* new one is further back in, and which is cut to its length.
Relocated(r, p) ==
  LET kept == {q \in PathKeys \ {r.path, p} : r.history[q] > 0}
      place(q) == 1 + Cardinality({o \in kept : r.history[o] <= r.history[q]})
  IN  [r EXCEPT !.path = p,
                !.history = [q \in PathKeys |->
                   IF q = r.path THEN 1
                   ELSE IF q \in kept /\ place(q) <= HistoryMax THEN place(q) ELSE 0]]

FollowMove(f) ==
  /\ HasRecord(f) /\ at[f] \notin {Nowhere, rec[f].path}
  /\ \A g \in Archives : HasRecord(g) => rec[g].path # at[f]
  /\ rec' = [rec EXCEPT ![f] = Relocated(@, at[f])]
  /\ UNCHANGED <<at, v1, row, bookmark, moves, writes, want, from, astray>>
  /\ Watch

Said(f, k, v) ==
  /\ writes < MaxWrites /\ writes' = writes + 1
  /\ want' = [want EXCEPT ![f][k] = v]

\* modify: a slot is set or cleared.
SetSlot(f, k, v) ==
  /\ Here(f) /\ k \in Slots
  /\ row' = [row EXCEPT ![f] = [Migrated(f) EXCEPT ![k] = IF v = "none" THEN "cleared" ELSE v]]
  /\ Said(f, k, v)
  /\ astray' = astray \ {<<f, k>>}
  /\ UNCHANGED <<at, rec, v1, bookmark, moves, from, mixed>>

\* Faulty variant: removing a bookmark leaves the former rows.
SetBookmarkOnly(f, v) ==
  /\ Here(f)
  /\ bookmark' = [bookmark EXCEPT ![f] = v]
  /\ Said(f, "bookmark", v)
  /\ UNCHANGED <<at, rec, v1, row, moves, from, mixed, astray>>

\* bookmark_modify, Set and Remove: the rows a removed bookmark would come back from
\* are removed with it.
SetBookmark(f, v) ==
  /\ Here(f)
  /\ bookmark' = [bookmark EXCEPT ![f] = v]
  /\ IF v = "none"
     THEN /\ v1' = [p \in PathKeys |-> IF p \in Keys(rec[f])
                                    THEN [v1[p] EXCEPT !["bookmark"] = "none"] ELSE v1[p]]
          /\ from' = [p \in PathKeys |-> IF p \in Keys(rec[f])
                                      THEN [from[p] EXCEPT !["bookmark"] = "none"] ELSE from[p]]
     ELSE UNCHANGED <<v1, from>>
  /\ Said(f, "bookmark", v)
  /\ UNCHANGED <<at, rec, row, moves, mixed, astray>>

\* ensure_record has no record for the path, because the file cannot be read or its
\* resolution keeps failing: the former tables are written, by path.  The file may well
\* have a record, which has not followed it yet.
SetByPath(f, k, v) ==
  /\ at[f] # Nowhere
  /\ \A g \in Archives : HasRecord(g) => rec[g].path # at[f]
  /\ v1' = [v1 EXCEPT ![at[f]][k] = v]
  /\ from' = [from EXCEPT ![at[f]][k] = IF v = "none" THEN "none" ELSE f]
  /\ Said(f, k, v)
  /\ astray' = IF HasRecord(f) THEN astray \cup {<<f, k>>} ELSE astray
  /\ UNCHANGED <<at, rec, row, bookmark, moves>>
  /\ Watch

\* pick_copy_source: a file that has data of its own under its path inherits nothing.
Inherits(f) == \A k \in SettingKinds : v1[rec[f].path][k] = "none"

\* clone_inheritable_data, favorites aside.
Clone(g, f) ==
  /\ HasRecord(f) /\ HasRecord(g) /\ f # g
  /\ Inherits(f) /\ ~HasSettings(f)
  /\ row' = IF \E k \in Slots : Effective(g, k) # "none"
            THEN [row EXCEPT ![f] = [k \in Slots |-> IF Effective(g, k) # "none"
                                                     THEN Effective(g, k) ELSE Migrated(f)[k]]]
            ELSE row
  /\ bookmark' = IF Effective(g, "bookmark") # "none"
                 THEN [bookmark EXCEPT ![f] = Effective(g, "bookmark")] ELSE bookmark
  /\ want' = [want EXCEPT ![f] = [k \in SettingKinds |-> IF Effective(g, k) # "none"
                                                  THEN Effective(g, k) ELSE want[f][k]]]
  /\ UNCHANGED <<at, rec, v1, moves, writes, from, mixed, astray>>

-------------------------------------------------------------------------------
\* The world: a file appears or is moved.  A file that was never resolved leaves the
\* rows of its path behind (identity_relink.rs); that is left out.
Move(f, p) ==
  /\ moves < MaxMoves /\ moves' = moves + 1
  /\ \A g \in Archives : at[g] # p
  /\ at[f] # Nowhere /\ ~HasRecord(f) => \A k \in SettingKinds : from[at[f]][k] # f
  /\ at' = [at EXCEPT ![f] = p]
  /\ UNCHANGED <<rec, v1, row, bookmark, writes, want, from, astray>>
  /\ Watch

\* The former version left rows for the files it knew.
SettingsInit ==
  /\ at \in [Archives -> PathKeys \cup {Nowhere}]
  /\ \A f, g \in Archives : at[f] = at[g] /\ at[f] # Nowhere => f = g
  /\ want \in [Archives -> [SettingKinds -> Opt]]
  /\ \A f \in Archives : at[f] = Nowhere => \A k \in SettingKinds : want[f][k] = "none"
  /\ from = [p \in PathKeys |-> [k \in SettingKinds |->
               IF \E f \in Archives : at[f] = p /\ want[f][k] # "none"
               THEN CHOOSE f \in Archives : at[f] = p ELSE "none"]]
  /\ v1 = [p \in PathKeys |-> [k \in SettingKinds |->
             IF from[p][k] = "none" THEN "none" ELSE want[from[p][k]][k]]]
  /\ rec = [f \in Archives |-> NoRecord]
  /\ row = [f \in Archives |-> [k \in Slots |-> "unmigrated"]]
  /\ bookmark = [f \in Archives |-> "none"]
  /\ moves = 0 /\ writes = 0 /\ mixed = {} /\ astray = {}

SettingsNext ==
  \E f \in Archives :
    \/ FirstRecord(f) \/ FollowMove(f)
    \/ \E k \in Slots, v \in Opt : SetSlot(f, k, v)
    \/ \E v \in Opt : SetBookmark(f, v)
    \/ \E k \in SettingKinds, v \in Opt : SetByPath(f, k, v)
    \/ \E g \in Archives : Clone(g, f)
    \/ \E p \in PathKeys : Move(f, p)

SettingsSpec == SettingsInit /\ [][SettingsNext]_settingsVars

-------------------------------------------------------------------------------
SettingsTypeOK ==
  /\ at \in [Archives -> PathKeys \cup {Nowhere}]
  /\ v1 \in [PathKeys -> [SettingKinds -> Opt]]
  /\ row \in [Archives -> [Slots -> Values \cup {"unmigrated", "cleared"}]]
  /\ bookmark \in [Archives -> Opt] /\ want \in [Archives -> [SettingKinds -> Opt]]
  /\ from \in [PathKeys -> [SettingKinds -> Archives \cup {"none"}]] /\ mixed \subseteq Archives
  /\ astray \subseteq Archives \X SettingKinds
  /\ moves \in 0 .. MaxMoves /\ writes \in 0 .. MaxWrites

\* Whatever the moves, the copies and the order in which settings are migrated, a
\* resolved file shows what the user last said of it: nothing set before the change to
\* ids is lost, nothing cleared comes back.  Two cases are known and left out: a file
\* that was at a path with v1 rows of another, or another at a path with rows of it
\* (docs/features/file-identity.md §9 knows of such rows); and a setting last made by
\* path, in the former tables, while the record of the file was still at a former path -
\* rows of the record, and of its former paths when it was cleared, win over it.
SettingFollows ==
  \A f \in Archives \ mixed, k \in SettingKinds :
    HasRecord(f) /\ <<f, k>> \notin astray => Effective(f, k) = want[f][k]
=================================================================================
