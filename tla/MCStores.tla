------------------------------- MODULE MCStores -------------------------------
(***************************************************************************)
(* Small instances of what is kept: the cache of decoded pages in memory, and, *)
(* on disk, which file is which (twice: few files with contents that change, and *)
(* more files with data to choose between), what the user attached to them, and   *)
(* the database file itself.  As in MCViewer, `part' chooses which one a behaviour *)
(* exercises.                                                                       *)
(*                                                                         *)
(* Page cache: one archive with a still that may or may not fit the budget, a still  *)
(* and an animation, and another archive with two animations, one of which may not    *)
(* fit.  Settings: two archives that can be at three paths.  Database: two generations,   *)
(* three starts; one copy from before a restore is kept, so that the second restore         *)
(* rotates the first away.                                                                   *)
(***************************************************************************)
EXTENDS FileIdentity, FileSettings, DbRestore, PageCache, TLC

\* Model values stand for different things in each part, so that one symmetry serves all
CONSTANTS
    n1, n2, n3,     \* three paths, where there are three
    t1, t2,         \* two paths (identity), marks (wide), archives (settings)
    a1,             \* a content (wide), a value (settings)
    k1, k2          \* two archives (pages)

Still(bytes) == [animated |-> FALSE, bytes |-> bytes]
Animation(bytes) == [animated |-> TRUE, bytes |-> bytes]

MCDecodes ==
    [p \in Page |->
        CASE p = <<k1, 0>> -> {Still(3), Still(6)}
          [] p = <<k1, 1>> -> {Animation(4)}
          [] p = <<k1, 3>> -> {Still(4)}
          [] p = <<k2, 0>> -> {Animation(4)}
          [] p = <<k2, 1>> -> {Animation(5), Animation(6)}
          [] OTHER -> {}]

VARIABLES
    part,
    disk3, events3, ids3, index3, fps3, next3, data3, asks3, job3, raced3

wideVars == <<disk3, events3, ids3, index3, fps3, next3, data3, asks3, job3, raced3>>

\* Three paths and two marks; the contents are all the same
Wide == INSTANCE FileIdentity WITH
    Paths <- {n1, n2, n3}, Bodies <- {a1}, Marks <- {t1, t2}, NoFp <- Nowhere,
    MaxId <- 3, Known <- 2, MaxEvents <- 3, MaxTries <- 1,
    disk <- disk3, events <- events3, ids <- ids3, index <- index3, fps <- fps3,
    next <- next3, data <- data3, asks <- asks3, job <- job3, raced <- raced3

NamesAreAlike == Permutations({n1, n2, n3}) \cup Permutations({t1, t2})

Parts == {"pages", "identity", "wide", "settings", "restore"}

\* A part that is not looked at starts, and stays, in one state.
MCInit ==
    /\ part \in Parts
    /\ CacheInit
    /\ IF part = "identity" THEN Init ELSE Resolved(0)
    /\ IF part = "wide" THEN Wide!Resolved(2) /\ \A i \in 1..2 : data3[i] # "none" ELSE Wide!Resolved(0)
    /\ part = "settings" \/ at = [f \in Archives |-> Nowhere]
    /\ SettingsInit
    /\ RestoreInit

Pages ==
    /\ part = "pages" /\ CacheNext
    /\ UNCHANGED <<part, vars, wideVars, settingsVars, restoreVars>>
Identify ==
    /\ part = "identity" /\ Next
    /\ UNCHANGED <<part, cacheVars, wideVars, settingsVars, restoreVars>>
IdentifyMany ==
    /\ part = "wide" /\ Wide!Next
    /\ UNCHANGED <<part, cacheVars, vars, settingsVars, restoreVars>>
Attach ==
    /\ part = "settings" /\ SettingsNext
    /\ UNCHANGED <<part, cacheVars, vars, wideVars, restoreVars>>
PutBack ==
    /\ part = "restore" /\ RestoreNext
    /\ UNCHANGED <<part, cacheVars, vars, wideVars, settingsVars>>

MCNext == Pages \/ Identify \/ IdentifyMany \/ Attach \/ PutBack

MCSpec == MCInit /\ [][MCNext]_<<part, cacheVars, vars, wideVars, settingsVars, restoreVars>>

-----------------------------------------------------------------------------
(* The properties of the five parts; each is explained in its module. *)

\* Every variable of the part in question keeps its type; with three paths, the tables
\* of the identities agree as well.
TypesOK ==
    CASE part = "pages" -> CacheTypeOK
      [] part = "identity" -> TypeOK
      [] part = "wide" -> Wide!TypeOK /\ Wide!IndexesAgree
      [] part = "settings" -> SettingsTypeOK
      [] part = "restore" -> RestoreTypeOK
=============================================================================
