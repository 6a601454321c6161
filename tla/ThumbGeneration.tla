---------------------------- MODULE ThumbGeneration ----------------------------
(***************************************************************************)
(* How the thumbnail of one file of the folder on screen is made           *)
(* (src/cache.rs, src/neko_dir.rs, src/view_explorer).  The UI thread asks, *)
(* a probe thread shows what the folder's database holds and claims the     *)
(* row of the file, a generation thread reads the file and commits, the UI  *)
(* drains the answers.  Every database call is one redb transaction under   *)
(* one mutex, hence one step; the file system calls between them are steps  *)
(* of their own, so the file can change, the user can leave the folder or   *)
(* change a setting, and the program can be killed, between any two.        *)
(*                                                                         *)
(* Rows of different files share nothing but the session and the profile,   *)
(* so one file stands for all.  A profile is a (requested edge, filter)     *)
(* pair, a source the cache key of a registered page, NoSource the first    *)
(* image.  Thread counts and lanes are left out: any request may advance.   *)
(***************************************************************************)
EXTENDS Integers, Sequences

CONSTANTS
  Profiles,    \* thumbnail sizes and filters the settings offer
  Sources,     \* pages that can be registered as the thumbnail
  NoSource,    \* no page registered: the first image of the archive
  NoProfile,   \* target_edge = target_filter = 0
  Ids,         \* requests under way at one time
  MaxMtime,    \* bound: versions of the file
  MaxChanges,  \* bound: re-entries, settings, edits, moves and restarts
  MayFail      \* TRUE: a stat or a read of the file can fail

ThumbAssumption ==
  /\ NoSource \notin Sources /\ NoProfile \notin Profiles
  /\ MaxMtime \in Nat \ {0} /\ MaxChanges \in Nat
  /\ MayFail \in BOOLEAN

VARIABLES
  mtime,      \* modification time of the file; its contents are version mtime
  present,    \* registrable pages the archive holds now
  forgotten,  \* history: the viewer forgot the page whose picture was pending
  row,        \* THUMB_STATES and THUMB_DESIRED_SOURCES of the file
  thumb,      \* THUMBS, THUMB_EDGES/FILTERS and THUMB_SOURCES of the file
  profile, selection,  \* settings: config.thumb_size/filter, spread_db
  session,    \* thumb_session
  pending, failed, shown,  \* thumb_pending, thumb_failed, thumbnails
  req,        \* requests in the probe queue, in a lane, or in a thread
  results,    \* thumb_res_rx
  changes     \* disruptions so far

file == <<mtime, present>>
db   == <<row, thumb>>
thumbUi == <<profile, selection, session, pending, failed, shown, forgotten>>
wire == <<req, results>>
thumbVars == <<file, db, thumbUi, wire, changes>>

Picks    == Sources \cup {NoSource}
Statuses == {"missing", "stale", "processing", "current"}
Stages   == {"queued", "probed", "claimed", "reading", "made"}
Mtimes   == 0 .. MaxMtime   \* file_mtime: 0 when the stat fails

NoThumb == [mtime |-> -1, profile |-> NoProfile, source |-> NoSource, content |-> -1]
Free    == [at |-> "free"]

Requests ==
  [at : Stages, session : Nat, profile : Profiles, source : Picks, had : BOOLEAN,
   token : Nat, stamp : Mtimes, content : Mtimes, made : Picks]

Results ==
  [stage : {"preview", "complete"}, session : Nat, profile : Profiles,
   source : Picks, image : BOOLEAN, failed : BOOLEAN]

Underway(id) == req[id] # Free

-------------------------------------------------------------------------------
(* The transactions of neko_dir.rs *)

\* A row nobody works on: the old picture can still be shown, or there is none.
AtRest == IF thumb = NoThumb THEN "missing" ELSE "stale"

\* Another thread already makes the very picture this request wants.
Busy(r) ==
  /\ row.status = "processing" /\ row.profile = r.profile
  /\ row.mtime = r.stamp       /\ row.want = r.source

\* The stored picture is the one this request wants.
UpToDate(r) ==
  /\ row.status = "current" /\ thumb # NoThumb
  /\ thumb.mtime = r.stamp  /\ thumb.profile = r.profile /\ thumb.source = r.source

\* claim_thumbnail_generation: the row as its compare-and-set leaves it.
ClaimRow(r) ==
  [status |-> "processing", token |-> row.token + 1, profile |-> r.profile,
   mtime |-> r.stamp, want |-> r.source]

\* Faulty variant: the page that was read is not compared with the one claimed.
AcceptsAnyPage(r) ==
  /\ r.stamp # 0 /\ row.status = "processing" /\ row.token = r.token
  /\ row.profile = r.profile /\ row.mtime = r.stamp

\* finish_thumbnail_generation: is the claim behind the result still standing?
Accepts(r) ==
  /\ r.stamp # 0 /\ row.status = "processing" /\ row.token = r.token
  /\ row.profile = r.profile /\ row.mtime = r.stamp /\ row.want = r.made

\* Faulty variant: the file is looked at once more when the picture is stored.
CommitThumbLate(r) == [mtime |-> mtime, profile |-> r.profile,
                       source |-> r.made, content |-> r.content]

CommitRow(r)   == [row EXCEPT !.status = "current"]
CommitThumb(r) == [mtime |-> r.stamp, profile |-> r.profile,
                   source |-> r.made, content |-> r.content]

\* fail_thumbnail_generation: only the holder of the claim gives it back.
FailRow(r) ==
  IF row.status = "processing" /\ row.token = r.token
  THEN [row EXCEPT !.status = AtRest] ELSE row

\* invalidate_processing_for_profile
InvalidateRow(p) ==
  IF row.status = "processing" /\ row.profile # p
  THEN [row EXCEPT !.status = AtRest, !.token = @ + 1] ELSE row

\* reset_thumb_for_source
ResetRow(s) ==
  [status |-> AtRest, token |-> row.token + 1, profile |-> NoProfile,
   mtime |-> 0, want |-> s]

\* enforce_schema_version, run when the database is opened.
RecoverRow ==
  IF row.status = "processing" THEN [row EXCEPT !.status = AtRest] ELSE row

-------------------------------------------------------------------------------
(* The UI thread *)

NewRequest(s, p, src) ==
  [at |-> "queued", session |-> s, profile |-> p, source |-> src, had |-> FALSE,
   token |-> 0, stamp |-> 0, content |-> 0, made |-> NoSource]

Disrupt == changes < MaxChanges /\ changes' = changes + 1

\* paint_archive_thumbnail, pump_thumbnail_queue, send_idle_thumbnail: ask for a
\* picture that is neither shown, under way nor known to fail.
Ask(id) ==
  /\ ~shown /\ ~pending /\ ~failed
  /\ ~Underway(id)
  /\ req' = [req EXCEPT ![id] = NewRequest(session, profile, selection)]
  /\ pending' = TRUE
  /\ UNCHANGED <<file, db, profile, selection, session, failed, shown,
                 forgotten, results, changes>>

\* start_scan: the folder is entered again.
Reenter ==
  /\ Disrupt
  /\ session' = session + 1
  /\ pending' = FALSE /\ failed' = FALSE /\ shown' = FALSE /\ forgotten' = FALSE
  /\ UNCHANGED <<file, db, profile, selection, wire>>

\* refresh_thumbnail_generation_state after the settings changed.
ChangeProfile(p) ==
  /\ p # profile /\ Disrupt
  /\ profile' = p
  /\ session' = session + 1
  /\ row' = InvalidateRow(p)
  /\ pending' = FALSE /\ failed' = FALSE /\ forgotten' = FALSE
  /\ UNCHANGED <<file, thumb, selection, shown, wire>>

\* handle_thumbnail_save_action: a page is registered (or the registration is
\* dropped) in the viewer and asked for at once; the request queue may be full.
ChangeSelection(s) ==
  /\ s # selection /\ Disrupt
  /\ selection' = s
  /\ row' = ResetRow(s)
  /\ failed' = FALSE /\ forgotten' = FALSE
  /\ \/ \E id \in Ids :
          /\ ~Underway(id)
          /\ req' = [req EXCEPT ![id] = NewRequest(session, profile, s)]
          /\ pending' = TRUE
     \/ pending' = FALSE /\ UNCHANGED req
  /\ UNCHANGED <<file, thumb, profile, session, shown, results>>

\* open_archive_in_viewer: a registered page the archive lost is forgotten.
OpenBook ==
  /\ selection # NoSource /\ selection \notin present
  /\ selection' = NoSource
  /\ forgotten' = (forgotten \/ pending)
  /\ UNCHANGED <<file, db, profile, session, pending, failed, shown, wire, changes>>

\* poll_workers takes the next answer; answers to old questions are dropped.
Poll ==
  /\ results # <<>>
  /\ results' = Tail(results)
  /\ LET a == Head(results)
         mine == a.session = session /\ a.profile = profile /\ a.source = selection
     IN  /\ pending' = (pending /\ ~(mine /\ a.stage = "complete"))
         /\ shown' = (shown \/ (mine /\ a.image))
         /\ failed' = (failed \/ (mine /\ a.stage = "complete" /\ a.failed))
  /\ UNCHANGED <<file, db, profile, selection, session, forgotten, req, changes>>

-------------------------------------------------------------------------------
(* The probe threads (spawn_thumb_worker) *)

Answer(r, stage, image, fail) ==
  results' = Append(results,
    [stage |-> stage, session |-> r.session, profile |-> r.profile,
     source |-> r.source, image |-> image, failed |-> fail])

Release(id) == req' = [req EXCEPT ![id] = Free]

\* A request of a session that is over is dropped without an answer.
DropProbe(id) ==
  /\ req[id].at = "queued" /\ req[id].session # session
  /\ Release(id)
  /\ UNCHANGED <<file, db, thumbUi, results, changes>>

\* file_mtime: what a stat of the file can return now.
StatOf == {mtime} \cup (IF MayFail THEN {0} ELSE {})

\* What the database holds is shown at once (probe_cached_thumb), then the file is
\* looked at: the picture shown may be older than the stamp that is claimed.
Probe(id) ==
  /\ req[id].at = "queued" /\ req[id].session = session
  /\ \E m \in StatOf :
       /\ req' = [req EXCEPT ![id].at = "probed", ![id].had = (thumb # NoThumb),
                            ![id].stamp = m]
  /\ IF thumb # NoThumb THEN Answer(req[id], "preview", TRUE, FALSE)
                        ELSE UNCHANGED results
  /\ UNCHANGED <<file, db, thumbUi, changes>>

\* Faulty variant: a refused request that had nothing to show is not answered.
RefuseSilently(id) ==
  /\ req[id].at = "probed"
  /\ req[id].stamp = 0 \/ Busy(req[id]) \/ UpToDate(req[id])
  /\ Release(id)
  /\ IF req[id].had THEN Answer(req[id], "complete", FALSE, FALSE) ELSE UNCHANGED results
  /\ UNCHANGED <<file, db, thumbUi, changes>>

\* claim_and_forward_thumb_gen, refused: the request ends here.
Refuse(id) ==
  /\ req[id].at = "probed"
  /\ req[id].stamp = 0 \/ Busy(req[id]) \/ UpToDate(req[id])
  /\ Release(id)
  /\ Answer(req[id], "complete", FALSE, ~req[id].had)
  /\ UNCHANGED <<file, db, thumbUi, changes>>

Claim(id) ==
  /\ req[id].at = "probed"
  /\ req[id].stamp # 0 /\ ~Busy(req[id]) /\ ~UpToDate(req[id])
  /\ row' = ClaimRow(req[id])
  /\ req' = [req EXCEPT ![id].at = "claimed", ![id].token = row.token + 1]
  /\ UNCHANGED <<file, thumb, thumbUi, results, changes>>

-------------------------------------------------------------------------------
(* The generation threads (spawn_thumb_gen_pool, generate_thumb) *)

\* Faulty variant: the row keeps a claim that was dropped.
DropClaimOnly(id) ==
  /\ req[id].at = "claimed" /\ req[id].session # session
  /\ Release(id)
  /\ UNCHANGED <<file, db, thumbUi, results, changes>>

\* A claim of a session that is over is given back; nobody waits for an answer.
DropClaim(id) ==
  /\ req[id].at = "claimed" /\ req[id].session # session
  /\ row' = FailRow(req[id])
  /\ Release(id)
  /\ UNCHANGED <<file, thumb, thumbUi, results, changes>>

\* The session is looked at for the last time; generate_thumb begins with a stat.
StatFile(id) ==
  /\ req[id].at = "claimed" /\ req[id].session = session
  /\ \E m \in StatOf : req' = [req EXCEPT ![id].at = "reading", ![id].stamp = m]
  /\ UNCHANGED <<file, db, thumbUi, results, changes>>

\* The registered page is read, or the first image when the archive lost it.
ReadFile(id) ==
  /\ req[id].at = "reading"
  /\ req' = [req EXCEPT ![id].at = "made", ![id].content = mtime,
               ![id].made = IF req[id].source \in present THEN req[id].source
                                                       ELSE NoSource]
  /\ UNCHANGED <<file, db, thumbUi, results, changes>>

Finish(id) ==
  /\ req[id].at = "made"
  /\ Release(id)
  /\ IF Accepts(req[id])
     THEN /\ row' = CommitRow(req[id]) /\ thumb' = CommitThumb(req[id])
          /\ Answer(req[id], "complete", TRUE, FALSE)
     ELSE /\ row' = FailRow(req[id]) /\ UNCHANGED thumb
          /\ Answer(req[id], "complete", FALSE, TRUE)
  /\ UNCHANGED <<file, thumbUi, changes>>

\* The file cannot be read or decoded.
Fail(id) ==
  /\ MayFail /\ req[id].at = "reading"
  /\ row' = FailRow(req[id])
  /\ Release(id)
  /\ Answer(req[id], "complete", FALSE, TRUE)
  /\ UNCHANGED <<file, thumb, thumbUi, changes>>

-------------------------------------------------------------------------------
(* The world outside *)

\* The file is replaced; the new archive may lack registered pages.
Edit ==
  /\ mtime < MaxMtime /\ Disrupt
  /\ mtime' = mtime + 1
  /\ present' \in SUBSET Sources
  /\ UNCHANGED <<db, thumbUi, wire>>

\* put_thumbnail_rows: the identity worker found that the file was moved here
\* and brings the finished rows it had at its old place.
Transplant ==
  /\ row.status \in {"missing", "stale"} /\ Disrupt
  /\ \E m \in 1 .. mtime, p \in Profiles, s \in Picks, t \in 1 .. 2 :
       /\ thumb' = [mtime |-> m, profile |-> p, source |-> s, content |-> m]
       /\ row' = [status |-> "current", token |-> t, profile |-> p, mtime |-> m,
                  want |-> s]
  /\ UNCHANGED <<file, thumbUi, wire>>

\* The program ends at any point and is started again on the same database.
Restart ==
  /\ Disrupt
  /\ row' = RecoverRow
  /\ session' = 1 /\ pending' = FALSE /\ failed' = FALSE /\ shown' = FALSE
  /\ forgotten' = FALSE
  /\ req' = [id \in Ids |-> Free] /\ results' = <<>>
  /\ UNCHANGED <<file, thumb, profile, selection>>

ThumbInit ==
  /\ mtime = 1 /\ present \in SUBSET Sources
  /\ thumb \in {NoThumb, [NoThumb EXCEPT !.mtime = 1, !.content = 1]}  \* new, or v1
  /\ row = [status |-> AtRest, token |-> 0, profile |-> NoProfile,
            mtime |-> 0, want |-> NoSource]
  /\ profile \in Profiles /\ selection \in Picks
  /\ session = 1 /\ pending = FALSE /\ failed = FALSE /\ shown = FALSE
  /\ forgotten = FALSE
  /\ req = [id \in Ids |-> Free] /\ results = <<>>
  /\ changes = 0

User == Reenter \/ OpenBook \/ (\E p \in Profiles : ChangeProfile(p))
          \/ (\E s \in Picks : ChangeSelection(s))
World == Edit \/ Transplant \/ Restart
Prober(id) == DropProbe(id) \/ Probe(id) \/ Refuse(id) \/ Claim(id)
Generator(id) == DropClaim(id) \/ StatFile(id) \/ ReadFile(id)
                   \/ Finish(id) \/ Fail(id)

ThumbNext == User \/ World \/ Poll \/ \E id \in Ids : Ask(id) \/ Prober(id) \/ Generator(id)

ThumbSpec == ThumbInit /\ [][ThumbNext]_thumbVars

-------------------------------------------------------------------------------
(* Properties *)

\* Every variable keeps its type; tokens and sessions only grow.
ThumbTypeOK ==
  /\ mtime \in 1 .. MaxMtime /\ present \subseteq Sources
  /\ row \in [status : Statuses, token : Nat, profile : Profiles \cup {NoProfile},
              mtime : Mtimes, want : Picks]
  /\ thumb \in [mtime : -1 .. MaxMtime, profile : Profiles \cup {NoProfile},
                source : Picks, content : -1 .. MaxMtime]
  /\ profile \in Profiles /\ selection \in Picks /\ session \in Nat
  /\ pending \in BOOLEAN /\ failed \in BOOLEAN /\ shown \in BOOLEAN
  /\ forgotten \in BOOLEAN
  /\ req \in [Ids -> Requests \cup {Free}]
  /\ results \in Seq(Results)
  /\ changes \in 0 .. MaxChanges

HoldsClaim(r) ==
  /\ r.at \in {"claimed", "reading", "made"}
  /\ r.token = row.token /\ r.profile = row.profile /\ r.source = row.want

\* A row in `processing' is refused to everybody else who wants the same picture,
\* so it must belong to a request that will finish it or give it back: whatever
\* settings change, restart or move intervened, no file is locked out for good.
ProcessingIsOwned ==
  row.status = "processing" => \E id \in Ids : HoldsClaim(req[id])

\* A row that says `current' describes the picture that is stored: the next probe
\* trusts it and does not look at the file again.
CurrentIsTrue ==
  row.status = "current" =>
    /\ thumb # NoThumb /\ thumb.mtime = row.mtime
    /\ thumb.profile = row.profile /\ thumb.source = row.want

\* A stored picture never carries a time stamp younger than the contents it was
\* made from; if it did, an outdated picture would count as fresh for good.
StampNotAhead == thumb.mtime <= thumb.content

Wanted(a) == a.session = session /\ a.profile = profile /\ a.source = selection

\* thumb_pending keeps a file from being asked for again, so an answer that the UI
\* will accept must be on its way - unless the viewer forgot the registered page in
\* the meantime, when the answer is dropped and the mark stays until the folder is
\* entered again (src/view_explorer/viewer_host.rs:1265).
PendingIsAnswered ==
  pending /\ ~forgotten =>
    \/ \E id \in Ids : Underway(id) /\ Wanted(req[id])
    \/ \E i \in DOMAIN results : results[i].stage = "complete" /\ Wanted(results[i])
================================================================================
