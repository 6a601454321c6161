--------------------------- MODULE PagePipelineProofs ---------------------------
(***************************************************************************)
(* What the page pipeline keeps to, for any archives, contents, budgets and  *)
(* windows, and however many generations begin and results wait.              *)
(*                                                                         *)
(* The invariant needs little of the page cache: an operation but insert       *)
(* leaves no still that was not there, insert leaves one more at most, and     *)
(* the generations that are not retained are gone.  The rest the pipeline has  *)
(* from CacheProofs, because its steps use the cache as PageCache allows.      *)
(***************************************************************************)
EXTENDS PagePipeline, CacheProofs

-----------------------------------------------------------------------------
(* The inductive invariant *)

OwnTypes ==
    /\ active \in Generation /\ preparing \in Generation \cup {None}
    /\ exifGen \in Generation
    /\ texture \in [Page -> Texture \cup {None}]
    /\ IsABag(answered)

\* A setting changes only while another generation may begin.
RenewHasRoom == ui \in {"renew exif", "renew filter"} => Newest < MaxGen

\* Results are accepted for generations since the last Exif change only.
AcceptedAfterExif == \A g \in Accepted : g >= exifGen

PagesInv ==
    /\ OwnTypes /\ RenewHasRoom /\ AcceptedAfterExif
    /\ TwoGenerations /\ ExifHonoured /\ PendingMeansUnderway

-----------------------------------------------------------------------------
(* Bags *)

LEMMA BagWithOne ==
  ASSUME NEW B, IsABag(B), NEW k
  PROVE  /\ IsABag(B (+) SetToBag({k}))
         /\ BagToSet(B (+) SetToBag({k})) = BagToSet(B) \cup {k}
BY DEF IsABag, BagToSet, SetToBag, (+)

LEMMA BagLessOne ==
  ASSUME NEW B, IsABag(B), NEW k
  PROVE  /\ IsABag(B (-) SetToBag({k}))
         /\ BagToSet(B) \ {k} \subseteq BagToSet(B (-) SetToBag({k}))
BY DEF IsABag, BagToSet, SetToBag, (-)

-----------------------------------------------------------------------------
(* The stills that the operations of the cache leave *)

\* No still appears.
NoNewStill ==
    \A p \in Page, g \in Generation : HasStill(p, g)' => HasStill(p, g)

LEMMA VacateLeaves ==
  ASSUME NEW seats, Vacate(seats), NEW p \in Page, NEW g \in Generation,
         entries'[p][g] # None
  PROVE  /\ entries[p][g] # None
         /\ ~\E s \in seats : s.kind = "still" /\ s.page = p /\ s.gen = g
BY DEF Vacate, EntriesWithout, Page

LEMMA ForgetLeaves ==
  ASSUME NEW gone, ForgetBypass(gone), bypass' # None
  PROVE  bypass' = bypass /\ <<bypass.page, bypass.gen>> \notin gone
BY DEF ForgetBypass

LEMMA RetainLeaves ==
  ASSUME NEW keep, RetainGenerations(keep),
         NEW p \in Page, NEW g \in Generation, HasStill(p, g)'
  PROVE  HasStill(p, g) /\ g \in keep
<1>1. CASE entries'[p][g] # None
  <2>1. /\ entries[p][g] # None
        /\ ~\E s \in {x \in StillSeats : x.gen \notin keep} :
              s.kind = "still" /\ s.page = p /\ s.gen = g
    BY <1>1, VacateLeaves DEF RetainGenerations
  <2>2. g \in keep
    <3> DEFINE s == StillSeat(p, g, entries[p][g])
    <3>1. s \in StillSeats
      BY <2>1, SeatOfStill
    <3>2. s.kind = "still" /\ s.page = p /\ s.gen = g
      BY DEF StillSeat
    <3> QED BY <2>1, <3>1, <3>2
  <2> QED BY <2>1, <2>2 DEF HasStill
<1>2. CASE bypass' # None /\ bypass'.page = p /\ bypass'.gen = g
  <2>1. bypass' = bypass /\ <<bypass.page, bypass.gen>> \notin Page \X (Generation \ keep)
    BY <1>2, ForgetLeaves DEF RetainGenerations, Page
  <2> QED BY <1>2, <2>1 DEF HasStill
<1> QED BY <1>1, <1>2 DEF HasStill

LEMMA RemovalsLeave ==
  ASSUME \/ UNCHANGED cacheVars
         \/ \E p : DropAnimation(p)
         \/ \E p, g : RemoveOlderVersions(p, g)
         \/ \E keep : RetainGenerations(keep)
         \/ \E b : RemoveAllForPath(b) \/ RemoveStaticPagesForPath(b)
  PROVE  NoNewStill
<1> SUFFICES ASSUME NEW p \in Page, NEW g \in Generation, HasStill(p, g)'
             PROVE  HasStill(p, g)
  BY DEF NoNewStill
<1>1. CASE UNCHANGED cacheVars
  BY <1>1 DEF cacheVars, HasStill
<1>2. ASSUME NEW seats, Vacate(seats), UNCHANGED bypass \/ \E gone : ForgetBypass(gone)
      PROVE  HasStill(p, g)
  <2>1. entries'[p][g] # None => entries[p][g] # None
    BY <1>2, VacateLeaves
  <2>2. bypass' # None => bypass' = bypass
    BY <1>2, ForgetLeaves
  <2> QED BY <2>1, <2>2 DEF HasStill
<1>3. ASSUME NEW q, DropAnimation(q) PROVE HasStill(p, g)
  BY <1>2, <1>3 DEF DropAnimation
<1>4. ASSUME NEW q, NEW h, RemoveOlderVersions(q, h) PROVE HasStill(p, g)
  BY <1>2, <1>4 DEF RemoveOlderVersions
<1>5. ASSUME NEW keep, RetainGenerations(keep) PROVE HasStill(p, g)
  BY <1>2, <1>5 DEF RetainGenerations
<1>6. ASSUME NEW b, RemoveAllForPath(b) PROVE HasStill(p, g)
  BY <1>2, <1>6 DEF RemoveAllForPath
<1>7. ASSUME NEW b, RemoveStaticPagesForPath(b) PROVE HasStill(p, g)
  BY <1>2, <1>7 DEF RemoveStaticPagesForPath
<1> QED BY <1>1, <1>3, <1>4, <1>5, <1>6, <1>7

LEMMA InsertLeaves ==
  ASSUME NEW q \in Page, NEW h \in Generation, NEW content, NEW at,
         Insert(q, h, content, at),
         NEW p \in Page, NEW g \in Generation, HasStill(p, g)'
  PROVE  HasStill(p, g) \/ (p = q /\ g = h)
<1> USE DEF HasStill
<1>1. CASE InsertAnimation(q, content, at)
  <2>1. CASE UNCHANGED cacheVars
    BY <2>1 DEF cacheVars
  <2>2. CASE BypassAnimation(q, content)
    BY <2>2 DEF BypassAnimation
  <2>3. CASE SeatAnimation(q, content, at)
    <3>1. PICK gone : entries' = EntriesWithout(gone)
      BY <2>3 DEF SeatAnimation
    <3>2. entries'[p][g] # None => entries[p][g] # None
      BY <3>1 DEF EntriesWithout, Page
    <3>3. UNCHANGED bypass
      BY <2>3 DEF SeatAnimation
    <3> QED BY <3>2, <3>3
  <2> QED BY <1>1, <2>1, <2>2, <2>3 DEF InsertAnimation, cacheVars
<1>2. CASE BypassStill(q, h, content)
  <2>1. entries'[p][g] # None => entries[p][g] # None
    BY <1>2, VacateLeaves DEF BypassStill
  <2>2. bypass' = [page |-> q, gen |-> h, content |-> content]
    BY <1>2 DEF BypassStill
  <2> QED BY <2>1, <2>2
<1>3. CASE InsertStill(q, h, content, at)
  <2>1. PICK gone : entries' = [EntriesWithout(gone) EXCEPT ![q][h] = content]
    BY <1>3 DEF InsertStill
  <2>2. entries'[p][g] # None => entries[p][g] # None \/ (p = q /\ g = h)
    BY <2>1 DEF EntriesWithout, Page
  <2>3. bypass' = bypass \/ bypass' = None
    BY <1>3 DEF InsertStill
  <2> QED BY <2>2, <2>3
<1> QED BY <1>1, <1>2, <1>3 DEF Insert

-----------------------------------------------------------------------------
(* One lemma for each action that does more than move on *)

\* Nothing that the invariant speaks of changes but where the frame stands.
LEMMA MovesOn ==
  ASSUME PagesInv, UNCHANGED <<cacheVars, pendingLoads, failedLoads, deferred, live, texture,
                               active, preparing, exifGen, answered>>,
         ui' \notin {"renew exif", "renew filter"} \/ ui' = ui
  PROVE  PagesInv'
BY DEF PagesInv, OwnTypes, RenewHasRoom, AcceptedAfterExif, TwoGenerations, ExifHonoured,
       PendingMeansUnderway, Accepted, Newest, KeyAt, HasStill, cacheVars

LEMMA NewestIsAccepted ==
  ASSUME OwnTypes
  PROVE  /\ Newest \in Accepted /\ Newest \in Generation
         /\ Accepted \subseteq Generation
BY GenerationAssumption DEF OwnTypes, Newest, Accepted

LEMMA OpenViewerStep == ASSUME PagesInv, NEW p \in Page, NEW o \in Orders, OpenViewer(p, o) PROVE PagesInv'
<1> USE DEF PagesInv
<1>1. UNCHANGED <<cacheVars, active, preparing, exifGen, ui, answered, live, deferred>>
  BY DEF OpenViewer, genVars
<1>2. NoNewStill
  BY <1>1, RemovalsLeave
<1>3. OwnTypes' /\ RenewHasRoom' /\ AcceptedAfterExif'
  BY <1>1 DEF OwnTypes, RenewHasRoom, AcceptedAfterExif, Accepted, Newest, OpenViewer
<1>4. TwoGenerations'
  BY <1>1, <1>2 DEF TwoGenerations, NoNewStill, Accepted, OpenViewer
<1>5. ExifHonoured'
  BY <1>1, <1>2 DEF ExifHonoured, NoNewStill, OpenViewer
<1>6. PendingMeansUnderway'
  BY DEF PendingMeansUnderway, OpenViewer
<1> QED BY <1>3, <1>4, <1>5, <1>6

LEMMA CloseStep == ASSUME PagesInv, Close PROVE PagesInv'
<1> USE DEF PagesInv
<1>1. UNCHANGED <<cacheVars, pendingLoads, failedLoads, deferred, live, active, preparing, exifGen, ui, answered>>
  BY DEF Close, requestVars, genVars
<1>2. NoNewStill
  BY <1>1, RemovalsLeave
<1>3. OwnTypes' /\ RenewHasRoom' /\ AcceptedAfterExif'
  BY <1>1 DEF OwnTypes, RenewHasRoom, AcceptedAfterExif, Accepted, Newest, Close
<1>4. TwoGenerations' /\ ExifHonoured'
  BY <1>1, <1>2 DEF TwoGenerations, ExifHonoured, NoNewStill, Accepted, Close
<1>5. PendingMeansUnderway'
  BY <1>1 DEF PendingMeansUnderway, KeyAt, Newest
<1> QED BY <1>3, <1>4, <1>5

LEMMA ChangeFolderStep == ASSUME PagesInv, ChangeFolder PROVE PagesInv'
<1> USE DEF PagesInv, ChangeFolder, viewVars, genVars
<1>1. NoNewStill
  BY RemovalsLeave
<1>2. OwnTypes' /\ RenewHasRoom' /\ AcceptedAfterExif'
  BY DEF OwnTypes, RenewHasRoom, AcceptedAfterExif, Accepted, Newest
<1>3. TwoGenerations' /\ ExifHonoured'
  BY <1>1 DEF TwoGenerations, ExifHonoured, NoNewStill, Accepted
<1>4. PendingMeansUnderway'
  BY DEF PendingMeansUnderway
<1> QED BY <1>2, <1>3, <1>4

LEMMA BeginLazyStep == ASSUME PagesInv, BeginLazy PROVE PagesInv'
<1> USE DEF PagesInv
<1>1. /\ active' = Newest /\ preparing' = Newest + 1
      /\ RetainGenerations({Newest, Newest + 1})
      /\ Newest < MaxGen
  BY DEF BeginLazy
<1>2. Newest \in Generation /\ Newest \in Accepted
  BY NewestIsAccepted
<1>3. Newest + 1 \in Generation /\ preparing' # None
  BY <1>1, <1>2, GenerationAssumption
<1>4. Accepted' = {Newest, Newest + 1}
  BY <1>1, <1>3 DEF Accepted
<1>5. \A p \in Page, g \in Generation :
         HasStill(p, g)' => HasStill(p, g) /\ g \in {Newest, Newest + 1}
  BY <1>1, RetainLeaves
<1>6. UNCHANGED <<texture, exifGen, answered>>
  BY DEF BeginLazy, viewVars
<1>7. OwnTypes' /\ RenewHasRoom'
  BY <1>1, <1>2, <1>3, <1>6 DEF OwnTypes, RenewHasRoom, BeginLazy
<1>8. AcceptedAfterExif'
  <2>1. Newest >= exifGen /\ exifGen \in Int /\ Newest \in Int
    BY <1>2, GenerationAssumption DEF AcceptedAfterExif, OwnTypes
  <2>2. Newest + 1 >= exifGen
    BY <2>1
  <2> QED BY <1>4, <1>6, <2>1, <2>2 DEF AcceptedAfterExif
<1>9. TwoGenerations'
  BY <1>4, <1>5 DEF TwoGenerations, BeginLazy
<1>10. ExifHonoured'
  BY <1>5, <1>6 DEF ExifHonoured
<1>11. PendingMeansUnderway'
  BY DEF PendingMeansUnderway, BeginLazy
<1> QED BY <1>7, <1>8, <1>9, <1>10, <1>11

LEMMA RedecodeStep == ASSUME PagesInv, NEW p \in Page, Redecode(p) PROVE PagesInv'
<1> USE DEF PagesInv
<1>1. UNCHANGED <<failedLoads, texture, active, preparing, exifGen, ui, answered>>
  BY DEF Redecode, viewVars, genVars
<1>2. NoNewStill
  <2>1. DropAnimation(p)
    BY DEF Redecode
  <2> QED BY <2>1, RemovalsLeave
<1>3. UNCHANGED <<Newest, Accepted>> /\ \A q : KeyAt(q)' = KeyAt(q)
  BY <1>1 DEF Newest, Accepted, KeyAt
<1>4. OwnTypes' /\ RenewHasRoom' /\ AcceptedAfterExif'
  BY <1>1, <1>3 DEF OwnTypes, RenewHasRoom, AcceptedAfterExif
<1>5. TwoGenerations'
  <2>1. KeyAt(p)[2] \in Accepted
    BY NewestIsAccepted DEF KeyAt
  <2>2. live' \subseteq live \cup {KeyAt(p)}
    BY DEF Redecode
  <2> QED BY <1>1, <1>2, <1>3, <2>1, <2>2 DEF TwoGenerations, NoNewStill
<1>6. ExifHonoured'
  BY <1>1, <1>2 DEF ExifHonoured, NoNewStill
<1>7. PendingMeansUnderway'
  <2>1. pendingLoads' = pendingLoads \cup {p}
    BY DEF Redecode
  <2>2. live \cup deferred \cup {KeyAt(p)} \subseteq live' \cup deferred'
    BY DEF Redecode, Deferrable
  <2> QED BY <1>1, <1>3, <2>1, <2>2 DEF PendingMeansUnderway
<1> QED BY <1>4, <1>5, <1>6, <1>7

\* The cache loses the stills of an archive, nothing else of the invariant changes.
LEMMA SettingStep ==
  ASSUME PagesInv, ToggleExif \/ ChangeFilter
  PROVE  PagesInv'
<1> USE DEF PagesInv
<1>1. /\ UNCHANGED <<pendingLoads, failedLoads, deferred, live, texture, active, preparing, exifGen, answered>>
      /\ Newest < MaxGen
  BY DEF ToggleExif, ChangeFilter, requestVars, viewVars, genVars
<1>2. NoNewStill
  BY RemovalsLeave DEF ToggleExif, ChangeFilter
<1>3. OwnTypes' /\ RenewHasRoom' /\ AcceptedAfterExif'
  BY <1>1 DEF OwnTypes, RenewHasRoom, AcceptedAfterExif, Accepted, Newest
<1>4. TwoGenerations' /\ ExifHonoured'
  BY <1>1, <1>2 DEF TwoGenerations, ExifHonoured, NoNewStill, Accepted
<1>5. PendingMeansUnderway'
  BY <1>1 DEF PendingMeansUnderway, KeyAt, Newest
<1> QED BY <1>3, <1>4, <1>5

LEMMA RenewStep == ASSUME PagesInv, Renew PROVE PagesInv'
<1> USE DEF PagesInv
<1>1. /\ active' = Newest + 1 /\ preparing' = None
      /\ RetainGenerations({Newest + 1})
      /\ Newest < MaxGen /\ ui' = "drain" /\ UNCHANGED answered
      /\ live' = {} /\ pendingLoads' = {} /\ failedLoads' = {}
      /\ exifGen' = IF ui = "renew exif" THEN Newest + 1 ELSE exifGen
  BY DEF Renew, RenewHasRoom
<1>2. Newest \in Generation /\ Newest \in Accepted
  BY NewestIsAccepted
<1>3. Newest + 1 \in Generation
  <2>1. Newest < MaxGen
    BY <1>1
  <2> QED BY <2>1, <1>2, GenerationAssumption
<1>4. Accepted' = {Newest + 1}
  BY <1>1 DEF Accepted
<1>5. \A p \in Page, g \in Generation : HasStill(p, g)' => g = Newest + 1
  <2>1. RetainGenerations({Newest + 1})
    BY <1>1
  <2>2. SUFFICES ASSUME NEW p \in Page, NEW g \in Generation, HasStill(p, g)'
                 PROVE  g = Newest + 1
    OBVIOUS
  <2>3. g \in {Newest + 1}
    BY <2>1, <2>2, RetainLeaves
  <2> QED BY <2>3
<1>6. /\ texture' \in [Page -> Texture \cup {None}]
      /\ \A p \in Page : texture'[p] # None => texture'[p] = texture[p] /\ ui = "renew filter"
  BY DEF OwnTypes, Renew
<1>7. OwnTypes' /\ RenewHasRoom'
  BY <1>1, <1>3, <1>6 DEF OwnTypes, RenewHasRoom
<1>8. exifGen' <= Newest + 1
  <2>1. Newest >= exifGen /\ exifGen \in Int /\ Newest \in Int
    <3>1. Newest >= exifGen
      BY <1>2 DEF AcceptedAfterExif
    <3>2. exifGen \in Int /\ Newest \in Int
      BY <1>2, GenerationAssumption DEF OwnTypes
    <3> QED BY <3>1, <3>2
  <2>2. exifGen' = Newest + 1 \/ exifGen' = exifGen
    BY <1>1
  <2> QED BY <2>1, <2>2
<1>9. AcceptedAfterExif'
  BY <1>4, <1>8 DEF AcceptedAfterExif
<1>10. TwoGenerations'
  BY <1>1, <1>4, <1>5 DEF TwoGenerations
<1>11. ExifHonoured'
  <2>1. ASSUME NEW p \in Page, NEW g \in Generation, HasStill(p, g)' PROVE g >= exifGen'
    BY <1>5, <1>8, <2>1
  <2>2. ASSUME NEW p \in Page, texture'[p] # None PROVE texture'[p].gen >= exifGen'
    BY <1>1, <1>6, <2>2 DEF ExifHonoured
  <2> QED BY <2>1, <2>2 DEF ExifHonoured
<1>12. PendingMeansUnderway'
  BY <1>1 DEF PendingMeansUnderway
<1> QED BY <1>7, <1>9, <1>10, <1>11, <1>12

LEMMA UnpackedStep == ASSUME PagesInv, NEW b \in Book, Unpacked(b) PROVE PagesInv'
<1> USE DEF PagesInv
<1>1. UNCHANGED <<cacheVars, pendingLoads, texture, active, preparing, exifGen, ui, answered>>
  BY DEF Unpacked, genVars
<1>2. NoNewStill
  BY <1>1, RemovalsLeave
<1>3. UNCHANGED <<Newest, Accepted>> /\ \A q : KeyAt(q)' = KeyAt(q)
  BY <1>1 DEF Newest, Accepted, KeyAt
<1>4. OwnTypes' /\ RenewHasRoom' /\ AcceptedAfterExif'
  BY <1>1, <1>3 DEF OwnTypes, RenewHasRoom, AcceptedAfterExif
<1>5. TwoGenerations'
  <2>1. failedLoads' \subseteq failedLoads
    BY DEF Unpacked
  <2>2. \A k \in live' : k \in live \/ k[2] \in Accepted
    BY DEF Unpacked
  <2> QED BY <1>2, <1>3, <2>1, <2>2 DEF TwoGenerations, NoNewStill
<1>6. ExifHonoured'
  BY <1>1, <1>2 DEF ExifHonoured, NoNewStill
<1>7. PendingMeansUnderway'
  <2>1. \A q : KeyAt(q)[2] \in Accepted
    BY NewestIsAccepted DEF KeyAt
  <2>2. \A k \in deferred : k \in deferred' \/ (k[2] \in Accepted => k \in live')
    BY DEF Unpacked
  <2>3. live \subseteq live'
    BY DEF Unpacked
  <2> QED BY <1>1, <1>3, <2>1, <2>2, <2>3 DEF PendingMeansUnderway
<1> QED BY <1>4, <1>5, <1>6, <1>7

LEMMA DrainStep == ASSUME PagesInv, NEW k \in Key, Drain(k) PROVE PagesInv'
<1> USE DEF PagesInv
<1>1. UNCHANGED <<deferred, live, texture, active, preparing, exifGen, ui>>
  BY DEF Drain, viewVars
<1>2. UNCHANGED <<Newest, Accepted>> /\ \A q : KeyAt(q)' = KeyAt(q)
  BY <1>1 DEF Newest, Accepted, KeyAt
<1>3. IsABag(answered') /\ BagToSet(answered) \ {k} \subseteq BagToSet(answered')
  BY BagLessOne DEF Drain, OwnTypes
<1>4. OwnTypes' /\ RenewHasRoom' /\ AcceptedAfterExif'
  BY <1>1, <1>2, <1>3 DEF OwnTypes, RenewHasRoom, AcceptedAfterExif
<1>5. k[1] \in Page /\ k[2] \in Generation /\ k = <<k[1], k[2]>>
  BY DEF Key
<1>6. /\ \A p \in Page, g \in Generation :
            HasStill(p, g)' => HasStill(p, g) \/ (g = k[2] /\ k[2] \in Accepted)
      /\ failedLoads' \subseteq failedLoads \/ (failedLoads' = failedLoads \cup {k} /\ k[2] \in Accepted)
  <2>1. CASE UNCHANGED cacheVars
    <3>1. NoNewStill
      BY <2>1, RemovalsLeave
    <3> QED BY <3>1 DEF NoNewStill, Drain
  <2>2. ASSUME NEW content, Insert(k[1], k[2], content, cur), k[2] \in Accepted,
               failedLoads' = failedLoads \ {k}
        PROVE  <1>6!1 /\ failedLoads' \subseteq failedLoads
    BY <1>5, <2>2, InsertLeaves
  <2> QED BY <2>1, <2>2 DEF Drain
<1>7. TwoGenerations'
  BY <1>1, <1>2, <1>6 DEF TwoGenerations
<1>8. ExifHonoured'
  <2>1. k[2] \in Accepted => k[2] >= exifGen
    BY DEF AcceptedAfterExif
  <2> QED BY <1>1, <1>6, <2>1 DEF ExifHonoured
<1>9. PendingMeansUnderway'
  <2>1. pendingLoads' \subseteq pendingLoads
    BY DEF Drain
  <2>2. ASSUME NEW p \in pendingLoads' PROVE KeyAt(p) # k
    <3>1. CASE k[2] \in Accepted
      <4>1. p # k[1]
        BY <3>1, <2>2 DEF Drain
      <4> QED BY <4>1 DEF KeyAt
    <3>2. CASE k[2] \notin Accepted
      BY <3>2, NewestIsAccepted DEF KeyAt
    <3> QED BY <3>1, <3>2
  <2> QED BY <1>1, <1>2, <1>3, <2>1, <2>2 DEF PendingMeansUnderway
<1> QED BY <1>4, <1>7, <1>8, <1>9

LEMMA PrefetchStep == ASSUME PagesInv, Prefetch PROVE PagesInv'
<1> USE DEF PagesInv
<1>1. /\ UNCHANGED <<cacheVars, failedLoads, texture, active, preparing, exifGen, answered>>
      /\ ui' \in {"show", "input"}
  BY DEF Prefetch, viewVars, genVars
<1>2. NoNewStill
  BY <1>1, RemovalsLeave
<1>3. UNCHANGED <<Newest, Accepted>> /\ \A q : KeyAt(q)' = KeyAt(q)
  BY <1>1 DEF Newest, Accepted, KeyAt
<1>4. OwnTypes' /\ RenewHasRoom' /\ AcceptedAfterExif'
  BY <1>1, <1>3 DEF OwnTypes, RenewHasRoom, AcceptedAfterExif
<1>5. \A k \in Desired : k = KeyAt(k[1]) /\ k[2] \in Accepted
  BY NewestIsAccepted DEF Desired, KeyAt
<1> DEFINE asked == {k \in Desired : k[1] \notin pendingLoads \/ k \in live}
<1>6. /\ pendingLoads' = (pendingLoads \cup {k[1] : k \in asked}) \cap {k[1] : k \in Desired}
      /\ deferred' = (deferred \cup Deferrable(asked)) \cap Desired
      /\ live' = (live \cup (asked \ Deferrable(asked))) \cap Desired
  BY DEF Prefetch
<1>7. TwoGenerations'
  BY <1>1, <1>2, <1>3, <1>5, <1>6 DEF TwoGenerations, NoNewStill
<1>8. ExifHonoured'
  BY <1>1, <1>2 DEF ExifHonoured, NoNewStill
<1>9. PendingMeansUnderway'
  <2>1. SUFFICES ASSUME NEW p \in pendingLoads'
        PROVE  KeyAt(p) \in live' \cup deferred' \cup BagToSet(answered)
    BY <1>1, <1>3 DEF PendingMeansUnderway
  <2>2. KeyAt(p) \in Desired
    BY <1>5, <1>6
  <2>3. CASE KeyAt(p) \in asked
    BY <1>6, <2>2, <2>3
  <2>4. CASE p \in pendingLoads
    BY <1>6, <2>2, <2>4 DEF PendingMeansUnderway
  <2> QED BY <1>5, <1>6, <2>3, <2>4
<1> QED BY <1>4, <1>7, <1>8, <1>9

LEMMA UploadStep == ASSUME PagesInv, NEW p \in Page, Upload(p) PROVE PagesInv'
<1> USE DEF PagesInv
<1>1. UNCHANGED <<pendingLoads, failedLoads, deferred, live, active, preparing, exifGen, ui, answered>>
  BY DEF Upload, requestVars, genVars
<1>2. NoNewStill
  BY RemovalsLeave DEF Upload
<1>3. UNCHANGED <<Newest, Accepted>> /\ \A q : KeyAt(q)' = KeyAt(q)
  BY <1>1 DEF Newest, Accepted, KeyAt
<1>4. BestGen(p) \in Accepted /\ BestGen(p) \in Generation
  BY NewestIsAccepted DEF BestGen, OwnTypes, Accepted
<1>5. \E play \in BOOLEAN : texture' = [texture EXCEPT ![p] = [gen |-> BestGen(p), playing |-> play]]
  <2>1. texture' = [texture EXCEPT ![p] = [gen |-> BestGen(p), playing |->
           ContainsAnimation(p) /\ (p \in Visible \/ (texture[p] # None /\ texture[p].playing))]]
    BY DEF Upload
  <2>2. (ContainsAnimation(p) /\ (p \in Visible \/ (texture[p] # None /\ texture[p].playing))) \in BOOLEAN
    OBVIOUS
  <2> QED BY <2>1, <2>2
<1>6. PICK play \in BOOLEAN : texture' = [texture EXCEPT ![p] = [gen |-> BestGen(p), playing |-> play]]
  BY <1>5
<1>7. OwnTypes' /\ RenewHasRoom' /\ AcceptedAfterExif'
  BY <1>1, <1>3, <1>4, <1>6 DEF OwnTypes, RenewHasRoom, AcceptedAfterExif, Texture
<1>8. TwoGenerations'
  BY <1>1, <1>2, <1>3 DEF TwoGenerations, NoNewStill
<1>9. ExifHonoured'
  <2>1. BestGen(p) >= exifGen
    BY <1>4 DEF AcceptedAfterExif
  <2>2. \A q \in Page : texture'[q] # None => texture'[q].gen >= exifGen
    BY <1>6, <2>1 DEF ExifHonoured, OwnTypes
  <2> QED BY <1>1, <1>2, <2>2 DEF ExifHonoured, NoNewStill
<1>10. PendingMeansUnderway'
  BY <1>1, <1>3 DEF PendingMeansUnderway
<1> QED BY <1>7, <1>8, <1>9, <1>10

LEMMA PassOverStep == ASSUME PagesInv, NEW p \in Page, PassOver(p) PROVE PagesInv'
<1> USE DEF PagesInv
<1>1. UNCHANGED <<cacheVars, pendingLoads, failedLoads, deferred, live, active, preparing, exifGen, ui, answered>>
  BY DEF PassOver, requestVars, genVars
<1>2. NoNewStill
  BY <1>1, RemovalsLeave
<1>3. UNCHANGED <<Newest, Accepted>> /\ \A q : KeyAt(q)' = KeyAt(q)
  BY <1>1 DEF Newest, Accepted, KeyAt
<1>4. /\ texture' \in [Page -> Texture \cup {None}]
      /\ \A q \in Page : texture'[q] # None => texture'[q] = texture[q]
  BY DEF PassOver, OwnTypes
<1>5. OwnTypes' /\ RenewHasRoom' /\ AcceptedAfterExif'
  BY <1>1, <1>3, <1>4 DEF OwnTypes, RenewHasRoom, AcceptedAfterExif
<1>6. TwoGenerations' /\ ExifHonoured'
  BY <1>1, <1>2, <1>3, <1>4 DEF TwoGenerations, ExifHonoured, NoNewStill
<1>7. PendingMeansUnderway'
  BY <1>1, <1>3 DEF PendingMeansUnderway
<1> QED BY <1>5, <1>6, <1>7

LEMMA FinishJobStep == ASSUME PagesInv, NEW k \in Key, FinishJob(k) PROVE PagesInv'
<1> USE DEF PagesInv
<1>1. UNCHANGED <<cacheVars, pendingLoads, failedLoads, deferred, texture, active, preparing, exifGen, ui>>
  BY DEF FinishJob, viewVars, genVars
<1>2. NoNewStill
  BY <1>1, RemovalsLeave
<1>3. UNCHANGED <<Newest, Accepted>> /\ \A q : KeyAt(q)' = KeyAt(q)
  BY <1>1 DEF Newest, Accepted, KeyAt
<1>4. IsABag(answered') /\ BagToSet(answered') = BagToSet(answered) \cup {k} /\ live' = live \ {k}
  BY BagWithOne DEF FinishJob, OwnTypes
<1>5. OwnTypes' /\ RenewHasRoom' /\ AcceptedAfterExif'
  BY <1>1, <1>3, <1>4 DEF OwnTypes, RenewHasRoom, AcceptedAfterExif
<1>6. TwoGenerations' /\ ExifHonoured'
  BY <1>1, <1>2, <1>3, <1>4 DEF TwoGenerations, ExifHonoured, NoNewStill
<1>7. PendingMeansUnderway'
  BY <1>1, <1>3, <1>4 DEF PendingMeansUnderway
<1> QED BY <1>5, <1>6, <1>7

-----------------------------------------------------------------------------

LEMMA PagesInvInit == PagesInit => PagesInv
<1> SUFFICES ASSUME PagesInit PROVE PagesInv
  OBVIOUS
<1> USE DEF PagesInit
<1>1. 0 \in Generation
  BY GenerationAssumption
<1>2. Accepted = {0}
  BY DEF Accepted
<1>3. \A p \in Page, g \in Generation : ~HasStill(p, g)
  BY DEF CacheInit, HasStill, Page
<1>4. OwnTypes /\ RenewHasRoom
  BY <1>1 DEF OwnTypes, RenewHasRoom, EmptyBag, SetToBag, IsABag
<1>5. AcceptedAfterExif /\ TwoGenerations /\ ExifHonoured /\ PendingMeansUnderway
  BY <1>2, <1>3 DEF AcceptedAfterExif, TwoGenerations, ExifHonoured, PendingMeansUnderway
<1> QED BY <1>4, <1>5 DEF PagesInv

\* The strengthened invariant of the pipeline.
THEOREM PagesInvariance == PagesSpec => []PagesInv
<1>1. PagesInv /\ [PagesNext]_pagesVars => PagesInv'
  <2> SUFFICES ASSUME PagesInv, [PagesNext]_pagesVars PROVE PagesInv'
    OBVIOUS
  <2>1. ASSUME Input PROVE PagesInv'
    <3>1. ASSUME NEW p \in Page, Turn(p) PROVE PagesInv'
      BY <3>1, MovesOn DEF Turn, requestVars, genVars
    <3>2. ASSUME NEW o \in Orders, Sort(o) PROVE PagesInv'
      BY <3>2, MovesOn DEF Sort, requestVars, genVars
    <3>3. CASE ChangeUnseen
      BY <3>3, MovesOn DEF ChangeUnseen, requestVars, viewVars
    <3> QED BY <2>1, <3>1, <3>2, <3>3, OpenViewerStep, CloseStep, ChangeFolderStep, BeginLazyStep, SettingStep DEF Input
  <2>2. ASSUME UiStep PROVE PagesInv'
    <3>1. CASE Redecoded \/ NothingSet \/ Drained \/ AllShown
      BY <3>1, MovesOn DEF Redecoded, NothingSet, Drained, AllShown, requestVars, viewVars, genVars
    <3> QED BY <2>2, <3>1, RedecodeStep, RenewStep, UnpackedStep, DrainStep, PrefetchStep,
               UploadStep, PassOverStep DEF UiStep
  <2>3. CASE UNCHANGED pagesVars
    BY <2>3, MovesOn DEF pagesVars, requestVars, viewVars, genVars
  <2> QED BY <2>1, <2>2, <2>3, FinishJobStep DEF PagesNext
<1> QED BY <1>1, PagesInvInit, PTL DEF PagesSpec

\* A page that prefetching counts as requested is really on its way: with the
\* scheduler, behind the unpacking of its archive, or among the results.
THEOREM PendingIsUnderway == PagesSpec => []PendingMeansUnderway
BY PagesInvariance, PTL DEF PagesInv

\* Once a generation has begun for an Exif change, nothing decoded before comes
\* back, into the cache or onto the screen, whatever was in flight.
THEOREM ExifIsHonoured == PagesSpec => []ExifHonoured
BY PagesInvariance, PTL DEF PagesInv

\* No third version of a page takes memory, and no job or failure of an older
\* generation is left.
THEOREM NoThirdVersion == PagesSpec => []TwoGenerations
BY PagesInvariance, PTL DEF PagesInv

-----------------------------------------------------------------------------
(* The pipeline uses the page cache as PageCache says it is used *)

CurIsPage == cur \in Page \cup {NoPage} /\ order \in Orders

LEMMA CurrentPage == PagesSpec => []CurIsPage
<1>1. PagesInit => CurIsPage
  BY DEF PagesInit, CurIsPage
<1>2. CurIsPage /\ [PagesNext]_pagesVars => CurIsPage'
  <2> SUFFICES ASSUME CurIsPage, PagesNext, UNCHANGED <<cur, order>> => CurIsPage'
               PROVE  CurIsPage'
    BY DEF pagesVars, viewVars, CurIsPage
  <2>1. UiStep \/ (\E k \in Key : FinishJob(k)) => UNCHANGED <<cur, order>>
    BY DEF UiStep, viewVars, Redecode, Redecoded, Renew, NothingSet, Unpacked, Drain, Drained,
           Prefetch, Upload, PassOver, AllShown, FinishJob
  <2>2. ChangeFolder \/ BeginLazy \/ ToggleExif \/ ChangeFilter \/ ChangeUnseen
        => UNCHANGED <<cur, order>>
    BY DEF viewVars, ChangeFolder, BeginLazy, ToggleExif, ChangeFilter, ChangeUnseen
  <2>3. ASSUME NEW p \in Page, Turn(p) PROVE CurIsPage'
    BY <2>3 DEF Turn, CurIsPage
  <2>4. ASSUME NEW o \in Orders, Sort(o) PROVE CurIsPage'
    BY <2>4 DEF Sort, PagesOf, CurIsPage
  <2>5. ASSUME NEW p \in Page, NEW o \in Orders, OpenViewer(p, o) PROVE CurIsPage'
    BY <2>5 DEF OpenViewer, CurIsPage
  <2>6. CASE Close
    BY <2>6 DEF Close, CurIsPage
  <2>7. CASE Input
    BY <2>2, <2>3, <2>4, <2>5, <2>6, <2>7 DEF Input
  <2> QED BY <2>1, <2>7 DEF PagesNext
<1> QED BY <1>1, <1>2, PTL DEF PagesSpec

LEMMA RetainIsCacheStep ==
  ASSUME NEW g \in Generation, NEW h \in Generation, RetainGenerations({g, h})
  PROVE  CacheNext
<1> DEFINE keep == {g, h}
<1>1. keep \in SUBSET Generation /\ g \in keep /\ keep = {g} \cup {h}
  OBVIOUS
<1>2. Cardinality(keep) <= 2
  <2>1. IsFiniteSet({g}) /\ Cardinality({g}) = 1
    BY FS_Singleton
  <2>2. Cardinality({g} \cup {h}) = IF h \in {g} THEN Cardinality({g}) ELSE Cardinality({g}) + 1
    BY <2>1, FS_AddElement
  <2> HIDE DEF keep
  <2> QED BY <1>1, <2>1, <2>2
<1>3. RetainGenerations(keep)
  OBVIOUS
<1> HIDE DEF keep
<1> QED BY <1>1, <1>2, <1>3 DEF CacheNext

\* Each step of the UI thread and of the workers is one operation of the page
\* cache or leaves it alone: the operations are called with pages, generations
\* and contents as PageCache has them, and never two in one step.
THEOREM PipelineUsesCache == PagesSpec => CacheSpec
<1>1. PagesInit => CacheInit
  BY DEF PagesInit
<1>2. PagesInv /\ CurIsPage /\ [PagesNext]_pagesVars
      => [CacheNext]_cacheVars
  <2> SUFFICES ASSUME PagesInv, CurIsPage, PagesNext, ~UNCHANGED cacheVars
               PROVE  CacheNext
    BY DEF pagesVars, cacheVars
  <2>0. Newest \in Generation /\ Accepted \subseteq Generation
    BY NewestIsAccepted DEF PagesInv
  <2>1. CASE BeginLazy
    <3>1. Newest + 1 \in Generation
      BY <2>0, <2>1, GenerationAssumption DEF BeginLazy
    <3> QED BY <2>0, <2>1, <3>1, RetainIsCacheStep DEF BeginLazy
  <2>2. CASE ToggleExif \/ ChangeFilter
    <3>1. cur \in Page /\ cur[1] \in Book
      BY <2>2 DEF ToggleExif, ChangeFilter, CurIsPage, Page
    <3> QED BY <2>2, <3>1 DEF ToggleExif, ChangeFilter, CacheNext
  <2>3. ASSUME NEW p \in Page, Redecode(p) PROVE CacheNext
    BY <2>3 DEF Redecode, CacheNext, Page
  <2>4. CASE Renew
    <3>1. Newest + 1 \in Generation
      <4>1. Newest < MaxGen
        BY <2>4 DEF PagesInv, RenewHasRoom, Renew
      <4> QED BY <2>0, <4>1, GenerationAssumption
    <3>2. RetainGenerations({Newest + 1, Newest + 1})
      BY <2>4 DEF Renew
    <3> QED BY <3>1, <3>2, RetainIsCacheStep
  <2>5. ASSUME NEW k \in Key, Drain(k) PROVE CacheNext
    <3>1. k[1] \in Page /\ k[2] \in Generation
      BY DEF Key
    <3>2. \E content \in ContentsOf(k[1], k[2]) : Insert(k[1], k[2], content, cur)
      BY <2>5 DEF Drain
    <3> QED BY <3>1, <3>2 DEF CacheNext, CurIsPage, Page, NoPage
  <2>6. ASSUME NEW p \in Page, Upload(p) PROVE CacheNext
    <3>1. BestGen(p) \in Generation
      BY <2>0 DEF BestGen, PagesInv, OwnTypes
    <3>2. RemoveOlderVersions(p, BestGen(p))
      BY <2>6 DEF Upload
    <3> QED BY <3>1, <3>2 DEF CacheNext, Page
  <2>7. CASE Input
    <3>1. /\ \A p \in Page : ~Turn(p)
          /\ \A o \in Orders : ~Sort(o)
          /\ \A p \in Page, o \in Orders : ~OpenViewer(p, o)
      BY DEF Turn, Sort, OpenViewer
    <3>2. ~Close /\ ~ChangeFolder /\ ~ChangeUnseen
      BY DEF Close, ChangeFolder, ChangeUnseen
    <3> QED BY <2>1, <2>2, <2>7, <3>1, <3>2 DEF Input
  <2>8. CASE UiStep
    <3>1. ~Redecoded /\ ~NothingSet /\ ~Drained /\ ~Prefetch /\ ~AllShown
      BY DEF Redecoded, NothingSet, Drained, Prefetch, AllShown
    <3>2. ASSUME NEW b \in Book, Unpacked(b) PROVE FALSE
      BY <3>2 DEF Unpacked
    <3>3. ASSUME NEW p \in Page, PassOver(p) PROVE FALSE
      BY <3>3 DEF PassOver
    <3> QED BY <2>3, <2>4, <2>5, <2>6, <2>8, <3>1, <3>2, <3>3 DEF UiStep
  <2>9. ASSUME NEW k \in Key, FinishJob(k) PROVE FALSE
    BY <2>9 DEF FinishJob
  <2> QED BY <2>7, <2>8, <2>9 DEF PagesNext
<1> QED BY <1>1, <1>2, PagesInvariance, CurrentPage, PTL DEF PagesSpec, CacheSpec

-----------------------------------------------------------------------------
(* The types of what the pipeline keeps besides the cache *)

Phases == {"input", "renew exif", "renew filter", "redecode", "drain", "prefetch", "show"}

RequestTypes ==
    /\ ui \in Phases
    /\ todo \subseteq Page /\ pendingLoads \subseteq Page
    /\ failedLoads \subseteq Key /\ deferred \subseteq Key /\ live \subseteq Key
    /\ unpacking \subseteq SolidBook
    /\ BagToSet(answered) \subseteq Key /\ outdated \subseteq Key

LEMMA DesiredAreKeys ==
  ASSUME OwnTypes
  PROVE  /\ \A p \in Page : KeyAt(p) \in Key
         /\ Visible \subseteq Page /\ Desired \subseteq Key
<1>1. \A p \in Page : KeyAt(p) \in Key
  BY NewestIsAccepted DEF KeyAt, Key
<1>2. Visible \subseteq Page /\ Window \subseteq Page
  BY DEF Window, Visible, Near
<1>3. Desired \subseteq Key
  BY <1>1, <1>2 DEF Desired
<1> QED BY <1>1, <1>2, <1>3

LEMMA InputTypes ==
  ASSUME OwnTypes, RequestTypes, Input
  PROVE  RequestTypes'
<1> USE DEF RequestTypes, Phases
<1>1. ASSUME NEW p \in Page, Turn(p) PROVE RequestTypes'
  BY <1>1 DEF Turn, requestVars, genVars
<1>2. ASSUME NEW p \in Page, NEW o \in Orders, OpenViewer(p, o) PROVE RequestTypes'
  BY <1>2 DEF OpenViewer, genVars
<1>3. CASE Close
  BY <1>3 DEF Close, requestVars, genVars
<1>4. CASE ChangeFolder
  BY <1>4 DEF ChangeFolder, viewVars, genVars
<1>5. CASE BeginLazy
  BY <1>5, DesiredAreKeys DEF BeginLazy, viewVars
<1>6. CASE ToggleExif \/ ChangeFilter
  BY <1>6 DEF ToggleExif, ChangeFilter, requestVars, viewVars, genVars
<1>7. CASE ChangeUnseen
  BY <1>7 DEF ChangeUnseen, requestVars, viewVars
<1>8. ASSUME NEW o \in Orders, Sort(o) PROVE RequestTypes'
  BY <1>8 DEF Sort, requestVars, genVars
<1> QED BY <1>1, <1>2, <1>3, <1>4, <1>5, <1>6, <1>7, <1>8 DEF Input

LEMMA UiStepTypes ==
  ASSUME OwnTypes, RequestTypes, UiStep
  PROVE  RequestTypes'
<1> USE DEF RequestTypes, Phases
<1>1. ASSUME NEW p \in Page, Redecode(p) PROVE RequestTypes'
  <2>1. KeyAt(p) \in Key /\ Deferrable({KeyAt(p)}) \subseteq {KeyAt(p)}
    BY DesiredAreKeys DEF Deferrable
  <2> QED BY <1>1, <2>1 DEF Redecode, viewVars, genVars
<1>2. CASE Redecoded \/ NothingSet \/ Drained \/ AllShown
  BY <1>2 DEF Redecoded, NothingSet, Drained, AllShown, requestVars, viewVars, genVars
<1>3. CASE Renew
  BY <1>3 DEF Renew
<1>4. ASSUME NEW b \in Book, Unpacked(b) PROVE RequestTypes'
  BY <1>4 DEF Unpacked, genVars
<1>5. ASSUME NEW k \in Key, Drain(k) PROVE RequestTypes'
  <2>1. BagToSet(answered') \subseteq BagToSet(answered)
    BY <1>5 DEF Drain, OwnTypes, IsABag, BagToSet, SetToBag, (-)
  <2>2. failedLoads' \subseteq Key /\ pendingLoads' \subseteq Page /\ outdated' \subseteq Key
    BY <1>5 DEF Drain
  <2>3. UNCHANGED <<ui, todo, deferred, live, unpacking>>
    BY <1>5 DEF Drain, viewVars
  <2> QED BY <2>1, <2>2, <2>3
<1>6. CASE Prefetch
  <2>1. \A k \in Desired : k[1] \in Page
    BY DesiredAreKeys DEF Key
  <2>2. pendingLoads' \subseteq Page /\ deferred' \subseteq Desired /\ live' \subseteq Desired
    BY <1>6, <2>1 DEF Prefetch
  <2>3. ui' \in Phases /\ todo' \subseteq Page
    BY <1>6 DEF Prefetch
  <2>4. UNCHANGED <<failedLoads, unpacking, answered, outdated>>
    BY <1>6 DEF Prefetch, viewVars, genVars
  <2> QED BY <2>2, <2>3, <2>4, DesiredAreKeys
<1>7. ASSUME NEW p \in Page, Upload(p) \/ PassOver(p) PROVE RequestTypes'
  BY <1>7 DEF Upload, PassOver, requestVars, genVars
<1> QED BY <1>1, <1>2, <1>3, <1>4, <1>5, <1>6, <1>7 DEF UiStep

\* Whatever is asked, deferred, withdrawn, answered and passed over, the requests, the
\* failures and the results are those of pages and generations there are, and the page in
\* view is one of them.
THEOREM PipelineTypeCorrect == PagesSpec => []PipelineTypeOK
<1>1. PagesInit => RequestTypes
  BY DEF PagesInit, RequestTypes, Phases, EmptyBag, SetToBag, BagToSet
<1>2. PagesInv /\ RequestTypes /\ [PagesNext]_pagesVars => RequestTypes'
  <2> SUFFICES ASSUME PagesInv, RequestTypes, [PagesNext]_pagesVars PROVE RequestTypes'
    OBVIOUS
  <2>1. OwnTypes
    BY DEF PagesInv
  <2>2. ASSUME NEW k \in Key, FinishJob(k) PROVE RequestTypes'
    <3>1. BagToSet(answered') = BagToSet(answered) \cup {k}
      BY <2>1, <2>2, BagWithOne DEF FinishJob, OwnTypes
    <3>2. live' \subseteq live /\ UNCHANGED <<ui, todo, pendingLoads, failedLoads, deferred,
                                             unpacking, outdated>>
      BY <2>2 DEF FinishJob, viewVars, genVars
    <3> QED BY <3>1, <3>2 DEF RequestTypes
  <2>3. CASE UNCHANGED pagesVars
    BY <2>3 DEF pagesVars, requestVars, viewVars, genVars, RequestTypes
  <2> QED BY <2>1, <2>2, <2>3, InputTypes, UiStepTypes DEF PagesNext
<1>3. PagesInv /\ CurIsPage /\ RequestTypes => PipelineTypeOK
  BY DEF PagesInv, OwnTypes, CurIsPage, RequestTypes, Phases, PipelineTypeOK
<1> QED BY <1>1, <1>2, <1>3, PagesInvariance, CurrentPage, PTL DEF PagesSpec

-----------------------------------------------------------------------------
(* What PageCache promises of any use holds of this one *)

\* Every variable of the pipeline keeps its type, those of the cache included.
THEOREM PagesTypeCorrect == PagesSpec => []PagesTypeOK
<1>1. CacheTypeOK /\ PipelineTypeOK => PagesTypeOK
  BY DEF PagesTypeOK
<1> QED BY <1>1, PipelineUsesCache, CacheTypeCorrect, PipelineTypeCorrect, PTL

\* Whatever the reader does and in whatever order the results come in, the bytes the
\* cache charges are those of the pages it holds, and they stay within reach of the
\* budget (poll_workers, redecode_visible_pages, update_textures).
THEOREM PagesKeepBudget == PagesSpec => []BudgetKept
BY PipelineUsesCache, BudgetIsKept, PTL

\* Nor does a page ever have two animations at work, or a page in a bypass that
\* prefetching would ask for again.
THEOREM PagesKeepBypasses == PagesSpec => []BypassesAgree
BY PipelineUsesCache, BypassInStep, PTL

=============================================================================
