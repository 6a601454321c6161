------------------------- MODULE ExplorerViewsProofs -------------------------
(***************************************************************************)
(* The place in the real tree, for any folders, any tree of virtual folders  *)
(* over them and any number of alike views.  Every operation on the view        *)
(* either leaves that place alone or moves it to a folder it names; the            *)
(* invariant is inductive together with the types.                                  *)
(***************************************************************************)
EXTENDS MCProgress, DecodeJobQueueProofs

\* The folder that counts as the place in the real tree
Real(v) == IF v.stash = Nothing THEN v.dir ELSE v.stash

\* The view of files alike is the one it was, or closed.
Alike(w, v) == w.similar \in {v.similar, Nothing}

-------------------------------------------------------------------------------
(* What the functions of the explorer leave of the place *)

LEMMA SourcesKnown ==
  /\ \A d \in Dirs : <<"dir", d>> \in Sources
  /\ \A b \in Books : <<"similar", b>> \in Sources
  /\ <<"favorites", Nothing>> \in Sources
  /\ <<"search", Nothing>> \in Sources
  /\ <<"tags", Nothing>> \in Sources
BY DEF Sources

LEMMA ScanTyped ==
  ASSUME NEW d \in Dirs
  PROVE  /\ Loading(d) \in [at : {"idle", "loading", "done"}, dir : Dirs \cup {Nothing}, read : BOOLEAN]
         /\ Settled("done") \in [at : {"idle", "loading", "done"}, dir : Dirs \cup {Nothing}, read : BOOLEAN]
         /\ Settled("idle") \in [at : {"idle", "loading", "done"}, dir : Dirs \cup {Nothing}, read : BOOLEAN]
BY DEF Loading, Settled

LEMMA ShowTyped ==
  ASSUME NEW v \in Views, NEW s \in SUBSET Sources
  PROVE  /\ Show(v, s) \in Views /\ Show(v, s).similar = v.similar
         /\ Show(v, s).dir = v.dir /\ Show(v, s).stash = v.stash
         /\ Show(v, s).tab = v.tab /\ Show(v, s).node = v.node
BY DEF Show, Views, Settled

LEMMA CloseTyped ==
  ASSUME NEW v \in Views
  PROVE  /\ CloseSimilarState(v) \in Views /\ CloseSimilarState(v).similar = Nothing
         /\ CloseSimilarState(v).dir = v.dir /\ CloseSimilarState(v).stash = v.stash
         /\ CloseSimilarState(v).tab = v.tab /\ CloseSimilarState(v).node = v.node
BY DEF CloseSimilarState, Views

LEMMA StartScanTyped ==
  ASSUME NEW v \in Views
  PROVE  /\ StartScan(v) \in Views /\ Alike(StartScan(v), v)
         /\ StartScan(v).dir = v.dir /\ StartScan(v).stash = v.stash
         /\ StartScan(v).tab = v.tab /\ StartScan(v).node = v.node
<1> DEFINE w == CloseSimilarState(v)
<1>0. w.similar = Nothing
  BY CloseTyped
<1>1. w \in Views /\ w.dir = v.dir /\ w.stash = v.stash /\ w.tab = v.tab /\ w.node = v.node
  BY CloseTyped
<1>2. v.dir \in Dirs
  BY DEF Views
<1> HIDE DEF w
<1>3. [w EXCEPT !.scan = Loading(v.dir), !.shown = {}] \in Views
  BY <1>1, <1>2 DEF Views, Loading
<1>4. [w EXCEPT !.scan = Loading(v.dir), !.shown = {}].dir = w.dir
      /\ [w EXCEPT !.scan = Loading(v.dir), !.shown = {}].stash = w.stash
      /\ [w EXCEPT !.scan = Loading(v.dir), !.shown = {}].tab = w.tab
      /\ [w EXCEPT !.scan = Loading(v.dir), !.shown = {}].node = w.node
      /\ [w EXCEPT !.scan = Loading(v.dir), !.shown = {}].similar = w.similar
  BY <1>1 DEF Views
<1> QED
  BY <1>0, <1>1, <1>3, <1>4 DEF StartScan, ClearedForScan, Alike, w


LEMMA ShowEmptyTyped ==
  ASSUME NEW v \in Views
  PROVE  /\ ShowEmptyListing(v) \in Views /\ ShowEmptyListing(v).similar = Nothing
         /\ ShowEmptyListing(v).dir = v.dir /\ ShowEmptyListing(v).stash = v.stash
         /\ ShowEmptyListing(v).tab = v.tab /\ ShowEmptyListing(v).node = v.node
<1> DEFINE w == CloseSimilarState(Show(v, {}))
<1>0. w.similar = Nothing
  BY CloseTyped, ShowTyped
<1>1. w \in Views /\ w.dir = v.dir /\ w.stash = v.stash /\ w.tab = v.tab /\ w.node = v.node
  BY CloseTyped, ShowTyped
<1> HIDE DEF w
<1> QED
  <2> DEFINE x == [w EXCEPT !.favorites = FALSE, !.viewing = Nothing]
  <2>1. /\ x \in Views
        /\ x.dir = w.dir /\ x.stash = w.stash /\ x.tab = w.tab /\ x.node = w.node
    <3>1. x \in Views
      BY <1>1 DEF Views
    <3>2. x.dir = w.dir /\ x.stash = w.stash
      BY <1>1 DEF Views
    <3>3. x.tab = w.tab /\ x.node = w.node
      BY <1>1 DEF Views
    <3> QED
      BY <3>1, <3>2, <3>3
  <2>2. x.similar = w.similar
    BY <1>1 DEF Views
  <2>3. ShowEmptyListing(v) = x
    BY DEF ShowEmptyListing, w
  <2> HIDE DEF x
  <2> QED
    BY <1>0, <1>1, <2>1, <2>2, <2>3

LEMMA BeginDirViewTyped ==
  ASSUME NEW v \in Views, NEW d \in Dirs
  PROVE  /\ BeginDirView(v, d) \in Views /\ Alike(BeginDirView(v, d), v)
         /\ BeginDirView(v, d).dir = d /\ BeginDirView(v, d).stash = v.stash
         /\ BeginDirView(v, d).tab = v.tab /\ BeginDirView(v, d).node = v.node
<1> DEFINE w == [v EXCEPT !.favorites = FALSE, !.dir = d, !.viewing = d]
<1>1. w \in Views /\ w.similar = v.similar /\ w.dir = d /\ w.stash = v.stash /\ w.tab = v.tab /\ w.node = v.node
  BY DEF Views
<1> HIDE DEF w
<1> QED
  BY <1>1, StartScanTyped DEF BeginDirView, Alike, w

LEMMA OutOfVirtualTyped ==
  ASSUME NEW v \in Views
  PROVE  /\ OutOfVirtual(v) \in Views /\ OutOfVirtual(v).similar = v.similar
         /\ OutOfVirtual(v).dir = v.dir /\ OutOfVirtual(v).stash = Nothing
         /\ OutOfVirtual(v).tab = v.tab /\ OutOfVirtual(v).node = Nothing
BY DEF OutOfVirtual, Views

\* Going to a folder makes it the place.
LEMMA NavigateToTyped ==
  ASSUME NEW v \in Views, NEW d \in Dirs
  PROVE  /\ NavigateTo(v, d) \in Views /\ Alike(NavigateTo(v, d), v)
         /\ Real(NavigateTo(v, d)) = d
BY OutOfVirtualTyped, BeginDirViewTyped DEF NavigateTo, Real, Alike

LEMMA NavigateToDriveTyped ==
  ASSUME NEW v \in Views, NEW d \in Dirs
  PROVE  /\ NavigateToDrive(v, d) \in Views /\ Alike(NavigateToDrive(v, d), v)
         /\ Real(NavigateToDrive(v, d)) = d
<1> DEFINE u == [OutOfVirtual(v) EXCEPT !.dir = d]
<1>1. u \in Views /\ u.similar = v.similar /\ u.dir = d /\ u.stash = Nothing
  BY OutOfVirtualTyped DEF Views
<1> HIDE DEF u
<1> DEFINE w == StartScan(u)
<1>2. w \in Views /\ Alike(w, u) /\ w.dir = d /\ w.stash = Nothing
  BY <1>1, StartScanTyped
<1> HIDE DEF w
<1>3. NavigateToDrive(v, d) = [w EXCEPT !.viewing = Nothing]
  BY DEF NavigateToDrive, w, u
<1> DEFINE x == [w EXCEPT !.viewing = Nothing]
<1>4. x \in Views
  BY <1>2 DEF Views
<1>5. x.similar = w.similar /\ x.dir = w.dir /\ x.stash = w.stash
  BY <1>2 DEF Views
<1> HIDE DEF x
<1> QED
  BY <1>1, <1>2, <1>3, <1>4, <1>5 DEF Real, Alike, x

\* A virtual folder puts the place aside before it changes the current directory, and only
\* if no other virtual folder has done so.
LEMMA EnterVirtualNodeTyped ==
  ASSUME ExplorerAssumption, NEW v \in Views, NEW n \in Nodes \cup {Root}, NEW reachable \in BOOLEAN
  PROVE  /\ EnterVirtualNode(v, n, reachable) \in Views
         /\ Alike(EnterVirtualNode(v, n, reachable), v)
         /\ Real(EnterVirtualNode(v, n, reachable)) = Real(v)
<1> DEFINE at == [v EXCEPT !.node = n, !.saved = n, !.broken = n # Root /\ ~reachable]
<1>1. at \in Views /\ at.similar = v.similar /\ at.dir = v.dir /\ at.stash = v.stash
  <2>1. at \in Views
    BY ZenonT(30) DEF Views
  <2>2. at.similar = v.similar /\ at.dir = v.dir /\ at.stash = v.stash
    BY DEF Views
  <2> QED
    BY <2>1, <2>2
<1> HIDE DEF at
<1>2. CASE n # Root /\ reachable
  <2> DEFINE w == [at EXCEPT !.stash = StashIfEmpty(v)]
  <2>1. StashIfEmpty(v) \in Dirs /\ StashIfEmpty(v) = Real(v)
    BY DEF StashIfEmpty, Real, Views
  <2>2. w \in Views /\ w.similar = v.similar /\ w.stash = StashIfEmpty(v)
    <3>1. w \in Views
      BY <1>1, <2>1 DEF Views
    <3>2. w.similar = v.similar
      BY <1>1 DEF Views
    <3>3. w.stash = StashIfEmpty(v)
      BY <1>1 DEF Views
    <3> QED
      BY <3>1, <3>2, <3>3
  <2> HIDE DEF w
  <2>3. NodeDir[n] \in Dirs
    BY <1>2 DEF ExplorerAssumption
  <2>4. EnterVirtualNode(v, n, reachable) = BeginDirView(w, NodeDir[n])
    BY <1>2 DEF EnterVirtualNode, w, at
  <2>5. /\ BeginDirView(w, NodeDir[n]) \in Views
        /\ Alike(BeginDirView(w, NodeDir[n]), w)
        /\ BeginDirView(w, NodeDir[n]).stash = w.stash
    BY <2>2, <2>3, BeginDirViewTyped
  <2>6. Nothing \notin Dirs
    BY DEF ExplorerAssumption
  <2> QED
    BY <2>1, <2>2, <2>4, <2>5, <2>6 DEF Real, Alike
<1>3. CASE ~(n # Root /\ reachable)
  <2>1. EnterVirtualNode(v, n, reachable) = ShowEmptyListing(at)
    BY <1>3 DEF EnterVirtualNode, at
  <2> QED
    BY <1>1, <2>1, ShowEmptyTyped DEF Real, Alike
<1> QED
  BY <1>2, <1>3

LEMMA SelectVirtualNodeTyped ==
  ASSUME ExplorerAssumption, NEW v \in Views, NEW n \in Nodes \cup {Root}, NEW reachable \in BOOLEAN
  PROVE  /\ SelectVirtualNode(v, n, reachable) \in Views
         /\ Alike(SelectVirtualNode(v, n, reachable), v)
         /\ Real(SelectVirtualNode(v, n, reachable)) = Real(v)
BY EnterVirtualNodeTyped DEF SelectVirtualNode, Alike

\* Leaving the virtual folders brings the place back.
LEMMA ExitVirtualViewTyped ==
  ASSUME NEW v \in Views
  PROVE  /\ ExitVirtualView(v) \in Views
         /\ Alike(ExitVirtualView(v), v)
         /\ Real(ExitVirtualView(v)) = Real(v)
         /\ v.stash = Nothing => ExitVirtualView(v).stash = Nothing /\ ExitVirtualView(v).dir = v.dir
         /\ ExitVirtualView(v).tab = v.tab
<1>1. CASE v.node = Nothing
  BY <1>1 DEF ExitVirtualView, Alike
<1>2. CASE v.node # Nothing
  <2> DEFINE w == [OutOfVirtual(v) EXCEPT !.dir = Real(v), !.viewing = Real(v)]
  <2>1. Real(v) \in Dirs
    BY DEF Real, Views
  <2>2. w \in Views /\ w.similar = v.similar /\ w.dir = Real(v) /\ w.stash = Nothing /\ w.tab = v.tab
    BY <2>1, OutOfVirtualTyped DEF Views
  <2> HIDE DEF w
  <2>3. ExitVirtualView(v) = StartScan(w)
    BY <1>2 DEF ExitVirtualView, w, Real
  <2> QED
    BY <2>2, <2>3, StartScanTyped DEF Real, Alike
<1> QED
  BY <1>1, <1>2

\* The views that are not folders leave the place alone, however they are entered and left.
LEMMA OtherViewsTyped ==
  ASSUME NEW v \in Views, NEW chosen \in BOOLEAN
  PROVE  /\ \A w \in {EnterFavoriteView(v), ExitFavoriteView(v), EnterSearchView(v),
                      ExitSearchView(v), RestartTagSearch(v, chosen),
                      EnterTagSearchView(v, chosen), ExitTagSearchView(v), ExitSimilarView(v)} :
              w \in Views /\ w.dir = v.dir /\ w.stash = v.stash /\ w.tab = v.tab /\ Alike(w, v)
<1> DEFINE Kept(w) == w \in Views /\ w.dir = v.dir /\ w.stash = v.stash /\ w.tab = v.tab
                      /\ Alike(w, v)
<1>1. Kept(EnterFavoriteView(v))
  <2>1. Show(v, {<<"favorites", Nothing>>}) \in Views /\ Kept(Show(v, {<<"favorites", Nothing>>}))
    BY ShowTyped, SourcesKnown DEF Alike
  <2> DEFINE w == CloseSimilarState(Show(v, {<<"favorites", Nothing>>}))
  <2>2. Kept(w)
    BY <2>1, CloseTyped DEF Alike
  <2> HIDE DEF w
  <2>3. EnterFavoriteView(v) = [w EXCEPT !.favorites = TRUE]
    BY DEF EnterFavoriteView, w
  <2> QED
    BY <2>2, <2>3 DEF Views, Alike
<1>2. Kept(EnterSearchView(v))
  <2>1. Show(v, {<<"search", Nothing>>}) \in Views /\ Kept(Show(v, {<<"search", Nothing>>}))
    BY ShowTyped, SourcesKnown DEF Alike
  <2> DEFINE w == CloseSimilarState(Show(v, {<<"search", Nothing>>}))
  <2>2. Kept(w)
    BY <2>1, CloseTyped DEF Alike
  <2> HIDE DEF w
  <2>3. EnterSearchView(v) = [w EXCEPT !.search = TRUE]
    BY DEF EnterSearchView, w
  <2> QED
    BY <2>2, <2>3 DEF Views, Alike
<1>3. Kept(RestartTagSearch(v, chosen))
  <2> DEFINE w == Show(v, {})
  <2>1. Kept(w)
    BY ShowTyped DEF Alike
  <2> HIDE DEF w
  <2>2. RestartTagSearch(v, chosen) = [w EXCEPT !.hunting = chosen]
    BY DEF RestartTagSearch, w
  <2> QED
    BY <2>1, <2>2 DEF Views, Alike
<1>4. Kept(EnterTagSearchView(v, chosen))
  <2> DEFINE u == CloseSimilarState(v)
  <2>1. Kept(u)
    BY CloseTyped DEF Alike
  <2> HIDE DEF u
  <2> DEFINE x == [u EXCEPT !.tags = TRUE]
  <2>2. Kept(x)
    BY <2>1 DEF Views, Alike
  <2> HIDE DEF x
  <2> DEFINE w == Show(x, {})
  <2>3. Kept(w)
    BY <2>2, ShowTyped DEF Alike
  <2> HIDE DEF w
  <2>4. EnterTagSearchView(v, chosen) = [w EXCEPT !.hunting = chosen]
    BY DEF EnterTagSearchView, RestartTagSearch, w, x, u
  <2> QED
    BY <2>3, <2>4 DEF Views, Alike
<1>5. Kept(ExitFavoriteView(v))
  <2> DEFINE w == [v EXCEPT !.favorites = FALSE]
  <2>1. Kept(w)
    BY DEF Views, Alike
  <2> HIDE DEF w
  <2> QED
    BY <2>1, StartScanTyped DEF ExitFavoriteView, w, Alike
<1>6. Kept(ExitSearchView(v))
  <2> DEFINE w == [v EXCEPT !.search = FALSE]
  <2>1. Kept(w)
    BY DEF Views, Alike
  <2> HIDE DEF w
  <2> QED
    BY <2>1, StartScanTyped DEF ExitSearchView, w, Alike
<1>7. Kept(ExitTagSearchView(v))
  <2> DEFINE w == [v EXCEPT !.tags = FALSE, !.hunting = FALSE]
  <2>1. Kept(w)
    BY DEF Views, Alike
  <2> HIDE DEF w
  <2> QED
    BY <2>1, StartScanTyped DEF ExitTagSearchView, w, Alike
<1>8. Kept(ExitSimilarView(v))
  BY StartScanTyped, CloseTyped DEF ExitSimilarView, Alike
<1> QED
  BY <1>1, <1>2, <1>3, <1>4, <1>5, <1>6, <1>7, <1>8

LEMMA SwitchedTabTyped ==
  ASSUME ExplorerAssumption, nodes \subseteq Nodes, NEW v \in Views, NEW tab \in Tabs,
         NEW reachable \in BOOLEAN, NEW chosen \in BOOLEAN
  PROVE  /\ SwitchedTab(v, tab, reachable, chosen) \in Views
         /\ Alike(SwitchedTab(v, tab, reachable, chosen), v)
         /\ Real(SwitchedTab(v, tab, reachable, chosen)) = Real(v)
<1> DEFINE v1 == [v EXCEPT !.tab = tab]
           v2 == IF tab = "virtual" THEN v1 ELSE ExitVirtualView(v1)
           v3 == IF tab = "favorites" THEN v2 ELSE ExitFavoriteView(v2)
           v4 == IF tab = "search" THEN v3 ELSE ExitSearchView(v3)
           v5 == IF tab = "tags" THEN v4 ELSE ExitTagSearchView(v4)
           w == EndOthers(v, tab)
<1>1. v1 \in Views /\ Alike(v1, v) /\ Real(v1) = Real(v)
  BY DEF Views, Real, Alike
<1>2. v2 \in Views /\ Alike(v2, v) /\ Real(v2) = Real(v)
  <2> HIDE DEF v1
  <2> QED
    BY <1>1, ExitVirtualViewTyped DEF Alike
<1>3. v3 \in Views /\ Alike(v3, v) /\ Real(v3) = Real(v)
  <2> HIDE DEF v2
  <2> QED
    BY <1>2, OtherViewsTyped DEF Real, Alike
<1>4. v4 \in Views /\ Alike(v4, v) /\ Real(v4) = Real(v)
  <2> HIDE DEF v3
  <2> QED
    BY <1>3, OtherViewsTyped DEF Real, Alike
<1>5. v5 \in Views /\ Alike(v5, v) /\ Real(v5) = Real(v)
  <2> HIDE DEF v4
  <2> QED
    BY <1>4, OtherViewsTyped DEF Real, Alike
<1>6. w \in Views /\ Alike(w, v) /\ Real(w) = Real(v)
  <2>1. w = v5 \/ w = ExitSimilarView(v5)
    BY DEF EndOthers
  <2> HIDE DEF v5, w
  <2> QED
    BY <1>5, <2>1, OtherViewsTyped DEF Real, Alike
<1> HIDE DEF v1, v2, v3, v4, v5
<1>7. ResolveVirtual(v, nodes) \in Nodes \cup {Root}
  BY DEF ResolveVirtual
<1>8. SwitchedTab(v, tab, reachable, chosen) \in
          {w, EnterFavoriteView(w), EnterTagSearchView(w, chosen),
           SelectVirtualNode(w, ResolveVirtual(v, nodes), reachable)}
  BY DEF SwitchedTab, Tabs
<1> HIDE DEF w
<1>9. CASE SwitchedTab(v, tab, reachable, chosen) \in
             {EnterFavoriteView(w), EnterTagSearchView(w, chosen)}
  BY <1>6, <1>9, OtherViewsTyped DEF Real, Alike
<1>10. CASE SwitchedTab(v, tab, reachable, chosen) =
              SelectVirtualNode(w, ResolveVirtual(v, nodes), reachable)
  BY <1>6, <1>7, <1>10, SelectVirtualNodeTyped DEF Alike
<1> QED
  BY <1>6, <1>8, <1>9, <1>10


\* Coming from the place itself, the real tree opens where the view was.
LEMMA SwitchedToTree ==
  ASSUME NEW v \in Views, v.stash = Nothing, NEW reachable \in BOOLEAN, NEW chosen \in BOOLEAN
  PROVE  LET w == SwitchedTab(v, "tree", reachable, chosen)
         IN  w \in Views /\ Alike(w, v) /\ w.stash = Nothing /\ w.dir = v.dir
<1> DEFINE v1 == [v EXCEPT !.tab = "tree"]
           v2 == ExitVirtualView(v1)
           v3 == ExitFavoriteView(v2)
           v4 == ExitSearchView(v3)
           v5 == ExitTagSearchView(v4)
           Kept(w) == w \in Views /\ Alike(w, v) /\ w.stash = Nothing /\ w.dir = v.dir
<1>1. Kept(v1)
  BY DEF Views, Tabs, Alike
<1>2. Kept(v2)
  <2> HIDE DEF v1
  <2> QED
    BY <1>1, ExitVirtualViewTyped DEF Alike
<1>3. Kept(v3)
  <2> HIDE DEF v2
  <2> QED
    BY <1>2, OtherViewsTyped DEF Alike
<1>4. Kept(v4)
  <2> HIDE DEF v3
  <2> QED
    BY <1>3, OtherViewsTyped DEF Alike
<1>5. Kept(v5)
  <2> HIDE DEF v4
  <2> QED
    BY <1>4, OtherViewsTyped DEF Alike
<1>6. EndOthers(v, "tree") \in {v5, ExitSimilarView(v5)}
  BY DEF EndOthers, Tabs
<1>7. SwitchedTab(v, "tree", reachable, chosen) = EndOthers(v, "tree")
  BY DEF SwitchedTab
<1> HIDE DEF v5
<1> QED
  BY <1>5, <1>6, <1>7, OtherViewsTyped DEF Alike

LEMMA TreeRootForTyped ==
  ASSUME NEW v \in Views, NEW switched \in BOOLEAN
  PROVE  /\ TreeRootFor(v, switched) \in Views /\ TreeRootFor(v, switched).similar = v.similar
         /\ Real(TreeRootFor(v, switched)) = IF switched THEN v.dir ELSE Real(v)
<1>1. CASE switched
  BY <1>1 DEF TreeRootFor, Views, Real
<1>2. CASE ~switched
  BY <1>2 DEF TreeRootFor
<1> QED
  BY <1>1, <1>2

-------------------------------------------------------------------------------
(* The invariant *)

\* The bound on alike views holds because a click waits for its view before the next one;
\* a group that is collected for the present view is that of its file.
ExplorerInv ==
  /\ ExplorerTypeOK
  /\ RealPlaceKept
  /\ wanted # Nothing => token < MaxTokens
  /\ \A p \in probes : p.token <= token
  /\ ui.similar # Nothing =>
        /\ ui.similar.token <= token
        /\ \A p \in probes : p.token = ui.similar.token => p.book = ui.similar.book

\* What most steps have in common: the view is one of Views, its place is `place', and no
\* view of files alike is opened.
Shown == ui' \in Views /\ place' = Real(ui') /\ Alike(ui', ui)

LEMMA PlaceIsReal ==
  ASSUME ExplorerAssumption, ExplorerInv
  PROVE  /\ ui \in Views /\ place = Real(ui) /\ ui.dir \in Dirs /\ Real(ui) \in Dirs
         /\ nodes \subseteq Nodes /\ NodeDir \in [Nodes -> Dirs]
         /\ token \in Nat /\ token \in 0 .. MaxTokens /\ MaxTokens \in Nat
BY DEF ExplorerInv, ExplorerTypeOK, RealPlaceKept, Real, Views, ExplorerAssumption

\* A step that shows a proper view and leaves tokens and clicks alone
LEMMA QuietStep ==
  ASSUME ExplorerAssumption, ExplorerInv, Shown, nodes' \subseteq nodes,
         searching' \in BOOLEAN, found' \in BOOLEAN, strayed' \in BOOLEAN,
         probes' \subseteq probes, UNCHANGED <<token, wanted>>
  PROVE  ExplorerInv'
<1>1. place' \in Dirs
  BY DEF Shown, Real, Alike, Views
<1>2. ExplorerTypeOK' /\ RealPlaceKept'
  BY <1>1 DEF ExplorerInv, ExplorerTypeOK, RealPlaceKept, Real, Shown
<1>3. ui'.similar = ui.similar \/ ui'.similar = Nothing
  BY DEF Shown, Alike
<1>4. /\ wanted' # Nothing => token' < MaxTokens
      /\ \A p \in probes' : p.token <= token'
  BY DEF ExplorerInv
<1>5. ui'.similar # Nothing =>
        /\ ui'.similar.token <= token'
        /\ \A p \in probes' : p.token = ui'.similar.token => p.book = ui'.similar.book
  BY <1>3 DEF ExplorerInv
<1> QED
  BY <1>2, <1>4, <1>5 DEF ExplorerInv

LEMMA InputStep ==
  ASSUME ExplorerAssumption, ExplorerInv, Input
  PROVE  ExplorerInv'
<1> USE PlaceIsReal
<1> DEFINE Rest == UNCHANGED <<nodes, searchVars, probes, token, wanted>>
<1>0. ASSUME Shown, Rest PROVE ExplorerInv'
  BY <1>0, QuietStep DEF searchVars, ExplorerInv, ExplorerTypeOK
<1>1. ASSUME NEW tab \in Tabs, SwitchFolderTab(tab) PROVE ExplorerInv'
  <2>1. Shown /\ Rest
    BY <1>1, SwitchedTabTyped DEF SwitchFolderTab, Shown
  <2> QED
    BY <1>0, <2>1
<1>2. ASSUME NEW d \in Dirs, GoTo(d) PROVE ExplorerInv'
  <2>1. Shown /\ Rest
    BY <1>2, NavigateToTyped DEF GoTo, Shown
  <2> QED
    BY <1>0, <2>1
<1>3. ASSUME GoToDrive PROVE ExplorerInv'
  <2>1. Shown /\ Rest
    BY <1>3, NavigateToDriveTyped DEF GoToDrive, Shown, ExplorerAssumption
  <2> QED
    BY <1>0, <2>1
<1>4. ASSUME NEW n \in nodes \cup {Root}, ChooseNode(n) PROVE ExplorerInv'
  <2>1. Shown /\ Rest
    BY <1>4, SelectVirtualNodeTyped DEF ChooseNode, Shown
  <2> QED
    BY <1>0, <2>1
<1>5. ASSUME ChooseFavorite PROVE ExplorerInv'
  <2>1. Shown /\ Rest
    BY <1>5, OtherViewsTyped DEF ChooseFavorite, Shown, Real, Alike
  <2> QED
    BY <1>0, <2>1
<1>6. ASSUME StartSearch PROVE ExplorerInv'
  <2>1. Shown
    BY <1>6 DEF StartSearch, Shown, Real, Alike
  <2> QED
    BY <1>6, <2>1, QuietStep DEF StartSearch, ExplorerInv, ExplorerTypeOK
<1>7. ASSUME SelectSearchHistory PROVE ExplorerInv'
  <2>1. Shown /\ Rest
    BY <1>7, OtherViewsTyped DEF SelectSearchHistory, Shown, Real, Alike
  <2> QED
    BY <1>0, <2>1
<1>8. ASSUME ToggleTag PROVE ExplorerInv'
  <2>1. Shown /\ Rest
    BY <1>8, OtherViewsTyped DEF ToggleTag, Shown, Real, Alike
  <2> QED
    BY <1>0, <2>1
<1>9. ASSUME NEW b \in Books, NEW alike \in BOOLEAN, ClickMarker(b, alike) PROVE ExplorerInv'
  BY <1>9 DEF ClickMarker, ExplorerInv, ExplorerTypeOK, RealPlaceKept, searchVars
<1>10. ASSUME RefreshSimilar PROVE ExplorerInv'
  <2>1. token' \in 1 .. MaxTokens /\ ui.similar # Nothing
    BY <1>10 DEF RefreshSimilar
  <2>2. [ui.similar EXCEPT !.token = token'] \in [book : Books, token : 0 .. MaxTokens, alike : BOOLEAN]
    BY <2>1 DEF Views
  <2>3. ui' = [ui EXCEPT !.similar = [ui.similar EXCEPT !.token = token']]
    BY <1>10 DEF RefreshSimilar, Views
  <2>4. ui' \in Views /\ place' = Real(ui')
    BY <1>10, <2>2, <2>3 DEF RefreshSimilar, Real, Views
  <2>5. [book |-> ui.similar.book, token |-> token'] \in [book : Books, token : 1 .. MaxTokens]
    BY <2>1 DEF Views
  <2>6. probes' \subseteq [book : Books, token : 1 .. MaxTokens]
    BY <1>10, <2>5 DEF RefreshSimilar, ExplorerInv, ExplorerTypeOK
  <2>7. ui'.similar = [ui.similar EXCEPT !.token = token']
    BY <2>3 DEF Views
  <2>8. ui'.similar.token = token' /\ ui'.similar.book = ui.similar.book
    BY <2>1, <2>7 DEF Views
  <2>9. /\ token' = token + 1 /\ wanted' = Nothing
        /\ probes' = probes \cup {[book |-> ui.similar.book, token |-> token']}
    BY <1>10 DEF RefreshSimilar, Free
  <2>10. \A p \in probes : p.token \in Nat /\ p.token <= token
    BY DEF ExplorerInv, ExplorerTypeOK
  <2>11. \A p \in probes' : p.token <= token' /\ (p.token = token' => p.book = ui.similar.book)
    BY <2>9, <2>10
  <2>12. ExplorerTypeOK' /\ RealPlaceKept'
    BY <1>10, <2>1, <2>4, <2>6, <2>9
       DEF RefreshSimilar, Real, searchVars, ExplorerInv, ExplorerTypeOK, RealPlaceKept
  <2> QED
    BY <2>1, <2>8, <2>9, <2>11, <2>12 DEF ExplorerInv
<1>11. ASSUME LeaveSimilar PROVE ExplorerInv'
  <2>1. Shown /\ Rest
    BY <1>11, OtherViewsTyped DEF LeaveSimilar, Shown, Real, Alike
  <2> QED
    BY <1>0, <2>1
<1>12. ASSUME ReloadCurrent PROVE ExplorerInv'
  <2>1. ASSUME ui' = EnterFavoriteView(ui), UNCHANGED place PROVE Shown
    BY <2>1, OtherViewsTyped DEF Shown, Real, Alike
  <2>2. ASSUME ui' \in {NavigateToDrive(ui, Home), NavigateTo(ui, Home)}, place' = Home
        PROVE  Shown
    <3>1. Home \in Dirs
      BY DEF ExplorerAssumption
    <3>2. CASE ui' = NavigateToDrive(ui, Home)
      BY <2>2, <3>1, <3>2, NavigateToDriveTyped DEF Shown
    <3>3. CASE ui' = NavigateTo(ui, Home)
      BY <2>2, <3>1, <3>3, NavigateToTyped DEF Shown
    <3> QED
      BY <2>2, <3>2, <3>3
  <2>3. ASSUME ui' = StartScan(ui), UNCHANGED place PROVE Shown
    BY <2>3, StartScanTyped DEF Shown, Real, Alike
  <2>4. ASSUME ui.node # Nothing, NEW reachable \in BOOLEAN,
               ui' = EnterVirtualNode(ui, ui.node, reachable), UNCHANGED place
        PROVE  Shown
    <3>1. ui.node \in Nodes \cup {Root}
      BY <2>4 DEF Views
    <3> QED
      BY <2>4, <3>1, EnterVirtualNodeTyped DEF Shown
  <2>5. Shown /\ Rest
    BY <1>12, <2>1, <2>2, <2>3, <2>4 DEF ReloadCurrent
  <2> QED
    BY <1>0, <2>5
<1>13. ASSUME SyncRealTree PROVE ExplorerInv'
  <2>1. Shown /\ Rest
    BY <1>13, TreeRootForTyped DEF SyncRealTree, Shown, Alike
  <2> QED
    BY <1>0, <2>1
<1>14. ASSUME OpenInSearchTab PROVE ExplorerInv'
  <2>1. PICK switched \in BOOLEAN :
          /\ ui' = SwitchedTab(TreeRootFor(ui, switched), "search", FALSE, FALSE)
          /\ place' = IF switched THEN ui.dir ELSE place
    BY <1>14 DEF OpenInSearchTab
  <2>2. /\ TreeRootFor(ui, switched) \in Views
        /\ Real(TreeRootFor(ui, switched)) = place'
        /\ TreeRootFor(ui, switched).similar = ui.similar
    BY <2>1, TreeRootForTyped
  <2>3. "search" \in Tabs
    BY DEF Tabs
  <2>4. Shown /\ Rest
    BY <1>14, <2>1, <2>2, <2>3, SwitchedTabTyped DEF OpenInSearchTab, Shown, Alike
  <2> QED
    BY <1>0, <2>4
<1>15. ASSUME NEW n \in nodes, OpenInFoldersTab(n) PROVE ExplorerInv'
  <2> DEFINE v == [ui EXCEPT !.stash = Nothing]
             left == SwitchedTab(v, "tree", FALSE, FALSE)
  <2>1. v \in Views /\ v.stash = Nothing /\ v.similar = ui.similar
    BY DEF Views
  <2>2. left \in Views /\ left.stash = Nothing /\ Alike(left, ui)
    BY <2>1, SwitchedToTree DEF Alike
  <2>3. NodeDir[n] \in Dirs
    OBVIOUS
  <2>4. ui' = (IF left.dir = NodeDir[n] THEN left ELSE NavigateTo(left, NodeDir[n]))
        /\ place' = NodeDir[n] /\ Rest
    BY <1>15 DEF OpenInFoldersTab
  <2> HIDE DEF left
  <2>5. Shown
    BY <2>2, <2>3, <2>4, NavigateToTyped DEF Shown, Real, Alike
  <2> QED
    BY <1>0, <2>4, <2>5
<1>16. ASSUME NEW n \in nodes, DeleteVirtual(n) PROVE ExplorerInv'
  <2> DEFINE inside == ui.node \in Branch(n)
             moved == IF inside THEN [ui EXCEPT !.node = Parent[n]] ELSE ui
             reread == IF moved.node \in nodes' \cup {Root, Nothing} THEN moved
                       ELSE ExitVirtualView(moved)
  <2>1. Parent[n] \in Nodes \cup {Root}
    BY DEF ExplorerAssumption
  <2>2. moved \in Views /\ Alike(moved, ui) /\ Real(moved) = Real(ui)
    BY <2>1 DEF Views, Real, Alike
  <2>3. reread \in Views /\ Alike(reread, ui) /\ Real(reread) = Real(ui)
    <3> HIDE DEF moved
    <3> QED
      BY <2>2, ExitVirtualViewTyped DEF Alike
  <2>4. PICK reachable \in BOOLEAN :
          ui' = IF inside THEN EnterVirtualNode(reread, Parent[n], reachable) ELSE reread
    BY <1>16 DEF DeleteVirtual
  <2>5. Shown
    <3> HIDE DEF reread
    <3> QED
      BY <1>16, <2>1, <2>3, <2>4, EnterVirtualNodeTyped DEF DeleteVirtual, Shown, Alike
  <2> QED
    BY <1>16, <2>5, QuietStep DEF DeleteVirtual, searchVars, ExplorerInv, ExplorerTypeOK
<1> QED
  BY <1>1, <1>2, <1>3, <1>4, <1>5, <1>6, <1>7, <1>8, <1>9, <1>10, <1>11, <1>12, <1>13,
     <1>14, <1>15, <1>16 DEF Input

LEMMA PollStep ==
  ASSUME ExplorerAssumption, ExplorerInv, Polls
  PROVE  ExplorerInv'
<1> USE PlaceIsReal
<1>1. ASSUME PollScan PROVE ExplorerInv'
  <2>1. Shown
    <3>1. CASE ui' = [ui EXCEPT !.scan = Settled("idle")]
      BY <1>1, <3>1 DEF PollScan, Settled, Shown, Real, Alike, Views
    <3>2. CASE ui' = Show(ui, {<<"dir", ui.scan.dir>>}) /\ ui.scan.dir = ui.dir
      BY <1>1, <3>2, ShowTyped, SourcesKnown DEF PollScan, Shown, Real, Alike
    <3> QED
      BY <1>1, <3>1, <3>2 DEF PollScan
  <2> QED
    BY <1>1, <2>1, QuietStep DEF PollScan, searchVars, ExplorerInv, ExplorerTypeOK
<1>2. ASSUME PollSearch PROVE ExplorerInv'
  <2>1. Shown
    <3>1. ui' = EnterSearchView(ui) /\ place' = place
      BY <1>2 DEF PollSearch
    <3>2. /\ EnterSearchView(ui) \in Views /\ Alike(EnterSearchView(ui), ui)
          /\ EnterSearchView(ui).dir = ui.dir /\ EnterSearchView(ui).stash = ui.stash
      BY OtherViewsTyped
    <3> QED
      BY <3>1, <3>2 DEF Shown, Real, Alike
  <2> QED
    BY <1>2, <2>1, QuietStep DEF PollSearch, ExplorerInv, ExplorerTypeOK
<1>3. ASSUME PollTagSearch PROVE ExplorerInv'
  <2>1. ui.shown \cup {<<"tags", Nothing>>} \in SUBSET Sources
    BY SourcesKnown DEF Views
  <2>2. Shown
    BY ZenonT(30), <1>3, <2>1 DEF PollTagSearch, Shown, Real, Alike, Views
  <2> QED
    BY <1>3, <2>2, QuietStep DEF PollTagSearch, searchVars, ExplorerInv, ExplorerTypeOK
<1>4. ASSUME EnterSimilarView PROVE ExplorerInv'
  <2> DEFINE s == IF wanted.alike THEN {<<"similar", wanted.book>>} ELSE {}
             view == [book |-> wanted.book, token |-> token', alike |-> wanted.alike]
  <2>1. wanted \in [book : Books, alike : BOOLEAN] /\ token' \in 1 .. MaxTokens
    BY <1>4 DEF EnterSimilarView, ExplorerInv, ExplorerTypeOK
  <2>2. s \in SUBSET Sources
    BY <2>1, SourcesKnown
  <2>3. view \in [book : Books, token : 0 .. MaxTokens, alike : BOOLEAN]
    BY <2>1
  <2> DEFINE w == Show(ui, s)
  <2>4. w \in Views /\ w.dir = ui.dir /\ w.stash = ui.stash
    BY <2>2, ShowTyped
  <2>5. ui' = [w EXCEPT !.similar = view] /\ UNCHANGED place
    BY <1>4 DEF EnterSimilarView
  <2> HIDE DEF w, view, s
  <2>6. ui' \in Views /\ place' = Real(ui') /\ ui'.similar = view
    BY <2>3, <2>4, <2>5 DEF Real, Views
  <2>7. probes' \subseteq [book : Books, token : 1 .. MaxTokens]
    BY <1>4, <2>1 DEF EnterSimilarView, ExplorerInv, ExplorerTypeOK
  <2>8. ExplorerTypeOK' /\ RealPlaceKept'
    BY <1>4, <2>1, <2>6, <2>7
       DEF EnterSimilarView, Real, searchVars, ExplorerInv, ExplorerTypeOK, RealPlaceKept
  <2>9. ui'.similar.token = token' /\ ui'.similar.book = wanted.book
    BY <2>6 DEF view
  <2>10. /\ token' = token + 1 /\ wanted' = Nothing
         /\ probes' \subseteq probes \cup {[book |-> wanted.book, token |-> token']}
    BY <1>4 DEF EnterSimilarView
  <2>11. \A p \in probes : p.token \in Nat /\ p.token <= token
    BY DEF ExplorerInv, ExplorerTypeOK
  <2>12. \A p \in probes' : p.token <= token' /\ (p.token = token' => p.book = wanted.book)
    BY <2>10, <2>11
  <2> QED
    BY <2>1, <2>8, <2>9, <2>10, <2>12 DEF ExplorerInv
<1>5. ASSUME NEW p \in probes, ApplySimilarGroup(p) PROVE ExplorerInv'
  <2>1. p.book \in Books
    BY DEF ExplorerInv, ExplorerTypeOK
  <2>2. Shown
    <3>1. CASE ui' = ui
      BY <1>5, <3>1 DEF ApplySimilarGroup, Shown, Alike
    <3>2. CASE ui' = Show(ui, {<<"similar", p.book>>})
      BY <1>5, <2>1, <3>2, ShowTyped, SourcesKnown DEF ApplySimilarGroup, Shown, Real, Alike
    <3> QED
      BY <1>5, <3>1, <3>2 DEF ApplySimilarGroup
  <2> QED
    BY <1>5, <2>2, QuietStep DEF ApplySimilarGroup, searchVars, ExplorerInv, ExplorerTypeOK
<1> QED
  BY <1>1, <1>2, <1>3, <1>4, <1>5 DEF Polls

LEMMA Step ==
  ASSUME ExplorerAssumption, ExplorerInv, [ExplorerNext]_explorerVars
  PROVE  ExplorerInv'
<1> USE PlaceIsReal
<1>1. ASSUME ReadFolder PROVE ExplorerInv'
  <2>1. [ui.scan EXCEPT !.read = TRUE] \in [at : {"idle", "loading", "done"}, dir : Dirs \cup {Nothing}, read : BOOLEAN]
    BY DEF Views
  <2>2. ui' = [ui EXCEPT !.scan = [ui.scan EXCEPT !.read = TRUE]]
    BY <1>1 DEF ReadFolder, Views
  <2>3. Shown
    BY <1>1, <2>1, <2>2 DEF ReadFolder, Shown, Real, Alike, Views
  <2> QED
    BY <1>1, <2>3, QuietStep DEF ReadFolder, searchVars, ExplorerInv, ExplorerTypeOK
<1>2. ASSUME UNCHANGED explorerVars PROVE ExplorerInv'
  BY <1>2 DEF explorerVars, searchVars, ExplorerInv, ExplorerTypeOK, RealPlaceKept
<1> QED
  BY <1>1, <1>2, InputStep, PollStep DEF ExplorerNext

LEMMA ExplorerInvariance ==
  ASSUME ExplorerAssumption
  PROVE  ExplorerSpec => []ExplorerInv
<1>1. ASSUME ExplorerInit PROVE ExplorerInv
  <2>1. ui.dir = Home /\ ui.stash = Nothing /\ place = Home /\ wanted = Nothing
    BY <1>1 DEF ExplorerInit
  <2>2. ui \in Views
    <3>1. Loading(Home) \in [at : {"idle", "loading", "done"}, dir : Dirs \cup {Nothing}, read : BOOLEAN]
      BY ScanTyped DEF ExplorerAssumption
    <3> QED
      BY <1>1, <3>1 DEF ExplorerInit, Views, Tabs, ExplorerAssumption
  <2>3. /\ nodes = Nodes /\ probes = {} /\ token = 0
        /\ searching = FALSE /\ found = FALSE /\ strayed = FALSE
    BY <1>1 DEF ExplorerInit
  <2>4. ExplorerTypeOK
    <3>1. searching \in BOOLEAN /\ found \in BOOLEAN /\ strayed \in BOOLEAN
      BY <2>3, Zenon
    <3>2. token \in 0 .. MaxTokens /\ probes \subseteq [book : Books, token : 1 .. MaxTokens]
      BY <2>3, SMT DEF ExplorerAssumption
    <3>3. place \in Dirs /\ nodes \subseteq Nodes
      BY <2>1, <2>3 DEF ExplorerAssumption
    <3> QED
      BY <2>1, <2>2, <3>1, <3>2, <3>3 DEF ExplorerTypeOK
  <2> QED
    BY <1>1, <2>1, <2>3, <2>4 DEF ExplorerInv, RealPlaceKept, ExplorerInit
<1>2. ExplorerInv /\ [ExplorerNext]_explorerVars => ExplorerInv'
  BY Step
<1> QED
  BY <1>1, <1>2, PTL DEF ExplorerSpec

-------------------------------------------------------------------------------
(* What is listed.  A search that ends in another tab is left out throughout. *)

\* The flags of a view belong to its tab.
Flags(v) ==
  /\ v.favorites => v.tab = "favorites"
  /\ v.search => v.tab = "search"
  /\ v.tags <=> v.tab = "tags"
  /\ v.hunting => v.tags
  /\ v.node # Nothing => v.tab = "virtual"
  /\ v.broken => v.node # Nothing

\* The list belongs to the flags: a scan is always one of the current directory, and none
\* is under way where no folder is to be shown.
Proper(v) ==
  /\ Flags(v)
  /\ Fits(v)
  /\ v.tab = "tags" => v.scan.at = "done"
  /\ v.node = Root \/ v.broken => v.scan.at = "done" /\ v.similar = Nothing
  /\ v.similar # Nothing => ShowsRealDir(v.tab)
  /\ v.scan.at = "loading" => v.scan.dir = v.dir

\* A view that waits for its folder
Reading(v) ==
  /\ v.shown = {} /\ v.scan = Loading(v.dir) /\ v.similar = Nothing
  /\ v.node # Root /\ ~v.broken

LEMMA ReadingIsProper ==
  ASSUME NEW v \in Views, Flags(v), Reading(v), v.tab # "tags"
  PROVE  Proper(v)
BY DEF Reading, Proper, Fits, Loading

\* Everything but the list, the scan and the view of files alike
Same(w, v) ==
  /\ w.tab = v.tab /\ w.dir = v.dir /\ w.node = v.node /\ w.broken = v.broken
  /\ w.favorites = v.favorites /\ w.search = v.search /\ w.tags = v.tags
  /\ w.hunting = v.hunting

LEMMA ShowFields ==
  ASSUME NEW v \in Views, NEW s
  PROVE  LET w == Show(v, s)
         IN  Same(w, v) /\ w.shown = s /\ w.scan = Settled("done") /\ w.similar = v.similar
BY DEF Show, Views, Same

LEMMA CloseFields ==
  ASSUME NEW v \in Views
  PROVE  LET w == CloseSimilarState(v)
         IN  Same(w, v) /\ w.shown = v.shown /\ w.scan = v.scan /\ w.similar = Nothing
BY DEF CloseSimilarState, Views, Same

LEMMA StartScanFields ==
  ASSUME NEW v \in Views, v.tab # "tags"
  PROVE  LET w == StartScan(v)
         IN  Same(w, v) /\ w.shown = {} /\ w.scan = Loading(v.dir) /\ w.similar = Nothing
<1> DEFINE u == CloseSimilarState(v)
<1>1. u \in Views /\ Same(u, v) /\ u.similar = Nothing
  BY CloseTyped, CloseFields
<1>2. StartScan(v) = [u EXCEPT !.scan = Loading(v.dir), !.shown = {}]
  BY DEF StartScan, ClearedForScan, u
<1> HIDE DEF u
<1> QED
  BY <1>1, <1>2 DEF Views, Same

\* A scan begun outside the tag search leaves a proper view if the flags are proper.
LEMMA StartScanProper ==
  ASSUME NEW v \in Views, v.tab # "tags", Flags(v), v.node # Root, ~v.broken
  PROVE  Proper(StartScan(v)) /\ Reading(StartScan(v)) /\ Same(StartScan(v), v)
BY StartScanFields, StartScanTyped, ReadingIsProper DEF Same, Flags, Reading

LEMMA BeginDirViewProper ==
  ASSUME NEW v \in Views, NEW d \in Dirs, v.tab # "tags", Flags(v), v.node # Root, ~v.broken
  PROVE  Proper(BeginDirView(v, d)) /\ BeginDirView(v, d).tab = v.tab
<1> DEFINE w == [v EXCEPT !.favorites = FALSE, !.dir = d, !.viewing = d]
<1>1. w \in Views /\ w.tab = v.tab /\ w.node = v.node /\ w.broken = v.broken /\ Flags(w)
  BY DEF Views, Flags
<1> HIDE DEF w
<1> QED
  BY <1>1, StartScanProper DEF BeginDirView, w, Same

LEMMA OutOfVirtualFields ==
  ASSUME NEW v \in Views, Flags(v)
  PROVE  LET w == OutOfVirtual(v)
         IN  /\ Flags(w) /\ w.node = Nothing /\ ~w.broken /\ w.tab = v.tab /\ w.dir = v.dir
             /\ w.shown = v.shown /\ w.scan = v.scan /\ w.similar = v.similar
             /\ w.favorites = v.favorites /\ w.search = v.search
BY DEF OutOfVirtual, Views, Flags

LEMMA NavigateToProper ==
  ASSUME ExplorerAssumption, NEW v \in Views, NEW d \in Dirs, v.tab # "tags", Flags(v)
  PROVE  Proper(NavigateTo(v, d))
BY OutOfVirtualTyped, OutOfVirtualFields, BeginDirViewProper DEF NavigateTo, ExplorerAssumption

LEMMA NavigateToDriveProper ==
  ASSUME ExplorerAssumption, NEW v \in Views, NEW d \in Dirs, Proper(v)
  PROVE  Proper(NavigateToDrive(v, d))
<1> DEFINE o == OutOfVirtual(v)
           u == [o EXCEPT !.dir = d]
           w == StartScan(u)
<1>1. /\ o \in Views /\ Flags(o) /\ o.node = Nothing /\ ~o.broken /\ o.tab = v.tab
      /\ o.shown = v.shown /\ o.scan = v.scan /\ o.similar = v.similar
      /\ o.favorites = v.favorites /\ o.search = v.search
  BY OutOfVirtualTyped, OutOfVirtualFields DEF Proper
<1> HIDE DEF o
<1>2. /\ u \in Views /\ Flags(u) /\ u.node = Nothing /\ ~u.broken /\ u.tab = v.tab
      /\ u.shown = v.shown /\ u.scan = v.scan /\ u.similar = v.similar
      /\ u.favorites = v.favorites /\ u.search = v.search
  BY <1>1 DEF Views, Flags
<1>3. NavigateToDrive(v, d) = [w EXCEPT !.viewing = Nothing]
  BY DEF NavigateToDrive, o, u, w
<1> HIDE DEF u
<1>4. w \in Views /\ Proper(w)
  <2>1. CASE v.tab # "tags"
    BY <1>2, <2>1, StartScanTyped, StartScanProper DEF ExplorerAssumption
  <2>2. CASE v.tab = "tags"
    <3>1. w = u
      BY <1>2, <2>2 DEF StartScan
    <3>2. ~v.search /\ ~v.favorites /\ v.similar = Nothing /\ v.node = Nothing /\ ~v.broken
          /\ v.scan.at = "done"
      BY <2>2 DEF Proper, Flags, ShowsRealDir
    <3>3. v.shown = {<<"tags", Nothing>>} \/ v.shown = {}
      BY <2>2, <3>2 DEF Proper, Fits, Meant
    <3>4. Fits(u)
      BY <1>2, <2>2, <3>2, <3>3 DEF Fits, Meant, MayBeEmpty, ExplorerAssumption
    <3> QED
      BY <1>2, <2>2, <3>1, <3>2, <3>4 DEF Proper, ExplorerAssumption
  <2> QED
    BY <2>1, <2>2
<1> HIDE DEF w
<1> QED
  BY <1>3, <1>4 DEF Views, Proper, Flags, Fits, Meant, MayBeEmpty

LEMMA EnterVirtualNodeProper ==
  ASSUME ExplorerAssumption, NEW v \in Views, NEW n \in Nodes \cup {Root},
         NEW reachable \in BOOLEAN, v.tab = "virtual", Flags(v)
  PROVE  Proper(EnterVirtualNode(v, n, reachable))
<1> DEFINE at == [v EXCEPT !.node = n, !.saved = n, !.broken = n # Root /\ ~reachable]
<1>1. n # Nothing
  BY DEF ExplorerAssumption
<1>2. /\ at \in Views /\ at.node = n /\ at.broken = (n # Root /\ ~reachable)
      /\ at.tab = "virtual" /\ Flags(at)
  <2>1. at \in Views
    BY ZenonT(30) DEF Views
  <2>2. at.node = n /\ at.broken = (n # Root /\ ~reachable) /\ at.tab = "virtual"
    BY DEF Views
  <2>3. Flags(at)
    BY <1>1, <2>2 DEF Views, Flags
  <2> QED
    BY <2>1, <2>2, <2>3
<1> HIDE DEF at
<1>3. CASE n # Root /\ reachable
  <2> DEFINE w == [at EXCEPT !.stash = StashIfEmpty(v)]
  <2>1. StashIfEmpty(v) \in Dirs
    BY DEF StashIfEmpty, Views
  <2>2. w \in Views /\ w.node = n /\ ~w.broken /\ w.tab = "virtual" /\ Flags(w)
    BY <1>2, <1>3, <2>1 DEF Views, Flags
  <2> HIDE DEF w
  <2>3. EnterVirtualNode(v, n, reachable) = BeginDirView(w, NodeDir[n])
    BY <1>3 DEF EnterVirtualNode, w, at
  <2>4. NodeDir[n] \in Dirs
    BY <1>3 DEF ExplorerAssumption
  <2> QED
    BY <1>3, <2>2, <2>3, <2>4, BeginDirViewProper
<1>4. CASE ~(n # Root /\ reachable)
  <2> DEFINE u == Show(at, {})
             w == CloseSimilarState(u)
  <2>1. u \in Views /\ Same(u, at) /\ u.shown = {} /\ u.scan = Settled("done")
    BY <1>2, ShowTyped, ShowFields
  <2> HIDE DEF u
  <2>2. w \in Views /\ Same(w, at) /\ w.shown = {} /\ w.scan = Settled("done") /\ w.similar = Nothing
    BY <2>1, CloseTyped, CloseFields DEF Same
  <2> HIDE DEF w
  <2>3. EnterVirtualNode(v, n, reachable) = [w EXCEPT !.favorites = FALSE, !.viewing = Nothing]
    BY <1>4 DEF EnterVirtualNode, ShowEmptyListing, w, u, at
  <2> QED
    BY <1>2, <1>4, <2>2, <2>3 DEF Views, Same, Proper, Flags, Fits, MayBeEmpty, Settled
<1> QED
  BY <1>3, <1>4

LEMMA SelectVirtualNodeProper ==
  ASSUME ExplorerAssumption, NEW v \in Views, NEW n \in Nodes \cup {Root},
         NEW reachable \in BOOLEAN, v.tab = "virtual", Flags(v), v.node = n => Proper(v)
  PROVE  Proper(SelectVirtualNode(v, n, reachable))
BY EnterVirtualNodeProper DEF SelectVirtualNode

\* A view that closes what was alike and shows one list that is complete
LEMMA ListProper ==
  ASSUME ExplorerAssumption, NEW v \in Views, Flags(v), v.node = Nothing
  PROVE  /\ v.tab = "favorites" => Proper(EnterFavoriteView(v))
         /\ v.tab = "search" => Proper(EnterSearchView(v))
<1>1. ASSUME NEW s, v.tab \in {"favorites", "search"}, s \in Sources
      PROVE  LET w == CloseSimilarState(Show(v, {s}))
             IN  /\ w \in Views /\ Same(w, v) /\ w.shown = {s} /\ w.similar = Nothing
                 /\ w.scan = Settled("done")
  <2> DEFINE u == Show(v, {s})
  <2>1. u \in Views /\ Same(u, v) /\ u.shown = {s} /\ u.scan = Settled("done")
    BY <1>1, ShowTyped, ShowFields
  <2> HIDE DEF u
  <2>2. LET w == CloseSimilarState(u)
        IN  /\ w \in Views /\ Same(w, v) /\ w.shown = {s} /\ w.similar = Nothing
            /\ w.scan = Settled("done")
    BY <2>1, CloseTyped, CloseFields DEF Same
  <2> QED
    BY <2>2 DEF u
<1>2. ASSUME v.tab = "favorites" PROVE Proper(EnterFavoriteView(v))
  <2> DEFINE w == CloseSimilarState(Show(v, {<<"favorites", Nothing>>}))
  <2>1. /\ w \in Views /\ Same(w, v) /\ w.shown = {<<"favorites", Nothing>>} /\ w.similar = Nothing
        /\ w.scan = Settled("done")
    BY <1>1, <1>2, SourcesKnown
  <2> HIDE DEF w
  <2>2. EnterFavoriteView(v) = [w EXCEPT !.favorites = TRUE]
    BY DEF EnterFavoriteView, w
  <2> QED
    BY <1>2, <2>1, <2>2
       DEF Views, Same, Proper, Flags, Fits, Meant, Settled, ExplorerAssumption
<1>3. ASSUME v.tab = "search" PROVE Proper(EnterSearchView(v))
  <2> DEFINE w == CloseSimilarState(Show(v, {<<"search", Nothing>>}))
  <2>1. /\ w \in Views /\ Same(w, v) /\ w.shown = {<<"search", Nothing>>} /\ w.similar = Nothing
        /\ w.scan = Settled("done")
    BY <1>1, <1>3, SourcesKnown
  <2> HIDE DEF w
  <2>2. EnterSearchView(v) = [w EXCEPT !.search = TRUE]
    BY DEF EnterSearchView, w
  <2> QED
    BY <1>3, <2>1, <2>2
       DEF Views, Same, Proper, Flags, Fits, Meant, Settled, ExplorerAssumption
<1> QED
  BY <1>2, <1>3

LEMMA RestartTagSearchProper ==
  ASSUME ExplorerAssumption, NEW v \in Views, NEW chosen \in BOOLEAN,
         v.tab = "tags", Flags(v), v.similar = Nothing
  PROVE  Proper(RestartTagSearch(v, chosen))
<1> DEFINE w == Show(v, {})
<1>1. /\ w \in Views /\ Same(w, v) /\ w.shown = {} /\ w.scan = Settled("done")
      /\ w.similar = Nothing
  BY ShowTyped, ShowFields
<1> HIDE DEF w
<1>2. RestartTagSearch(v, chosen) = [w EXCEPT !.hunting = chosen]
  BY DEF RestartTagSearch, w
<1> QED
  BY <1>1, <1>2 DEF Views, Same, Proper, Flags, Fits, MayBeEmpty, Settled, ShowsRealDir,
                    ExplorerAssumption

-------------------------------------------------------------------------------
(* Changing tabs *)

\* Pressing the tab one is in does nothing.
LEMMA SameTab ==
  ASSUME ExplorerAssumption, NEW v \in Views, Proper(v), nodes \subseteq Nodes,
         NEW reachable \in BOOLEAN, NEW chosen \in BOOLEAN
  PROVE  SwitchedTab(v, v.tab, reachable, chosen) = v
<1> DEFINE v1 == [v EXCEPT !.tab = v.tab]
<1>1. v1 = v
  BY DEF Views
<1>2. EndOthers(v, v.tab) = v
  BY <1>1 DEF EndOthers, ExitVirtualView, ExitFavoriteView, ExitSearchView, ExitTagSearchView,
              Proper, Flags
<1> QED
  BY <1>2 DEF SwitchedTab

\* What the functions that end a view leave: outside the tag search, the same view or one
\* that waits for its folder.
LEMMA ExitVirtualLeaves ==
  ASSUME NEW v \in Views, v.broken => v.node # Nothing, Root # Nothing
  PROVE  LET w == ExitVirtualView(v)
         IN  /\ w \in Views /\ w.tab = v.tab /\ w.node = Nothing /\ ~w.broken
             /\ w.favorites = v.favorites /\ w.search = v.search
             /\ w.tags = v.tags /\ w.hunting = v.hunting
             /\ v.tab # "tags" => w = v \/ Reading(w)
<1>1. CASE v.node = Nothing
  BY <1>1 DEF ExitVirtualView, Views
<1>2. CASE v.node # Nothing
  <2> DEFINE o == OutOfVirtual(v)
             u == [o EXCEPT !.dir = Real(v), !.viewing = Real(v)]
  <2>1. /\ o \in Views /\ o.node = Nothing /\ ~o.broken /\ o.tab = v.tab
        /\ o.favorites = v.favorites /\ o.search = v.search
        /\ o.tags = v.tags /\ o.hunting = v.hunting
    BY DEF OutOfVirtual, Views
  <2> HIDE DEF o
  <2>2. Real(v) \in Dirs
    BY DEF Real, Views
  <2>3. /\ u \in Views /\ u.node = Nothing /\ ~u.broken /\ u.tab = v.tab
        /\ u.favorites = v.favorites /\ u.search = v.search
        /\ u.tags = v.tags /\ u.hunting = v.hunting
    BY <2>1, <2>2 DEF Views
  <2> HIDE DEF u
  <2>4. ExitVirtualView(v) = StartScan(u)
    BY <1>2 DEF ExitVirtualView, u, o, Real
  <2>5. CASE v.tab = "tags"
    BY <2>3, <2>4, <2>5 DEF StartScan
  <2>6. CASE v.tab # "tags"
    BY <2>3, <2>4, <2>6, StartScanTyped, StartScanFields DEF Same, Reading
  <2> QED
    BY <2>5, <2>6
<1> QED
  BY <1>1, <1>2

LEMMA ExitFlagLeaves ==
  ASSUME NEW v \in Views, v.node # Root, ~v.broken
  PROVE  /\ LET w == ExitFavoriteView(v)
            IN  /\ w \in Views /\ w.tab = v.tab /\ w.node = v.node /\ ~w.broken
                /\ ~w.favorites /\ w.search = v.search
                /\ w.tags = v.tags /\ w.hunting = v.hunting
                /\ v.tab # "tags" => w = v \/ Reading(w)
         /\ LET w == ExitSearchView(v)
            IN  /\ w \in Views /\ w.tab = v.tab /\ w.node = v.node /\ ~w.broken
                /\ w.favorites = v.favorites /\ ~w.search
                /\ w.tags = v.tags /\ w.hunting = v.hunting
                /\ v.tab # "tags" => w = v \/ Reading(w)
         /\ LET w == ExitTagSearchView(v)
            IN  /\ w \in Views /\ w.tab = v.tab /\ w.node = v.node /\ ~w.broken
                /\ w.favorites = v.favorites /\ w.search = v.search
                /\ ~w.tags
                /\ w.hunting => v.hunting /\ ~v.tags
                /\ v.tab # "tags" => w = v \/ Reading(w)
<1> DEFINE Rest(w) == w \in Views /\ w.tab = v.tab /\ w.node = v.node /\ ~w.broken
                      /\ (v.tab # "tags" => w = v \/ Reading(w))
<1>1. ASSUME NEW u \in Views, u.tab = v.tab, u.node = v.node, ~u.broken
      PROVE  LET w == StartScan(u)
             IN  /\ w \in Views /\ w.tab = v.tab /\ w.node = v.node /\ ~w.broken
                 /\ w.favorites = u.favorites /\ w.search = u.search
                 /\ w.tags = u.tags /\ w.hunting = u.hunting
                 /\ v.tab # "tags" => Reading(w)
  <2>1. CASE u.tab = "tags"
    BY <1>1, <2>1 DEF StartScan
  <2>2. CASE u.tab # "tags"
    BY <1>1, <2>2, StartScanTyped, StartScanFields DEF Same, Reading
  <2> QED
    BY <2>1, <2>2
<1>2. LET w == ExitFavoriteView(v)
      IN  /\ Rest(w) /\ ~w.favorites /\ w.search = v.search
          /\ w.tags = v.tags /\ w.hunting = v.hunting
  <2> DEFINE u == [v EXCEPT !.favorites = FALSE]
  <2>1. /\ u \in Views /\ u.tab = v.tab /\ u.node = v.node /\ ~u.broken /\ ~u.favorites
        /\ u.search = v.search /\ u.tags = v.tags /\ u.hunting = v.hunting
    BY DEF Views
  <2> HIDE DEF u
  <2>2. CASE v.favorites
    BY <1>1, <2>1, <2>2 DEF ExitFavoriteView, u
  <2>3. CASE ~v.favorites
    BY <2>3 DEF ExitFavoriteView
  <2> QED
    BY <2>2, <2>3
<1>3. LET w == ExitSearchView(v)
      IN  /\ Rest(w) /\ ~w.search /\ w.favorites = v.favorites
          /\ w.tags = v.tags /\ w.hunting = v.hunting
  <2> DEFINE u == [v EXCEPT !.search = FALSE]
  <2>1. /\ u \in Views /\ u.tab = v.tab /\ u.node = v.node /\ ~u.broken /\ ~u.search
        /\ u.favorites = v.favorites /\ u.tags = v.tags /\ u.hunting = v.hunting
    BY DEF Views
  <2> HIDE DEF u
  <2>2. CASE v.search
    BY <1>1, <2>1, <2>2 DEF ExitSearchView, u
  <2>3. CASE ~v.search
    BY <2>3 DEF ExitSearchView
  <2> QED
    BY <2>2, <2>3
<1>4. LET w == ExitTagSearchView(v)
      IN  /\ Rest(w) /\ ~w.tags /\ w.favorites = v.favorites /\ w.search = v.search
          /\ w.hunting => v.hunting /\ ~v.tags
  <2> DEFINE u == [v EXCEPT !.tags = FALSE, !.hunting = FALSE]
  <2>1. /\ u \in Views /\ u.tab = v.tab /\ u.node = v.node /\ ~u.broken /\ ~u.tags
        /\ u.favorites = v.favorites /\ u.search = v.search /\ ~u.hunting
    BY DEF Views
  <2> HIDE DEF u
  <2>2. CASE v.tags
    BY <1>1, <2>1, <2>2 DEF ExitTagSearchView, u
  <2>3. CASE ~v.tags
    BY <2>3 DEF ExitTagSearchView
  <2> QED
    BY <2>2, <2>3
<1> HIDE DEF Rest
<1> QED
  BY <1>2, <1>3, <1>4 DEF Rest

LEMMA ExitSimilarLeaves ==
  ASSUME NEW v \in Views, v.node # Root, ~v.broken
  PROVE  LET w == ExitSimilarView(v)
         IN  /\ w \in Views /\ w.tab = v.tab /\ w.node = v.node /\ ~w.broken
             /\ w.favorites = v.favorites /\ w.search = v.search
             /\ w.tags = v.tags /\ w.hunting = v.hunting
             /\ v.tab # "tags" => w.similar = Nothing /\ (w = v \/ Reading(w))
<1>1. CASE v.similar = Nothing
  BY <1>1 DEF ExitSimilarView
<1>2. CASE v.similar # Nothing
  <2> DEFINE u == CloseSimilarState(v)
  <2>1. u \in Views /\ Same(u, v) /\ u.similar = Nothing
    BY CloseTyped, CloseFields
  <2> HIDE DEF u
  <2>2. ExitSimilarView(v) = StartScan(u)
    BY <1>2 DEF ExitSimilarView, u
  <2>3. CASE v.tab = "tags"
    BY <2>1, <2>2, <2>3 DEF Same, StartScan
  <2>4. CASE v.tab # "tags"
    BY <2>1, <2>2, <2>4, StartScanTyped, StartScanFields DEF Same, Reading
  <2> QED
    BY <2>3, <2>4
<1> QED
  BY <1>1, <1>2

\* Leaving for another tab ends what the tab left shows: either something ended, and the
\* folder is read again, or nothing did, and the list is still that of the folder.
Left(w, v) == Reading(w) \/ w = [v EXCEPT !.tab = w.tab]

LEMMA EndOthersLeaves ==
  ASSUME ExplorerAssumption, NEW v \in Views, Proper(v), NEW tab \in Tabs, tab # v.tab
  PROVE  LET w == EndOthers(v, tab)
         IN  /\ w \in Views /\ w.tab = tab /\ w.node = Nothing /\ ~w.broken
             /\ ~w.favorites /\ ~w.search /\ ~w.tags /\ ~w.hunting
             /\ tab # "tags" => w.similar = Nothing /\ Left(w, v)
<1> DEFINE v1 == [v EXCEPT !.tab = tab]
           v2 == IF tab = "virtual" THEN v1 ELSE ExitVirtualView(v1)
           v3 == IF tab = "favorites" THEN v2 ELSE ExitFavoriteView(v2)
           v4 == IF tab = "search" THEN v3 ELSE ExitSearchView(v3)
           v5 == IF tab = "tags" THEN v4 ELSE ExitTagSearchView(v4)
           v6 == ExitSimilarView(v5)
           Kept(x) == x \in Views /\ x.tab = tab /\ (tab # "tags" => Left(x, v))
           Outside(x) == x.node = Nothing /\ ~x.broken
<1>1. /\ v.favorites => v.tab = "favorites"
      /\ v.search => v.tab = "search"
      /\ v.tags <=> v.tab = "tags"
      /\ v.hunting => v.tags
      /\ v.node # Nothing => v.tab = "virtual"
      /\ v.broken => v.node # Nothing
      /\ Root # Nothing
  BY DEF Proper, Flags, ExplorerAssumption
<1>2. /\ Kept(v1) /\ v1.node = v.node /\ v1.broken = v.broken
      /\ v1.favorites = v.favorites /\ v1.search = v.search /\ v1.tags = v.tags
      /\ v1.hunting = v.hunting
  BY DEF Views, Left
<1> HIDE DEF v1
<1>3. /\ Kept(v2) /\ Outside(v2)
      /\ v2.favorites = v.favorites /\ v2.search = v.search /\ v2.tags = v.tags
      /\ v2.hunting = v.hunting
  <2>1. CASE tab = "virtual"
    BY <1>1, <1>2, <2>1
  <2>2. CASE tab # "virtual"
    BY <1>1, <1>2, <2>2, ExitVirtualLeaves DEF Left
  <2> QED
    BY <2>1, <2>2
<1> HIDE DEF v2
<1>4. /\ Kept(v3) /\ Outside(v3)
      /\ ~v3.favorites /\ v3.search = v.search /\ v3.tags = v.tags /\ v3.hunting = v.hunting
  <2>1. CASE tab = "favorites"
    BY <1>1, <1>3, <2>1
  <2>2. CASE tab # "favorites"
    BY <1>1, <1>3, <2>2, ExitFlagLeaves DEF Left
  <2> QED
    BY <2>1, <2>2
<1> HIDE DEF v3
<1>5. /\ Kept(v4) /\ Outside(v4)
      /\ ~v4.favorites /\ ~v4.search /\ v4.tags = v.tags /\ v4.hunting = v.hunting
  <2>1. CASE tab = "search"
    BY <1>1, <1>4, <2>1
  <2>2. CASE tab # "search"
    BY <1>1, <1>4, <2>2, ExitFlagLeaves DEF Left
  <2> QED
    BY <2>1, <2>2
<1> HIDE DEF v4
<1>6. /\ Kept(v5) /\ Outside(v5)
      /\ ~v5.favorites /\ ~v5.search /\ ~v5.tags /\ ~v5.hunting
  <2>1. CASE tab = "tags"
    BY <1>1, <1>5, <2>1
  <2>2. CASE tab # "tags"
    BY <1>1, <1>5, <2>2, ExitFlagLeaves DEF Left
  <2> QED
    BY <2>1, <2>2
<1> HIDE DEF v5
<1>7. /\ Kept(v6) /\ Outside(v6)
      /\ ~v6.favorites /\ ~v6.search /\ ~v6.tags /\ ~v6.hunting
      /\ tab # "tags" => v6.similar = Nothing
  BY <1>1, <1>6, ExitSimilarLeaves DEF Left
<1>8. EndOthers(v, tab) = v6
  BY DEF EndOthers, v1, v2, v3, v4, v5
<1> HIDE DEF v6
<1> QED
  BY <1>7, <1>8

LEMMA SwitchedTabProper ==
  ASSUME ExplorerAssumption, NEW v \in Views, Proper(v), nodes \subseteq Nodes,
         NEW tab \in Tabs, NEW reachable \in BOOLEAN, NEW chosen \in BOOLEAN
  PROVE  Proper(SwitchedTab(v, tab, reachable, chosen))
<1> DEFINE w == EndOthers(v, tab)
<1>1. CASE v.tab = tab
  BY <1>1, SameTab
<1>2. CASE v.tab # tab
  <2>1. /\ w \in Views /\ w.tab = tab /\ w.node = Nothing /\ ~w.broken
        /\ ~w.favorites /\ ~w.search /\ ~w.tags /\ ~w.hunting
        /\ tab # "tags" => w.similar = Nothing /\ Left(w, v)
    BY <1>2, EndOthersLeaves
  <2> HIDE DEF w
  <2>2. tab # "tags" => Flags(w)
    BY <2>1 DEF Flags
  <2>3. CASE tab = "favorites"
    <3>1. SwitchedTab(v, tab, reachable, chosen) = EnterFavoriteView(w)
      BY <1>2, <2>3 DEF SwitchedTab, w
    <3> QED
      BY <2>1, <2>2, <2>3, <3>1, ListProper
  <2>4. CASE tab = "virtual"
    <3>1. ResolveVirtual(v, nodes) \in Nodes \cup {Root}
      BY DEF ResolveVirtual
    <3>2. SwitchedTab(v, tab, reachable, chosen)
            = SelectVirtualNode(w, ResolveVirtual(v, nodes), reachable)
      BY <1>2, <2>4 DEF SwitchedTab, w
    <3>3. Nothing \notin Nodes \cup {Root}
      BY DEF ExplorerAssumption
    <3> QED
      BY <2>1, <2>2, <2>4, <3>1, <3>2, <3>3, SelectVirtualNodeProper
  <2>5. CASE tab = "tags"
    <3> DEFINE c == CloseSimilarState(w)
               u == [c EXCEPT !.tags = TRUE]
    <3>1. c \in Views /\ Same(c, w) /\ c.similar = Nothing
      BY <2>1, CloseTyped, CloseFields
    <3> HIDE DEF c
    <3>2. u \in Views /\ u.tab = "tags" /\ u.similar = Nothing /\ Flags(u)
      BY <2>1, <2>5, <3>1 DEF Same, Views, Flags
    <3>3. SwitchedTab(v, tab, reachable, chosen) = RestartTagSearch(u, chosen)
      BY <1>2, <2>5 DEF SwitchedTab, EnterTagSearchView, w, c
    <3> HIDE DEF u
    <3> QED
      BY <3>2, <3>3, RestartTagSearchProper
  <2>6. CASE tab \in {"tree", "search"}
    <3>1. SwitchedTab(v, tab, reachable, chosen) = w
      BY <1>2, <2>6 DEF SwitchedTab, w
    <3>2. CASE Reading(w)
      BY <2>1, <2>2, <2>6, <3>1, <3>2, ReadingIsProper
    <3>3. CASE ~Reading(w)
      <4>1. w = [v EXCEPT !.tab = tab]
        BY <2>1, <2>6, <3>3 DEF Left
      <4>2. /\ w.shown = v.shown /\ w.scan = v.scan /\ w.dir = v.dir
            /\ v.similar = Nothing /\ v.node = Nothing /\ ~v.broken
            /\ ~v.favorites /\ ~v.search /\ ~v.tags
        BY <2>1, <2>6, <4>1 DEF Views
      <4>3. v.tab # "tags"
        BY <4>2 DEF Proper, Flags
      <4>4. Fits(w)
        BY <2>1, <2>6, <4>2, <4>3 DEF Proper, Fits, Meant, MayBeEmpty
      <4> QED
        BY <2>1, <2>2, <2>6, <3>1, <4>2, <4>4 DEF Proper, ExplorerAssumption
    <3> QED
      BY <3>2, <3>3
  <2> QED
    BY <2>3, <2>4, <2>5, <2>6 DEF Tabs
<1> QED
  BY <1>1, <1>2

-------------------------------------------------------------------------------
(* Steps *)

\* A click on a marker waits in the list of a folder that can be shown.
ListInv ==
  /\ Proper(ui)
  /\ wanted # Nothing => MarkerViewActive(ui) /\ ui.node # Root /\ ~ui.broken

LEMMA ViewIsProper ==
  ASSUME ExplorerAssumption, ExplorerInv, ListInv
  PROVE  /\ ui \in Views /\ ui.dir \in Dirs /\ nodes \subseteq Nodes
         /\ Proper(ui) /\ Flags(ui)
         /\ NodeDir \in [Nodes -> Dirs] /\ Home \in Dirs /\ Root # Nothing /\ Nothing \notin Nodes
BY PlaceIsReal DEF ListInv, Proper, ExplorerAssumption

LEMMA StartScanAnywhere ==
  ASSUME ExplorerAssumption, NEW v \in Views, Proper(v), v.node = Nothing
  PROVE  Proper(StartScan(v))
<1>1. CASE v.tab = "tags"
  BY <1>1 DEF StartScan
<1>2. CASE v.tab # "tags"
  BY <1>2, StartScanProper DEF Proper, Flags, ExplorerAssumption
<1> QED
  BY <1>1, <1>2

LEMMA TreeRootForProper ==
  ASSUME NEW v \in Views, Proper(v), NEW switched
  PROVE  Proper(TreeRootFor(v, switched))
<1>1. CASE switched
  BY <1>1 DEF TreeRootFor, Views, Proper, Flags, Fits, Meant, MayBeEmpty
<1>2. CASE ~switched
  BY <1>2 DEF TreeRootFor
<1> QED
  BY <1>1, <1>2

LEMMA ListInput ==
  ASSUME ExplorerAssumption, ExplorerInv, ListInv, Input
  PROVE  ListInv'
<1> USE ViewIsProper
<1>0. ASSUME Proper(ui'), wanted' = Nothing PROVE ListInv'
  BY <1>0 DEF ListInv, Proper, Flags, Fits, Meant, MayBeEmpty
<1>1. ASSUME NEW tab \in Tabs, SwitchFolderTab(tab) PROVE ListInv'
  BY <1>0, <1>1, SwitchedTabProper DEF SwitchFolderTab, Free
<1>2. ASSUME NEW d \in Dirs, GoTo(d) PROVE ListInv'
  BY <1>0, <1>2, NavigateToProper DEF GoTo, Free, ShowsRealDir
<1>3. ASSUME GoToDrive PROVE ListInv'
  BY <1>0, <1>3, NavigateToDriveProper DEF GoToDrive, Free
<1>4. ASSUME NEW n \in nodes \cup {Root}, ChooseNode(n) PROVE ListInv'
  BY <1>0, <1>4, SelectVirtualNodeProper DEF ChooseNode, Free
<1>5. ASSUME ChooseFavorite PROVE ListInv'
  <2>1. ui.tab = "favorites" /\ ui.node = Nothing
    BY <1>5 DEF ChooseFavorite, Flags
  <2> QED
    BY <1>0, <1>5, <2>1, ListProper DEF ChooseFavorite, Free
<1>6. ASSUME StartSearch PROVE ListInv'
  BY <1>0, <1>6 DEF StartSearch, Free
<1>7. ASSUME SelectSearchHistory PROVE ListInv'
  <2>1. ui.tab = "search" /\ ui.node = Nothing
    BY <1>7 DEF SelectSearchHistory, Flags
  <2> QED
    BY <1>0, <1>7, <2>1, ListProper DEF SelectSearchHistory, Free
<1>8. ASSUME ToggleTag PROVE ListInv'
  <2>1. ui.tab = "tags" /\ ui.similar = Nothing
    BY <1>8 DEF ToggleTag, Proper, ShowsRealDir
  <2> QED
    BY <1>0, <1>8, <2>1, RestartTagSearchProper DEF ToggleTag, Free
<1>9. ASSUME NEW b \in Books, NEW alike \in BOOLEAN, ClickMarker(b, alike) PROVE ListInv'
  <2>1. ui' = ui /\ MarkerViewActive(ui) /\ ui.shown # {}
    BY <1>9 DEF ClickMarker
  <2>2. ui.node # Root /\ ~ui.broken
    BY <2>1 DEF Proper, Fits
  <2> QED
    BY <2>1, <2>2 DEF ListInv, Proper, Flags, Fits, Meant, MayBeEmpty, MarkerViewActive
<1>10. ASSUME RefreshSimilar PROVE ListInv'
  <2>1. ui' = [ui EXCEPT !.similar = [ui.similar EXCEPT !.token = token']]
        /\ ui.similar # Nothing /\ wanted' = Nothing
    BY <1>10 DEF RefreshSimilar, Views, Free
  <2>2. ui.similar \in [book : Books, token : 0 .. MaxTokens, alike : BOOLEAN]
    BY <2>1 DEF Views
  <2>3. [ui.similar EXCEPT !.token = token'] \in [book : Books, token : 0 .. MaxTokens, alike : BOOLEAN]
    BY <1>10, <2>2, PlaceIsReal DEF RefreshSimilar
  <2>4. ui'.similar # Nothing /\ ui'.similar.book = ui.similar.book
    BY <2>1, <2>2, <2>3 DEF Views, ExplorerAssumption
  <2>5. Proper(ui')
    BY <2>1, <2>4 DEF Views, Proper, Flags, Fits, Meant, MayBeEmpty
  <2> QED
    BY <1>0, <2>1, <2>5
<1>11. ASSUME LeaveSimilar PROVE ListInv'
  <2>1. /\ ui.tab # "tags" /\ ui.node # Root /\ ~ui.broken /\ wanted' = Nothing
        /\ ui' = ExitSimilarView(ui)
    BY <1>11 DEF LeaveSimilar, Proper, ShowsRealDir, Free
  <2> DEFINE u == CloseSimilarState(ui)
  <2>2. u \in Views /\ Same(u, ui) /\ Flags(u)
    BY CloseTyped, CloseFields DEF Same, Flags
  <2> HIDE DEF u
  <2>3. ui' = StartScan(u)
    BY <1>11, <2>1 DEF LeaveSimilar, ExitSimilarView, u
  <2> QED
    BY <1>0, <2>1, <2>2, <2>3, StartScanProper DEF Same
<1>12. ASSUME ReloadCurrent PROVE ListInv'
  <2>1. ASSUME ui.favorites, ui' = EnterFavoriteView(ui) PROVE Proper(ui')
    <3>1. ui.tab = "favorites" /\ ui.node = Nothing
      BY <2>1 DEF Flags
    <3> QED
      BY <2>1, <3>1, ListProper
  <2>2. ASSUME ui' = NavigateToDrive(ui, Home) PROVE Proper(ui')
    BY <2>2, NavigateToDriveProper
  <2>3. ASSUME ui.viewing # Nothing, ui' = NavigateTo(ui, Home) PROVE Proper(ui')
    <3>1. CASE ui.tab # "tags"
      BY <2>3, <3>1, NavigateToProper
    <3>2. CASE ui.tab = "tags"
      <4> DEFINE o == OutOfVirtual(ui)
                 w == [o EXCEPT !.favorites = FALSE, !.dir = Home, !.viewing = Home]
      <4>1. /\ o \in Views /\ Flags(o) /\ o.node = Nothing /\ ~o.broken /\ o.tab = ui.tab
            /\ o.shown = ui.shown /\ o.scan = ui.scan /\ o.similar = ui.similar
            /\ o.favorites = ui.favorites /\ o.search = ui.search
        BY OutOfVirtualTyped, OutOfVirtualFields
      <4> HIDE DEF o
      <4>2. /\ w \in Views /\ Flags(w) /\ w.node = Nothing /\ ~w.broken /\ w.tab = "tags"
            /\ w.shown = ui.shown /\ w.scan = ui.scan /\ w.similar = ui.similar
            /\ ~w.favorites /\ w.search = ui.search
        BY <3>2, <4>1 DEF Views, Flags
      <4>3. ui' = w
        BY <2>3, <3>2, <4>2 DEF NavigateTo, BeginDirView, StartScan, w, o
      <4> HIDE DEF w
      <4>4. ~ui.search /\ ~ui.favorites /\ ui.similar = Nothing /\ ui.node = Nothing /\ ~ui.broken
        BY <3>2 DEF Proper, Flags, ShowsRealDir
      <4>5. Fits(w)
        BY <3>2, <4>2, <4>4 DEF Proper, Fits, Meant, MayBeEmpty
      <4> QED
        BY <3>2, <4>2, <4>3, <4>4, <4>5 DEF Proper
    <3> QED
      BY <3>1, <3>2
  <2>4. ASSUME ui.node = Nothing, ui' = StartScan(ui) PROVE Proper(ui')
    BY <2>4, StartScanAnywhere
  <2>5. ASSUME ui.node # Nothing, NEW reachable \in BOOLEAN,
               ui' = EnterVirtualNode(ui, ui.node, reachable)
        PROVE  Proper(ui')
    <3>1. ui.node \in Nodes \cup {Root} /\ ui.tab = "virtual"
      BY <2>5 DEF Views, Flags
    <3> QED
      BY <2>5, <3>1, EnterVirtualNodeProper
  <2>6. Proper(ui') /\ wanted' = Nothing
    BY <1>12, <2>1, <2>2, <2>3, <2>4, <2>5 DEF ReloadCurrent, Free
  <2> QED
    BY <1>0, <2>6
<1>13. ASSUME SyncRealTree PROVE ListInv'
  BY <1>0, <1>13, TreeRootForProper DEF SyncRealTree, Free
<1>14. ASSUME OpenInSearchTab PROVE ListInv'
  <2>1. PICK switched \in BOOLEAN :
          ui' = SwitchedTab(TreeRootFor(ui, switched), "search", FALSE, FALSE)
    BY <1>14 DEF OpenInSearchTab
  <2>2. TreeRootFor(ui, switched) \in Views /\ Proper(TreeRootFor(ui, switched))
    BY TreeRootForTyped, TreeRootForProper
  <2>3. "search" \in Tabs
    BY DEF Tabs
  <2> QED
    BY <1>0, <1>14, <2>1, <2>2, <2>3, SwitchedTabProper DEF OpenInSearchTab, Free
<1>15. ASSUME NEW n \in nodes, OpenInFoldersTab(n) PROVE ListInv'
  <2> DEFINE v == [ui EXCEPT !.stash = Nothing]
             left == SwitchedTab(v, "tree", FALSE, FALSE)
  <2>1. v \in Views /\ v.stash = Nothing /\ Proper(v) /\ v.tab = "virtual"
    BY <1>15 DEF OpenInFoldersTab, Views, Proper, Flags, Fits, Meant, MayBeEmpty
  <2>2. "tree" \in Tabs
    BY DEF Tabs
  <2> HIDE DEF v
  <2>3. left \in Views /\ Proper(left)
    BY <2>1, <2>2, SwitchedToTree, SwitchedTabProper
  <2>4. left.tab = "tree"
    <3> DEFINE w == EndOthers(v, "tree")
    <3>1. w.tab = "tree"
      BY <2>1, <2>2, EndOthersLeaves
    <3>2. left = w
      BY DEF SwitchedTab
    <3> QED
      BY <3>1, <3>2
  <2>5. NodeDir[n] \in Dirs
    OBVIOUS
  <2>6. ui' = (IF left.dir = NodeDir[n] THEN left ELSE NavigateTo(left, NodeDir[n]))
        /\ wanted' = Nothing
    BY <1>15 DEF OpenInFoldersTab, Free, v
  <2> HIDE DEF left
  <2>7. Proper(ui')
    BY <2>3, <2>4, <2>5, <2>6, NavigateToProper DEF Proper
  <2> QED
    BY <1>0, <2>6, <2>7
<1>16. ASSUME NEW n \in nodes, DeleteVirtual(n) PROVE ListInv'
  <2> DEFINE inside == ui.node \in Branch(n)
             moved == IF inside THEN [ui EXCEPT !.node = Parent[n]] ELSE ui
             reread == IF moved.node \in nodes' \cup {Root, Nothing} THEN moved
                       ELSE ExitVirtualView(moved)
  <2>1. Parent[n] \in Nodes \cup {Root}
    BY DEF ExplorerAssumption
  <2>2. PICK reachable \in BOOLEAN :
          ui' = IF inside THEN EnterVirtualNode(reread, Parent[n], reachable) ELSE reread
    BY <1>16 DEF DeleteVirtual
  <2>3. wanted' = Nothing
    BY <1>16 DEF DeleteVirtual, Free
  <2>4. Branch(n) \subseteq Nodes
    BY DEF Branch
  <2>5. CASE inside
    <3>1. ui.node # Nothing /\ ui.tab = "virtual"
      BY <2>4, <2>5 DEF Flags
    <3>2. Parent[n] # Nothing
      BY <2>1
    <3> DEFINE m == [ui EXCEPT !.node = Parent[n]]
    <3>3. m \in Views /\ m.tab = "virtual" /\ m.node # Nothing /\ Flags(m)
      BY <2>1, <3>1, <3>2 DEF Views, Flags
    <3>4. moved = m
      BY <2>5
    <3> HIDE DEF m, moved
    <3>5. reread \in Views /\ reread.tab = "virtual" /\ Flags(reread)
      BY <3>3, <3>4, ExitVirtualLeaves DEF Flags
    <3> HIDE DEF reread
    <3> QED
      BY <1>0, <2>1, <2>2, <2>3, <2>5, <3>5, EnterVirtualNodeProper
  <2>6. CASE ~inside
    <3>1. ui' = reread /\ moved = ui
      BY <2>2, <2>6
    <3>2. CASE ui.node \in nodes' \cup {Root, Nothing}
      BY <1>0, <2>3, <3>1, <3>2
    <3>3. CASE ui.node \notin nodes' \cup {Root, Nothing}
      <4>1. ui' = ExitVirtualView(ui) /\ ui.tab = "virtual"
        BY <3>1, <3>3 DEF Flags
      <4> DEFINE w == ExitVirtualView(ui)
      <4>2. /\ w \in Views /\ w.tab = "virtual" /\ Flags(w) /\ (w = ui \/ Reading(w))
        BY <4>1, ExitVirtualLeaves DEF Flags
      <4> HIDE DEF w
      <4>3. Proper(w)
        BY <4>2, ReadingIsProper
      <4> QED
        BY <1>0, <2>3, <4>1, <4>3 DEF w
    <3> QED
      BY <3>2, <3>3
  <2> QED
    BY <2>5, <2>6
<1> QED
  BY <1>1, <1>2, <1>3, <1>4, <1>5, <1>6, <1>7, <1>8, <1>9, <1>10, <1>11, <1>12, <1>13,
     <1>14, <1>15, <1>16 DEF Input

LEMMA ListPoll ==
  ASSUME ExplorerAssumption, ExplorerInv, ListInv, Polls, ~strayed'
  PROVE  ListInv'
<1> USE ViewIsProper
<1>1. ASSUME PollScan PROVE ListInv'
  <2>1. /\ ui.scan.at = "loading" /\ ui.scan.dir = ui.dir /\ wanted' = wanted
        /\ ui' = Show(ui, {<<"dir", ui.dir>>})
        /\ ShowsRealDir(ui.tab) /\ ~ui.favorites /\ ~ui.search /\ ui.similar = Nothing
    BY <1>1 DEF PollScan, Proper
  <2>2. ui.node # Root /\ ~ui.broken
    BY <2>1 DEF Proper
  <2>3. /\ Same(ui', ui) /\ ui'.shown = {<<"dir", ui.dir>>} /\ ui'.scan = Settled("done")
        /\ ui'.similar = ui.similar
    BY <2>1, ShowFields
  <2>4. Fits(ui')
    BY <2>1, <2>2, <2>3 DEF Same, Fits, Meant, ShowsRealDir
  <2>5. Flags(ui') /\ ui'.scan.at = "done" /\ ui'.tab = ui.tab /\ ui'.node = ui.node
        /\ ui'.broken = ui.broken /\ ui'.similar = Nothing
    BY <2>1, <2>3 DEF Flags, Same, Settled
  <2>6. Proper(ui')
    BY <2>2, <2>4, <2>5 DEF Proper
  <2>7. MarkerViewActive(ui) => MarkerViewActive(ui')
    BY <2>1, <2>3 DEF Same, MarkerViewActive
  <2> QED
    BY <2>1, <2>2, <2>5, <2>6, <2>7 DEF ListInv
<1>2. ASSUME PollSearch PROVE ListInv'
  <2>1. ui.tab = "search" /\ ui' = EnterSearchView(ui) /\ wanted' = wanted
    BY <1>2 DEF PollSearch
  <2>2. wanted = Nothing /\ ui.node = Nothing
    BY <2>1 DEF ListInv, MarkerViewActive, ShowsRealDir, Flags
  <2>3. Proper(ui')
    BY <2>1, <2>2, ListProper
  <2> QED
    BY <2>1, <2>2, <2>3 DEF ListInv, Proper, Flags, Fits, Meant, MayBeEmpty
<1>3. ASSUME PollTagSearch PROVE ListInv'
  <2>1. ui.tab = "tags" /\ wanted' = wanted
    BY <1>3 DEF PollTagSearch, Flags
  <2>2. /\ wanted = Nothing /\ ui.node = Nothing /\ ui.similar = Nothing /\ ~ui.broken
        /\ ~ui.favorites /\ ~ui.search /\ ui.scan.at = "done" /\ ui.tags
    BY <2>1 DEF ListInv, MarkerViewActive, ShowsRealDir, Flags, Proper
  <2>3. ui.shown = {<<"tags", Nothing>>} \/ ui.shown = {}
    BY <2>1, <2>2 DEF Proper, Fits, Meant
  <2>4. PICK done \in BOOLEAN :
          ui' = [ui EXCEPT !.shown = ui.shown \cup {<<"tags", Nothing>>}, !.hunting = ~done]
    BY <1>3 DEF PollTagSearch, Views
  <2>5. /\ Proper(ui')
    BY <2>1, <2>2, <2>3, <2>4 DEF Views, Proper, Flags, Fits, Meant
  <2> QED
    BY <2>1, <2>2, <2>5 DEF ListInv, Proper, Flags, Fits, Meant, MayBeEmpty
<1>4. ASSUME EnterSimilarView PROVE ListInv'
  <2> DEFINE s == IF wanted.alike THEN {<<"similar", wanted.book>>} ELSE {}
             view == [book |-> wanted.book, token |-> token', alike |-> wanted.alike]
             w == Show(ui, s)
  <2>1. /\ MarkerViewActive(ui) /\ ui.node # Root /\ ~ui.broken /\ wanted' = Nothing
        /\ ui' = [w EXCEPT !.similar = view]
    BY <1>4 DEF EnterSimilarView, ListInv
  <2>2. wanted \in [book : Books, alike : BOOLEAN] /\ token' \in 0 .. MaxTokens
    BY <1>4, PlaceIsReal DEF EnterSimilarView, ExplorerInv, ExplorerTypeOK
  <2>3. view \in [book : Books, token : 0 .. MaxTokens, alike : BOOLEAN] /\ view # Nothing
    BY <2>2 DEF ExplorerAssumption
  <2>4. s \in SUBSET Sources
    BY <2>2, SourcesKnown
  <2>5. view.book = wanted.book /\ (s = {<<"similar", wanted.book>>} \/ s = {})
    OBVIOUS
  <2> HIDE DEF s, view
  <2>6. w \in Views /\ Same(w, ui) /\ w.shown = s /\ w.scan = Settled("done")
    BY <2>4, ShowTyped, ShowFields
  <2> HIDE DEF w
  <2>7. /\ Same(ui', ui) /\ ui'.shown = s /\ ui'.scan = Settled("done") /\ ui'.similar = view
    BY <2>1, <2>3, <2>6 DEF Views, Same
  <2>8. Fits(ui')
    BY <2>1, <2>3, <2>5, <2>7 DEF Same, Fits, Meant, MayBeEmpty
  <2> QED
    BY <2>1, <2>7, <2>8
       DEF ListInv, Proper, Flags, Same, Settled, MarkerViewActive, Fits, Meant, MayBeEmpty
<1>5. ASSUME NEW p \in probes, ApplySimilarGroup(p) PROVE ListInv'
  <2>1. wanted' = wanted
    BY <1>5 DEF ApplySimilarGroup
  <2>2. CASE ui' = ui
    BY <2>1, <2>2 DEF ListInv, Proper, Flags, Fits, Meant, MayBeEmpty, MarkerViewActive
  <2>3. CASE /\ ui.similar # Nothing /\ ui.similar.token = p.token
             /\ ui' = Show(ui, {<<"similar", p.book>>})
    <3>1. p.book = ui.similar.book
      BY <2>3 DEF ExplorerInv
    <3>2. wanted = Nothing /\ ui.node # Root /\ ~ui.broken
      BY <2>3 DEF ListInv, MarkerViewActive, Proper
    <3>3. /\ Same(ui', ui) /\ ui'.shown = {<<"similar", p.book>>}
          /\ ui'.scan = Settled("done") /\ ui'.similar = ui.similar
      BY <2>3, ShowFields
    <3>4. Fits(ui')
      BY <2>3, <3>1, <3>2, <3>3 DEF Same, Fits, Meant
    <3> QED
      BY <2>1, <3>2, <3>3, <3>4
         DEF ListInv, Proper, Flags, Same, Settled, Fits, Meant, MayBeEmpty
  <2> QED
    BY <1>5, <2>2, <2>3 DEF ApplySimilarGroup
<1> QED
  BY <1>1, <1>2, <1>3, <1>4, <1>5 DEF Polls

LEMMA ListStep ==
  ASSUME ExplorerAssumption, ExplorerInv, strayed \/ ListInv, [ExplorerNext]_explorerVars
  PROVE  (strayed \/ ListInv)'
<1>1. CASE strayed
  <2>1. strayed'
    BY <1>1 DEF ExplorerNext, explorerVars, searchVars, Input, Polls, ReadFolder, SwitchFolderTab, GoTo,
                GoToDrive, ChooseNode, ChooseFavorite, StartSearch, SelectSearchHistory,
                ToggleTag, ClickMarker, RefreshSimilar, LeaveSimilar, ReloadCurrent,
                SyncRealTree, OpenInFoldersTab, OpenInSearchTab, DeleteVirtual, PollScan,
                PollSearch, PollTagSearch, ApplySimilarGroup, EnterSimilarView
  <2> QED
    BY <2>1
<1>2. CASE ListInv
  <2>1. ASSUME ReadFolder PROVE ListInv'
    <3>1. ui' = [ui EXCEPT !.scan = [ui.scan EXCEPT !.read = TRUE]] /\ wanted' = wanted
      BY <1>2, <2>1, ViewIsProper DEF ReadFolder, Views
    <3>2. ui'.scan.at = ui.scan.at /\ ui'.scan.dir = ui.scan.dir
      BY <1>2, <3>1, ViewIsProper DEF Views
    <3>3. Same(ui', ui) /\ ui'.shown = ui.shown /\ ui'.similar = ui.similar
      BY <1>2, <3>1, ViewIsProper DEF Views, Same
    <3> QED
      BY <1>2, <3>1, <3>2, <3>3
         DEF ListInv, Proper, Flags, Same, Fits, Meant, MayBeEmpty, MarkerViewActive
  <2>2. ASSUME UNCHANGED explorerVars PROVE ListInv'
    BY <1>2, <2>2 DEF explorerVars, ListInv, Proper, Flags, Fits, Meant, MayBeEmpty, MarkerViewActive
  <2> QED
    BY <1>2, <2>1, <2>2, ListInput, ListPoll DEF ExplorerNext
<1> QED
  BY <1>1, <1>2

-------------------------------------------------------------------------------
\* The view, the tokens and the groups under way are always of their types, whatever the
\* order in which tabs, folders, results and clicks come.
THEOREM ExplorerTypeCorrect ==
  ASSUME ExplorerAssumption
  PROVE  ExplorerSpec => []ExplorerTypeOK
BY ExplorerInvariance, PTL DEF ExplorerInv

\* However many virtual folders are visited, left, deleted or unreachable in between, the
\* real tree is where the user last went in it.
THEOREM PlaceSurvives ==
  ASSUME ExplorerAssumption
  PROVE  ExplorerSpec => []RealPlaceKept
BY ExplorerInvariance, PTL DEF ExplorerInv

\* As long as no search has ended in another tab, the files listed are those of the view
\* the window says it shows.
THEOREM ListIsThatOfTheView ==
  ASSUME ExplorerAssumption
  PROVE  ExplorerSpec => []ListFitsView
<1>1. ASSUME ExplorerInit PROVE ListInv
  <2>1. /\ ui.tab = "tree" /\ ui.node = Nothing /\ ~ui.broken /\ ~ui.favorites /\ ~ui.search
        /\ ~ui.tags /\ ~ui.hunting /\ ui.similar = Nothing /\ ui.shown = {}
        /\ ui.dir = Home /\ ui.scan = Loading(Home) /\ wanted = Nothing
    BY <1>1 DEF ExplorerInit
  <2> QED
    BY <2>1 DEF ListInv, Proper, Flags, Fits, Loading, ExplorerAssumption
<1>2. ExplorerInv /\ (strayed \/ ListInv) /\ [ExplorerNext]_explorerVars => (strayed \/ ListInv)'
  BY ListStep
<1>3. strayed \/ ListInv => ListFitsView
  BY DEF ListInv, Proper, ListFitsView
<1> QED
  BY <1>1, <1>2, <1>3, ExplorerInvariance, PTL DEF ExplorerSpec

-------------------------------------------------------------------------------
(* The two side by side *)

\* A behaviour in which the queue or the explorer moves while the other keeps still is
\* one of the queue and one of the explorer, so what is checked or proved of either holds
\* of it.
THEOREM QueueBesideExplorer ==
  MCInit /\ [][MCNext]_<<part, vars, explorerVars>> => Spec /\ ExplorerSpec
<1>1. MCInit => Init /\ ExplorerInit
  BY DEF MCInit
<1>2. [MCNext]_<<part, vars, explorerVars>> => [Next]_vars /\ [ExplorerNext]_explorerVars
  BY DEF MCNext, Schedule, Explore
<1> QED
  BY <1>1, <1>2, PTL DEF Spec, ExplorerSpec

PartIsKnown == part \in {"queue", "explorer"}

\* Every variable keeps its type, whichever of the two moves.
THEOREM ProgressTypeCorrect == MCFairSpec => []TypesOK
<1>1. MCInit => PartIsKnown
  BY DEF MCInit, PartIsKnown
<1>2. PartIsKnown /\ [MCNext]_<<part, vars, explorerVars>> => PartIsKnown'
  BY DEF PartIsKnown, MCNext, Schedule, Explore
<1>3. PartIsKnown /\ TypeOK /\ ExplorerTypeOK => TypesOK
  BY DEF PartIsKnown, TypesOK
<1>4. ExplorerSpec => []ExplorerTypeOK
  BY ExplorerTypeCorrect, InstanceAssumption
<1> QED
  BY <1>1, <1>2, <1>3, <1>4, QueueBesideExplorer, TypeCorrect, PTL DEF MCFairSpec

=============================================================================
