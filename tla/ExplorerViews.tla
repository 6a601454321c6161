---------------------------- MODULE ExplorerViews ----------------------------
(***************************************************************************)
(* What the centre of the explorer window lists, and why.                    *)
(*                                                                         *)
(* The list is replaced by whoever shows something: the scan of a folder, the  *)
(* favourites, a search, the hits of a tag search, the files alike to one of     *)
(* them, or nothing at all for the root of the virtual folders.  What is meant to  *)
(* be shown is spread over the tab and five flags; scans, searches, tag hits and    *)
(* groups of alike files arrive later, when tab and flags may have changed.         *)
(*                                                                         *)
(* In each frame the results are polled first, then one input of the user is         *)
(* carried out.  A folder reached through a virtual node changes the current         *)
(* directory; the place of the real tree is put aside meanwhile.                      *)
(*                                                                         *)
(* One action is one input or one result.  `place' and `strayed' are not in     *)
(* the code: `place' is the folder the user last went to in the real tree.                *)
(***************************************************************************)
EXTENDS Naturals

CONSTANTS
    Dirs,       \* real folders
    Home,       \* the folder the program starts in, and the root of the first drive
    Nodes,      \* virtual folders
    Parent,     \* their parents
    NodeDir,    \* and the real folders they stand for
    Root,       \* the root of the virtual tree, `/'
    Books,      \* files that have others like them
    MaxTokens,  \* bound: alike views opened or refreshed
    Nothing

\* The tree of virtual folders stands for real folders; the root stands for none.
ExplorerAssumption ==
    /\ Home \in Dirs /\ Nothing \notin Dirs
    /\ Root # Nothing /\ Nothing \notin Nodes
    /\ Parent \in [Nodes -> Nodes \cup {Root}]
    /\ NodeDir \in [Nodes -> Dirs]
    /\ MaxTokens \in Nat
    /\ Nothing \notin [book : Books, token : 0 .. MaxTokens, alike : BOOLEAN]

Tabs == {"tree", "favorites", "search", "virtual", "tags"}
ShowsRealDir(tab) == tab \in {"tree", "virtual"}

VARIABLES
    ui,         \* what is shown and what is being read for it
    nodes,      \* the virtual folders that exist
    searching,  \* a search is running
    found,      \* the history of searches is not empty
    strayed,    \* a search has ended in another tab
    probes,     \* groups of alike files being collected: file and token
    token,      \* similar_token
    wanted,     \* the alike view asked for by a click, opened in the next frame
    place

searchVars == <<searching, found, strayed>>
explorerVars == <<ui, nodes, searchVars, probes, token, wanted, place>>

Loading(d) == [at |-> "loading", dir |-> d, read |-> FALSE]
Settled(state) == [at |-> state, dir |-> Nothing, read |-> FALSE]

\* The sources a list can stem from
Sources == {<<"dir", d>> : d \in Dirs} \cup {<<"similar", b>> : b \in Books}
           \cup {<<"favorites", Nothing>>, <<"search", Nothing>>, <<"tags", Nothing>>}

Views == [tab : Tabs,
          dir : Dirs,                       \* current_dir
          viewing : Dirs \cup {Nothing},       \* viewing_dir
          stash : Dirs \cup {Nothing},         \* real_dir_stash
          node : Nodes \cup {Root, Nothing},   \* viewing_virtual_node
          saved : Nodes \cup {Root},        \* tab_positions.virtual_node
          broken : BOOLEAN,                 \* virtual_link_broken
          favorites : BOOLEAN,              \* viewing_favorites
          search : BOOLEAN,                 \* viewing_search
          tags : BOOLEAN,                   \* tag_search_view_open
          hunting : BOOLEAN,                \* tag_search_scan
          similar : [book : Books, token : 0 .. MaxTokens, alike : BOOLEAN] \cup {Nothing},
          scan : [at : {"idle", "loading", "done"}, dir : Dirs \cup {Nothing}, read : BOOLEAN],
          shown : SUBSET Sources]           \* where the files in `archives' come from

-----------------------------------------------------------------------------
(* What the functions of the explorer do to the view *)

\* The list is replaced at once by one that is already complete.
Show(v, sources) == [v EXCEPT !.scan = Settled("done"), !.shown = sources]

CloseSimilarState(v) == [v EXCEPT !.similar = Nothing]

\* Faulty variant: the view of the files alike is not closed by a scan.
ClearedOnly(v) == [v EXCEPT !.scan = Loading(v.dir), !.shown = {}]

ClearedForScan(v) == [CloseSimilarState(v) EXCEPT !.scan = Loading(v.dir), !.shown = {}]

\* The tag search fills the list itself: there a scan is not even begun.
StartScan(v) == IF v.tab = "tags" THEN v ELSE ClearedForScan(v)

\* Faulty variant: the scan under way is left to be polled.
EmptyButLoading(v) ==
    [CloseSimilarState([v EXCEPT !.shown = {}]) EXCEPT !.favorites = FALSE, !.viewing = Nothing]

ShowEmptyListing(v) ==
    [CloseSimilarState(Show(v, {})) EXCEPT !.favorites = FALSE, !.viewing = Nothing]

BeginDirView(v, d) == StartScan([v EXCEPT !.favorites = FALSE, !.dir = d, !.viewing = d])

OutOfVirtual(v) == [v EXCEPT !.node = Nothing, !.broken = FALSE, !.stash = Nothing]

NavigateTo(v, d) == BeginDirView(OutOfVirtual(v), d)

NavigateToDrive(v, d) ==
    [StartScan([OutOfVirtual(v) EXCEPT !.dir = d]) EXCEPT !.viewing = Nothing]

\* Faulty variant: every virtual folder puts the current directory aside.
StashAlways(v) == v.dir

\* The first place left for a virtual folder is kept, later ones are virtual already.
StashIfEmpty(v) == IF v.stash = Nothing THEN v.dir ELSE v.stash

EnterVirtualNode(v, n, reachable) ==
    LET at == [v EXCEPT !.node = n, !.saved = n, !.broken = n # Root /\ ~reachable]
    IN  IF n # Root /\ reachable
        THEN BeginDirView([at EXCEPT !.stash = StashIfEmpty(v)], NodeDir[n])
        ELSE ShowEmptyListing(at)

SelectVirtualNode(v, n, reachable) ==
    IF v.node = n THEN v ELSE EnterVirtualNode(v, n, reachable)

ExitVirtualView(v) ==
    LET back == IF v.stash = Nothing THEN v.dir ELSE v.stash
    IN  IF v.node = Nothing THEN v
        ELSE StartScan([OutOfVirtual(v) EXCEPT !.dir = back, !.viewing = back])

EnterFavoriteView(v) ==
    [CloseSimilarState(Show(v, {<<"favorites", Nothing>>})) EXCEPT !.favorites = TRUE]

ExitFavoriteView(v) ==
    IF v.favorites THEN StartScan([v EXCEPT !.favorites = FALSE]) ELSE v

EnterSearchView(v) ==
    [CloseSimilarState(Show(v, {<<"search", Nothing>>})) EXCEPT !.search = TRUE]

ExitSearchView(v) == IF v.search THEN StartScan([v EXCEPT !.search = FALSE]) ELSE v

\* With no tag chosen there is nothing to look for.
RestartTagSearch(v, chosen) == [Show(v, {}) EXCEPT !.hunting = chosen]

EnterTagSearchView(v, chosen) ==
    RestartTagSearch([CloseSimilarState(v) EXCEPT !.tags = TRUE], chosen)

ExitTagSearchView(v) ==
    IF v.tags THEN StartScan([v EXCEPT !.tags = FALSE, !.hunting = FALSE]) ELSE v

ExitSimilarView(v) == IF v.similar = Nothing THEN v ELSE StartScan(CloseSimilarState(v))

\* Markers are drawn, and lead to the files alike, in the list of a folder only.
MarkerViewActive(v) ==
    ShowsRealDir(v.tab) /\ ~v.favorites /\ ~v.search /\ v.similar = Nothing

\* The saved node, if there still is one by that name.
ResolveVirtual(v, existing) == IF v.saved \in existing THEN v.saved ELSE Root

\* switch_folder_tab: everything another tab shows is ended, in this order; then the tab
\* entered shows what it showed last.
EndOthers(v, tab) ==
    LET v1 == [v EXCEPT !.tab = tab]
        v2 == IF tab = "virtual" THEN v1 ELSE ExitVirtualView(v1)
        v3 == IF tab = "favorites" THEN v2 ELSE ExitFavoriteView(v2)
        v4 == IF tab = "search" THEN v3 ELSE ExitSearchView(v3)
        v5 == IF tab = "tags" THEN v4 ELSE ExitTagSearchView(v4)
    IN  IF v.tab = tab THEN v5 ELSE ExitSimilarView(v5)

SwitchedTab(v, tab, reachable, chosen) ==
    LET w == EndOthers(v, tab)
    IN  IF v.tab = tab THEN w ELSE
        CASE tab = "favorites" -> EnterFavoriteView(w)
          [] tab = "virtual" -> SelectVirtualNode(w, ResolveVirtual(v, nodes), reachable)
          [] tab = "tags" -> EnterTagSearchView(w, chosen)
          [] OTHER -> w

-----------------------------------------------------------------------------
(* The user *)

\* A click on a marker is carried out before the next input.
Free == wanted = Nothing

SwitchFolderTab(tab) ==
    /\ Free
    /\ \E reachable, chosen \in BOOLEAN : ui' = SwitchedTab(ui, tab, reachable, chosen)
    /\ UNCHANGED <<nodes, searchVars, probes, token, wanted, place>>

\* A folder of the tree or of the list.  The real tree stands beside the virtual one too,
\* and the list has cards of real folders only while it shows a real one.
GoTo(d) ==
    /\ Free /\ ShowsRealDir(ui.tab)
    /\ ui' = NavigateTo(ui, d)
    /\ place' = d
    /\ UNCHANGED <<nodes, searchVars, probes, token, wanted>>

GoToDrive ==
    /\ Free /\ ShowsRealDir(ui.tab)
    /\ ui' = NavigateToDrive(ui, Home)
    /\ place' = Home
    /\ UNCHANGED <<nodes, searchVars, probes, token, wanted>>

ChooseNode(n) ==
    /\ Free /\ ui.tab = "virtual"
    /\ \E reachable \in BOOLEAN : ui' = SelectVirtualNode(ui, n, reachable)
    /\ UNCHANGED <<nodes, searchVars, probes, token, wanted, place>>

\* A favourite folder, or a change to the favourites on the screen.
ChooseFavorite ==
    /\ Free /\ ui.tab = "favorites"
    /\ ui' = EnterFavoriteView(ui)
    /\ UNCHANGED <<nodes, searchVars, probes, token, wanted, place>>

StartSearch ==
    /\ Free /\ ui.tab = "search" /\ ~searching
    /\ searching' = TRUE
    /\ UNCHANGED <<ui, nodes, found, strayed, probes, token, wanted, place>>

SelectSearchHistory ==
    /\ Free /\ ui.tab = "search" /\ found
    /\ ui' = EnterSearchView(ui)
    /\ UNCHANGED <<nodes, searchVars, probes, token, wanted, place>>

ToggleTag ==
    /\ Free /\ ui.tab = "tags"
    /\ \E chosen \in BOOLEAN : ui' = RestartTagSearch(ui, chosen)
    /\ UNCHANGED <<nodes, searchVars, probes, token, wanted, place>>

ClickMarker(b, alike) ==
    /\ Free /\ MarkerViewActive(ui) /\ ui.shown = {<<"dir", ui.dir>>}
    /\ token < MaxTokens
    /\ wanted' = [book |-> b, alike |-> alike]
    /\ UNCHANGED <<ui, nodes, searchVars, probes, token, place>>

\* The group is collected anew; the old list stays until it is there.
RefreshSimilar ==
    /\ Free /\ ui.similar # Nothing /\ ~ui.similar.alike
    /\ token < MaxTokens
    /\ token' = token + 1
    /\ ui' = [ui EXCEPT !.similar.token = token']
    /\ probes' = probes \cup {[book |-> ui.similar.book, token |-> token']}
    /\ UNCHANGED <<nodes, searchVars, wanted, place>>

\* `Back', or the markers of all files shown are dismissed
LeaveSimilar ==
    /\ Free /\ ui.similar # Nothing
    /\ ui' = ExitSimilarView(ui)
    /\ UNCHANGED <<nodes, searchVars, probes, token, wanted, place>>

ReloadCurrent ==
    /\ Free
    /\ \/ /\ ui.favorites
          /\ ui' = EnterFavoriteView(ui)
          /\ UNCHANGED place
       \/ \* the drive of the tree, or the folder in view, is gone: back home
          /\ ~ui.favorites
          /\ \/ ui' = NavigateToDrive(ui, Home)
             \/ ui.viewing # Nothing /\ ui' = NavigateTo(ui, Home)
          /\ place' = Home
       \/ /\ ~ui.favorites
          /\ IF ui.node = Nothing THEN ui' = StartScan(ui)
             ELSE \E reachable \in BOOLEAN : ui' = EnterVirtualNode(ui, ui.node, reachable)
          /\ UNCHANGED place
    /\ UNCHANGED <<nodes, searchVars, probes, token, wanted>>

\* If the tree has to change drives to show a folder, the place put aside is given up: the
\* current directory is taken for the place of the real tree from then on.
TreeRootFor(v, switched) == IF switched THEN [v EXCEPT !.stash = Nothing] ELSE v

SyncRealTree ==
    /\ Free /\ ui.tab = "virtual"
    /\ ui' = TreeRootFor(ui, TRUE)
    /\ place' = ui.dir
    /\ UNCHANGED <<nodes, searchVars, probes, token, wanted>>

OpenInFoldersTab(n) ==
    /\ Free /\ ui.tab = "virtual"
    /\ LET left == SwitchedTab([ui EXCEPT !.stash = Nothing], "tree", FALSE, FALSE)
       IN  ui' = IF left.dir = NodeDir[n] THEN left ELSE NavigateTo(left, NodeDir[n])
    /\ place' = NodeDir[n]
    /\ UNCHANGED <<nodes, searchVars, probes, token, wanted>>

OpenInSearchTab ==
    /\ Free
    /\ \E switched \in BOOLEAN :
          /\ ui' = SwitchedTab(TreeRootFor(ui, switched), "search", FALSE, FALSE)
          /\ place' = IF switched THEN ui.dir ELSE place
    /\ UNCHANGED <<nodes, searchVars, probes, token, wanted>>

\* subtree_ids: the least set that holds the node and, with each node, its children
Branch(n) ==
    {m \in nodes : \A S \in SUBSET nodes :
        n \in S /\ (\A k \in nodes : Parent[k] \in S => k \in S) => m \in S}

\* The node in view may be among those deleted: its place is taken by the parent of the one
\* deleted before the nodes are read again, which would otherwise end the virtual view.
DeleteVirtual(n) ==
    /\ Free
    /\ nodes' = nodes \ Branch(n)
    /\ LET inside == ui.node \in Branch(n)
           moved == IF inside THEN [ui EXCEPT !.node = Parent[n]] ELSE ui
           reread == IF moved.node \in nodes' \cup {Root, Nothing} THEN moved
                     ELSE ExitVirtualView(moved)
       IN  \E reachable \in BOOLEAN :
               ui' = IF inside THEN EnterVirtualNode(reread, Parent[n], reachable) ELSE reread
    /\ UNCHANGED <<searchVars, probes, token, wanted, place>>

Input ==
    \/ \E tab \in Tabs : SwitchFolderTab(tab)
    \/ \E d \in Dirs : GoTo(d)
    \/ GoToDrive
    \/ \E n \in nodes \cup {Root} : ChooseNode(n)
    \/ ChooseFavorite \/ StartSearch \/ SelectSearchHistory \/ ToggleTag
    \/ \E b \in Books, alike \in BOOLEAN : ClickMarker(b, alike)
    \/ RefreshSimilar \/ LeaveSimilar \/ ReloadCurrent
    \/ SyncRealTree \/ OpenInSearchTab
    \/ \E n \in nodes : OpenInFoldersTab(n) \/ DeleteVirtual(n)

-----------------------------------------------------------------------------
(* Threads and polls *)

\* The thread of the scan has read the folder.  A scan begun later replaces its channel.
ReadFolder ==
    /\ ui.scan.at = "loading" /\ ~ui.scan.read
    /\ ui' = [ui EXCEPT !.scan.read = TRUE]
    /\ UNCHANGED <<nodes, searchVars, probes, token, wanted, place>>

PollScan ==
    /\ ShowsRealDir(ui.tab) /\ ~ui.favorites /\ ~ui.search /\ ui.similar = Nothing
    /\ ui.scan.at = "loading"
    /\ IF ui.scan.dir # ui.dir THEN ui' = [ui EXCEPT !.scan = Settled("idle")]
       ELSE ui.scan.read /\ ui' = Show(ui, {<<"dir", ui.scan.dir>>})
    /\ UNCHANGED <<nodes, searchVars, probes, token, wanted, place>>

PollSearch ==
    /\ searching
    /\ searching' = FALSE /\ found' = TRUE
    /\ strayed' = (strayed \/ ui.tab # "search")
    /\ ui' = EnterSearchView(ui)
    /\ UNCHANGED <<nodes, probes, token, wanted, place>>

PollTagSearch ==
    /\ ui.hunting
    /\ \E done \in BOOLEAN :
          ui' = [ui EXCEPT !.shown = @ \cup {<<"tags", Nothing>>}, !.hunting = ~done]
    /\ UNCHANGED <<nodes, searchVars, probes, token, wanted, place>>

\* apply_similar_group: a group that was asked for an earlier view is dropped.
ApplySimilarGroup(p) ==
    /\ probes' = probes \ {p}
    /\ IF ui.similar # Nothing /\ ui.similar.token = p.token
       THEN ui' = Show(ui, {<<"similar", p.book>>})
       ELSE UNCHANGED ui
    /\ UNCHANGED <<nodes, searchVars, token, wanted, place>>

\* apply_pending_similar_entry: files alike are known already, those of equal contents
\* are collected by a thread.
EnterSimilarView ==
    /\ wanted # Nothing
    /\ wanted' = Nothing /\ token' = token + 1
    /\ ui' = [Show(ui, IF wanted.alike THEN {<<"similar", wanted.book>>} ELSE {})
                 EXCEPT !.similar = [book |-> wanted.book, token |-> token', alike |-> wanted.alike]]
    /\ probes' = IF wanted.alike THEN probes
                 ELSE probes \cup {[book |-> wanted.book, token |-> token']}
    /\ UNCHANGED <<nodes, searchVars, place>>

Polls == PollScan \/ PollSearch \/ PollTagSearch \/ EnterSimilarView
         \/ \E p \in probes : ApplySimilarGroup(p)

-----------------------------------------------------------------------------
ExplorerInit ==
    /\ ui = [tab |-> "tree", dir |-> Home, viewing |-> Home, stash |-> Nothing, node |-> Nothing,
             saved |-> Root, broken |-> FALSE, favorites |-> FALSE, search |-> FALSE,
             tags |-> FALSE, hunting |-> FALSE, similar |-> Nothing, scan |-> Loading(Home),
             shown |-> {}]
    /\ nodes = Nodes
    /\ searching = FALSE /\ found = FALSE /\ strayed = FALSE /\ probes = {} /\ token = 0
    /\ wanted = Nothing /\ place = Home

ExplorerNext == Input \/ ReadFolder \/ Polls

ExplorerSpec == ExplorerInit /\ [][ExplorerNext]_explorerVars

\* Threads run, and every frame polls.
Fairness == WF_explorerVars(ReadFolder) /\ WF_explorerVars(PollScan) /\ WF_explorerVars(EnterSimilarView)

-----------------------------------------------------------------------------
(* Properties *)

\* Type invariant.
ExplorerTypeOK ==
    /\ ui \in Views
    /\ nodes \subseteq Nodes
    /\ searching \in BOOLEAN /\ found \in BOOLEAN /\ strayed \in BOOLEAN
    /\ probes \subseteq [book : Books, token : 1 .. MaxTokens]
    /\ token \in 0 .. MaxTokens
    /\ wanted \in [book : Books, alike : BOOLEAN] \cup {Nothing}
    /\ place \in Dirs

\* What the tab and the flags say is on the screen.  The order is that of the header.
Meant(v) ==
    CASE v.similar # Nothing -> <<"similar", v.similar.book>>
      [] v.similar = Nothing /\ v.search -> <<"search", Nothing>>
      [] v.similar = Nothing /\ ~v.search /\ v.favorites -> <<"favorites", Nothing>>
      [] v.similar = Nothing /\ ~v.search /\ ~v.favorites /\ v.tab = "tags" -> <<"tags", Nothing>>
      [] OTHER -> <<"dir", v.dir>>

\* A root or a broken link lists no files; hits and groups may still be on their way.
MayBeEmpty(v) ==
    v.node = Root \/ v.broken \/ v.similar # Nothing \/ (v.tab = "tags" /\ ~v.search)

\* Switching tabs ends what other tabs show.
OtherViewsEnded ==
    /\ ui.favorites => ui.tab = "favorites"
    /\ ui.search => ui.tab = "search"
    /\ ui.tags => ui.tab = "tags"
    /\ ui.node # Nothing => ui.tab = "virtual"

Fits(v) ==
    \/ v.shown = {Meant(v)} /\ ~v.broken /\ v.node # Root
    \/ v.shown = {} /\ (v.scan.at = "loading" \/ MayBeEmpty(v))

\* Whatever arrives late, the files listed are those of the view the window says it shows:
\* none of another folder, of a search given up, or of a group asked for another file.
\* A search that ends in another tab is a finding of its own, see OtherViewsEnded.
ListFitsView == strayed \/ Fits(ui)

\* However many virtual folders are visited, left, deleted or unreachable in between, the
\* real tree, and the folder the next start opens, is where the user last went in it.
RealPlaceKept == place = IF ui.stash = Nothing THEN ui.dir ELSE ui.stash

\* If the user stops, a folder that is being read appears: no flag of a view left behind
\* makes poll_scan ignore the result for ever.
FolderAppears ==
    []<><<Input>>_explorerVars
    \/ []<>~(ui.scan.at = "loading" /\ ShowsRealDir(ui.tab) /\ ~ui.search)

=============================================================================
