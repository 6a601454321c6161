------------------------- MODULE MCPagePipelineLive -------------------------
(***************************************************************************)
(* The pipeline under fairness, in an archive of four pages.  A behaviour     *)
(* tells one of two stories:                                                 *)
(*                                                                         *)
(* "generations": the last two pages are turned as often as the reader likes, *)
(* and one other input comes, once, of any kind but sorting;                *)
(*                                                                         *)
(* "orders": the pages are in the other order, the viewer is at the first or  *)
(* the last, and it turns to any page or is sorted, once.                     *)
(***************************************************************************)
EXTENDS MCPagePipeline

VARIABLES story, disturbed

\* The window of such a page holds no page but the last two.
AtTheEnd == order = ByIndex /\ (cur = NoPage \/ Position(cur) >= Cardinality(Index) - 2)

MCInit ==
    /\ PagesInit /\ disturbed = FALSE
    /\ story \in {"generations", "orders"}
    /\ story = "generations" => AtTheEnd
    /\ story = "orders" =>
          order # ByIndex /\ cur # NoPage /\ Position(cur) \in {0, Cardinality(Index) - 1}

Disturb ==
    /\ ~disturbed /\ disturbed' = TRUE /\ UNCHANGED story
    /\ \/ story = "generations" /\ Input /\ AtTheEnd'
       \/ story = "orders" /\ \E p \in Page : Turn(p)
       \/ story = "orders" /\ "sort" \in Inputs /\ \E o \in Orders : Sort(o)

Calm ==
    /\ \/ UiStep
       \/ story = "generations" /\ (\E p \in Page : Turn(p)) /\ AtTheEnd'
       \/ \E k \in Key : FinishJob(k)
    /\ UNCHANGED <<story, disturbed>>

MCFairSpec == MCInit /\ [][Disturb \/ Calm]_<<pagesVars, story, disturbed>> /\ Fairness

=============================================================================
