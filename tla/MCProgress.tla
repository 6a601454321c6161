----------------------------- MODULE MCProgress -----------------------------
(***************************************************************************)
(* Small instances of what has to go on by itself: the workers of the decode    *)
(* queue, and the lists of the explorer window.  They share no state, so one run  *)
(* takes them side by side: `part' chooses which one a behaviour exercises, under   *)
(* the fairness of that part.                                                        *)
(*                                                                         *)
(* Explorer: the home folder and two others, each behind a virtual folder, one virtual *)
(* folder inside the other.                                                            *)
(***************************************************************************)
EXTENDS DecodeJobQueue, ExplorerViews, TLC

CONSTANTS d1, d2, d3, n1, n2

VARIABLE part

\* One virtual folder inside the other
MCParent == n1 :> Root @@ n2 :> n1
MCNodeDir == n1 :> d2 @@ n2 :> d3

ASSUME InstanceAssumption == ExplorerAssumption

MCInit ==
    /\ part \in {"queue", "explorer"}
    /\ Init /\ ExplorerInit

Schedule == part = "queue" /\ Next /\ UNCHANGED <<part, explorerVars>>
Explore == part = "explorer" /\ ExplorerNext /\ UNCHANGED <<part, vars>>

MCNext == Schedule \/ Explore

\* Each part owes what its module says, and nothing while another part moves.
MCFairness ==
    \/ part = "queue" /\ \A w \in Worker : WF_vars(WorkerStep(w))
    \/ part = "explorer" /\ Fairness

MCFairSpec ==
    MCInit /\ [][MCNext]_<<part, vars, explorerVars>> /\ MCFairness

-----------------------------------------------------------------------------
(* The properties of the two parts are those of their modules; those that fail in an *)
(* initial state that lasts are asked of their part only.                              *)

\* Every variable of the part in question keeps its type.
TypesOK ==
    CASE part = "queue" -> TypeOK
      [] part = "explorer" -> ExplorerTypeOK

\* ExplorerViews: a folder that is being read appears.
FoldersAppear == part = "explorer" => FolderAppears
=============================================================================
