------------------------------- MODULE MCViewer -------------------------------
(***************************************************************************)
(* Small instances of what puts pages on the screen: the requests and results   *)
(* of pages with the page cache that they fill, the file cache, the pages in     *)
(* view, and the thumbnail of a file.  One run takes them side by side: `part'    *)
(* chooses which one a behaviour exercises, the others keep their initial state.   *)
(*                                                                         *)
(* Pipeline: a 7z archive with an animation and a still that may not decode, and     *)
(* every kind of input.  Files: two 7z archives and a zip, some of them too large     *)
(* for the budget.                                                                     *)
(***************************************************************************)
EXTENDS PagePipeline, FileCache, ThumbGeneration, SpreadNavigation, TLC

CONSTANT b1

MCDecodes ==
    [p \in Page |-> {[animated |-> p[2] = 0, bytes |-> 4]}]

MCUndecodable == {<<b1, 1>>}

ByIndex == [i \in Index |-> i]
Backwards == [i \in Index |-> Cardinality(Index) - 1 - i]
MCOrders == {ByIndex, Backwards}

MCPaths == 1..3

VARIABLE part

ThumbsAreAlike == Permutations(Ids) \cup Permutations(Profiles)

ASSUME InstanceAssumption == ThumbAssumption

Parts == {"pipeline", "files", "turning", "thumb"}

\* A part that is not looked at starts, and stays, in one state.
MCInit ==
    /\ part \in Parts
    /\ PagesInit /\ FilesInit /\ TurningInit /\ ThumbInit
    /\ part # "pipeline" => cur = NoPage /\ order = ByIndex
    /\ part # "files" => disk = [p \in Paths |-> 1]
    /\ part # "turning" => ~raw /\ total = 1
    /\ part # "thumb" => present = {} /\ thumb = NoThumb /\ selection = NoSource

Loading ==
    /\ part = "pipeline" /\ PagesNext
    /\ UNCHANGED <<part, filesVars, turningVars, thumbVars>>
Opening ==
    /\ part = "files" /\ FilesNext
    /\ UNCHANGED <<part, pagesVars, turningVars, thumbVars>>
Turning ==
    /\ part = "turning" /\ TurningNext
    /\ UNCHANGED <<part, pagesVars, filesVars, thumbVars>>
Thumbs ==
    /\ part = "thumb" /\ ThumbNext
    /\ UNCHANGED <<part, pagesVars, filesVars, turningVars>>

MCNext == Loading \/ Opening \/ Turning \/ Thumbs

MCSpec ==
    MCInit /\ [][MCNext]_<<part, pagesVars, filesVars, turningVars, thumbVars>>

-----------------------------------------------------------------------------
(* The properties are those of the four modules.  They hold in the initial states *)
(* as well, so each is checked whatever the part.                                   *)

\* Every variable of the part in question keeps its type.
TypesOK ==
    CASE part = "pipeline" -> PagesTypeOK
      [] part = "files" -> FilesTypeOK
      [] part = "turning" -> TurningTypeOK
      [] part = "thumb" -> ThumbTypeOK
=============================================================================
