-------------------------- MODULE MCPagePipeline --------------------------
(***************************************************************************)
(* Small instances of PagePipeline for TLC.                                *)
(***************************************************************************)
EXTENDS PagePipeline

CONSTANTS b1, b2

Still(bytes) == [animated |-> FALSE, bytes |-> bytes]
Animation(bytes) == [animated |-> TRUE, bytes |-> bytes]

\* Page 0 is an animation, page 1 a still.
Mixed == [p \in Page |-> IF p[2] = 0 THEN {Animation(4)} ELSE {Still(4)}]

\* Stills: three fit the budget of 9.
Even == [p \in Page |-> {Still(3)}]

\* Of these, page 1 may decode to one that fills the budget by itself.
Varied == [Even EXCEPT ![<<b1, 1>>] = {Still(3), Still(9)}]

\* The order of the archive, and one in which the pages after the first are reversed
ByIndex == [i \in Index |-> i]
Reversed == [i \in Index |-> IF i = 0 THEN 0 ELSE Cardinality(Index) - i]
ArchiveOrder == {ByIndex}
TwoOrders == {ByIndex, Reversed}

MCUndecodable == {p \in Page : p[2] = 3}

=============================================================================
