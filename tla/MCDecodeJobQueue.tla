-------------------------- MODULE MCDecodeJobQueue --------------------------
(***************************************************************************)
(* Small instances of DecodeJobQueue for TLC.                              *)
(***************************************************************************)
EXTENDS DecodeJobQueue, TLC

\* Workers and pages play interchangeable parts in every safety property.
Symmetry == Permutations(Worker) \cup Permutations(Page)

=============================================================================
