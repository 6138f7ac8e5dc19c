---------------------------- MODULE MCIndexState ----------------------------
(***************************************************************************)
(* Instances of IndexState for TLC.                                        *)
(***************************************************************************)
EXTENDS IndexState, TLC

CONSTANTS short, long

\* One body has no chunk (it is empty), the other has one.
TwoContents == {short, long}
ChunksOf == short :> 0 @@ long :> 1

Symmetry == Permutations(Writers) \cup Permutations(Reembeds)

=============================================================================
