---------------------------- MODULE MCVectorStore ---------------------------
(***************************************************************************)
(* VectorStore with a small set of entries.  InsertFails leaves a vector   *)
(* that no row names, so the index is bounded to MaxVectors for TLC.       *)
(***************************************************************************)
EXTENDS VectorStore, TLC

CONSTANT MaxVectors   \* bound: how long the index may grow

ASSUME MaxVectors \in Nat

SmallIndex == Len(vec) <= MaxVectors

Symmetry == Permutations(Entry)

=============================================================================
