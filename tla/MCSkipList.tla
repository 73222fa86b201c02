----------------------------- MODULE MCSkipList -----------------------------
(***************************************************************************)
(* TLC instance of SkipList: any sequence of Inserts of new members and    *)
(* Deletes.                                                                *)
(***************************************************************************)
EXTENDS SkipListProperties, TLC

Symmetry == Permutations(Node) \cup Permutations(Member)

-----------------------------------------------------------------------------
\* Bound on lenth_, the only unbounded counter: Insert and Delete both count up.
CONSTANT MaxLenth

MCNext == sl.lenth < MaxLenth /\ SLNext

MCSpec == SLInit /\ [][MCNext]_sl
=============================================================================
