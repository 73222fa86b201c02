------------------------------- MODULE Trees --------------------------------
(***************************************************************************)
(* The binary tree and the red-black tree, which share nothing, and what   *)
(* each promises.                                                          *)
(***************************************************************************)
EXTENDS Integers, Sequences

CONSTANTS TreeSize, TreeData, MaxAgain, RbSize, RbKey

VARIABLES
    tree, allocated, inserted, again,
    rb

treeVars == <<tree, allocated, inserted, again>>

\* What the trees expect of their parameters.
ASSUME TreeAssumption ==
    /\ {TreeSize, MaxAgain, RbSize} \subseteq Nat
    /\ TreeData \subseteq Int /\ RbKey \subseteq Int

B == INSTANCE BinaryTree
R == INSTANCE RbTree

-----------------------------------------------------------------------------
\* The binary tree's walk is sorted, searchable and, without repeated data, what
\* was inserted and not deleted (binary_tree.h).
TreeWalkIsContents == B!WalkIsContents

\* Insertion keeps the red-black tree one (rb_tree.h).
InsertionKeepsRedBlack == R!RedBlack
=============================================================================
