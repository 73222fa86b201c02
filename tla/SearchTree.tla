----------------------------- MODULE SearchTree -----------------------------
(***************************************************************************)
(* The loops binary_tree.h and rb_tree.h have in common: the ways down a   *)
(* search tree.  A tree t has functions t.left and t.right on its nodes;   *)
(* value is what its nodes are ordered by.                                 *)
(***************************************************************************)
EXTENDS Integers, Sequences

NULL == 0       \* no node

Place(t) == DOMAIN t.left \cup {NULL}

\* The child of x on the side where d belongs.
Toward(t, value, d, x) == IF d < value[x] THEN t.left[x] ELSE t.right[x]

\* The first node with d on the way down from x.
SearchFrom(t, value, x, d) ==
    LET from[n \in Place(t)] ==
            IF n = NULL \/ value[n] = d THEN n ELSE from[Toward(t, value, d, n)]
    IN  from[x]

\* The last node on the way down from x, a node, to where d belongs.
LastFrom(t, value, x, d) ==
    LET from[n \in DOMAIN t.left] ==
            IF Toward(t, value, d, n) = NULL THEN n ELSE from[Toward(t, value, d, n)]
    IN  from[x]

\* The nodes below x, as InorderWalk prints them.
WalkFrom(t, x) ==
    LET from[n \in Place(t)] ==
            IF n = NULL THEN << >> ELSE from[t.left[n]] \o <<n>> \o from[t.right[n]]
    IN  from[x]
=============================================================================
