----------------------------- MODULE BinaryTree -----------------------------
(***************************************************************************)
(* binary_tree.h: a search tree of ints with parent links.  Insert goes    *)
(* right where the data is equal but attaches by >, so that a second node  *)
(* with the data of the last one on the way takes the place of its left    *)
(* subtree.                                                                *)
(***************************************************************************)
EXTENDS SearchTree

CONSTANTS TreeSize, TreeData, MaxAgain  \* bounds: nodes there is memory for, data,
                                        \* repeated insertions

TreeNode == 1..TreeSize

VARIABLES
    tree,       \* root, and of each node: data, left, right, parent
    allocated,  \* nodes new has returned and delete has not freed
    inserted,   \* history: data inserted and not deleted since, while again is 0
    again       \* history: insertions of data that was there

treeVars == <<tree, allocated, inserted, again>>

Search(t, d) == SearchFrom(t, t.data, t.root, d)

\* The leftmost node below x.
Min(t, x) ==
    LET from[n \in DOMAIN t.left] == IF t.left[n] = NULL THEN n ELSE from[t.left[n]]
    IN  from[x]

Attach(t, z, d) ==
    LET y == IF t.root = NULL THEN NULL ELSE LastFrom(t, t.data, t.root, d)
        s == [t EXCEPT !.data[z] = d, !.left[z] = NULL, !.right[z] = NULL, !.parent[z] = y]
    IN  IF y = NULL THEN [s EXCEPT !.root = z]
        ELSE IF d > t.data[y] THEN [s EXCEPT !.right[y] = z] ELSE [s EXCEPT !.left[y] = z]

\* v takes the place of u.
Transplant(t, u, v) ==
    LET up == t.parent[u]
        s  == IF up = NULL THEN [t EXCEPT !.root = v]
              ELSE IF t.left[up] = u THEN [t EXCEPT !.left[up] = v]
              ELSE [t EXCEPT !.right[up] = v]
    IN  IF v = NULL THEN s ELSE [s EXCEPT !.parent[v] = up]

RaiseWithoutParent(t, z, y) ==
    IF t.parent[y] = z THEN t
    ELSE [Transplant(t, y, t.right[y]) EXCEPT !.right[y] = t.right[z]]

\* The successor y of z takes over the right subtree of z, unless it is its root.
RaiseSuccessor(t, z, y) ==
    IF t.parent[y] = z THEN t
    ELSE LET s == Transplant(t, y, t.right[y])
         IN  [s EXCEPT !.right[y] = s.right[z], !.parent[s.right[z]] = y]

Detach(t, z) ==
    IF t.left[z] = NULL THEN Transplant(t, z, t.right[z])
    ELSE IF t.right[z] = NULL THEN Transplant(t, z, t.left[z])
    ELSE LET y == Min(t, t.right[z])
             s == Transplant(RaiseSuccessor(t, z, y), z, y)
         IN  [s EXCEPT !.left[y] = s.left[z], !.parent[s.left[z]] = y]

\* What freed memory holds does not matter: nothing reads it.
Freed(t, z) ==
    [t EXCEPT !.data[z] = 0, !.left[z] = NULL, !.right[z] = NULL, !.parent[z] = NULL]

Init ==
    /\ tree = LET blank == [x \in TreeNode |-> NULL] IN
              [root |-> NULL, data |-> blank, left |-> blank, right |-> blank, parent |-> blank]
    /\ allocated = {} /\ inserted = {} /\ again = 0

Insert(d) ==
    /\ \E z \in TreeNode \ allocated :
        /\ \A x \in 1..z - 1 : x \in allocated
        /\ tree' = Attach(tree, z, d) /\ allocated' = allocated \cup {z}
    /\ again' = IF Search(tree, d) # NULL THEN again + 1 ELSE again
    /\ again' <= MaxAgain
    /\ inserted' = IF again' = 0 THEN inserted \cup {d} ELSE {}

Delete(d) ==
    /\ LET z == Search(tree, d) IN
        IF z = NULL THEN UNCHANGED <<tree, allocated>>
        ELSE tree' = Freed(Detach(tree, z), z) /\ allocated' = allocated \ {z}
    /\ inserted' = inserted \ {d}
    /\ UNCHANGED again

Next == \E d \in TreeData : Insert(d) \/ Delete(d)

Spec == Init /\ [][Next]_treeVars

-----------------------------------------------------------------------------
\* The walk is sorted and has no node twice, Search finds just the data on it,
\* and each child knows its parent, whatever was inserted and deleted; until data
\* is inserted a second time, the walk has what was inserted and not deleted.
WalkIsContents ==
    LET w == WalkFrom(tree, tree.root)
        D == {tree.data[w[i]] : i \in DOMAIN w}
    IN  /\ \A i, j \in DOMAIN w :
                i < j => w[i] # w[j] /\ tree.data[w[i]] <= tree.data[w[j]]
        /\ \A d \in TreeData : Search(tree, d) # NULL <=> d \in D
        /\ \A i \in DOMAIN w : \A x \in {tree.left[w[i]], tree.right[w[i]]} \ {NULL} :
                tree.parent[x] = w[i]
        /\ \A i \in DOMAIN w : w[i] \in allocated
        /\ again = 0 => D = inserted
=============================================================================
