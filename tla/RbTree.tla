------------------------------- MODULE RbTree -------------------------------
(***************************************************************************)
(* rb_tree.h: insertion into a red-black tree, with the sentinel nil_ for  *)
(* the leaves and above the root.  Nodes are numbered as they are          *)
(* inserted; high, a number nothing uses, is left out.                     *)
(***************************************************************************)
EXTENDS SearchTree, FiniteSets

CONSTANTS RbSize, RbKey     \* bounds: insertions, keys

nil_ == NULL
RbNode == 1..RbSize

VARIABLES rb    \* size_, root_, and of each node: key, p, left, right, color

Search(t, k) == SearchFrom(t, t.key, t.root_, k)

\* y takes the place of its parent x.
Above(t, x, y) ==
    LET up == t.p[x]
        s  == [t EXCEPT !.p[y] = up, !.p[x] = y]
    IN  IF up = nil_ THEN [s EXCEPT !.root_ = y]
        ELSE IF t.left[up] = x THEN [s EXCEPT !.left[up] = y]
        ELSE [s EXCEPT !.right[up] = y]

AdoptUnnoticed(t, c, x) == t

\* The subtree between the two changes its parent, unless it is nil_.
Adopt(t, c, x) == IF c = nil_ THEN t ELSE [t EXCEPT !.p[c] = x]

LeftRorate(t, x) ==
    LET y == t.right[x]
        c == t.left[y]
    IN  [Above(Adopt(t, c, x), x, y) EXCEPT !.right[x] = c, !.left[y] = x]

RightRorate(t, y) ==
    LET x == t.left[y]
        c == t.right[x]
    IN  [Above(Adopt(t, c, y), y, x) EXCEPT !.left[y] = c, !.right[x] = y]

Recolor(t, black, red) ==
    [t EXCEPT !.color = [x \in DOMAIN @ |->
        IF x \in black THEN "BLACK" ELSE IF x = red THEN "RED" ELSE @[x]]]

\* One round of the loop of InsertFixup: the tree and z, the last red node whose
\* parent may be red.  Under a black parent nothing is left to do.
Round(t, z) ==
    LET p      == t.p[z]
        g      == t.p[p]
        onLeft == p = t.left[g]
        y      == IF onLeft THEN t.right[g] ELSE t.left[g]
        Go(s, x) == [tree |-> s, z |-> x]
    IN  IF t.color[p] = "BLACK" THEN Go(t, z)
        ELSE IF t.color[y] = "RED" THEN Go(Recolor(t, {p, y}, g), g)
        ELSE IF onLeft /\ z = t.right[p] THEN Go(LeftRorate(t, p), p)
        ELSE IF ~ onLeft /\ z = t.left[p] THEN Go(RightRorate(t, p), p)
        ELSE LET s == Recolor(t, {p}, g)
             IN  Go(IF onLeft THEN RightRorate(s, g) ELSE LeftRorate(s, g), z)

\* A loop of fewer rounds than the tree has nodes.
InsertFixup(t, z) ==
    LET after[n \in 0..t.size_] ==
            IF n = 0 THEN [tree |-> t, z |-> z] ELSE Round(after[n - 1].tree, after[n - 1].z)
        s == after[t.size_].tree
    IN  [s EXCEPT !.color[s.root_] = "BLACK"]

Attach(t, z, k) ==
    LET y == IF t.root_ = nil_ THEN nil_ ELSE LastFrom(t, t.key, t.root_, k)
        s == [t EXCEPT !.size_ = @ + 1, !.key[z] = k, !.p[z] = y, !.color[z] = "RED"]
    IN  InsertFixup(IF y = nil_ THEN [s EXCEPT !.root_ = z]
                    ELSE IF k < t.key[y] THEN [s EXCEPT !.left[y] = z]
                    ELSE [s EXCEPT !.right[y] = z], z)

Init ==
    LET no == [x \in RbNode |-> nil_] IN
    rb = [size_ |-> 0, root_ |-> nil_, key |-> no, p |-> no, left |-> no, right |-> no,
          color |-> [x \in RbNode \cup {nil_} |-> "BLACK"]]

Insert(k) ==
    /\ rb.size_ < RbSize
    /\ rb' = Attach(rb, rb.size_ + 1, k)

Next == \E k \in RbKey : Insert(k)

Spec == Init /\ [][Next]_rb

-----------------------------------------------------------------------------
\* The numbers of black nodes on the ways from x to a leaf.
BlackHeights(t, x) ==
    LET from[n \in Place(t)] ==
            IF n = nil_ THEN {0}
            ELSE {h + (IF t.color[n] = "BLACK" THEN 1 ELSE 0) :
                    h \in from[t.left[n]] \cup from[t.right[n]]}
    IN  from[x]

\* After every insertion, equal keys and chains of recolourings included, the
\* walk has every node once in the order of the keys, Search finds every key
\* inserted, parents and children agree, the root and the sentinel are black,
\* a red node has no red child, and all ways down have as many black nodes.
RedBlack ==
    LET w == WalkFrom(rb, rb.root_) IN
    /\ Len(w) = rb.size_ /\ \A x \in 1..rb.size_ : \E i \in DOMAIN w : w[i] = x
    /\ \A i \in 1..Len(w) - 1 : rb.key[w[i]] <= rb.key[w[i + 1]]
    /\ \A x \in 1..rb.size_ : Search(rb, rb.key[x]) # nil_
    /\ rb.color[rb.root_] = "BLACK" /\ rb.color[nil_] = "BLACK"
    /\ rb.root_ # nil_ => rb.p[rb.root_] = nil_
    /\ \A x \in 1..rb.size_ : \A c \in {rb.left[x], rb.right[x]} \ {nil_} :
        rb.p[c] = x /\ ~ (rb.color[x] = "RED" /\ rb.color[c] = "RED")
    /\ Cardinality(BlackHeights(rb, rb.root_)) = 1
=============================================================================
