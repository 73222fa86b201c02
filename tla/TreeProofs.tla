----------------------------- MODULE TreeProofs -----------------------------
(***************************************************************************)
(* The binary tree and the red-black tree keep what they promise, for any  *)
(* numbers of nodes and any data.                                          *)
(***************************************************************************)
EXTENDS Trees, SearchTree, SequenceTheorems, FiniteSetTheorems, WellFoundedInduction, TLAPS

-----------------------------------------------------------------------------
(* Recursive functions.                                                     *)

\* A nonempty set of natural numbers has a least element.
LEMMA LeastElement ==
    ASSUME NEW S \in SUBSET Nat, S # {}
    PROVE  \E i \in S : \A j \in S : i <= j
  <1> DEFINE Less == {p \in Nat \X Nat : p[1] < p[2]}
  <1>1. IsWellFoundedOn(Less, Nat)
    BY NatLessThanWellFounded DEF OpToRel
  <1>2. S \subseteq Nat
    OBVIOUS
  <1>3. \E i \in S : \A j \in S : <<j, i>> \notin Less
    <2> HIDE DEF Less
    <2> QED BY <1>1, <1>2, WFMin
  <1>4. PICK i \in S : \A j \in S : <<j, i>> \notin Less
    BY <1>3
  <1>5. ASSUME NEW j \in S PROVE i <= j
    <2>1. <<j, i>> \notin Less
      BY <1>4
    <2> QED BY <2>1, <1>2
  <1> QED BY <1>5

\* Induction over the natural numbers, for a set instead of a formula.
LEMMA Upward ==
    ASSUME NEW S, 0 \in S, \A n \in Nat : n \in S => n + 1 \in S
    PROVE  \A n \in Nat : n \in S
  <1> SUFFICES ASSUME Nat \ S # {} PROVE FALSE
    OBVIOUS
  <1>1. PICK n \in Nat \ S : \A k \in Nat \ S : n <= k
    BY LeastElement
  <1>2. n # 0 /\ n - 1 \in Nat /\ n - 1 \notin Nat \ S
    BY <1>1
  <1> QED BY <1>2

\* Induction over a measure: what holds of x if it holds of all that measure less
\* holds of all.
LEMMA ByMeasure ==
    ASSUME NEW S, NEW size \in [S -> Nat], NEW K,
           \A x \in S : (\A y \in S : size[y] < size[x] => y \in K) => x \in K
    PROVE  \A x \in S : x \in K
  <1> DEFINE Done == {n \in Nat : \A x \in S : size[x] < n => x \in K}
  <1>1. 0 \in Done
    OBVIOUS
  <1>2. ASSUME NEW n \in Nat, n \in Done PROVE n + 1 \in Done
    <2> SUFFICES ASSUME NEW x \in S, size[x] < n + 1 PROVE x \in K
      OBVIOUS
    <2>1. ASSUME NEW y \in S, size[y] < size[x] PROVE y \in K
      <3>1. size[x] \in Nat /\ size[y] \in Nat
        OBVIOUS
      <3>2. size[y] < n
        BY <3>1, <2>1
      <3> QED BY <3>2, <1>2
    <2> QED BY <2>1
  <1>3. \A n \in Nat : n \in Done
    <2> HIDE DEF Done
    <2> QED BY <1>1, <1>2, Upward
  <1>4. ASSUME NEW x \in S PROVE x \in K
    <2>1. size[x] \in Nat
      OBVIOUS
    <2>2. size[x] + 1 \in Done /\ size[x] < size[x] + 1
      BY <2>1, <1>3
    <2> QED BY <2>2
  <1> QED BY <1>4

\* G[g][x] depends only on the g[y] of the y that measure less.
Descending(G, S, T, size) ==
    \A g, h \in [S -> T] : \A x \in S :
        (\A y \in S : size[y] < size[x] => g[y] = h[y]) => G[g][x] = G[h][x]

Solved(G, S, T) == \E f \in [S -> T] : f = G[f]

\* An equation that gives f[x] from the f[y] that measure less has a solution.
LEMMA Solvable ==
    ASSUME NEW S, NEW T, NEW e \in T, NEW M \in Nat, NEW size \in [S -> 0..M],
           NEW G \in [[S -> T] -> [S -> T]], Descending(G, S, T, size)
    PROVE  Solved(G, S, T)
  <1> DEFINE Solves(f, n) == \A x \in S : size[x] < n => G[f][x] = f[x]
             K == {n \in Nat : \E f \in [S -> T] : Solves(f, n)}
  <1>1. 0 \in K
    <2>1. [x \in S |-> e] \in [S -> T]
      OBVIOUS
    <2>2. Solves([x \in S |-> e], 0)
      OBVIOUS
    <2> HIDE DEF Solves
    <2> QED BY <2>1, <2>2
  <1>2. ASSUME NEW n \in Nat, n \in K PROVE n + 1 \in K
    <2>1. PICK f \in [S -> T] : Solves(f, n)
      BY <1>2
    <2> DEFINE g == [x \in S |-> IF size[x] < n THEN f[x] ELSE G[f][x]]
    <2>2. g \in [S -> T]
      <3>1. G[f] \in [S -> T]
        OBVIOUS
      <3> QED BY <3>1
    <2>3. ASSUME NEW x \in S, size[x] < n + 1 PROVE G[g][x] = g[x]
      <3>1. ASSUME NEW y \in S, size[y] < size[x] PROVE g[y] = f[y]
        <4>1. size[x] \in Nat /\ size[y] \in Nat
          OBVIOUS
        <4>2. size[y] < n
          BY <4>1, <3>1, <2>3
        <4> QED BY <4>2
      <3>2. G[g][x] = G[f][x]
        <4> HIDE DEF g
        <4> QED BY <3>1, <2>2 DEF Descending
      <3>3. g[x] = IF size[x] < n THEN f[x] ELSE G[f][x]
        OBVIOUS
      <3> HIDE DEF g
      <3> QED BY <3>2, <3>3, <2>1
    <2>4. Solves(g, n + 1)
      <3> HIDE DEF g
      <3> QED BY <2>3
    <2> HIDE DEF g, Solves
    <2> QED BY <2>2, <2>4
  <1>3. \A n \in Nat : n \in K
    <2> HIDE DEF K
    <2> QED BY <1>1, <1>2, Upward
  <1>4. PICK f \in [S -> T] : Solves(f, M + 1)
    BY <1>3
  <1>5. \A x \in S : G[f][x] = f[x]
    <2>1. \A x \in S : size[x] \in 0..M /\ size[x] < M + 1
      OBVIOUS
    <2> QED BY <1>4, <2>1
  <1>6. G[f] \in [S -> T]
    OBVIOUS
  <1>7. f = G[f]
    BY <1>5, <1>6
  <1> QED BY <1>7 DEF Solved

-----------------------------------------------------------------------------
(* The loops down a tree meet their equations.                              *)

\* Children are nodes or none, and no way down goes on forever.
Grounded(t) ==
    /\ DOMAIN t.right = DOMAIN t.left /\ NULL \notin DOMAIN t.left
    /\ \E M \in Nat : \E size \in [Place(t) -> 0..M] :
        \A x \in DOMAIN t.left : /\ t.left[x] \in Place(t) /\ size[t.left[x]] < size[x]
                                 /\ t.right[x] \in Place(t) /\ size[t.right[x]] < size[x]

LEMMA SearchEquation ==
    ASSUME NEW t, Grounded(t), NEW value, NEW d, NEW x \in Place(t)
    PROVE  SearchFrom(t, value, x, d) =
              IF x = NULL \/ value[x] = d THEN x
              ELSE SearchFrom(t, value, Toward(t, value, d, x), d)
  <1> DEFINE S == Place(t)
             E(g, n) == IF n = NULL \/ value[n] = d THEN n ELSE g[Toward(t, value, d, n)]
             f == CHOOSE f : f = [n \in S |-> E(f, n)]
             G == [g \in [S -> S] |-> [n \in S |-> E(g, n)]]
  <1>0. PICK M \in Nat : \E size \in [S -> 0..M] :
            \A n \in DOMAIN t.left : /\ t.left[n] \in S /\ size[t.left[n]] < size[n]
                                     /\ t.right[n] \in S /\ size[t.right[n]] < size[n]
    BY Zenon DEF Grounded
  <1>1. PICK size \in [S -> 0..M] :
            \A n \in DOMAIN t.left : /\ t.left[n] \in S /\ size[t.left[n]] < size[n]
                                     /\ t.right[n] \in S /\ size[t.right[n]] < size[n]
    BY <1>0
  <1>2. \A n \in S : n # NULL => Toward(t, value, d, n) \in S /\ size[Toward(t, value, d, n)] < size[n]
    <2> SUFFICES ASSUME NEW n \in S, n # NULL
                 PROVE  Toward(t, value, d, n) \in S /\ size[Toward(t, value, d, n)] < size[n]
      OBVIOUS
    <2>1. n \in DOMAIN t.left
      BY DEF Place
    <2>2. Toward(t, value, d, n) \in {t.left[n], t.right[n]}
      BY DEF Toward
    <2> QED BY <2>1, <2>2, <1>1
  <1>3. NULL \in S
    BY DEF Place
  <1> HIDE DEF S
  <1>4. G \in [[S -> S] -> [S -> S]]
    BY <1>2, <1>3
  <1>5. \E g \in [S -> S] : g = G[g]
    <2>1. Descending(G, S, S, size)
      BY <1>2 DEF Descending
    <2> HIDE DEF G
    <2>2. Solved(G, S, S)
      BY <2>1, <1>3, <1>4, Solvable
    <2> QED BY <2>2 DEF Solved
  <1>6. f = [n \in S |-> E(f, n)]
    <2>1. \E g : g = [n \in S |-> E(g, n)]
      BY <1>5
    <2> HIDE DEF E
    <2> QED BY <2>1
  <1>7. \A n \in S : f[n] = E(f, n)
    <2> HIDE DEF f, E
    <2> QED BY <1>6
  <1>8. ASSUME NEW n PROVE SearchFrom(t, value, n, d) = f[n]
    BY DEF SearchFrom, S
  <1> HIDE DEF f
  <1> QED BY <1>7, <1>8 DEF S

LEMMA LastEquation ==
    ASSUME NEW t, Grounded(t), NEW value, NEW d, NEW x \in DOMAIN t.left
    PROVE  LET c == Toward(t, value, d, x)
           IN  LastFrom(t, value, x, d) = IF c = NULL THEN x ELSE LastFrom(t, value, c, d)
  <1> DEFINE S == DOMAIN t.left
             T == Place(t)
             c(n) == Toward(t, value, d, n)
             E(g, n) == IF c(n) = NULL THEN n ELSE g[c(n)]
             f == CHOOSE f : f = [n \in S |-> E(f, n)]
             G == [g \in [S -> T] |-> [n \in S |-> E(g, n)]]
  <1>0. PICK M \in Nat : \E size \in [Place(t) -> 0..M] :
            \A n \in DOMAIN t.left : /\ t.left[n] \in Place(t) /\ size[t.left[n]] < size[n]
                                     /\ t.right[n] \in Place(t) /\ size[t.right[n]] < size[n]
    BY Zenon DEF Grounded
  <1>1. PICK size \in [Place(t) -> 0..M] :
            \A n \in DOMAIN t.left : /\ t.left[n] \in Place(t) /\ size[t.left[n]] < size[n]
                                     /\ t.right[n] \in Place(t) /\ size[t.right[n]] < size[n]
    BY <1>0
  <1> DEFINE height == [n \in S |-> size[n]]
  <1>2. /\ height \in [S -> 0..M]
        /\ \A n \in S : c(n) # NULL => c(n) \in S /\ height[c(n)] < height[n]
    <2>1. \A n \in S : c(n) \in {t.left[n], t.right[n]}
      BY DEF Toward
    <2> QED BY <2>1, <1>1 DEF Place
  <1>3. NULL \in T
    BY DEF Place
  <1> HIDE DEF c, height
  <1>4. G \in [[S -> T] -> [S -> T]]
    BY <1>2, <1>3 DEF Place
  <1>5. \E g : g = [n \in S |-> E(g, n)]
    <2>1. Descending(G, S, T, height)
      BY <1>2 DEF Descending
    <2> HIDE DEF G, S, T
    <2>2. Solved(G, S, T)
      BY <2>1, <1>2, <1>3, <1>4, Solvable
    <2>3. PICK g \in [S -> T] : g = G[g]
      BY <2>2 DEF Solved
    <2> QED BY <2>3 DEF G
  <1>6. f = [n \in S |-> E(f, n)]
    <2> HIDE DEF E, S
    <2> QED BY <1>5
  <1>7. \A n \in S : f[n] = E(f, n)
    <2> HIDE DEF f, E, S
    <2> QED BY <1>6
  <1>8. ASSUME NEW n PROVE LastFrom(t, value, n, d) = f[n]
    BY DEF LastFrom, c
  <1> HIDE DEF f
  <1> QED BY <1>7, <1>8 DEF c

LEMMA MinEquation ==
    ASSUME NEW t, Grounded(t), NEW x \in DOMAIN t.left
    PROVE  B!Min(t, x) = IF t.left[x] = NULL THEN x ELSE B!Min(t, t.left[x])
  <1> DEFINE S == DOMAIN t.left
             T == Place(t)
             E(g, n) == IF t.left[n] = B!NULL THEN n ELSE g[t.left[n]]
             f == CHOOSE f : f = [n \in S |-> E(f, n)]
             G == [g \in [S -> T] |-> [n \in S |-> E(g, n)]]
  <1>0. PICK M \in Nat : \E size \in [Place(t) -> 0..M] :
            \A n \in DOMAIN t.left : /\ t.left[n] \in Place(t) /\ size[t.left[n]] < size[n]
                                     /\ t.right[n] \in Place(t) /\ size[t.right[n]] < size[n]
    BY Zenon DEF Grounded
  <1>1. PICK size \in [Place(t) -> 0..M] :
            \A n \in DOMAIN t.left : /\ t.left[n] \in Place(t) /\ size[t.left[n]] < size[n]
                                     /\ t.right[n] \in Place(t) /\ size[t.right[n]] < size[n]
    BY <1>0
  <1> DEFINE height == [n \in S |-> size[n]]
  <1>2. /\ height \in [S -> 0..M]
        /\ \A n \in S : t.left[n] # B!NULL => t.left[n] \in S /\ height[t.left[n]] < height[n]
    BY <1>1 DEF Place, NULL, B!NULL
  <1>3. NULL \in T
    BY DEF Place
  <1> HIDE DEF height
  <1>4. G \in [[S -> T] -> [S -> T]]
    BY <1>2, <1>3 DEF Place
  <1>5. \E g : g = [n \in S |-> E(g, n)]
    <2>1. Descending(G, S, T, height)
      BY <1>2 DEF Descending
    <2> HIDE DEF G, S, T
    <2>2. Solved(G, S, T)
      BY <2>1, <1>2, <1>3, <1>4, Solvable
    <2>3. PICK g \in [S -> T] : g = G[g]
      BY <2>2 DEF Solved
    <2> QED BY <2>3 DEF G
  <1>6. f = [n \in S |-> E(f, n)]
    <2> HIDE DEF E, S
    <2> QED BY <1>5
  <1>7. \A n \in S : f[n] = E(f, n)
    <2> HIDE DEF f, E, S
    <2> QED BY <1>6
  <1>8. ASSUME NEW n PROVE B!Min(t, n) = f[n]
    BY DEF B!Min
  <1> HIDE DEF f
  <1> QED BY <1>7, <1>8 DEF NULL, B!NULL

LEMMA WalkEquation ==
    ASSUME NEW t, Grounded(t), NEW x \in Place(t)
    PROVE  WalkFrom(t, x) =
              IF x = NULL THEN << >> ELSE WalkFrom(t, t.left[x]) \o <<x>> \o WalkFrom(t, t.right[x])
  <1> DEFINE S == Place(t)
             T == Seq(DOMAIN t.left)
             E(g, n) == IF n = NULL THEN << >> ELSE g[t.left[n]] \o <<n>> \o g[t.right[n]]
             f == CHOOSE f : f = [n \in S |-> E(f, n)]
             G == [g \in [S -> T] |-> [n \in S |-> E(g, n)]]
  <1>0. PICK M \in Nat : \E size \in [Place(t) -> 0..M] :
            \A n \in DOMAIN t.left : /\ t.left[n] \in Place(t) /\ size[t.left[n]] < size[n]
                                     /\ t.right[n] \in Place(t) /\ size[t.right[n]] < size[n]
    BY Zenon DEF Grounded
  <1>1. PICK size \in [Place(t) -> 0..M] :
            \A n \in DOMAIN t.left : /\ t.left[n] \in Place(t) /\ size[t.left[n]] < size[n]
                                     /\ t.right[n] \in Place(t) /\ size[t.right[n]] < size[n]
    BY <1>0
  <1> DEFINE height == size
  <1>2. /\ height \in [S -> 0..M]
        /\ \A n \in S : n # NULL => /\ n \in DOMAIN t.left
                                    /\ t.left[n] \in S /\ height[t.left[n]] < height[n]
                                    /\ t.right[n] \in S /\ height[t.right[n]] < height[n]
    BY <1>1 DEF Place
  <1>3. << >> \in T
    OBVIOUS
  <1> HIDE DEF height
  <1>4. G \in [[S -> T] -> [S -> T]]
    <2>1. ASSUME NEW g \in [S -> T], NEW n \in S PROVE E(g, n) \in T
      <3>1. CASE n = NULL
        BY <3>1
      <3>2. CASE n # NULL
        <4>1. <<n>> \in T
          <5>1. n \in DOMAIN t.left
            BY <3>2, <1>2
          <5> DEFINE D == DOMAIN t.left
          <5>2. <<n>> \in Seq(D)
            <6>1. n \in D
              BY <5>1
            <6> HIDE DEF D
            <6> QED BY <6>1
          <5> QED BY <5>2
        <4>2. g[t.left[n]] \in T /\ g[t.right[n]] \in T
          <5> HIDE DEF S, T
          <5> QED BY <3>2, <1>2
        <4>3. g[t.left[n]] \o <<n>> \in T
          BY <4>1, <4>2, ConcatProperties
        <4>4. g[t.left[n]] \o <<n>> \o g[t.right[n]] \in T
          BY <4>2, <4>3, ConcatProperties
        <4> QED BY <3>2, <4>4
      <3> QED BY <3>1, <3>2
    <2> HIDE DEF S, T, E
    <2> QED BY <2>1
  <1>5. \E g : g = [n \in S |-> E(g, n)]
    <2>1. Descending(G, S, T, height)
      BY <1>2 DEF Descending
    <2> HIDE DEF G, S, T
    <2>2. Solved(G, S, T)
      BY <2>1, <1>2, <1>3, <1>4, Solvable
    <2>3. PICK g \in [S -> T] : g = G[g]
      BY <2>2 DEF Solved
    <2> QED BY <2>3 DEF G
  <1>6. f = [n \in S |-> E(f, n)]
    <2> HIDE DEF E, S
    <2> QED BY <1>5
  <1>7. \A n \in S : f[n] = E(f, n)
    <2> HIDE DEF f, E, S
    <2> QED BY <1>6
  <1>8. ASSUME NEW n PROVE WalkFrom(t, n) = f[n]
    BY DEF WalkFrom
  <1> HIDE DEF f
  <1> QED BY <1>7, <1>8

LEMMA BlackEquation ==
    ASSUME NEW t, Grounded(t), NEW x \in Place(t)
    PROVE  R!BlackHeights(t, x) =
              IF x = NULL THEN {0}
              ELSE {h + (IF t.color[x] = "BLACK" THEN 1 ELSE 0) :
                      h \in R!BlackHeights(t, t.left[x]) \cup R!BlackHeights(t, t.right[x])}
  <1> DEFINE S == Place(t)
             T == SUBSET Nat
             Through(n, H) == {h + (IF t.color[n] = "BLACK" THEN 1 ELSE 0) : h \in H}
             E(g, n) == IF n = NULL THEN {0} ELSE Through(n, g[t.left[n]] \cup g[t.right[n]])
             f == CHOOSE f : f = [n \in S |-> E(f, n)]
             G == [g \in [S -> T] |-> [n \in S |-> E(g, n)]]
  <1>0. PICK M \in Nat : \E size \in [Place(t) -> 0..M] :
            \A n \in DOMAIN t.left : /\ t.left[n] \in Place(t) /\ size[t.left[n]] < size[n]
                                     /\ t.right[n] \in Place(t) /\ size[t.right[n]] < size[n]
    BY Zenon DEF Grounded
  <1>1. PICK size \in [Place(t) -> 0..M] :
            \A n \in DOMAIN t.left : /\ t.left[n] \in Place(t) /\ size[t.left[n]] < size[n]
                                     /\ t.right[n] \in Place(t) /\ size[t.right[n]] < size[n]
    BY <1>0
  <1> DEFINE height == size
  <1>2. /\ height \in [S -> 0..M]
        /\ \A n \in S : n # NULL => /\ n \in DOMAIN t.left
                                    /\ t.left[n] \in S /\ height[t.left[n]] < height[n]
                                    /\ t.right[n] \in S /\ height[t.right[n]] < height[n]
    BY <1>1 DEF Place
  <1>3. {0} \in T
    OBVIOUS
  <1> HIDE DEF height
  <1>4. G \in [[S -> T] -> [S -> T]]
    <2>1. ASSUME NEW g \in [S -> T], NEW n \in S PROVE E(g, n) \in T
      BY <1>2
    <2> HIDE DEF S, T, E
    <2> QED BY <2>1
  <1>5. \E g : g = [n \in S |-> E(g, n)]
    <2>1. Descending(G, S, T, height)
      BY <1>2 DEF Descending
    <2> HIDE DEF G, S, T
    <2>2. Solved(G, S, T)
      BY <2>1, <1>2, <1>3, <1>4, Solvable
    <2>3. PICK g \in [S -> T] : g = G[g]
      BY <2>2 DEF Solved
    <2> QED BY <2>3 DEF G
  <1>6. f = [n \in S |-> E(f, n)]
    <2> HIDE DEF E, S
    <2> QED BY <1>5
  <1>7. \A n \in S : f[n] = E(f, n)
    <2> HIDE DEF f, E, S
    <2> QED BY <1>6
  <1>8. ASSUME NEW n PROVE R!BlackHeights(t, n) = f[n]
    BY DEF R!BlackHeights, R!nil_, R!NULL, NULL, R!Place, Place
  <1> HIDE DEF f
  <1>9. x # NULL => t.left[x] \in S /\ t.right[x] \in S
    BY <1>2
  <1> HIDE DEF Through
  <1>10. R!BlackHeights(t, x) = IF x = NULL THEN {0}
            ELSE Through(x, R!BlackHeights(t, t.left[x]) \cup R!BlackHeights(t, t.right[x]))
    BY <1>7, <1>8
  <1> QED BY <1>10 DEF Through

-----------------------------------------------------------------------------
(* Layouts.                                                                 *)

\* A layout Y gives each of its nodes a place among 1..Y.n, and the places from
\* lo to hi to the node and those below it.
Nodes(Y) == DOMAIN Y.pos

PlacesOK(Y) ==
    /\ Y.n \in Nat /\ NULL \notin Nodes(Y)
    /\ \A x \in Nodes(Y) : /\ Y.pos[x] \in Int /\ Y.lo[x] \in Int /\ Y.hi[x] \in Int
                           /\ 1 <= Y.lo[x] /\ Y.lo[x] <= Y.pos[x]
                           /\ Y.pos[x] <= Y.hi[x] /\ Y.hi[x] <= Y.n
    /\ \A x, z \in Nodes(Y) : Y.pos[x] = Y.pos[z] => x = z
    /\ \A i \in 1..Y.n : \E x \in Nodes(Y) : Y.pos[x] = i

\* The nodes below left[x] are those from lo[x] on before x, the nodes below
\* right[x] those behind x up to hi[x].
LeftOK(left, Y) ==
    \A x \in Nodes(Y) :
        IF left[x] = NULL THEN Y.lo[x] = Y.pos[x]
        ELSE left[x] \in Nodes(Y) /\ Y.lo[left[x]] = Y.lo[x] /\ Y.hi[left[x]] = Y.pos[x] - 1

RightOK(right, Y) ==
    \A x \in Nodes(Y) :
        IF right[x] = NULL THEN Y.hi[x] = Y.pos[x]
        ELSE right[x] \in Nodes(Y) /\ Y.lo[right[x]] = Y.pos[x] + 1 /\ Y.hi[right[x]] = Y.hi[x]

\* Children know their parents and parents their children.
ParentsOK(left, right, parent, root, Y) ==
    /\ \A x \in Nodes(Y) : /\ left[x] # NULL => parent[left[x]] = x
                           /\ right[x] # NULL => parent[right[x]] = x
    /\ \A x \in Nodes(Y) :
        IF x = root THEN parent[x] = NULL
        ELSE parent[x] \in Nodes(Y) /\ (left[parent[x]] = x \/ right[parent[x]] = x)

RootOK(root, Y) ==
    IF Y.n = 0 THEN root = NULL
    ELSE root \in Nodes(Y) /\ Y.lo[root] = 1 /\ Y.hi[root] = Y.n

Laid(left, right, parent, root, Y) ==
    /\ PlacesOK(Y) /\ LeftOK(left, Y) /\ RightOK(right, Y)
    /\ ParentsOK(left, right, parent, root, Y) /\ RootOK(root, Y)

Mirrored(Y) ==
    [n |-> Y.n, pos |-> [x \in Nodes(Y) |-> Y.n + 1 - Y.pos[x]],
     lo |-> [x \in Nodes(Y) |-> Y.n + 1 - Y.hi[x]], hi |-> [x \in Nodes(Y) |-> Y.n + 1 - Y.lo[x]]]

LEMMA MirroredIs ==
    ASSUME NEW Y
    PROVE  /\ Nodes(Mirrored(Y)) = Nodes(Y) /\ Mirrored(Y).n = Y.n
           /\ \A x \in Nodes(Y) : /\ Mirrored(Y).pos[x] = Y.n + 1 - Y.pos[x]
                                  /\ Mirrored(Y).lo[x] = Y.n + 1 - Y.hi[x]
                                  /\ Mirrored(Y).hi[x] = Y.n + 1 - Y.lo[x]
  BY DEF Mirrored, Nodes

\* A tree laid out is one from the other side, too.
LEMMA MirroredLaid ==
    ASSUME NEW left, NEW right, NEW parent, NEW root, NEW Y, Laid(left, right, parent, root, Y)
    PROVE  Laid(right, left, parent, root, Mirrored(Y))
  <1> DEFINE Z == Mirrored(Y)
             N == Nodes(Y)
  <1>1. /\ Nodes(Z) = N /\ Z.n = Y.n
        /\ \A x \in N : /\ Z.pos[x] = Y.n + 1 - Y.pos[x]
                        /\ Z.lo[x] = Y.n + 1 - Y.hi[x]
                        /\ Z.hi[x] = Y.n + 1 - Y.lo[x]
    BY MirroredIs
  <1>2. PlacesOK(Y) /\ LeftOK(left, Y) /\ RightOK(right, Y)
        /\ ParentsOK(left, right, parent, root, Y) /\ RootOK(root, Y)
    BY DEF Laid
  <1> HIDE DEF Z
  <1>3. PlacesOK(Z)
    <2>1. ASSUME NEW i \in 1..Y.n PROVE \E x \in N : Z.pos[x] = i
      <3>1. Y.n \in Nat /\ Y.n + 1 - i \in 1..Y.n
        BY <1>2 DEF PlacesOK
      <3>2. PICK x \in N : Y.pos[x] = Y.n + 1 - i
        BY <1>2, <3>1 DEF PlacesOK
      <3> QED BY <1>1, <3>1, <3>2
    <2> QED BY <1>1, <1>2, <2>1 DEF PlacesOK
  <1>4. LeftOK(right, Z)
    BY <1>1, <1>2 DEF RightOK, LeftOK, PlacesOK
  <1>5. RightOK(left, Z)
    BY <1>1, <1>2 DEF RightOK, LeftOK, PlacesOK
  <1>6. ParentsOK(right, left, parent, root, Z) /\ RootOK(root, Z)
    BY <1>1, <1>2 DEF ParentsOK, RootOK, PlacesOK
  <1> QED BY <1>3, <1>4, <1>5, <1>6 DEF Laid, Z

\* Only what a tree is of its nodes matters.
LEMMA LaidAlike ==
    ASSUME NEW left, NEW right, NEW parent, NEW root, NEW Y, Laid(left, right, parent, root, Y),
           NEW left2, NEW right2, NEW parent2,
           \A x \in Nodes(Y) : /\ left2[x] = left[x] /\ right2[x] = right[x]
                               /\ parent2[x] = parent[x]
    PROVE  Laid(left2, right2, parent2, root, Y)
  BY DEF Laid, LeftOK, RightOK, ParentsOK

\* Two nodes have the places of one within those of the other, or none in common.
LEMMA Nested ==
    ASSUME NEW left, NEW right, NEW parent, NEW root, NEW Y, Laid(left, right, parent, root, Y),
           NEW z \in Nodes(Y)
    PROVE  \A x \in Nodes(Y) :
               Y.lo[x] <= Y.pos[z] /\ Y.pos[z] <= Y.hi[x] => Y.lo[x] <= Y.lo[z] /\ Y.hi[z] <= Y.hi[x]
  <1> DEFINE N == Nodes(Y)
             size == [x \in N |-> Y.hi[x] - Y.lo[x]]
             K == {x \in N : Y.lo[x] <= Y.pos[z] /\ Y.pos[z] <= Y.hi[x] =>
                                Y.lo[x] <= Y.lo[z] /\ Y.hi[z] <= Y.hi[x]}
  <1>1. PlacesOK(Y) /\ LeftOK(left, Y) /\ RightOK(right, Y)
    BY DEF Laid
  <1>2. size \in [N -> Nat] /\ \A x \in N : size[x] = Y.hi[x] - Y.lo[x]
    BY <1>1 DEF PlacesOK
  <1>3. ASSUME NEW x \in N, \A c \in N : size[c] < size[x] => c \in K
        PROVE  x \in K
    <2> HIDE DEF size
    <2> SUFFICES ASSUME Y.lo[x] <= Y.pos[z], Y.pos[z] <= Y.hi[x]
                 PROVE  Y.lo[x] <= Y.lo[z] /\ Y.hi[z] <= Y.hi[x]
      OBVIOUS
    <2>1. CASE z = x
      BY <2>1, <1>1 DEF PlacesOK
    <2>2. CASE Y.pos[z] < Y.pos[x]
      <3>1. /\ left[x] \in N /\ Y.lo[left[x]] = Y.lo[x] /\ Y.hi[left[x]] = Y.pos[x] - 1
            /\ size[left[x]] < size[x]
        BY <2>2, <1>1, <1>2 DEF PlacesOK, LeftOK
      <3>2. left[x] \in K
        BY <3>1, <1>3
      <3> QED BY <3>1, <3>2, <2>2, <1>1 DEF PlacesOK
    <2>3. CASE Y.pos[z] > Y.pos[x]
      <3>1. /\ right[x] \in N /\ Y.lo[right[x]] = Y.pos[x] + 1 /\ Y.hi[right[x]] = Y.hi[x]
            /\ size[right[x]] < size[x]
        BY <2>3, <1>1, <1>2 DEF PlacesOK, RightOK
      <3>2. right[x] \in K
        BY <3>1, <1>3
      <3> QED BY <3>1, <3>2, <2>3, <1>1 DEF PlacesOK
    <2>4. Y.pos[z] \in Int /\ Y.pos[x] \in Int /\ (Y.pos[z] = Y.pos[x] => z = x)
      BY <1>1 DEF PlacesOK
    <2>5. z = x \/ Y.pos[z] < Y.pos[x] \/ Y.pos[z] > Y.pos[x]
      BY <2>4
    <2> QED BY <2>1, <2>2, <2>3, <2>5
  <1>4. \A x \in N : x \in K
    <2> HIDE DEF K, size, N
    <2> QED BY <1>2, <1>3, ByMeasure
  <1> QED BY <1>4

-----------------------------------------------------------------------------
(* What is written to a tree changes its layout.                            *)

\* The nodes of N are in the same order in Z as in Y.
SameOrder(N, Y, Z) ==
    \A a, b \in N : Z.pos[a] < Z.pos[b] <=> Y.pos[a] < Y.pos[b]

\* z is made a leaf and hung under y where y has no child.
Hung(side, other, parent, side2, other2, parent2, Y, y, z) ==
    /\ y \in Nodes(Y) /\ side[y] = NULL /\ z \notin Nodes(Y) /\ z # NULL
    /\ side2[z] = NULL /\ other2[z] = NULL /\ parent2[z] = y /\ side2[y] = z
    /\ \A x \in Nodes(Y) : /\ other2[x] = other[x] /\ parent2[x] = parent[x]
                           /\ x # y => side2[x] = side[x]

\* Z has the nodes of Y in their order, and z.
Grown(Y, Z, z) ==
    Nodes(Z) = Nodes(Y) \cup {z} /\ SameOrder(Nodes(Y), Y, Z) /\ Z.n = Y.n + 1

\* A leaf hung under the right of y is the next node behind y.
LEMMA AttachedRight ==
    ASSUME NEW left, NEW right, NEW parent, NEW root, NEW Y, Laid(left, right, parent, root, Y),
           NEW left2, NEW right2, NEW parent2, NEW y, NEW z,
           Hung(right, left, parent, right2, left2, parent2, Y, y, z)
    PROVE  \E Z : /\ Laid(left2, right2, parent2, root, Z) /\ Grown(Y, Z, z)
                  /\ \A x \in Nodes(Y) : Z.pos[x] < Z.pos[z] <=> Y.pos[x] <= Y.pos[y]
  <1> DEFINE N == Nodes(Y)
             k == Y.pos[y]
             M == N \cup {z}
             Z == [n |-> Y.n + 1,
                   pos |-> [x \in M |-> IF x = z THEN k + 1
                                        ELSE IF Y.pos[x] > k THEN Y.pos[x] + 1 ELSE Y.pos[x]],
                   lo |-> [x \in M |-> IF x = z THEN k + 1
                                       ELSE IF Y.lo[x] > k THEN Y.lo[x] + 1 ELSE Y.lo[x]],
                   hi |-> [x \in M |-> IF x = z THEN k + 1
                                       ELSE IF Y.hi[x] >= k THEN Y.hi[x] + 1 ELSE Y.hi[x]]]
  <1>0. /\ y \in N /\ right[y] = NULL /\ z \notin N /\ z # NULL
        /\ left2[z] = NULL /\ right2[z] = NULL /\ parent2[z] = y /\ right2[y] = z
        /\ \A x \in N : /\ left2[x] = left[x] /\ parent2[x] = parent[x]
                        /\ x # y => right2[x] = right[x]
    BY DEF Hung
  <1>1. /\ Nodes(Z) = M /\ Z.n = Y.n + 1
        /\ Z.pos[z] = k + 1 /\ Z.lo[z] = k + 1 /\ Z.hi[z] = k + 1
        /\ \A x \in N : /\ Z.pos[x] = IF Y.pos[x] > k THEN Y.pos[x] + 1 ELSE Y.pos[x]
                        /\ Z.lo[x] = IF Y.lo[x] > k THEN Y.lo[x] + 1 ELSE Y.lo[x]
                        /\ Z.hi[x] = IF Y.hi[x] >= k THEN Y.hi[x] + 1 ELSE Y.hi[x]
    BY <1>0 DEF Nodes
  <1>2. /\ PlacesOK(Y) /\ LeftOK(left, Y) /\ RightOK(right, Y)
        /\ ParentsOK(left, right, parent, root, Y) /\ RootOK(root, Y)
    BY DEF Laid
  <1>3. y \in N /\ k \in Int /\ Y.hi[y] = k /\ 1 <= k /\ k <= Y.n /\ Y.n \in Nat
    BY <1>0, <1>2 DEF PlacesOK, RightOK
  <1> HIDE DEF Z, k
  <1>4. PlacesOK(Z)
    <2>1. ASSUME NEW i \in 1..Z.n PROVE \E x \in M : Z.pos[x] = i
      <3>1. CASE i = k + 1
        BY <3>1, <1>1
      <3>2. CASE i <= k
        <4>1. PICK x \in N : Y.pos[x] = i
          BY <3>2, <1>1, <1>2, <1>3 DEF PlacesOK
        <4> QED BY <4>1, <3>2, <1>1, <1>3
      <3>3. CASE i > k + 1
        <4>1. PICK x \in N : Y.pos[x] = i - 1
          BY <3>3, <1>1, <1>2, <1>3 DEF PlacesOK
        <4> QED BY <4>1, <3>3, <1>1, <1>3
      <3> QED BY <3>1, <3>2, <3>3, <1>3
    <2>2. \A x \in M : /\ Z.pos[x] \in Int /\ Z.lo[x] \in Int /\ Z.hi[x] \in Int
                       /\ 1 <= Z.lo[x] /\ Z.lo[x] <= Z.pos[x]
                       /\ Z.pos[x] <= Z.hi[x] /\ Z.hi[x] <= Z.n
      BY <1>0, <1>1, <1>2, <1>3 DEF PlacesOK
    <2>3. \A x, v \in M : Z.pos[x] = Z.pos[v] => x = v
      <3>1. \A x, v \in N : Y.pos[x] \in Int /\ (Y.pos[x] = Y.pos[v] => x = v)
        BY <1>2 DEF PlacesOK
      <3> HIDE DEF N
      <3>2. ASSUME NEW x \in N, NEW v \in N, Z.pos[x] = Z.pos[v] PROVE x = v
        BY <3>1, <3>2, <1>1, <1>3
      <3>3. \A x \in N : Z.pos[x] # Z.pos[z]
        BY <3>1, <1>1, <1>3
      <3> QED BY <3>2, <3>3
    <2> QED BY <1>0, <1>1, <1>2, <1>3, <2>1, <2>2, <2>3 DEF PlacesOK
  <1>5. LeftOK(left2, Z)
    BY <1>0, <1>1, <1>2, <1>3 DEF LeftOK, PlacesOK
  <1>6. RightOK(right2, Z)
    BY <1>0, <1>1, <1>2, <1>3 DEF RightOK, PlacesOK
  <1>7. ParentsOK(left2, right2, parent2, root, Z)
    <2>1. ASSUME NEW x \in M
          PROVE  /\ left2[x] # NULL => parent2[left2[x]] = x
                 /\ right2[x] # NULL => parent2[right2[x]] = x
      <3>1. CASE x = z
        BY <3>1, <1>0
      <3>2. CASE x = y
        BY <3>2, <1>0, <1>2, <1>3 DEF ParentsOK, LeftOK
      <3>3. CASE x \in N /\ x # y
        BY <3>3, <1>0, <1>2 DEF ParentsOK, LeftOK, RightOK
      <3> QED BY <3>1, <3>2, <3>3
    <2>2. ASSUME NEW x \in M
          PROVE  IF x = root THEN parent2[x] = NULL
                 ELSE parent2[x] \in M /\ (left2[parent2[x]] = x \/ right2[parent2[x]] = x)
      <3>1. CASE x = z
        BY <3>1, <1>0, <1>2, <1>3 DEF RootOK
      <3>2. CASE x \in N
        <4>1. /\ IF x = root THEN parent[x] = NULL
                 ELSE parent[x] \in N /\ (left[parent[x]] = x \/ right[parent[x]] = x)
              /\ parent2[x] = parent[x] /\ x # NULL
          BY <3>2, <1>0, <1>2 DEF ParentsOK, PlacesOK
        <4> HIDE DEF N
        <4> QED BY <4>1, <1>0
      <3> QED BY <3>1, <3>2
    <2> QED BY <2>1, <2>2, <1>1 DEF ParentsOK
  <1>8. RootOK(root, Z)
    BY <1>0, <1>1, <1>2, <1>3 DEF RootOK
  <1>9. SameOrder(N, Y, Z) /\ \A x \in N : Z.pos[x] < Z.pos[z] <=> Y.pos[x] <= k
    BY <1>0, <1>1, <1>2, <1>3 DEF SameOrder, PlacesOK
  <1> QED BY <1>1, <1>4, <1>5, <1>6, <1>7, <1>8, <1>9 DEF Laid, k, Grown

\* A leaf hung under the left of y is the last node before y.
LEMMA AttachedLeft ==
    ASSUME NEW left, NEW right, NEW parent, NEW root, NEW Y, Laid(left, right, parent, root, Y),
           NEW left2, NEW right2, NEW parent2, NEW y, NEW z,
           Hung(left, right, parent, left2, right2, parent2, Y, y, z)
    PROVE  \E Z : /\ Laid(left2, right2, parent2, root, Z) /\ Grown(Y, Z, z)
                  /\ \A x \in Nodes(Y) : Z.pos[x] < Z.pos[z] <=> Y.pos[x] < Y.pos[y]
  <1> DEFINE W == Mirrored(Y)
             N == Nodes(Y)
  <1>1. Laid(right, left, parent, root, W)
    BY MirroredLaid
  <1>2. /\ Nodes(W) = N /\ W.n = Y.n
        /\ \A x \in N : W.pos[x] = Y.n + 1 - Y.pos[x]
    BY MirroredIs
  <1> HIDE DEF W
  <1>3. PICK V : /\ Laid(right2, left2, parent2, root, V) /\ Grown(W, V, z)
                 /\ \A x \in Nodes(W) : V.pos[x] < V.pos[z] <=> W.pos[x] <= W.pos[y]
    <2>1. Hung(left, right, parent, left2, right2, parent2, W, y, z)
      BY <1>2 DEF Hung
    <2> QED BY <1>1, <2>1, AttachedRight
  <1>0. y \in N /\ z \notin N
    BY DEF Hung
  <1> DEFINE Z == Mirrored(V)
  <1>4. Laid(left2, right2, parent2, root, Z)
    BY <1>3, MirroredLaid
  <1>5. /\ Nodes(Z) = N \cup {z} /\ Z.n = Y.n + 1
        /\ \A x \in N \cup {z} : Z.pos[x] = V.n + 1 - V.pos[x]
    BY <1>2, <1>3, MirroredIs DEF Grown
  <1> HIDE DEF Z
  <1>6. /\ Y.n \in Int /\ V.n \in Int /\ \A x \in N : Y.pos[x] \in Int
        /\ \A x \in N \cup {z} : V.pos[x] \in Int
        /\ \A x \in N : V.pos[x] # V.pos[z]
    BY <1>0, <1>2, <1>3 DEF Laid, PlacesOK, Grown
  <1>7. SameOrder(N, Y, Z)
    BY <1>2, <1>3, <1>5, <1>6 DEF SameOrder, Grown
  <1>8. \A x \in N : Z.pos[x] < Z.pos[z] <=> Y.pos[x] < Y.pos[y]
    BY <1>0, <1>2, <1>3, <1>5, <1>6
  <1> QED BY <1>4, <1>5, <1>7, <1>8 DEF Grown

\* c takes the place of z, which has no other child.
TakenOut(left, right, parent, root, left2, right2, parent2, root2, Y, z, c) ==
    /\ root2 = IF root = z THEN c ELSE root
    /\ \A x \in Nodes(Y) \ {z} : /\ left2[x] = IF left[x] = z THEN c ELSE left[x]
                                 /\ right2[x] = IF right[x] = z THEN c ELSE right[x]
                                 /\ parent2[x] = IF x = c THEN parent[z] ELSE parent[x]

\* Z has the nodes of Y but z, in their order.
Shrunk(Y, Z, z) == Nodes(Z) = Nodes(Y) \ {z} /\ SameOrder(Nodes(Z), Y, Z)

\* A node that has no left child is taken out by putting its right child there.
LEMMA RemovedLeftless ==
    ASSUME NEW left, NEW right, NEW parent, NEW root, NEW Y, Laid(left, right, parent, root, Y),
           NEW left2, NEW right2, NEW parent2, NEW root2,
           NEW z \in Nodes(Y), left[z] = NULL,
           TakenOut(left, right, parent, root, left2, right2, parent2, root2, Y, z, right[z])
    PROVE  \E Z : Laid(left2, right2, parent2, root2, Z) /\ Shrunk(Y, Z, z)
  <1> DEFINE N == Nodes(Y)
             p == Y.pos[z]
             M == N \ {z}
             c == right[z]
             Z == [n |-> Y.n - 1,
                   pos |-> [x \in M |-> IF Y.pos[x] > p THEN Y.pos[x] - 1 ELSE Y.pos[x]],
                   lo |-> [x \in M |-> IF Y.lo[x] > p THEN Y.lo[x] - 1 ELSE Y.lo[x]],
                   hi |-> [x \in M |-> IF Y.hi[x] >= p THEN Y.hi[x] - 1 ELSE Y.hi[x]]]
  <1>0. /\ root2 = IF root = z THEN c ELSE root
        /\ \A x \in M : /\ left2[x] = IF left[x] = z THEN c ELSE left[x]
                        /\ right2[x] = IF right[x] = z THEN c ELSE right[x]
                        /\ parent2[x] = IF x = c THEN parent[z] ELSE parent[x]
    BY DEF TakenOut
  <1>1. /\ Nodes(Z) = M /\ Z.n = Y.n - 1
        /\ \A x \in M : /\ Z.pos[x] = IF Y.pos[x] > p THEN Y.pos[x] - 1 ELSE Y.pos[x]
                        /\ Z.lo[x] = IF Y.lo[x] > p THEN Y.lo[x] - 1 ELSE Y.lo[x]
                        /\ Z.hi[x] = IF Y.hi[x] >= p THEN Y.hi[x] - 1 ELSE Y.hi[x]
    BY DEF Nodes
  <1>2. /\ PlacesOK(Y) /\ LeftOK(left, Y) /\ RightOK(right, Y)
        /\ ParentsOK(left, right, parent, root, Y) /\ RootOK(root, Y)
    BY DEF Laid
  <1>3. /\ z \in N /\ p \in Int /\ Y.lo[z] = p /\ 1 <= p /\ p <= Y.n /\ Y.n \in Nat /\ z # NULL
        /\ Y.hi[z] \in Int /\ p <= Y.hi[z] /\ Y.hi[z] <= Y.n
        /\ \A x \in M : Y.pos[x] # p
        /\ IF c = NULL THEN Y.hi[z] = p
           ELSE c \in M /\ Y.lo[c] = p + 1 /\ Y.hi[c] = Y.hi[z] /\ p + 1 <= Y.hi[c]
    BY <1>2 DEF PlacesOK, LeftOK, RightOK
  <1> HIDE DEF Z, p
  <1>4. PlacesOK(Z)
    <2>1. ASSUME NEW i \in 1..Z.n PROVE \E x \in M : Z.pos[x] = i
      <3>1. CASE i < p
        <4>1. PICK x \in N : Y.pos[x] = i
          BY <3>1, <1>1, <1>2, <1>3 DEF PlacesOK
        <4> QED BY <4>1, <3>1, <1>1, <1>3 DEF p
      <3>2. CASE i >= p
        <4>1. PICK x \in N : Y.pos[x] = i + 1
          BY <3>2, <1>1, <1>2, <1>3 DEF PlacesOK
        <4> QED BY <4>1, <3>2, <1>1, <1>3 DEF p
      <3> QED BY <3>1, <3>2, <1>3
    <2>2. \A x \in M : /\ Z.pos[x] \in Int /\ Z.lo[x] \in Int /\ Z.hi[x] \in Int
                       /\ 1 <= Z.lo[x] /\ Z.lo[x] <= Z.pos[x]
                       /\ Z.pos[x] <= Z.hi[x] /\ Z.hi[x] <= Z.n
      BY <1>1, <1>2, <1>3 DEF PlacesOK
    <2>3. \A x, v \in M : Z.pos[x] = Z.pos[v] => x = v
      <3>1. \A x, v \in N : Y.pos[x] \in Int /\ (Y.pos[x] = Y.pos[v] => x = v)
        BY <1>2 DEF PlacesOK
      <3> HIDE DEF N
      <3>2. ASSUME NEW x \in M, NEW v \in M, Z.pos[x] = Z.pos[v] PROVE x = v
        <4>1. Y.pos[x] = Y.pos[v]
          BY <3>1, <3>2, <1>1, <1>3
        <4> QED BY <3>1, <4>1
      <3> QED BY <3>2
    <2> QED BY <1>1, <1>2, <1>3, <2>1, <2>2, <2>3 DEF PlacesOK
  <1>5. LeftOK(left2, Z)
    <2>1. ASSUME NEW x \in M
          PROVE  IF left2[x] = NULL THEN Z.lo[x] = Z.pos[x]
                 ELSE left2[x] \in M /\ Z.lo[left2[x]] = Z.lo[x] /\ Z.hi[left2[x]] = Z.pos[x] - 1
      <3>1. /\ Y.pos[x] \in Int /\ Y.lo[x] \in Int /\ Y.hi[x] \in Int
            /\ IF left[x] = NULL THEN Y.lo[x] = Y.pos[x]
               ELSE left[x] \in N /\ Y.lo[left[x]] = Y.lo[x] /\ Y.hi[left[x]] = Y.pos[x] - 1
        BY <1>2 DEF PlacesOK, LeftOK
      <3>2. CASE left[x] = z
        <4>1. left2[x] = c
          BY <3>2, <1>0
        <4> HIDE DEF c
        <4> QED BY <3>1, <3>2, <4>1, <1>1, <1>3
      <3>3. CASE left[x] # z
        <4>1. left2[x] = left[x]
          BY <3>3, <1>0
        <4> HIDE DEF c
        <4> QED BY <3>1, <3>3, <4>1, <1>1, <1>3
      <3> QED BY <3>2, <3>3
    <2> QED BY <2>1, <1>1 DEF LeftOK
  <1>6. RightOK(right2, Z)
    <2>1. ASSUME NEW x \in M
          PROVE  IF right2[x] = NULL THEN Z.hi[x] = Z.pos[x]
                 ELSE right2[x] \in M /\ Z.lo[right2[x]] = Z.pos[x] + 1 /\ Z.hi[right2[x]] = Z.hi[x]
      <3>1. /\ Y.pos[x] \in Int /\ Y.lo[x] \in Int /\ Y.hi[x] \in Int
            /\ IF right[x] = NULL THEN Y.hi[x] = Y.pos[x]
               ELSE right[x] \in N /\ Y.lo[right[x]] = Y.pos[x] + 1 /\ Y.hi[right[x]] = Y.hi[x]
        BY <1>2 DEF PlacesOK, RightOK
      <3>2. CASE right[x] = z
        <4>1. right2[x] = c
          BY <3>2, <1>0
        <4> HIDE DEF c
        <4> QED BY <3>1, <3>2, <4>1, <1>1, <1>3
      <3>3. CASE right[x] # z
        <4>1. right2[x] = right[x]
          BY <3>3, <1>0
        <4> HIDE DEF c
        <4> QED BY <3>1, <3>3, <4>1, <1>1, <1>3
      <3> QED BY <3>2, <3>3
    <2> QED BY <2>1, <1>1 DEF RightOK
  <1>7. ParentsOK(left2, right2, parent2, root2, Z)
    <2>1. ASSUME NEW x \in M
          PROVE  /\ left2[x] # NULL => parent2[left2[x]] = x
                 /\ right2[x] # NULL => parent2[right2[x]] = x
      <3>1. /\ left[x] # NULL => left[x] \in N /\ parent[left[x]] = x
            /\ right[x] # NULL => right[x] \in N /\ parent[right[x]] = x
            /\ c # NULL => c \in M /\ parent[c] = z /\ parent2[c] = parent[z]
        BY <1>0, <1>2, <1>3 DEF ParentsOK, LeftOK, RightOK
      <3>2. \A v \in M : v # c => parent2[v] = parent[v]
        BY <1>0
      <3>3. left2[x] = (IF left[x] = z THEN c ELSE left[x])
            /\ right2[x] = (IF right[x] = z THEN c ELSE right[x])
        BY <1>0
      <3> HIDE DEF c
      <3> QED BY <3>1, <3>2, <3>3, <1>3
    <2>2. ASSUME NEW x \in M
          PROVE  IF x = root2 THEN parent2[x] = NULL
                 ELSE parent2[x] \in M /\ (left2[parent2[x]] = x \/ right2[parent2[x]] = x)
      <3>1. \A v \in N : IF v = root THEN parent[v] = NULL
                         ELSE parent[v] \in N /\ (left[parent[v]] = v \/ right[parent[v]] = v)
        BY <1>2 DEF ParentsOK
      <3>2. c # NULL => c \in M /\ parent[c] = z
        BY <1>2, <1>3 DEF ParentsOK
      <3>3. /\ root2 = IF root = z THEN c ELSE root
            /\ \A v \in M : /\ left2[v] = IF left[v] = z THEN c ELSE left[v]
                            /\ right2[v] = IF right[v] = z THEN c ELSE right[v]
                            /\ parent2[v] = IF v = c THEN parent[z] ELSE parent[v]
        BY <1>0
      <3>4. x \in N /\ x # z /\ x # NULL /\ left[z] = NULL
        BY <1>2 DEF PlacesOK
      <3>5. parent[z] # z
        BY <1>2, <1>3 DEF ParentsOK, LeftOK, RightOK, PlacesOK
      <3>6. CASE x = c
        <4>1. parent2[x] = parent[z] /\ right[z] = x
          BY <3>3, <3>6
        <4> HIDE DEF c
        <4> QED BY <3>1, <3>2, <3>3, <3>4, <3>5, <3>6, <4>1, <1>3
      <3>7. CASE x # c
        <4>1. parent2[x] = parent[x] /\ right[z] # x
          BY <3>3, <3>7
        <4> HIDE DEF c
        <4> QED BY <3>1, <3>3, <3>4, <3>7, <4>1, <1>3
      <3> QED BY <3>6, <3>7
    <2> QED BY <2>1, <2>2, <1>1 DEF ParentsOK
  <1>8. RootOK(root2, Z)
    <2>1. root \in N /\ Y.lo[root] = 1 /\ Y.hi[root] = Y.n /\ Y.n # 0
      BY <1>2, <1>3 DEF RootOK
    <2>2. CASE root = z
      <3>1. root2 = c
        BY <2>2, <1>0
      <3> HIDE DEF c
      <3> QED BY <2>1, <2>2, <3>1, <1>1, <1>3 DEF RootOK
    <2>3. CASE root # z
      <3>1. root2 = root /\ root \in M
        BY <2>1, <2>3, <1>0
      <3>2. Y.n # 1
        BY <2>1, <3>1, <1>2, <1>3 DEF PlacesOK, p
      <3> QED BY <2>1, <3>1, <3>2, <1>1, <1>3 DEF RootOK
    <2> QED BY <2>2, <2>3
  <1>9. SameOrder(M, Y, Z)
    BY <1>1, <1>2, <1>3 DEF SameOrder, PlacesOK
  <1> QED BY <1>1, <1>4, <1>5, <1>6, <1>7, <1>8, <1>9 DEF Laid, Shrunk

\* A node that has no right child is taken out by putting its left child there.
LEMMA RemovedRightless ==
    ASSUME NEW left, NEW right, NEW parent, NEW root, NEW Y, Laid(left, right, parent, root, Y),
           NEW left2, NEW right2, NEW parent2, NEW root2,
           NEW z \in Nodes(Y), right[z] = NULL,
           TakenOut(left, right, parent, root, left2, right2, parent2, root2, Y, z, left[z])
    PROVE  \E Z : Laid(left2, right2, parent2, root2, Z) /\ Shrunk(Y, Z, z)
  <1> DEFINE W == Mirrored(Y)
             N == Nodes(Y)
  <1>1. Laid(right, left, parent, root, W)
    BY MirroredLaid
  <1>2. /\ Nodes(W) = N /\ W.n = Y.n
        /\ \A x \in N : W.pos[x] = Y.n + 1 - Y.pos[x]
    BY MirroredIs
  <1> HIDE DEF W
  <1>3. PICK V : Laid(right2, left2, parent2, root2, V) /\ Shrunk(W, V, z)
    <2>1. TakenOut(right, left, parent, root, right2, left2, parent2, root2, W, z, left[z])
      BY <1>2 DEF TakenOut
    <2>2. z \in Nodes(W)
      BY <1>2
    <2> QED BY <1>1, <2>1, <2>2, RemovedLeftless
  <1> DEFINE Z == Mirrored(V)
  <1>4. Laid(left2, right2, parent2, root2, Z)
    BY <1>3, MirroredLaid
  <1>5. /\ Nodes(Z) = N \ {z} /\ Nodes(V) = N \ {z}
        /\ \A x \in N \ {z} : Z.pos[x] = V.n + 1 - V.pos[x]
    BY <1>2, <1>3, MirroredIs DEF Shrunk
  <1> HIDE DEF Z
  <1>6. /\ Y.n \in Int /\ V.n \in Int /\ \A x \in N : Y.pos[x] \in Int
        /\ \A x \in N \ {z} : V.pos[x] \in Int
    BY <1>2, <1>3, <1>5 DEF Laid, PlacesOK
  <1>7. SameOrder(N \ {z}, Y, Z)
    BY <1>2, <1>3, <1>5, <1>6 DEF SameOrder, Shrunk
  <1> QED BY <1>4, <1>5, <1>7 DEF Shrunk

\* Another node y takes the place of z.
Renamed(left, right, parent, root, left2, right2, parent2, root2, Y, z, y) ==
    /\ root2 = IF root = z THEN y ELSE root
    /\ left2[y] = left[z] /\ right2[y] = right[z] /\ parent2[y] = parent[z]
    /\ \A x \in Nodes(Y) \ {z} : /\ left2[x] = IF left[x] = z THEN y ELSE left[x]
                                 /\ right2[x] = IF right[x] = z THEN y ELSE right[x]
                                 /\ parent2[x] = IF parent[x] = z THEN y ELSE parent[x]

LEMMA RenamedLaid ==
    ASSUME NEW left, NEW right, NEW parent, NEW root, NEW Y, Laid(left, right, parent, root, Y),
           NEW left2, NEW right2, NEW parent2, NEW root2,
           NEW z \in Nodes(Y), NEW y, y \notin Nodes(Y), y # NULL,
           Renamed(left, right, parent, root, left2, right2, parent2, root2, Y, z, y)
    PROVE  \E Z : /\ Laid(left2, right2, parent2, root2, Z)
                  /\ Nodes(Z) = (Nodes(Y) \ {z}) \cup {y}
                  /\ Z.pos[y] = Y.pos[z] /\ \A x \in Nodes(Y) \ {z} : Z.pos[x] = Y.pos[x]
  <1> DEFINE N == Nodes(Y)
             M == (N \ {z}) \cup {y}
             Of(x) == IF x = y THEN z ELSE x
             As(x) == IF x = z THEN y ELSE x
             Z == [n |-> Y.n, pos |-> [x \in M |-> Y.pos[Of(x)]],
                   lo |-> [x \in M |-> Y.lo[Of(x)]], hi |-> [x \in M |-> Y.hi[Of(x)]]]
  <1>1. /\ Nodes(Z) = M /\ Z.n = Y.n
        /\ \A x \in M : Z.pos[x] = Y.pos[Of(x)] /\ Z.lo[x] = Y.lo[Of(x)] /\ Z.hi[x] = Y.hi[Of(x)]
    BY DEF Nodes
  <1>2. /\ PlacesOK(Y) /\ LeftOK(left, Y) /\ RightOK(right, Y)
        /\ ParentsOK(left, right, parent, root, Y) /\ RootOK(root, Y)
    BY DEF Laid
  <1>3. \A x \in M : /\ Of(x) \in N /\ As(Of(x)) = x /\ x # NULL /\ Of(x) # NULL
                     /\ left2[x] = As(left[Of(x)]) /\ right2[x] = As(right[Of(x)])
                     /\ parent2[x] = As(parent[Of(x)])
    <2>1. left[z] # z /\ right[z] # z /\ parent[z] # z
      BY <1>2 DEF LeftOK, RightOK, ParentsOK, PlacesOK
    <2> QED BY <2>1, <1>2 DEF Renamed, PlacesOK
  <1>4. /\ \A x \in N : As(x) \in M /\ Of(As(x)) = x
        /\ As(NULL) = NULL /\ root2 = As(root)
    BY <1>2 DEF Renamed, PlacesOK
  <1> HIDE DEF Z, M, As, Of
  <1>5. PlacesOK(Z)
    <2>1. ASSUME NEW i \in 1..Z.n PROVE \E x \in M : Z.pos[x] = i
      <3>1. PICK x \in N : Y.pos[x] = i
        BY <1>1, <1>2 DEF PlacesOK
      <3> QED BY <3>1, <1>1, <1>4
    <2>2. \A x, v \in M : Z.pos[x] = Z.pos[v] => x = v
      <3>1. ASSUME NEW x \in M, NEW v \in M, Z.pos[x] = Z.pos[v] PROVE x = v
        <4>1. Of(x) = Of(v)
          BY <3>1, <1>1, <1>2, <1>3 DEF PlacesOK
        <4> QED BY <4>1, <1>3
      <3> QED BY <3>1
    <2>3. \A x \in M : /\ Z.pos[x] \in Int /\ Z.lo[x] \in Int /\ Z.hi[x] \in Int
                       /\ 1 <= Z.lo[x] /\ Z.lo[x] <= Z.pos[x]
                       /\ Z.pos[x] <= Z.hi[x] /\ Z.hi[x] <= Z.n
      BY <1>1, <1>2, <1>3 DEF PlacesOK
    <2> QED BY <2>1, <2>2, <2>3, <1>1, <1>2, <1>3 DEF PlacesOK
  <1>6. LeftOK(left2, Z)
    BY <1>1, <1>2, <1>3, <1>4 DEF LeftOK
  <1>7. RightOK(right2, Z)
    BY <1>1, <1>2, <1>3, <1>4 DEF RightOK
  <1>8. ParentsOK(left2, right2, parent2, root2, Z)
    <2>1. ASSUME NEW x \in M
          PROVE  /\ left2[x] # NULL => parent2[left2[x]] = x
                 /\ right2[x] # NULL => parent2[right2[x]] = x
      <3>1. /\ left[Of(x)] # NULL => left[Of(x)] \in N /\ parent[left[Of(x)]] = Of(x)
            /\ right[Of(x)] # NULL => right[Of(x)] \in N /\ parent[right[Of(x)]] = Of(x)
        BY <1>2, <1>3 DEF ParentsOK, LeftOK, RightOK
      <3> QED BY <3>1, <1>3, <1>4
    <2>2. ASSUME NEW x \in M
          PROVE  IF x = root2 THEN parent2[x] = NULL
                 ELSE parent2[x] \in M /\ (left2[parent2[x]] = x \/ right2[parent2[x]] = x)
      <3>1. IF Of(x) = root THEN parent[Of(x)] = NULL
            ELSE /\ parent[Of(x)] \in N
                 /\ left[parent[Of(x)]] = Of(x) \/ right[parent[Of(x)]] = Of(x)
        BY <1>2, <1>3 DEF ParentsOK
      <3>2. root = NULL \/ root \in N
        BY <1>2 DEF RootOK
      <3> QED BY <3>1, <3>2, <1>3, <1>4
    <2> QED BY <2>1, <2>2, <1>1 DEF ParentsOK
  <1>9. RootOK(root2, Z)
    BY <1>1, <1>2, <1>3, <1>4 DEF RootOK
  <1>10. /\ Nodes(Z) = (N \ {z}) \cup {y}
         /\ Z.pos[y] = Y.pos[z] /\ \A x \in N \ {z} : Z.pos[x] = Y.pos[x]
    BY <1>1 DEF M, Of
  <1> QED BY <1>5, <1>6, <1>7, <1>8, <1>9, <1>10 DEF Laid

\* The places of two nodes have none in common, or those of one are among those
\* of the other.
LEMMA Overlap ==
    ASSUME NEW left, NEW right, NEW parent, NEW root, NEW Y, Laid(left, right, parent, root, Y)
    PROVE  \A x, z \in Nodes(Y) :
               \/ Y.hi[x] < Y.lo[z] \/ Y.hi[z] < Y.lo[x]
               \/ Y.lo[x] <= Y.pos[z] /\ Y.pos[z] <= Y.hi[x]
               \/ Y.lo[z] <= Y.pos[x] /\ Y.pos[x] <= Y.hi[z]
  <1> DEFINE N == Nodes(Y)
             In(r, x) == Y.lo[r] <= Y.pos[x] /\ Y.pos[x] <= Y.hi[r]
             Either(x, z) == Y.hi[x] < Y.lo[z] \/ Y.hi[z] < Y.lo[x] \/ In(x, z) \/ In(z, x)
             size == [x \in N |-> Y.hi[x] - Y.lo[x]]
             K == {r \in N : \A x, z \in N : In(r, x) /\ In(r, z) => Either(x, z)}
  <1>1. PlacesOK(Y) /\ LeftOK(left, Y) /\ RightOK(right, Y)
    BY DEF Laid
  <1>2. size \in [N -> Nat] /\ \A x \in N : size[x] = Y.hi[x] - Y.lo[x]
    BY <1>1 DEF PlacesOK
  <1>3. \A r, x \in N : In(r, x) => Y.lo[r] <= Y.lo[x] /\ Y.hi[x] <= Y.hi[r]
    BY Nested
  <1>4. ASSUME NEW r \in N, \A c \in N : size[c] < size[r] => c \in K
        PROVE  r \in K
    <2> HIDE DEF size
    <2> SUFFICES ASSUME NEW x \in N, NEW z \in N, In(r, x), In(r, z)
                 PROVE  Either(x, z)
      OBVIOUS
    <2>0. \A v \in N : /\ Y.pos[v] \in Int /\ Y.lo[v] \in Int /\ Y.hi[v] \in Int
                       /\ Y.lo[v] <= Y.pos[v] /\ Y.pos[v] <= Y.hi[v]
      BY <1>1 DEF PlacesOK
    <2>1. Y.pos[r] > Y.lo[r] => /\ left[r] \in N /\ Y.lo[left[r]] = Y.lo[r]
                                /\ Y.hi[left[r]] = Y.pos[r] - 1 /\ left[r] \in K
      <3>1. ASSUME Y.pos[r] > Y.lo[r]
            PROVE  left[r] \in N /\ Y.lo[left[r]] = Y.lo[r] /\ Y.hi[left[r]] = Y.pos[r] - 1
        BY <3>1, <2>0, <1>1 DEF LeftOK
      <3> QED BY <3>1, <2>0, <1>2, <1>4
    <2>2. Y.pos[r] < Y.hi[r] => /\ right[r] \in N /\ Y.lo[right[r]] = Y.pos[r] + 1
                                /\ Y.hi[right[r]] = Y.hi[r] /\ right[r] \in K
      <3>1. ASSUME Y.pos[r] < Y.hi[r]
            PROVE  right[r] \in N /\ Y.lo[right[r]] = Y.pos[r] + 1 /\ Y.hi[right[r]] = Y.hi[r]
        BY <3>1, <2>0, <1>1 DEF RightOK
      <3> QED BY <3>1, <2>0, <1>2, <1>4
    <2>3. \A v \in N : In(r, v) /\ Y.pos[v] < Y.pos[r] => In(left[r], v) /\ Y.hi[v] < Y.pos[r]
      <3>1. ASSUME NEW v \in N, In(r, v), Y.pos[v] < Y.pos[r]
            PROVE  In(left[r], v) /\ Y.hi[v] < Y.pos[r]
        <4>1. left[r] \in N /\ In(left[r], v) /\ Y.hi[left[r]] = Y.pos[r] - 1
          BY <3>1, <2>0, <2>1
        <4> QED BY <4>1, <2>0, <1>3
      <3> QED BY <3>1
    <2>4. \A v \in N : In(r, v) /\ Y.pos[v] > Y.pos[r] => In(right[r], v) /\ Y.lo[v] > Y.pos[r]
      <3>1. ASSUME NEW v \in N, In(r, v), Y.pos[v] > Y.pos[r]
            PROVE  In(right[r], v) /\ Y.lo[v] > Y.pos[r]
        <4>1. right[r] \in N /\ In(right[r], v) /\ Y.lo[right[r]] = Y.pos[r] + 1
          BY <3>1, <2>0, <2>2
        <4> QED BY <4>1, <2>0, <1>3
      <3> QED BY <3>1
    <2>5. CASE Y.pos[x] = Y.pos[r] \/ Y.pos[z] = Y.pos[r]
      <3>1. x = r \/ z = r
        BY <2>5, <1>1 DEF PlacesOK
      <3> QED BY <3>1
    <2>6. CASE Y.pos[x] < Y.pos[r] /\ Y.pos[z] < Y.pos[r]
      <3>1. In(left[r], x) /\ In(left[r], z) /\ left[r] \in K
        BY <2>0, <2>1, <2>3, <2>6
      <3> QED BY <3>1
    <2>7. CASE Y.pos[x] > Y.pos[r] /\ Y.pos[z] > Y.pos[r]
      <3>1. In(right[r], x) /\ In(right[r], z) /\ right[r] \in K
        BY <2>0, <2>2, <2>4, <2>7
      <3> QED BY <3>1
    <2>8. CASE Y.pos[x] < Y.pos[r] /\ Y.pos[z] > Y.pos[r]
      BY <2>0, <2>3, <2>4, <2>8
    <2>9. CASE Y.pos[x] > Y.pos[r] /\ Y.pos[z] < Y.pos[r]
      BY <2>0, <2>3, <2>4, <2>9
    <2> QED BY <2>0, <2>5, <2>6, <2>7, <2>8, <2>9
  <1>5. \A x \in N : x \in K
    <2> HIDE DEF K, size, N
    <2> QED BY <1>2, <1>4, ByMeasure
  <1>6. ASSUME NEW x \in N, NEW z \in N PROVE Either(x, z)
    <2>1. root \in N /\ Y.lo[root] = 1 /\ Y.hi[root] = Y.n /\ RootOK(root, Y)
      BY <1>1, <1>6 DEF Laid, RootOK, PlacesOK
    <2>2. In(root, x) /\ In(root, z)
      BY <2>1, <1>1 DEF PlacesOK
    <2> QED BY <2>1, <2>2, <1>5
  <1> QED BY <1>6

\* A node loses its left child, and with it all nodes below that.
LEMMA Pruned ==
    ASSUME NEW left, NEW right, NEW parent, NEW root, NEW Y, Laid(left, right, parent, root, Y),
           NEW y \in Nodes(Y), left[y] # NULL,
           NEW left2, left2[y] = NULL, \A x \in Nodes(Y) \ {y} : left2[x] = left[x]
    PROVE  \E Z : /\ Laid(left2, right, parent, root, Z)
                  /\ y \in Nodes(Z) /\ Nodes(Z) \subseteq Nodes(Y) /\ SameOrder(Nodes(Z), Y, Z)
  <1> DEFINE N == Nodes(Y)
             c == left[y]
             a == Y.lo[c]
             b == Y.hi[c]
             len == b - a + 1
             M == {x \in N : Y.pos[x] < a \/ Y.pos[x] > b}
             Z == [n |-> Y.n - len,
                   pos |-> [x \in M |-> IF Y.pos[x] < a THEN Y.pos[x] ELSE Y.pos[x] - len],
                   lo |-> [x \in M |-> IF Y.lo[x] <= a THEN Y.lo[x] ELSE Y.lo[x] - len],
                   hi |-> [x \in M |-> IF Y.hi[x] < a THEN Y.hi[x] ELSE Y.hi[x] - len]]
  <1>1. /\ Nodes(Z) = M /\ Z.n = Y.n - len
        /\ \A x \in M : /\ Z.pos[x] = IF Y.pos[x] < a THEN Y.pos[x] ELSE Y.pos[x] - len
                        /\ Z.lo[x] = IF Y.lo[x] <= a THEN Y.lo[x] ELSE Y.lo[x] - len
                        /\ Z.hi[x] = IF Y.hi[x] < a THEN Y.hi[x] ELSE Y.hi[x] - len
    BY DEF Nodes
  <1>2. /\ PlacesOK(Y) /\ LeftOK(left, Y) /\ RightOK(right, Y)
        /\ ParentsOK(left, right, parent, root, Y) /\ RootOK(root, Y)
    BY DEF Laid
  <1>3. /\ c \in N /\ a \in Int /\ b \in Int /\ 1 <= a /\ a <= b /\ b + 1 <= Y.n
        /\ y \in N /\ Y.pos[y] = b + 1 /\ Y.lo[y] = a /\ len = b - a + 1 /\ len \in Int
        /\ a <= Y.pos[c] /\ Y.pos[c] <= b /\ Y.n \in Nat /\ c # y
    BY <1>2 DEF PlacesOK, LeftOK
  <1>4. \A x \in N : /\ Y.pos[x] \in Int /\ Y.lo[x] \in Int /\ Y.hi[x] \in Int
                     /\ 1 <= Y.lo[x] /\ Y.lo[x] <= Y.pos[x] /\ Y.pos[x] <= Y.hi[x]
                     /\ Y.hi[x] <= Y.n /\ x # NULL
    BY <1>2 DEF PlacesOK
  <1>5. /\ \A x \in N : a <= Y.pos[x] /\ Y.pos[x] <= b => a <= Y.lo[x] /\ Y.hi[x] <= b
        /\ \A x \in N : Y.lo[x] <= Y.pos[c] /\ Y.pos[c] <= Y.hi[x] => Y.lo[x] <= a /\ b <= Y.hi[x]
        /\ \A x \in N : a <= Y.pos[x] /\ Y.pos[x] <= Y.hi[y] => a <= Y.lo[x] /\ Y.hi[x] <= Y.hi[y]
    BY <1>3, Nested
  <1>6. y \in M /\ c \notin M
    BY <1>3, <1>4
  <1>7. \A x \in N : /\ \/ Y.hi[x] < a \/ b < Y.lo[x]
                        \/ Y.lo[x] <= Y.pos[c] /\ Y.pos[c] <= Y.hi[x]
                        \/ a <= Y.pos[x] /\ Y.pos[x] <= b
                     /\ \/ Y.hi[x] < a \/ Y.hi[y] < Y.lo[x]
                        \/ Y.lo[x] <= Y.pos[y] /\ Y.pos[y] <= Y.hi[x]
                        \/ a <= Y.pos[x] /\ Y.pos[x] <= Y.hi[y]
    BY <1>3, Overlap
  <1> HIDE DEF Z, c, a, b, len
  \* A node that stays has all the lost ones below it or none.
  <1>8. \A x \in M : Y.hi[x] < a \/ b < Y.lo[x] \/ (Y.lo[x] <= a /\ b < Y.hi[x])
    <2>1. ASSUME NEW x \in M PROVE Y.hi[x] < a \/ b < Y.lo[x] \/ (Y.lo[x] <= a /\ b < Y.hi[x])
      <3>1. CASE Y.hi[x] < a \/ b < Y.lo[x]
        BY <3>1
      <3>2. CASE Y.lo[x] <= Y.pos[c] /\ Y.pos[c] <= Y.hi[x]
        <4>1. Y.lo[x] <= a /\ b <= Y.hi[x]
          BY <3>2, <1>5
        <4>2. CASE Y.lo[x] <= Y.pos[y] /\ Y.pos[y] <= Y.hi[x]
          BY <4>1, <4>2, <1>3, <1>4
        <4>3. CASE a <= Y.pos[x] /\ Y.pos[x] <= Y.hi[y]
          BY <4>1, <4>3, <1>3, <1>4
        <4>4. Y.hi[y] \in Int /\ b + 1 <= Y.hi[y] /\ x \in N
          BY <1>3, <1>4
        <4> QED BY <4>1, <4>2, <4>3, <4>4, <1>3, <1>4, <1>7
      <3> QED BY <3>1, <3>2, <1>3, <1>4, <1>7
    <2> QED BY <2>1
  <1>9. PlacesOK(Z)
    <2>1. ASSUME NEW i \in 1..Z.n PROVE \E x \in M : Z.pos[x] = i
      <3>1. CASE i < a
        <4>1. PICK x \in N : Y.pos[x] = i
          BY <3>1, <1>1, <1>2, <1>3 DEF PlacesOK
        <4> QED BY <4>1, <3>1, <1>1, <1>3
      <3>2. CASE i >= a
        <4>1. PICK x \in N : Y.pos[x] = i + len
          BY <3>2, <1>1, <1>2, <1>3 DEF PlacesOK
        <4>2. x \in M
          BY <4>1, <3>2, <1>3
        <4> QED BY <4>1, <4>2, <3>2, <1>1, <1>3
      <3> QED BY <3>1, <3>2, <1>3
    <2>2. \A x \in M : /\ Z.pos[x] \in Int /\ Z.lo[x] \in Int /\ Z.hi[x] \in Int
                       /\ 1 <= Z.lo[x] /\ Z.lo[x] <= Z.pos[x]
                       /\ Z.pos[x] <= Z.hi[x] /\ Z.hi[x] <= Z.n
      <3>1. ASSUME NEW x \in M
            PROVE  /\ Z.pos[x] \in Int /\ Z.lo[x] \in Int /\ Z.hi[x] \in Int
                   /\ 1 <= Z.lo[x] /\ Z.lo[x] <= Z.pos[x]
                   /\ Z.pos[x] <= Z.hi[x] /\ Z.hi[x] <= Z.n
        BY <1>1, <1>3, <1>4, <1>8
      <3> QED BY <3>1
    <2>3. \A x, v \in M : Z.pos[x] = Z.pos[v] => x = v
      <3>1. ASSUME NEW x \in M, NEW v \in M, Z.pos[x] = Z.pos[v] PROVE x = v
        <4>1. Y.pos[x] = Y.pos[v]
          BY <3>1, <1>1, <1>3, <1>4
        <4> QED BY <4>1, <1>2 DEF PlacesOK
      <3> QED BY <3>1
    <2>4. Z.n \in Nat
      BY <1>1, <1>3
    <2> QED BY <1>1, <1>4, <2>1, <2>2, <2>3, <2>4 DEF PlacesOK
  \* No lost node but c has a parent that stays.
  <1>10. \A x \in M : /\ x # y /\ left[x] # NULL => left[x] \in M
                      /\ right[x] # NULL => right[x] \in M
    <2>1. ASSUME NEW x \in M, x # y, left[x] # NULL PROVE left[x] \in M
      <3>1. left[x] \in N /\ Y.lo[left[x]] = Y.lo[x] /\ Y.hi[left[x]] = Y.pos[x] - 1
        BY <2>1, <1>2 DEF LeftOK
      <3>2. Y.pos[x] # b + 1
        BY <2>1, <1>2, <1>3 DEF PlacesOK
      <3> QED BY <3>1, <3>2, <1>3, <1>4, <1>5, <1>8
    <2>2. ASSUME NEW x \in M, right[x] # NULL PROVE right[x] \in M
      <3>1. right[x] \in N /\ Y.lo[right[x]] = Y.pos[x] + 1 /\ Y.hi[right[x]] = Y.hi[x]
        BY <2>2, <1>2 DEF RightOK
      <3> QED BY <3>1, <1>3, <1>4, <1>5, <1>8
    <2> QED BY <2>1, <2>2
  <1>11. LeftOK(left2, Z)
    <2>1. ASSUME NEW x \in M
          PROVE  IF left2[x] = NULL THEN Z.lo[x] = Z.pos[x]
                 ELSE left2[x] \in M /\ Z.lo[left2[x]] = Z.lo[x] /\ Z.hi[left2[x]] = Z.pos[x] - 1
      <3>1. CASE x = y
        BY <3>1, <1>1, <1>3, <1>6
      <3>2. CASE x # y
        <4>1. /\ left2[x] = left[x]
              /\ IF left[x] = NULL THEN Y.lo[x] = Y.pos[x]
                 ELSE left[x] \in M /\ Y.lo[left[x]] = Y.lo[x] /\ Y.hi[left[x]] = Y.pos[x] - 1
          BY <3>2, <1>2, <1>10 DEF LeftOK
        <4> QED BY <4>1, <1>1, <1>3, <1>4
      <3> QED BY <3>1, <3>2
    <2> QED BY <2>1, <1>1 DEF LeftOK
  <1>12. RightOK(right, Z)
    <2>1. ASSUME NEW x \in M
          PROVE  IF right[x] = NULL THEN Z.hi[x] = Z.pos[x]
                 ELSE right[x] \in M /\ Z.lo[right[x]] = Z.pos[x] + 1 /\ Z.hi[right[x]] = Z.hi[x]
      <3>1. IF right[x] = NULL THEN Y.hi[x] = Y.pos[x]
            ELSE right[x] \in M /\ Y.lo[right[x]] = Y.pos[x] + 1 /\ Y.hi[right[x]] = Y.hi[x]
        BY <1>2, <1>10 DEF RightOK
      <3> QED BY <3>1, <1>1, <1>3, <1>4
    <2> QED BY <2>1, <1>1 DEF RightOK
  <1>13. ParentsOK(left2, right, parent, root, Z)
    <2>1. ASSUME NEW x \in M
          PROVE  /\ left2[x] # NULL => parent[left2[x]] = x
                 /\ right[x] # NULL => parent[right[x]] = x
      BY <1>2 DEF ParentsOK
    <2>2. ASSUME NEW x \in M
          PROVE  IF x = root THEN parent[x] = NULL
                 ELSE parent[x] \in M /\ (left2[parent[x]] = x \/ right[parent[x]] = x)
      <3>1. IF x = root THEN parent[x] = NULL
            ELSE parent[x] \in N /\ (left[parent[x]] = x \/ right[parent[x]] = x)
        BY <1>2 DEF ParentsOK
      <3>2. CASE x = root
        BY <3>1, <3>2
      <3>3. CASE x # root
        <4>1. parent[x] \in N /\ (left[parent[x]] = x \/ right[parent[x]] = x)
          BY <3>1, <3>3
        <4>2. Y.lo[parent[x]] <= Y.lo[x] /\ Y.hi[x] <= Y.hi[parent[x]]
          BY <4>1, <1>2, <1>4 DEF LeftOK, RightOK
        <4>3. parent[x] \in M
          BY <4>1, <4>2, <1>3, <1>4, <1>5
        <4>4. left2[parent[x]] = x \/ right[parent[x]] = x
          BY <4>1, <1>6 DEF c
        <4> QED BY <3>3, <4>3, <4>4
      <3> QED BY <3>2, <3>3
    <2> QED BY <2>1, <2>2, <1>1 DEF ParentsOK
  <1>14. RootOK(root, Z)
    <2>1. root \in N /\ Y.lo[root] = 1 /\ Y.hi[root] = Y.n
      BY <1>2, <1>3 DEF RootOK
    <2>2. root \in M
      BY <2>1, <1>3, <1>4, <1>5
    <2>3. Z.n # 0
      BY <1>6, <1>9, <1>1 DEF PlacesOK
    <2> QED BY <2>1, <2>2, <2>3, <1>1, <1>3 DEF RootOK
  <1>15. SameOrder(M, Y, Z)
    BY <1>1, <1>3, <1>4 DEF SameOrder
  <1> QED BY <1>1, <1>6, <1>9, <1>11, <1>12, <1>13, <1>14, <1>15 DEF Laid

\* x gives its place to its right child y and becomes the left child of that; the
\* subtree between the two moves over.
Rotated(left, right, parent, root, left2, right2, parent2, root2, Y, x, y) ==
    /\ x \in Nodes(Y) /\ right[x] = y /\ y # NULL
    /\ root2 = IF root = x THEN y ELSE root
    /\ \A v \in Nodes(Y) :
        /\ left2[v] = IF v = y THEN x ELSE IF left[v] = x THEN y ELSE left[v]
        /\ right2[v] = IF v = x THEN left[y] ELSE IF right[v] = x THEN y ELSE right[v]
        /\ parent2[v] = IF v = x THEN y ELSE IF v = y THEN parent[x]
                        ELSE IF v = left[y] THEN x ELSE parent[v]

\* Z has the nodes of Y in their places.
SamePlaces(Y, Z) ==
    Nodes(Z) = Nodes(Y) /\ Z.n = Y.n /\ \A v \in Nodes(Y) : Z.pos[v] = Y.pos[v]

\* A rotation moves no node in the order.
LEMMA RotatedLaid ==
    ASSUME NEW left, NEW right, NEW parent, NEW root, NEW Y, Laid(left, right, parent, root, Y),
           NEW left2, NEW right2, NEW parent2, NEW root2, NEW x, NEW y,
           Rotated(left, right, parent, root, left2, right2, parent2, root2, Y, x, y)
    PROVE  \E Z : Laid(left2, right2, parent2, root2, Z) /\ SamePlaces(Y, Z)
  <1> DEFINE N == Nodes(Y)
             c == left[y]
             Z == [n |-> Y.n, pos |-> Y.pos,
                   lo |-> [v \in N |-> IF v = y THEN Y.lo[x] ELSE Y.lo[v]],
                   hi |-> [v \in N |-> IF v = x THEN Y.pos[y] - 1 ELSE Y.hi[v]]]
  <1>0. /\ x \in N /\ right[x] = y /\ y # NULL /\ root2 = IF root = x THEN y ELSE root
        /\ \A v \in N : /\ left2[v] = IF v = y THEN x ELSE IF left[v] = x THEN y ELSE left[v]
                        /\ right2[v] = IF v = x THEN c ELSE IF right[v] = x THEN y ELSE right[v]
                        /\ parent2[v] = IF v = x THEN y ELSE IF v = y THEN parent[x]
                                        ELSE IF v = c THEN x ELSE parent[v]
    BY DEF Rotated
  <1>1. /\ Nodes(Z) = N /\ Z.n = Y.n
        /\ \A v \in N : /\ Z.pos[v] = Y.pos[v]
                        /\ Z.lo[v] = IF v = y THEN Y.lo[x] ELSE Y.lo[v]
                        /\ Z.hi[v] = IF v = x THEN Y.pos[y] - 1 ELSE Y.hi[v]
    BY DEF Nodes
  <1>2. /\ PlacesOK(Y) /\ LeftOK(left, Y) /\ RightOK(right, Y)
        /\ ParentsOK(left, right, parent, root, Y) /\ RootOK(root, Y)
    BY DEF Laid
  <1>3. \A v \in N : /\ Y.pos[v] \in Int /\ Y.lo[v] \in Int /\ Y.hi[v] \in Int
                     /\ 1 <= Y.lo[v] /\ Y.lo[v] <= Y.pos[v] /\ Y.pos[v] <= Y.hi[v]
                     /\ Y.hi[v] <= Y.n /\ v # NULL
    BY <1>2 DEF PlacesOK
  <1>4. /\ y \in N /\ x # y /\ Y.lo[y] = Y.pos[x] + 1 /\ Y.hi[y] = Y.hi[x]
        /\ IF c = NULL THEN Y.lo[y] = Y.pos[y]
           ELSE c \in N /\ Y.lo[c] = Y.lo[y] /\ Y.hi[c] = Y.pos[y] - 1 /\ c # x /\ c # y
    BY <1>0, <1>2, <1>3 DEF LeftOK, RightOK
  <1> HIDE DEF Z, c
  <1>5. PlacesOK(Z)
    <2>1. \A v \in N : /\ Z.pos[v] \in Int /\ Z.lo[v] \in Int /\ Z.hi[v] \in Int
                       /\ 1 <= Z.lo[v] /\ Z.lo[v] <= Z.pos[v]
                       /\ Z.pos[v] <= Z.hi[v] /\ Z.hi[v] <= Z.n
      <3>1. ASSUME NEW v \in N
            PROVE  /\ Z.pos[v] \in Int /\ Z.lo[v] \in Int /\ Z.hi[v] \in Int
                   /\ 1 <= Z.lo[v] /\ Z.lo[v] <= Z.pos[v]
                   /\ Z.pos[v] <= Z.hi[v] /\ Z.hi[v] <= Z.n
        <4>1. CASE v = x
          <5>1. /\ Y.pos[x] \in Int /\ Y.pos[y] \in Int /\ Y.lo[x] \in Int /\ 1 <= Y.lo[x]
                /\ Y.lo[x] <= Y.pos[x] /\ Y.pos[x] + 1 <= Y.pos[y] /\ Y.pos[y] <= Y.n /\ Y.n \in Nat
            BY <1>0, <1>2, <1>3, <1>4 DEF PlacesOK
          <5>2. Z.pos[x] = Y.pos[x] /\ Z.lo[x] = Y.lo[x] /\ Z.hi[x] = Y.pos[y] - 1 /\ Z.n = Y.n
            BY <1>0, <1>1, <1>4
          <5> QED BY <4>1, <5>1, <5>2
        <4>2. CASE v = y
          BY <4>2, <1>0, <1>1, <1>3, <1>4
        <4>3. CASE v # x /\ v # y
          BY <4>3, <1>1, <1>3
        <4> QED BY <4>1, <4>2, <4>3
      <3> QED BY <3>1
    <2> QED BY <2>1, <1>1, <1>2 DEF PlacesOK
  <1>6. LeftOK(left2, Z)
    <2>1. ASSUME NEW v \in N
          PROVE  IF left2[v] = NULL THEN Z.lo[v] = Z.pos[v]
                 ELSE left2[v] \in N /\ Z.lo[left2[v]] = Z.lo[v] /\ Z.hi[left2[v]] = Z.pos[v] - 1
      <3>1. IF left[v] = NULL THEN Y.lo[v] = Y.pos[v]
            ELSE left[v] \in N /\ Y.lo[left[v]] = Y.lo[v] /\ Y.hi[left[v]] = Y.pos[v] - 1
        BY <1>2 DEF LeftOK
      <3>2. CASE v = y
        BY <3>2, <1>0, <1>1, <1>3, <1>4
      <3>3. CASE v # y /\ left[v] = x
        BY <3>1, <3>3, <1>0, <1>1, <1>3, <1>4
      <3>4. CASE v # y /\ left[v] # x
        <4>1. left[v] # y
          BY <3>1, <3>4, <1>0, <1>2, <1>4 DEF ParentsOK, PlacesOK, LeftOK, RightOK
        <4> QED BY <3>1, <3>4, <4>1, <1>0, <1>1, <1>3, <1>4
      <3> QED BY <3>2, <3>3, <3>4
    <2> QED BY <2>1, <1>1 DEF LeftOK
  <1>7. RightOK(right2, Z)
    <2>1. ASSUME NEW v \in N
          PROVE  IF right2[v] = NULL THEN Z.hi[v] = Z.pos[v]
                 ELSE right2[v] \in N /\ Z.lo[right2[v]] = Z.pos[v] + 1 /\ Z.hi[right2[v]] = Z.hi[v]
      <3>1. IF right[v] = NULL THEN Y.hi[v] = Y.pos[v]
            ELSE right[v] \in N /\ Y.lo[right[v]] = Y.pos[v] + 1 /\ Y.hi[right[v]] = Y.hi[v]
        BY <1>2 DEF RightOK
      <3>2. CASE v = x
        BY <3>2, <1>0, <1>1, <1>3, <1>4
      <3>3. CASE v # x /\ right[v] = x
        BY <3>1, <3>3, <1>0, <1>1, <1>3, <1>4
      <3>4. CASE v # x /\ right[v] # x
        <4>1. right[v] # y
          BY <3>1, <3>4, <1>0, <1>2, <1>4 DEF ParentsOK, PlacesOK, LeftOK, RightOK
        <4> QED BY <3>1, <3>4, <4>1, <1>0, <1>1, <1>3, <1>4
      <3> QED BY <3>2, <3>3, <3>4
    <2> QED BY <2>1, <1>1 DEF RightOK
  <1>8. /\ \A v \in N : /\ left[v] # NULL => left[v] \in N /\ parent[left[v]] = v /\ left[v] # v
                        /\ right[v] # NULL => right[v] \in N /\ parent[right[v]] = v /\ right[v] # v
                        /\ left[v] = right[v] => left[v] = NULL
        /\ \A v \in N : IF v = root THEN parent[v] = NULL
                        ELSE parent[v] \in N /\ (left[parent[v]] = v \/ right[parent[v]] = v)
    <2>1. \A v \in N : /\ left[v] # NULL => left[v] \in N /\ Y.hi[left[v]] = Y.pos[v] - 1
                       /\ right[v] # NULL => right[v] \in N /\ Y.lo[right[v]] = Y.pos[v] + 1
      BY <1>2 DEF LeftOK, RightOK
    <2>2. \A v \in N : /\ left[v] # NULL => left[v] # v /\ left[v] # right[v]
                       /\ right[v] # NULL => right[v] # v
      BY <2>1, <1>3
    <2> QED BY <2>1, <2>2, <1>2 DEF ParentsOK
  <1>9. ParentsOK(left2, right2, parent2, root2, Z)
    <2>1. ASSUME NEW v \in N
          PROVE  /\ left2[v] # NULL => parent2[left2[v]] = v
                 /\ right2[v] # NULL => parent2[right2[v]] = v
      <3>1. left2[v] # NULL => parent2[left2[v]] = v
        <4>1. CASE v = y
          BY <4>1, <1>0
        <4>2. CASE v # y /\ left[v] = x
          BY <4>2, <1>0, <1>3, <1>4, <1>8
        <4>3. CASE v # y /\ left[v] # x /\ left[v] # NULL
          <5>1. left2[v] = left[v] /\ left[v] \in N /\ parent[left[v]] = v
            BY <4>3, <1>0, <1>8
          <5>2. left[v] # y /\ left[v] # c
            BY <4>3, <5>1, <1>0, <1>3, <1>4, <1>8 DEF c
          <5> QED BY <4>3, <5>1, <5>2, <1>0
        <4> QED BY <4>1, <4>2, <4>3, <1>0
      <3>2. right2[v] # NULL => parent2[right2[v]] = v
        <4>1. CASE v = x
          BY <4>1, <1>0, <1>4
        <4>2. CASE v # x /\ right[v] = x
          BY <4>2, <1>0, <1>3, <1>4, <1>8
        <4>3. CASE v # x /\ right[v] # x /\ right[v] # NULL
          <5>1. right2[v] = right[v] /\ right[v] \in N /\ parent[right[v]] = v
            BY <4>3, <1>0, <1>8
          <5>2. right[v] # y
            BY <4>3, <5>1, <1>0, <1>8
          <5>3. right[v] # c
            BY <4>3, <5>1, <1>4, <1>8 DEF c
          <5> QED BY <4>3, <5>1, <5>2, <5>3, <1>0
        <4> QED BY <4>1, <4>2, <4>3, <1>0
      <3> QED BY <3>1, <3>2
    <2>2. ASSUME NEW v \in N
          PROVE  IF v = root2 THEN parent2[v] = NULL
                 ELSE parent2[v] \in N /\ (left2[parent2[v]] = v \/ right2[parent2[v]] = v)
      <3>1. CASE v = x
        <4>1. parent2[v] = y /\ left2[y] = x /\ root2 # x
          BY <3>1, <1>0, <1>4
        <4> QED BY <3>1, <4>1, <1>4
      <3>2. CASE v = y
        <4>1. parent2[v] = parent[x]
          BY <3>2, <1>0, <1>4
        <4>2. root # y
          BY <1>0, <1>3, <1>8
        <4>3. CASE root = x
          BY <3>2, <4>1, <4>3, <1>0, <1>8
        <4>4. CASE root # x
          <5>1. /\ parent[x] \in N /\ (left[parent[x]] = x \/ right[parent[x]] = x)
                /\ parent[x] # x /\ parent[x] # y
            <6>1. parent[x] \in N /\ (left[parent[x]] = x \/ right[parent[x]] = x)
              BY <4>4, <1>0, <1>8
            <6>2. left[y] # x /\ right[y] # x
              BY <1>0, <1>2, <1>3, <1>4 DEF LeftOK, RightOK
            <6> QED BY <6>1, <6>2, <1>0, <1>3, <1>8
          <5> QED BY <3>2, <4>1, <4>2, <4>4, <5>1, <1>0
        <4> QED BY <4>3, <4>4
      <3>3. CASE v = c /\ v # x /\ v # y
        <4>1. parent2[v] = x /\ right2[x] = v /\ root2 # v
          BY <3>3, <1>0, <1>3, <1>4, <1>8 DEF c
        <4> QED BY <4>1, <1>0
      <3>4. CASE v # x /\ v # y /\ v # c
        <4>1. parent2[v] = parent[v] /\ (v = root2 <=> v = root)
          BY <3>4, <1>0
        <4>2. CASE v = root
          BY <4>1, <4>2, <1>8
        <4>3. CASE v # root
          <5>1. parent[v] \in N /\ (left[parent[v]] = v \/ right[parent[v]] = v)
            BY <4>3, <1>8
          <5>2. left2[parent[v]] = v \/ right2[parent[v]] = v
            BY <3>4, <5>1, <1>0 DEF c
          <5> QED BY <4>1, <4>3, <5>1, <5>2
        <4> QED BY <4>2, <4>3
      <3> QED BY <3>1, <3>2, <3>3, <3>4
    <2> QED BY <2>1, <2>2, <1>1 DEF ParentsOK
  <1>10. RootOK(root2, Z)
    <2>1. root \in N /\ Y.lo[root] = 1 /\ Y.hi[root] = Y.n /\ Y.n # 0
      BY <1>0, <1>2, <1>3 DEF RootOK
    <2>2. root # y
      BY <1>0, <1>3, <1>8
    <2>3. CASE root = x
      BY <2>1, <2>3, <1>0, <1>1, <1>4 DEF RootOK
    <2>4. CASE root # x
      BY <2>1, <2>2, <2>4, <1>0, <1>1 DEF RootOK
    <2> QED BY <2>3, <2>4
  <1> QED BY <1>1, <1>5, <1>6, <1>7, <1>9, <1>10 DEF Laid, SamePlaces

\* So does a rotation to the other side.
LEMMA RotatedBack ==
    ASSUME NEW left, NEW right, NEW parent, NEW root, NEW Y, Laid(left, right, parent, root, Y),
           NEW left2, NEW right2, NEW parent2, NEW root2, NEW x, NEW y,
           Rotated(right, left, parent, root, right2, left2, parent2, root2, Y, x, y)
    PROVE  \E Z : Laid(left2, right2, parent2, root2, Z) /\ SamePlaces(Y, Z)
  <1> DEFINE W == Mirrored(Y)
             N == Nodes(Y)
  <1>1. Laid(right, left, parent, root, W)
    BY MirroredLaid
  <1>2. Nodes(W) = N /\ W.n = Y.n /\ \A v \in N : W.pos[v] = Y.n + 1 - Y.pos[v]
    BY MirroredIs
  <1> HIDE DEF W
  <1>3. PICK V : Laid(right2, left2, parent2, root2, V) /\ SamePlaces(W, V)
    <2>1. Rotated(right, left, parent, root, right2, left2, parent2, root2, W, x, y)
      BY <1>2 DEF Rotated
    <2> QED BY <1>1, <2>1, RotatedLaid
  <1> DEFINE Z == Mirrored(V)
  <1>4. Laid(left2, right2, parent2, root2, Z)
    BY <1>3, MirroredLaid
  <1>5. Nodes(Z) = N /\ Z.n = Y.n /\ \A v \in N : Z.pos[v] = V.n + 1 - V.pos[v]
    BY <1>2, <1>3, MirroredIs DEF SamePlaces
  <1> HIDE DEF Z
  <1>6. Y.n \in Int /\ \A v \in N : Y.pos[v] \in Int
    BY DEF Laid, PlacesOK
  <1>7. \A v \in N : Z.pos[v] = Y.pos[v]
    BY <1>2, <1>3, <1>5, <1>6 DEF SamePlaces
  <1> QED BY <1>4, <1>5, <1>7 DEF SamePlaces

-----------------------------------------------------------------------------
(* What the loops find in a tree that is laid out.                          *)

\* A change that lays out a tree anew and leaves or blanks all other nodes leads
\* no way down on forever.
LEMMA StillGrounded ==
    ASSUME NEW s, NEW t, Grounded(s), DOMAIN t.left = DOMAIN s.left, DOMAIN t.right = DOMAIN s.left,
           NEW parent, NEW root, NEW Y, Laid(t.left, t.right, parent, root, Y),
           Nodes(Y) \subseteq DOMAIN t.left,
           \A x \in DOMAIN t.left \ Nodes(Y) :
               \/ t.left[x] = s.left[x] /\ t.right[x] = s.right[x]
               \/ t.left[x] = NULL /\ t.right[x] = NULL
    PROVE  Grounded(t)
  <1> DEFINE N == Nodes(Y)
             S == Place(s)
             D == DOMAIN s.left
  <1>1. PICK M \in Nat : \E size \in [S -> 0..M] :
            \A x \in D : /\ s.left[x] \in S /\ size[s.left[x]] < size[x]
                         /\ s.right[x] \in S /\ size[s.right[x]] < size[x]
    BY Zenon DEF Grounded
  <1>2. PICK size \in [S -> 0..M] :
            \A x \in D : /\ s.left[x] \in S /\ size[s.left[x]] < size[x]
                         /\ s.right[x] \in S /\ size[s.right[x]] < size[x]
    BY <1>1
  <1>3. PlacesOK(Y) /\ LeftOK(t.left, Y) /\ RightOK(t.right, Y)
    BY DEF Laid
  <1>4. /\ Y.n \in Nat /\ NULL \notin N
        /\ \A x \in N : /\ Y.lo[x] \in Int /\ Y.hi[x] \in Int /\ Y.pos[x] \in Int
                        /\ 1 <= Y.lo[x] /\ Y.lo[x] <= Y.pos[x]
                        /\ Y.pos[x] <= Y.hi[x] /\ Y.hi[x] <= Y.n
    BY <1>3 DEF PlacesOK
  <1> DEFINE height == [x \in S |-> IF x \in N THEN Y.hi[x] - Y.lo[x] + 1
                                    ELSE IF x = NULL THEN 0 ELSE Y.n + 1 + size[x]]
  <1>5. height \in [S -> 0..(Y.n + 1 + M)]
    <2>1. ASSUME NEW x \in S
          PROVE  (IF x \in N THEN Y.hi[x] - Y.lo[x] + 1
                  ELSE IF x = NULL THEN 0 ELSE Y.n + 1 + size[x]) \in 0..(Y.n + 1 + M)
      <3>1. size[x] \in 0..M
        BY <1>2
      <3> QED BY <3>1, <1>4
    <2> QED BY <2>1
  <1>6. /\ height[NULL] = 0
        /\ \A x \in N : x \in S /\ height[x] = Y.hi[x] - Y.lo[x] + 1
        /\ \A x \in S : x \notin N /\ x # NULL => height[x] = Y.n + 1 + size[x]
    BY <1>4 DEF Place
  <1> HIDE DEF height
  <1>7. ASSUME NEW x \in D
        PROVE  /\ t.left[x] \in S /\ height[t.left[x]] < height[x]
               /\ t.right[x] \in S /\ height[t.right[x]] < height[x]
    <2>1. NULL \notin D /\ NULL \in S /\ D \subseteq S /\ \A v \in S : size[v] \in 0..M
      BY <1>2 DEF Grounded, Place
    <2>2. CASE x \in N
      <3>1. t.left[x] \in S /\ height[t.left[x]] < height[x]
        BY <2>1, <2>2, <1>3, <1>4, <1>6 DEF LeftOK
      <3>2. t.right[x] \in S /\ height[t.right[x]] < height[x]
        BY <2>1, <2>2, <1>3, <1>4, <1>6 DEF RightOK
      <3> QED BY <3>1, <3>2
    <2>3. CASE x \notin N
      <3>1. height[x] = Y.n + 1 + size[x] /\ size[x] \in 0..M
        BY <2>1, <2>3, <1>6
      <3>2. \A c \in S : c = NULL \/ size[c] < size[x] => height[c] < height[x]
        <4>1. ASSUME NEW c \in S, c = NULL \/ size[c] < size[x] PROVE height[c] < height[x]
          <5>1. CASE c = NULL
            BY <5>1, <3>1, <1>4, <1>6
          <5>2. CASE c \in N
            BY <5>2, <3>1, <1>4, <1>6
          <5>3. CASE c # NULL /\ c \notin N
            <6>1. height[c] = Y.n + 1 + size[c] /\ size[c] \in 0..M
              BY <5>3, <2>1, <1>6
            <6> QED BY <4>1, <5>3, <6>1, <3>1, <1>4
          <5> QED BY <5>1, <5>2, <5>3
        <4> QED BY <4>1
      <3>3. \/ t.left[x] = s.left[x] /\ t.right[x] = s.right[x]
            \/ t.left[x] = NULL /\ t.right[x] = NULL
        BY <2>3
      <3> QED BY <2>1, <3>2, <3>3, <1>2
    <2> QED BY <2>2, <2>3
  <1>8. Place(t) = S
    BY DEF Place
  <1>9. Y.n + 1 + M \in Nat
    BY <1>4
  <1>10. NULL \notin DOMAIN t.left
    BY DEF Grounded
  <1> QED BY <1>5, <1>7, <1>8, <1>9, <1>10 DEF Grounded

\* The nodes are in the order of their values.
Sorted(value, Y) ==
    /\ \A x \in Nodes(Y) : value[x] \in Int
    /\ \A x, z \in Nodes(Y) : Y.pos[x] < Y.pos[z] => value[x] <= value[z]

\* t is laid out in the order of its values.
Ordered(t, value, parent, root, Y) ==
    /\ Laid(t.left, t.right, parent, root, Y) /\ Nodes(Y) \subseteq DOMAIN t.left
    /\ Sorted(value, Y)

LEMMA SearchFinds ==
    ASSUME NEW t, Grounded(t), NEW value, NEW parent, NEW root, NEW Y,
           Ordered(t, value, parent, root, Y), NEW d \in Int, NEW x \in Nodes(Y)
    PROVE  LET r == SearchFrom(t, value, x, d) IN
           \/ r \in Nodes(Y) /\ value[r] = d
           \/ /\ r = NULL
              /\ \A v \in Nodes(Y) : Y.lo[x] <= Y.pos[v] /\ Y.pos[v] <= Y.hi[x] => value[v] # d
  <1> DEFINE N == Nodes(Y)
             r(n) == SearchFrom(t, value, n, d)
             In(n, v) == Y.lo[n] <= Y.pos[v] /\ Y.pos[v] <= Y.hi[n]
             size == [n \in N |-> Y.hi[n] - Y.lo[n]]
             K == {n \in N : \/ r(n) \in N /\ value[r(n)] = d
                             \/ r(n) = NULL /\ \A v \in N : In(n, v) => value[v] # d}
  <1>1. /\ PlacesOK(Y) /\ LeftOK(t.left, Y) /\ RightOK(t.right, Y)
        /\ N \subseteq DOMAIN t.left /\ Sorted(value, Y)
    BY DEF Ordered, Laid
  <1>2. size \in [N -> Nat] /\ \A n \in N : size[n] = Y.hi[n] - Y.lo[n]
    BY <1>1 DEF PlacesOK
  <1>3. \A n \in N : /\ Y.pos[n] \in Int /\ Y.lo[n] \in Int /\ Y.hi[n] \in Int
                     /\ Y.lo[n] <= Y.pos[n] /\ Y.pos[n] <= Y.hi[n] /\ n # NULL /\ value[n] \in Int
    BY <1>1 DEF PlacesOK, Sorted
  <1>4. \A n \in N : r(n) = IF value[n] = d THEN n ELSE r(Toward(t, value, d, n))
    BY <1>1, <1>3, SearchEquation DEF Place
  <1>5. r(NULL) = NULL
    BY SearchEquation DEF Place
  <1>6. \A n, v \in N : /\ Y.pos[v] <= Y.pos[n] => value[v] <= value[n]
                        /\ Y.pos[n] <= Y.pos[v] => value[n] <= value[v]
    <2>1. ASSUME NEW n \in N, NEW v \in N, Y.pos[v] <= Y.pos[n] PROVE value[v] <= value[n]
      <3>1. CASE Y.pos[v] = Y.pos[n]
        BY <3>1, <1>1, <1>3 DEF PlacesOK
      <3>2. CASE Y.pos[v] < Y.pos[n]
        BY <3>2, <1>1 DEF Sorted
      <3> QED BY <2>1, <3>1, <3>2, <1>3
    <2> QED BY <2>1
  <1> HIDE DEF r
  <1>7. ASSUME NEW n \in N, \A c \in N : size[c] < size[n] => c \in K
        PROVE  n \in K
    <2> HIDE DEF size
    <2>1. CASE value[n] = d
      BY <2>1, <1>4
    <2>2. CASE d < value[n]
      <3>1. r(n) = r(t.left[n])
        BY <2>2, <1>3, <1>4 DEF Toward
      <3>2. CASE t.left[n] = NULL
        <4>1. Y.lo[n] = Y.pos[n]
          BY <3>2, <1>1 DEF LeftOK
        <4>2. \A v \in N : In(n, v) => value[v] # d
          BY <4>1, <2>2, <1>3, <1>6
        <4> QED BY <3>1, <3>2, <4>2, <1>5
      <3>3. CASE t.left[n] # NULL
        <4>1. /\ t.left[n] \in N /\ Y.lo[t.left[n]] = Y.lo[n] /\ Y.hi[t.left[n]] = Y.pos[n] - 1
          BY <3>3, <1>1 DEF LeftOK
        <4>2. t.left[n] \in K
          BY <4>1, <1>2, <1>3, <1>7
        <4>3. \A v \in N : In(n, v) => In(t.left[n], v) \/ value[v] # d
          BY <4>1, <2>2, <1>3, <1>6
        <4> QED BY <3>1, <4>2, <4>3
      <3> QED BY <3>2, <3>3
    <2>3. CASE d > value[n]
      <3>1. r(n) = r(t.right[n])
        BY <2>3, <1>3, <1>4 DEF Toward
      <3>2. CASE t.right[n] = NULL
        <4>1. Y.hi[n] = Y.pos[n]
          BY <3>2, <1>1 DEF RightOK
        <4>2. \A v \in N : In(n, v) => value[v] # d
          BY <4>1, <2>3, <1>3, <1>6
        <4> QED BY <3>1, <3>2, <4>2, <1>5
      <3>3. CASE t.right[n] # NULL
        <4>1. /\ t.right[n] \in N /\ Y.lo[t.right[n]] = Y.pos[n] + 1 /\ Y.hi[t.right[n]] = Y.hi[n]
          BY <3>3, <1>1 DEF RightOK
        <4>2. t.right[n] \in K
          BY <4>1, <1>2, <1>3, <1>7
        <4>3. \A v \in N : In(n, v) => In(t.right[n], v) \/ value[v] # d
          BY <4>1, <2>3, <1>3, <1>6
        <4> QED BY <3>1, <4>2, <4>3
      <3> QED BY <3>2, <3>3
    <2> QED BY <2>1, <2>2, <2>3, <1>3
  <1>8. \A n \in N : n \in K
    <2> HIDE DEF K, size, N
    <2> QED BY <1>2, <1>7, ByMeasure
  <1> QED BY <1>8 DEF r

\* Where d belongs: under y there is no child, and d comes just before or behind y.
Under(t, value, d, Y, y) ==
    /\ y \in Nodes(Y)
    /\ IF d < value[y] THEN /\ t.left[y] = NULL
                            /\ \A v \in Nodes(Y) : Y.pos[v] < Y.pos[y] => value[v] <= d
       ELSE t.right[y] = NULL /\ \A v \in Nodes(Y) : Y.pos[v] > Y.pos[y] => d < value[v]

LEMMA LastFinds ==
    ASSUME NEW t, Grounded(t), NEW value, NEW parent, NEW root, NEW Y,
           Ordered(t, value, parent, root, Y), NEW d \in Int, root \in Nodes(Y)
    PROVE  Under(t, value, d, Y, LastFrom(t, value, root, d))
  <1> DEFINE N == Nodes(Y)
             y(n) == LastFrom(t, value, n, d)
             \* The way down to n does not lead past where d belongs.
             Leads(n) == /\ \A v \in N : Y.pos[v] < Y.lo[n] => value[v] <= d
                         /\ \A v \in N : Y.pos[v] > Y.hi[n] => d < value[v]
             size == [n \in N |-> Y.hi[n] - Y.lo[n]]
             K == {n \in N : Leads(n) => Under(t, value, d, Y, y(n))}
  <1>1. /\ PlacesOK(Y) /\ LeftOK(t.left, Y) /\ RightOK(t.right, Y)
        /\ N \subseteq DOMAIN t.left /\ Sorted(value, Y) /\ RootOK(root, Y)
    BY DEF Ordered, Laid
  <1>2. size \in [N -> Nat] /\ \A n \in N : size[n] = Y.hi[n] - Y.lo[n]
    BY <1>1 DEF PlacesOK
  <1>3. \A n \in N : /\ Y.pos[n] \in Int /\ Y.lo[n] \in Int /\ Y.hi[n] \in Int
                     /\ Y.lo[n] <= Y.pos[n] /\ Y.pos[n] <= Y.hi[n] /\ n # NULL /\ value[n] \in Int
                     /\ 1 <= Y.lo[n] /\ Y.hi[n] <= Y.n
    BY <1>1 DEF PlacesOK, Sorted
  <1>4. \A n \in N : y(n) = IF Toward(t, value, d, n) = NULL THEN n ELSE y(Toward(t, value, d, n))
    BY <1>1, LastEquation
  <1>5. \A n, v \in N : /\ Y.pos[v] <= Y.pos[n] => value[v] <= value[n]
                        /\ Y.pos[n] <= Y.pos[v] => value[n] <= value[v]
    <2>1. ASSUME NEW n \in N, NEW v \in N, Y.pos[v] <= Y.pos[n] PROVE value[v] <= value[n]
      <3>1. CASE Y.pos[v] = Y.pos[n]
        BY <3>1, <1>1, <1>3 DEF PlacesOK
      <3>2. CASE Y.pos[v] < Y.pos[n]
        BY <3>2, <1>1 DEF Sorted
      <3> QED BY <2>1, <3>1, <3>2, <1>3
    <2> QED BY <2>1
  <1> HIDE DEF y
  <1>6. ASSUME NEW n \in N, \A c \in N : size[c] < size[n] => c \in K, Leads(n)
        PROVE  Under(t, value, d, Y, y(n))
    <2> HIDE DEF size
    <2>1. CASE d < value[n]
      <3>1. Toward(t, value, d, n) = t.left[n]
        BY <2>1 DEF Toward
      <3>2. CASE t.left[n] = NULL
        <4>1. y(n) = n /\ Y.lo[n] = Y.pos[n]
          BY <3>1, <3>2, <1>1, <1>4 DEF LeftOK
        <4> QED BY <4>1, <2>1, <3>2, <1>6 DEF Under
      <3>3. CASE t.left[n] # NULL
        <4>1. /\ t.left[n] \in N /\ Y.lo[t.left[n]] = Y.lo[n] /\ Y.hi[t.left[n]] = Y.pos[n] - 1
          BY <3>3, <1>1 DEF LeftOK
        <4>2. t.left[n] \in K
          BY <4>1, <1>2, <1>3, <1>6
        <4>3. Leads(t.left[n])
          BY <4>1, <2>1, <1>3, <1>5, <1>6
        <4> QED BY <3>1, <3>3, <4>2, <4>3, <1>4
      <3> QED BY <3>2, <3>3
    <2>2. CASE d >= value[n]
      <3>1. Toward(t, value, d, n) = t.right[n] /\ ~ (d < value[n])
        BY <2>2, <1>3 DEF Toward
      <3>2. CASE t.right[n] = NULL
        <4>1. y(n) = n /\ Y.hi[n] = Y.pos[n]
          BY <3>1, <3>2, <1>1, <1>4 DEF RightOK
        <4> QED BY <4>1, <3>1, <3>2, <1>6 DEF Under
      <3>3. CASE t.right[n] # NULL
        <4>1. /\ t.right[n] \in N /\ Y.lo[t.right[n]] = Y.pos[n] + 1 /\ Y.hi[t.right[n]] = Y.hi[n]
          BY <3>3, <1>1 DEF RightOK
        <4>2. t.right[n] \in K
          BY <4>1, <1>2, <1>3, <1>6
        <4>3. Leads(t.right[n])
          BY <4>1, <2>2, <1>3, <1>5, <1>6
        <4> QED BY <3>1, <3>3, <4>2, <4>3, <1>4
      <3> QED BY <3>2, <3>3
    <2> QED BY <2>1, <2>2, <1>3
  <1>7. \A n \in N : n \in K
    <2>1. \A n \in N : (\A c \in N : size[c] < size[n] => c \in K) => n \in K
      BY <1>6
    <2> HIDE DEF K, size, N
    <2> QED BY <1>2, <2>1, ByMeasure
  <1>8. Leads(root)
    <2>1. Y.lo[root] = 1 /\ Y.hi[root] = Y.n
      BY <1>1, <1>3 DEF RootOK, PlacesOK
    <2>2. \A v \in N : ~ (Y.pos[v] < 1) /\ ~ (Y.pos[v] > Y.n)
      BY <1>1 DEF PlacesOK
    <2> QED BY <2>1, <2>2
  <1> QED BY <1>7, <1>8 DEF y

\* t is laid out, in whatever order.
Standing(t, parent, root, Y) ==
    Grounded(t) /\ Laid(t.left, t.right, parent, root, Y) /\ Nodes(Y) \subseteq DOMAIN t.left

LEMMA MinFinds ==
    ASSUME NEW t, NEW parent, NEW root, NEW Y, Standing(t, parent, root, Y), NEW x \in Nodes(Y)
    PROVE  LET m == B!Min(t, x) IN
           m \in Nodes(Y) /\ t.left[m] = NULL /\ Y.pos[m] = Y.lo[x]
  <1> DEFINE N == Nodes(Y)
             m(n) == B!Min(t, n)
             size == [n \in N |-> Y.hi[n] - Y.lo[n]]
             K == {n \in N : m(n) \in N /\ t.left[m(n)] = NULL /\ Y.pos[m(n)] = Y.lo[n]}
  <1>1. PlacesOK(Y) /\ LeftOK(t.left, Y) /\ Grounded(t) /\ N \subseteq DOMAIN t.left
    BY DEF Laid, Standing
  <1>2. size \in [N -> Nat] /\ \A n \in N : size[n] = Y.hi[n] - Y.lo[n]
    BY <1>1 DEF PlacesOK
  <1>3. \A n \in N : m(n) = IF t.left[n] = NULL THEN n ELSE m(t.left[n])
    BY <1>1, MinEquation
  <1> HIDE DEF m
  <1>4. ASSUME NEW n \in N, \A c \in N : size[c] < size[n] => c \in K
        PROVE  n \in K
    <2> HIDE DEF size
    <2>1. CASE t.left[n] = NULL
      BY <2>1, <1>1, <1>3 DEF LeftOK
    <2>2. CASE t.left[n] # NULL
      <3>1. /\ t.left[n] \in N /\ Y.lo[t.left[n]] = Y.lo[n] /\ Y.hi[t.left[n]] = Y.pos[n] - 1
        BY <2>2, <1>1 DEF LeftOK
      <3>2. t.left[n] \in K
        BY <3>1, <1>1, <1>2, <1>4 DEF PlacesOK
      <3> QED BY <2>2, <3>1, <3>2, <1>3
    <2> QED BY <2>1, <2>2
  <1>5. \A n \in N : n \in K
    <2> HIDE DEF K, size, N
    <2> QED BY <1>2, <1>4, ByMeasure
  <1> QED BY <1>5 DEF m

\* w lists the nodes of Y in the places from first to last.
Lists(w, Y, first, last) ==
    /\ w \in Seq(Nodes(Y)) /\ Len(w) = last - first + 1
    /\ \A i \in 1..last - first + 1 : Y.pos[w[i]] = first + i - 1

LEMMA WalkFinds ==
    ASSUME NEW t, NEW parent, NEW root, NEW Y, Standing(t, parent, root, Y), NEW x \in Nodes(Y)
    PROVE  Lists(WalkFrom(t, x), Y, Y.lo[x], Y.hi[x])
  <1> DEFINE N == Nodes(Y)
             w(n) == WalkFrom(t, n)
             size == [n \in N |-> Y.hi[n] - Y.lo[n]]
             K == {n \in N : Lists(w(n), Y, Y.lo[n], Y.hi[n])}
  <1>1. /\ PlacesOK(Y) /\ LeftOK(t.left, Y) /\ RightOK(t.right, Y)
        /\ Grounded(t) /\ N \subseteq DOMAIN t.left
    BY DEF Laid, Standing
  <1>2. size \in [N -> Nat] /\ \A n \in N : size[n] = Y.hi[n] - Y.lo[n]
    BY <1>1 DEF PlacesOK
  <1>3. \A n \in N : /\ Y.pos[n] \in Int /\ Y.lo[n] \in Int /\ Y.hi[n] \in Int
                     /\ Y.lo[n] <= Y.pos[n] /\ Y.pos[n] <= Y.hi[n] /\ n # NULL
    BY <1>1 DEF PlacesOK
  <1>4. \A n \in N : w(n) = w(t.left[n]) \o <<n>> \o w(t.right[n])
    BY <1>1, <1>3, WalkEquation DEF Place
  <1>5. w(NULL) = << >>
    BY <1>1, WalkEquation DEF Place
  <1> HIDE DEF w
  <1>6. ASSUME NEW n \in N, \A c \in N : size[c] < size[n] => c \in K
        PROVE  n \in K
    <2> HIDE DEF size
    <2>1. Lists(w(t.left[n]), Y, Y.lo[n], Y.pos[n] - 1)
      <3>1. CASE t.left[n] = NULL
        <4>1. Y.lo[n] = Y.pos[n] /\ w(t.left[n]) = << >>
          BY <3>1, <1>1, <1>5 DEF LeftOK
        <4>2. Y.pos[n] - 1 - Y.lo[n] + 1 = 0
          BY <4>1, <1>3
        <4> QED BY <4>1, <4>2 DEF Lists
      <3>2. CASE t.left[n] # NULL
        <4>1. /\ t.left[n] \in N /\ Y.lo[t.left[n]] = Y.lo[n] /\ Y.hi[t.left[n]] = Y.pos[n] - 1
          BY <3>2, <1>1 DEF LeftOK
        <4>2. t.left[n] \in K
          BY <4>1, <1>2, <1>3, <1>6
        <4> QED BY <4>1, <4>2
      <3> QED BY <3>1, <3>2
    <2>2. Lists(w(t.right[n]), Y, Y.pos[n] + 1, Y.hi[n])
      <3>1. CASE t.right[n] = NULL
        <4>1. Y.hi[n] = Y.pos[n] /\ w(t.right[n]) = << >>
          BY <3>1, <1>1, <1>5 DEF RightOK
        <4>2. Y.hi[n] - (Y.pos[n] + 1) + 1 = 0
          BY <4>1, <1>3
        <4> QED BY <4>1, <4>2 DEF Lists
      <3>2. CASE t.right[n] # NULL
        <4>1. /\ t.right[n] \in N /\ Y.lo[t.right[n]] = Y.pos[n] + 1 /\ Y.hi[t.right[n]] = Y.hi[n]
          BY <3>2, <1>1 DEF RightOK
        <4>2. t.right[n] \in K
          BY <4>1, <1>2, <1>3, <1>6
        <4> QED BY <4>1, <4>2
      <3> QED BY <3>1, <3>2
    <2> DEFINE u == w(t.left[n])
               v == w(t.right[n])
               a == Y.pos[n] - Y.lo[n]
               b == Y.hi[n] - Y.pos[n]
    <2>3. /\ a \in Nat /\ b \in Nat
          /\ u \in Seq(N) /\ Len(u) = a /\ \A i \in 1..a : Y.pos[u[i]] = Y.lo[n] + i - 1
          /\ v \in Seq(N) /\ Len(v) = b /\ \A i \in 1..b : Y.pos[v[i]] = Y.pos[n] + i
      <3>1. Y.pos[n] - 1 - Y.lo[n] + 1 = a /\ Y.hi[n] - (Y.pos[n] + 1) + 1 = b
        BY <1>3
      <3>2. \A i \in Int : Y.pos[n] + 1 + i - 1 = Y.pos[n] + i
        BY <1>3
      <3>3. a \in Nat /\ b \in Nat
        BY <1>3
      <3>4. u \in Seq(N) /\ Len(u) = a /\ \A i \in 1..a : Y.pos[u[i]] = Y.lo[n] + i - 1
        <4> HIDE DEF a, N
        <4> QED BY <2>1, <3>1 DEF Lists, N
      <3>5. v \in Seq(N) /\ Len(v) = b /\ \A i \in 1..b : Y.pos[v[i]] = Y.pos[n] + i
        <4>1. v \in Seq(N) /\ Len(v) = b /\ \A i \in 1..b : Y.pos[v[i]] = Y.pos[n] + 1 + i - 1
          <5> HIDE DEF b, N
          <5> QED BY <2>2, <3>1 DEF Lists, N
        <4>2. \A i \in 1..b : i \in Int
          BY <3>3
        <4> HIDE DEF v, b, N
        <4> QED BY <4>1, <4>2, <3>2
      <3> QED BY <3>3, <3>4, <3>5
    <2>4. w(n) = u \o <<n>> \o v
      BY <1>4
    <2> HIDE DEF u, v
    <2>5. <<n>> \in Seq(N) /\ Len(<<n>>) = 1 /\ <<n>>[1] = n
      <3> HIDE DEF N
      <3> QED OBVIOUS
    <2>6. /\ u \o <<n>> \in Seq(N) /\ Len(u \o <<n>>) = a + 1
          /\ \A i \in 1..a + 1 : (u \o <<n>>)[i] = IF i <= a THEN u[i] ELSE n
      <3>1. /\ u \o <<n>> \in Seq(N) /\ Len(u \o <<n>>) = Len(u) + Len(<<n>>)
            /\ \A i \in 1..Len(u) + Len(<<n>>) :
                    (u \o <<n>>)[i] = IF i <= Len(u) THEN u[i] ELSE <<n>>[i - Len(u)]
        <4> HIDE DEF N
        <4> QED BY <2>3, <2>5, ConcatProperties
      <3>2. \A i \in 1..a + 1 : i <= a \/ i - a = 1
        BY <2>3
      <3> HIDE DEF N, a
      <3> QED BY <2>3, <2>5, <3>1, <3>2
    <2>7. /\ w(n) \in Seq(N) /\ Len(w(n)) = a + 1 + b
          /\ \A i \in 1..a + 1 + b :
                w(n)[i] = IF i <= a THEN u[i] ELSE IF i = a + 1 THEN n ELSE v[i - (a + 1)]
      <3>1. /\ w(n) \in Seq(N) /\ Len(w(n)) = Len(u \o <<n>>) + Len(v)
            /\ \A i \in 1..Len(u \o <<n>>) + Len(v) :
                    w(n)[i] = IF i <= Len(u \o <<n>>) THEN (u \o <<n>>)[i]
                              ELSE v[i - Len(u \o <<n>>)]
        <4> DEFINE s == u \o <<n>>
        <4>1. s \in Seq(N) /\ v \in Seq(N) /\ w(n) = s \o v
          BY <2>3, <2>4, <2>6
        <4> HIDE DEF N, s
        <4>2. /\ s \o v \in Seq(N) /\ Len(s \o v) = Len(s) + Len(v)
              /\ \A i \in 1..Len(s) + Len(v) :
                    (s \o v)[i] = IF i <= Len(s) THEN s[i] ELSE v[i - Len(s)]
          BY <4>1, ConcatProperties
        <4> QED BY <4>1, <4>2 DEF s
      <3> HIDE DEF N, a, b
      <3> QED BY <2>3, <2>6, <3>1
    <2>8. Lists(w(n), Y, Y.lo[n], Y.hi[n])
      <3>1. Y.hi[n] - Y.lo[n] + 1 = a + 1 + b
        BY <1>3
      <3>2. ASSUME NEW i \in 1..a + 1 + b PROVE Y.pos[w(n)[i]] = Y.lo[n] + i - 1
        <4>0. Y.lo[n] + a = Y.pos[n] /\ Y.lo[n] \in Int /\ Y.pos[n] \in Int /\ i \in Int
          BY <1>3, <2>3
        <4> HIDE DEF a, b
        <4>1. CASE i <= a
          BY <4>1, <2>3, <2>7
        <4>2. CASE i = a + 1
          <5>1. w(n)[i] = n
            BY <4>2, <2>3, <2>7
          <5> QED BY <4>0, <4>2, <5>1, <2>3
        <4>3. CASE i > a + 1
          <5>1. i - (a + 1) \in 1..b /\ w(n)[i] = v[i - (a + 1)]
            BY <4>3, <2>3, <2>7
          <5>2. Y.pos[w(n)[i]] = Y.pos[n] + (i - (a + 1))
            BY <5>1, <2>3
          <5> QED BY <4>0, <5>2, <2>3
        <4> QED BY <4>0, <4>1, <4>2, <4>3, <2>3
      <3> HIDE DEF a, b
      <3> QED BY <2>7, <3>1, <3>2 DEF Lists
    <2> QED BY <2>8
  <1>7. \A n \in N : n \in K
    <2> HIDE DEF K, size, N
    <2> QED BY <1>2, <1>6, ByMeasure
  <1> QED BY <1>7 DEF w

-----------------------------------------------------------------------------
(* The binary tree.                                                         *)

TreeRecord ==
    [root : Int, data : [B!TreeNode -> Int], left : [B!TreeNode -> Int],
     right : [B!TreeNode -> Int], parent : [B!TreeNode -> Int]]

LEMMA BinaryLoops ==
    ASSUME NEW t, NEW value, NEW x, NEW d
    PROVE  /\ B!SearchFrom(t, value, x, d) = SearchFrom(t, value, x, d)
           /\ B!LastFrom(t, value, x, d) = LastFrom(t, value, x, d)
           /\ B!WalkFrom(t, x) = WalkFrom(t, x)
           /\ B!NULL = NULL
  <1>1. B!NULL = NULL
    BY DEF B!NULL, NULL
  <1>2. B!SearchFrom(t, value, x, d) = SearchFrom(t, value, x, d)
    BY DEF B!SearchFrom, SearchFrom, B!Place, Place, B!NULL, NULL, B!Toward, Toward
  <1>3. B!LastFrom(t, value, x, d) = LastFrom(t, value, x, d)
    BY DEF B!LastFrom, LastFrom, B!NULL, NULL, B!Toward, Toward
  <1>4. B!WalkFrom(t, x) = WalkFrom(t, x)
    BY DEF B!WalkFrom, WalkFrom, B!Place, Place, B!NULL, NULL
  <1> QED BY <1>1, <1>2, <1>3, <1>4

Lone(left, right, parent, z) ==
    z # NULL /\ left[z] = NULL /\ right[z] = NULL /\ parent[z] = NULL

\* A tree of one node.
LEMMA Alone ==
    ASSUME NEW left, NEW right, NEW parent, NEW z, Lone(left, right, parent, z)
    PROVE  \E Z : Laid(left, right, parent, z, Z) /\ Nodes(Z) = {z} /\ Z.n = 1
  <1> DEFINE one == [x \in {z} |-> 1]
             Z == [n |-> 1, pos |-> one, lo |-> one, hi |-> one]
  <1>1. Nodes(Z) = {z} /\ Z.n = 1 /\ Z.pos[z] = 1 /\ Z.lo[z] = 1 /\ Z.hi[z] = 1
    BY DEF Nodes
  <1> HIDE DEF Z
  <1>2. PlacesOK(Z)
    BY <1>1 DEF PlacesOK, Lone
  <1>3. LeftOK(left, Z) /\ RightOK(right, Z) /\ ParentsOK(left, right, parent, z, Z) /\ RootOK(z, Z)
    BY <1>1 DEF LeftOK, RightOK, ParentsOK, RootOK, Lone
  <1> QED BY <1>1, <1>2, <1>3 DEF Laid

\* An empty tree has no nodes, any other has its root.
LEMMA RootIsNode ==
    ASSUME NEW left, NEW right, NEW parent, NEW root, NEW Y, Laid(left, right, parent, root, Y)
    PROVE  IF root = NULL THEN Nodes(Y) = {} /\ Y.n = 0
           ELSE root \in Nodes(Y) /\ Y.lo[root] = 1 /\ Y.hi[root] = Y.n
  BY DEF Laid, RootOK, PlacesOK

\* w lists all nodes of Y in their order.
Whole(w, Y) ==
    /\ Len(w) = Y.n /\ DOMAIN w = 1..Y.n
    /\ \A i \in 1..Y.n : w[i] \in Nodes(Y) /\ Y.pos[w[i]] = i
    /\ \A x \in Nodes(Y) : \E i \in 1..Y.n : w[i] = x

LEMMA WholeWalk ==
    ASSUME NEW t, NEW parent, NEW root, NEW Y, Standing(t, parent, root, Y)
    PROVE  Whole(WalkFrom(t, root), Y)
  <1> DEFINE w == WalkFrom(t, root)
             N == Nodes(Y)
  <1>1. Laid(t.left, t.right, parent, root, Y) /\ Grounded(t) /\ PlacesOK(Y)
    BY DEF Standing, Laid
  <1>2. Lists(w, Y, 1, Y.n)
    <2>1. CASE root = NULL
      <3>1. w = << >>
        BY <2>1, <1>1, WalkEquation DEF Place
      <3>2. Y.n = 0
        BY <2>1, <1>1, RootIsNode
      <3> QED BY <3>1, <3>2 DEF Lists
    <2>2. CASE root # NULL
      <3>1. root \in N /\ Y.lo[root] = 1 /\ Y.hi[root] = Y.n
        BY <2>2, <1>1, RootIsNode
      <3> QED BY <3>1, WalkFinds
    <2> QED BY <2>1, <2>2
  <1> HIDE DEF w
  <1>3. /\ Y.n \in Nat /\ Len(w) = Y.n /\ DOMAIN w = 1..Y.n
        /\ \A i \in 1..Y.n : w[i] \in N /\ Y.pos[w[i]] = i
    <2>1. Y.n \in Nat /\ w \in Seq(N) /\ Len(w) = Y.n
      BY <1>1, <1>2 DEF Lists, PlacesOK
    <2>2. \A i \in 1..Y.n : Y.pos[w[i]] = i
      BY <2>1, <1>2 DEF Lists
    <2> HIDE DEF N
    <2> QED BY <2>1, <2>2
  <1>4. \A x \in N : \E i \in 1..Y.n : w[i] = x
    <2>1. ASSUME NEW x \in N PROVE Y.pos[x] \in 1..Y.n /\ w[Y.pos[x]] = x
      <3>1. Y.pos[x] \in 1..Y.n
        BY <1>1 DEF PlacesOK
      <3>2. w[Y.pos[x]] \in N /\ Y.pos[w[Y.pos[x]]] = Y.pos[x]
        BY <3>1, <1>3
      <3> QED BY <3>1, <3>2, <1>1 DEF PlacesOK
    <2> QED BY <2>1
  <1> QED BY <1>3, <1>4 DEF Whole, w

\* z with d, as a leaf where d belongs in Y.
LEMMA SortedWith ==
    ASSUME NEW value, NEW Y, Sorted(value, Y), NEW Z, NEW z, z \notin Nodes(Y),
           NEW N, N \subseteq Nodes(Y), Nodes(Z) = N \cup {z}, SameOrder(N, Y, Z),
           NEW d \in Int, NEW value2, value2[z] = d, \A x \in N : value2[x] = value[x],
           \A x \in N : IF Z.pos[x] < Z.pos[z] THEN value[x] <= d ELSE d <= value[x],
           \A x \in Nodes(Z) : Z.pos[x] \in Int
    PROVE  Sorted(value2, Z)
  <1>1. \A x \in N \cup {z} : value2[x] \in Int
    BY DEF Sorted
  <1>2. ASSUME NEW a \in N \cup {z}, NEW b \in N \cup {z}, Z.pos[a] < Z.pos[b]
        PROVE  value2[a] <= value2[b]
    <2>1. CASE a \in N /\ b \in N
      BY <2>1, <1>2 DEF Sorted, SameOrder
    <2>2. CASE a = z /\ b \in N
      BY <2>2, <1>2
    <2>3. CASE a \in N /\ b = z
      BY <2>3, <1>2
    <2>4. CASE a = z /\ b = z
      BY <2>4, <1>2
    <2> QED BY <2>1, <2>2, <2>3, <2>4
  <1> QED BY <1>1, <1>2 DEF Sorted

\* The node under which d belongs.
Spot(t, d) == IF t.root = NULL THEN NULL ELSE LastFrom(t, t.data, t.root, d)

\* s is t with z as a leaf under y.
LeafUnder(t, s, z, d, y) ==
    /\ s \in TreeRecord /\ s.data = [t.data EXCEPT ![z] = d]
    /\ s.parent = [t.parent EXCEPT ![z] = y]
    /\ IF y = NULL THEN /\ s.root = z
                        /\ s.left = [t.left EXCEPT ![z] = NULL]
                        /\ s.right = [t.right EXCEPT ![z] = NULL]
       ELSE IF d > t.data[y]
            THEN /\ s.root = t.root
                 /\ s.left = [t.left EXCEPT ![z] = NULL]
                 /\ s.right = [t.right EXCEPT ![z] = NULL, ![y] = z]
            ELSE /\ s.root = t.root
                 /\ s.left = [t.left EXCEPT ![z] = NULL, ![y] = z]
                 /\ s.right = [t.right EXCEPT ![z] = NULL]

LEMMA AttachIs ==
    ASSUME NEW t \in TreeRecord, NEW z \in B!TreeNode, NEW d \in Int,
           Spot(t, d) \in B!TreeNode \cup {NULL}
    PROVE  LeafUnder(t, B!Attach(t, z, d), z, d, Spot(t, d))
  <1> DEFINE y == Spot(t, d)
  <1>1. /\ NULL \in Int /\ B!NULL = NULL /\ B!TreeNode \subseteq Int
        /\ y \in Int /\ y \in B!TreeNode \cup {NULL}
    BY BinaryLoops DEF NULL, B!TreeNode
  <1>2. B!LastFrom(t, t.data, t.root, d) = LastFrom(t, t.data, t.root, d)
    BY BinaryLoops
  <1> DEFINE s0 == [t EXCEPT !.data[z] = d, !.left[z] = NULL, !.right[z] = NULL, !.parent[z] = y]
             s == B!Attach(t, z, d)
  <1>3. s = IF y = NULL THEN [s0 EXCEPT !.root = z]
            ELSE IF d > t.data[y] THEN [s0 EXCEPT !.right[y] = z] ELSE [s0 EXCEPT !.left[y] = z]
    BY <1>1, <1>2 DEF B!Attach, Spot
  <1>4. /\ s0 \in TreeRecord /\ s0.root = t.root /\ s0.data = [t.data EXCEPT ![z] = d]
        /\ s0.parent = [t.parent EXCEPT ![z] = y] /\ s0.left = [t.left EXCEPT ![z] = NULL]
        /\ s0.right = [t.right EXCEPT ![z] = NULL]
    BY <1>1 DEF TreeRecord
  <1> HIDE DEF s, s0, y
  <1>5. CASE y = NULL
    <2>1. s = [s0 EXCEPT !.root = z]
      BY <1>3, <1>5
    <2>2. /\ s \in TreeRecord /\ s.root = z /\ s.data = s0.data /\ s.parent = s0.parent
          /\ s.right = s0.right /\ s.left = s0.left
      BY <1>1, <1>4, <2>1 DEF TreeRecord
    <2> QED BY <1>4, <1>5, <2>2 DEF s, y, LeafUnder
  <1>6. CASE y # NULL /\ d > t.data[y]
    <2>1. s = [s0 EXCEPT !.right[y] = z]
      BY <1>3, <1>6
    <2>2. /\ s \in TreeRecord /\ s.root = s0.root /\ s.data = s0.data /\ s.parent = s0.parent
          /\ s.left = s0.left /\ s.right = [s0.right EXCEPT ![y] = z]
      BY <1>1, <1>4, <1>6, <2>1 DEF TreeRecord
    <2> QED BY <1>4, <1>6, <2>2 DEF s, y, LeafUnder
  <1>7. CASE y # NULL /\ ~ (d > t.data[y])
    <2>1. s = [s0 EXCEPT !.left[y] = z]
      BY <1>3, <1>7
    <2>2. /\ s \in TreeRecord /\ s.root = s0.root /\ s.data = s0.data /\ s.parent = s0.parent
          /\ s.right = s0.right /\ s.left = [s0.left EXCEPT ![y] = z]
      BY <1>1, <1>4, <1>7, <2>1 DEF TreeRecord
    <2> QED BY <1>4, <1>7, <2>2 DEF s, y, LeafUnder
  <1> QED BY <1>5, <1>6, <1>7

\* The tree t with layout Y, in the order of its data.
TreeLaid(t, Y) == t \in TreeRecord /\ Grounded(t) /\ Ordered(t, t.data, t.parent, t.root, Y)

LEMMA TreeAttached ==
    ASSUME NEW t, NEW Y, TreeLaid(t, Y),
           NEW z \in B!TreeNode, z \notin Nodes(Y), NEW d \in Int
    PROVE  LET s == B!Attach(t, z, d) IN
           /\ \A x \in Nodes(Y) : s.data[x] = t.data[x]
           /\ s.data[z] = d
           /\ \E Z : /\ TreeLaid(s, Z)
                     /\ z \in Nodes(Z) /\ Nodes(Z) \subseteq Nodes(Y) \cup {z}
                     /\ (\A x \in Nodes(Y) : t.data[x] # d) => Nodes(Z) = Nodes(Y) \cup {z}
  <1> DEFINE N == Nodes(Y)
             s == B!Attach(t, z, d)
             y == Spot(t, d)
  <1>1. /\ t \in TreeRecord /\ Grounded(t) /\ Ordered(t, t.data, t.parent, t.root, Y)
        /\ Laid(t.left, t.right, t.parent, t.root, Y) /\ N \subseteq B!TreeNode
        /\ Sorted(t.data, Y) /\ PlacesOK(Y)
        /\ t.root \in Int /\ DOMAIN t.left = B!TreeNode /\ DOMAIN t.right = B!TreeNode
        /\ DOMAIN t.parent = B!TreeNode /\ DOMAIN t.data = B!TreeNode
    BY DEF TreeLaid, Ordered, Laid, TreeRecord
  <1>2. IF t.root = NULL THEN N = {} /\ y = NULL
        ELSE y \in N /\ y # NULL /\ Under(t, t.data, d, Y, y)
    <2>1. CASE t.root = NULL
      BY <2>1, <1>1, RootIsNode DEF Spot
    <2>2. CASE t.root # NULL
      <3>1. t.root \in N
        BY <2>2, <1>1, RootIsNode
      <3>2. Under(t, t.data, d, Y, LastFrom(t, t.data, t.root, d))
        BY <3>1, <1>1, LastFinds
      <3> QED BY <2>2, <3>2, <1>1 DEF Under, PlacesOK, Spot
    <2> QED BY <2>1, <2>2
  <1>3. Spot(t, d) \in B!TreeNode \cup {NULL}
    BY <1>1, <1>2
  <1>4. LeafUnder(t, s, z, d, y)
    BY <1>1, <1>3, AttachIs
  <1> HIDE DEF s, y
  <1>5. /\ s.data[z] = d /\ \A x \in N : s.data[x] = t.data[x]
        /\ s.parent[z] = y /\ \A x \in N : s.parent[x] = t.parent[x]
    BY <1>1, <1>4 DEF LeafUnder
  <1>6. DOMAIN s.left = DOMAIN t.left /\ DOMAIN s.right = DOMAIN t.left /\ z # NULL
    BY <1>1, <1>4 DEF TreeRecord, B!TreeNode, NULL, LeafUnder
  \* It remains to lay out s, whose other nodes are as they were in t.
  <1>7. ASSUME NEW Z, NEW M, M \subseteq N, Laid(s.left, s.right, s.parent, s.root, Z),
               Nodes(Z) = M \cup {z}, SameOrder(M, Y, Z), y = NULL \/ y \in M,
               \A x \in M : IF Z.pos[x] < Z.pos[z] THEN t.data[x] <= d ELSE d <= t.data[x]
        PROVE  TreeLaid(s, Z)
    <2>1. Sorted(s.data, Z)
      <3>1. \A x \in Nodes(Z) : Z.pos[x] \in Int
        BY <1>7 DEF Laid, PlacesOK
      <3>2. \A x \in M : s.data[x] = t.data[x]
        BY <1>5, <1>7
      <3> QED BY <1>1, <1>5, <1>7, <3>1, <3>2, SortedWith
    <2>2. Grounded(s)
      <3>1. Nodes(Z) \subseteq DOMAIN s.left
        BY <1>1, <1>6, <1>7
      <3>2. \A x \in DOMAIN s.left \ Nodes(Z) :
                s.left[x] = t.left[x] /\ s.right[x] = t.right[x]
        <4>1. \A x \in DOMAIN t.left : x # z /\ x # y => s.left[x] = t.left[x] /\ s.right[x] = t.right[x]
          BY <1>1, <1>4 DEF LeafUnder
        <4>2. \A x \in DOMAIN s.left \ Nodes(Z) : x # z /\ x # y
          BY <1>1, <1>6, <1>7 DEF Grounded
        <4> QED BY <4>1, <4>2, <1>6
      <3> QED BY <1>1, <1>6, <1>7, <3>1, <3>2, StillGrounded
    <2> QED BY <1>1, <1>4, <1>6, <1>7, <2>1, <2>2 DEF TreeLaid, Ordered, LeafUnder
  <1>8. CASE t.root = NULL
    <2>1. N = {} /\ y = NULL /\ s.root = z
      BY <1>2, <1>4, <1>8 DEF LeafUnder
    <2>2. Lone(s.left, s.right, s.parent, z)
      BY <2>1, <1>1, <1>4, <1>5, <1>6 DEF Lone, LeafUnder
    <2>3. PICK Z : Laid(s.left, s.right, s.parent, z, Z) /\ Nodes(Z) = {z} /\ Z.n = 1
      BY <2>2, Alone
    <2>4. TreeLaid(s, Z)
      <3>1. Nodes(Z) = {} \cup {z} /\ SameOrder({}, Y, Z) /\ {} \subseteq N
        BY <2>3 DEF SameOrder
      <3> QED BY <2>1, <2>3, <3>1, <1>7
    <2> QED BY <2>1, <2>3, <2>4, <1>5 DEF s
  <1>9. CASE t.root # NULL /\ d > t.data[y]
    <2>1. /\ y \in N /\ y # NULL /\ t.data[y] \in Int /\ t.right[y] = NULL
          /\ \A v \in N : Y.pos[v] > Y.pos[y] => d < t.data[v]
      BY <1>1, <1>2, <1>9 DEF Under, Sorted
    <2>2. Hung(t.right, t.left, t.parent, s.right, s.left, s.parent, Y, y, z)
      BY <2>1, <1>1, <1>4, <1>5, <1>6, <1>9 DEF Hung, LeafUnder
    <2>3. PICK Z : /\ Laid(s.left, s.right, s.parent, t.root, Z) /\ Grown(Y, Z, z)
                   /\ \A x \in N : Z.pos[x] < Z.pos[z] <=> Y.pos[x] <= Y.pos[y]
      BY <2>2, <1>1, AttachedRight
    <2>4. \A x \in N : IF Z.pos[x] < Z.pos[z] THEN t.data[x] <= d ELSE d <= t.data[x]
      <3>1. ASSUME NEW x \in N, Y.pos[x] <= Y.pos[y] PROVE t.data[x] <= d
        <4>1. t.data[x] <= t.data[y] /\ t.data[x] \in Int
          BY <2>1, <3>1, <1>1 DEF Sorted, PlacesOK
        <4> QED BY <4>1, <2>1, <1>9
      <3>2. ASSUME NEW x \in N, ~ (Y.pos[x] <= Y.pos[y]) PROVE d <= t.data[x]
        <4>1. Y.pos[x] > Y.pos[y] /\ t.data[x] \in Int
          BY <2>1, <3>2, <1>1 DEF Sorted, PlacesOK
        <4> QED BY <4>1, <2>1
      <3> QED BY <2>3, <3>1, <3>2
    <2>5. s.root = t.root
      BY <2>1, <1>4, <1>9 DEF LeafUnder
    <2>6. Nodes(Z) = N \cup {z} /\ SameOrder(N, Y, Z)
      BY <2>3 DEF Grown
    <2>7. TreeLaid(s, Z)
      BY <2>1, <2>3, <2>4, <2>5, <2>6, <1>7
    <2> QED BY <2>6, <2>7, <1>5 DEF s
  <1>10. CASE t.root # NULL /\ ~ (d > t.data[y])
    <2>1. /\ y \in N /\ y # NULL /\ t.data[y] \in Int /\ d <= t.data[y]
          /\ d # t.data[y] => /\ t.left[y] = NULL
                              /\ \A v \in N : Y.pos[v] < Y.pos[y] => t.data[v] <= d
      BY <1>1, <1>2, <1>10 DEF Under, Sorted
    <2> DEFINE rest == [t.left EXCEPT ![y] = NULL]
    <2>2. rest[y] = NULL /\ \A x \in N \ {y} : rest[x] = t.left[x]
      BY <2>1, <1>1
    <2>3. \E W : /\ Laid(rest, t.right, t.parent, t.root, W)
                 /\ y \in Nodes(W) /\ Nodes(W) \subseteq N /\ SameOrder(Nodes(W), Y, W)
                 /\ t.left[y] = NULL => Nodes(W) = N
      <3> HIDE DEF rest
      <3>1. CASE t.left[y] = NULL
        <4>1. Laid(rest, t.right, t.parent, t.root, Y)
          <5>1. \A x \in N : rest[x] = t.left[x]
            BY <2>2, <3>1
          <5> QED BY <5>1, <1>1, LaidAlike
        <4>2. SameOrder(N, Y, Y)
          BY DEF SameOrder
        <4> QED BY <2>1, <4>1, <4>2
      <3>2. CASE t.left[y] # NULL
        BY <2>1, <2>2, <3>2, <1>1, Pruned
      <3> QED BY <3>1, <3>2
    <2>4. PICK W : /\ Laid(rest, t.right, t.parent, t.root, W)
                   /\ y \in Nodes(W) /\ Nodes(W) \subseteq N /\ SameOrder(Nodes(W), Y, W)
                   /\ t.left[y] = NULL => Nodes(W) = N
      BY <2>3
    <2> DEFINE M == Nodes(W)
    <2>5. Hung(rest, t.right, t.parent, s.left, s.right, s.parent, W, y, z)
      <3>1. \A x \in M : s.right[x] = t.right[x] /\ s.parent[x] = t.parent[x]
                         /\ (x # y => s.left[x] = rest[x])
        BY <2>1, <2>2, <2>4, <1>1, <1>4, <1>5, <1>10 DEF LeafUnder
      <3>2. s.left[z] = NULL /\ s.right[z] = NULL /\ s.parent[z] = y /\ s.left[y] = z
        BY <2>1, <1>1, <1>4, <1>5, <1>10 DEF LeafUnder
      <3> QED BY <2>2, <2>4, <3>1, <3>2, <1>6 DEF Hung
    <2> HIDE DEF rest
    <2>6. PICK Z : /\ Laid(s.left, s.right, s.parent, t.root, Z) /\ Grown(W, Z, z)
                   /\ \A x \in M : Z.pos[x] < Z.pos[z] <=> W.pos[x] < W.pos[y]
      BY <2>4, <2>5, AttachedLeft
    <2>7. \A x \in M : Z.pos[x] < Z.pos[z] <=> Y.pos[x] < Y.pos[y]
      BY <2>4, <2>6 DEF SameOrder
    <2>8. \A x \in M : IF Z.pos[x] < Z.pos[z] THEN t.data[x] <= d ELSE d <= t.data[x]
      <3>1. ASSUME NEW x \in N, Y.pos[x] < Y.pos[y] PROVE t.data[x] <= d
        <4>1. t.data[x] <= t.data[y] /\ t.data[x] \in Int
          BY <2>1, <3>1, <1>1 DEF Sorted
        <4> QED BY <4>1, <2>1, <3>1
      <3>2. ASSUME NEW x \in N, ~ (Y.pos[x] < Y.pos[y]) PROVE d <= t.data[x]
        <4>1. x = y \/ Y.pos[x] > Y.pos[y]
          <5>1. y \in N
            BY <2>1
          <5>2. Y.pos[x] \in Int /\ Y.pos[y] \in Int /\ (Y.pos[x] = Y.pos[y] => x = y)
            BY <5>1, <1>1 DEF PlacesOK
          <5> QED BY <5>2, <3>2
        <4>2. t.data[y] <= t.data[x] /\ t.data[x] \in Int
          BY <2>1, <4>1, <1>1 DEF Sorted
        <4> QED BY <4>2, <2>1
      <3> QED BY <2>4, <2>7, <3>1, <3>2
    <2>9. s.root = t.root
      BY <2>1, <1>4, <1>10 DEF LeafUnder
    <2>10. Nodes(Z) = M \cup {z} /\ SameOrder(M, Y, Z)
      BY <2>4, <2>6 DEF Grown, SameOrder
    <2>11. TreeLaid(s, Z)
      BY <2>4, <2>6, <2>8, <2>9, <2>10, <1>7
    <2>12. (\A x \in N : t.data[x] # d) => M = N
      BY <2>1, <2>4
    <2> QED BY <2>4, <2>10, <2>11, <2>12, <1>5 DEF s
  <1> QED BY <1>8, <1>9, <1>10

\* Among the nodes N, u has its place under its parent only, or is the root.
Held(t, N, u) ==
    /\ u \in N /\ N \subseteq B!TreeNode
    /\ IF u = t.root THEN t.parent[u] = NULL ELSE t.parent[u] \in N
    /\ \A x \in N : t.left[x] = u \/ t.right[x] = u => u # t.root /\ x = t.parent[u]
    /\ u # t.root => \/ t.left[t.parent[u]] = u /\ t.right[t.parent[u]] # u
                     \/ t.left[t.parent[u]] # u /\ t.right[t.parent[u]] = u

\* s is t with v in the place of u.
InPlaceOf(t, s, N, u, v) ==
    /\ s \in TreeRecord /\ s.data = t.data
    /\ s.root = IF t.root = u THEN v ELSE t.root
    /\ \A x \in N : /\ s.left[x] = IF t.left[x] = u THEN v ELSE t.left[x]
                    /\ s.right[x] = IF t.right[x] = u THEN v ELSE t.right[x]
    /\ \A x \in B!TreeNode \ N : s.left[x] = t.left[x] /\ s.right[x] = t.right[x]
    /\ \A x \in B!TreeNode : s.parent[x] = IF x = v THEN t.parent[u] ELSE t.parent[x]

LEMMA TransplantIs ==
    ASSUME NEW t \in TreeRecord, NEW N, NEW u, Held(t, N, u), NEW v \in B!TreeNode \cup {NULL}
    PROVE  InPlaceOf(t, B!Transplant(t, u, v), N, u, v)
  <1> DEFINE up == t.parent[u]
             s1 == IF up = NULL THEN [t EXCEPT !.root = v]
                   ELSE IF t.left[up] = u THEN [t EXCEPT !.left[up] = v]
                   ELSE [t EXCEPT !.right[up] = v]
             s == B!Transplant(t, u, v)
  <1>1. NULL \in Int /\ B!NULL = NULL /\ B!TreeNode \subseteq Int /\ NULL \notin B!TreeNode
    BY BinaryLoops DEF NULL, B!TreeNode
  <1>2. s = IF v = NULL THEN s1 ELSE [s1 EXCEPT !.parent[v] = up]
    BY <1>1 DEF B!Transplant
  <1>3. /\ u \in N /\ N \subseteq B!TreeNode /\ up \in Int
        /\ IF u = t.root THEN up = NULL ELSE up \in N
        /\ \A x \in N : t.left[x] = u \/ t.right[x] = u => u # t.root /\ x = up
        /\ u # t.root => \/ t.left[up] = u /\ t.right[up] # u
                         \/ t.left[up] # u /\ t.right[up] = u
    BY DEF Held, TreeRecord
  <1> HIDE DEF up
  <1>4. /\ s1 \in TreeRecord /\ s1.data = t.data /\ s1.parent = t.parent
        /\ s1.root = IF t.root = u THEN v ELSE t.root
        /\ \A x \in N : /\ s1.left[x] = IF t.left[x] = u THEN v ELSE t.left[x]
                        /\ s1.right[x] = IF t.right[x] = u THEN v ELSE t.right[x]
        /\ \A x \in B!TreeNode \ N : s1.left[x] = t.left[x] /\ s1.right[x] = t.right[x]
    <2>1. CASE u = t.root
      <3>1. s1 = [t EXCEPT !.root = v] /\ up = NULL
        BY <2>1, <1>3
      <3> HIDE DEF s1
      <3>2. s1 \in TreeRecord /\ s1.data = t.data /\ s1.parent = t.parent /\ s1.root = v
            /\ s1.left = t.left /\ s1.right = t.right
        BY <3>1, <1>1 DEF TreeRecord
      <3> QED BY <2>1, <3>2, <1>3
    <2>2. CASE u # t.root /\ t.left[up] = u
      <3>1. s1 = [t EXCEPT !.left[up] = v] /\ up \in N /\ t.right[up] # u
        BY <2>2, <1>1, <1>3
      <3> HIDE DEF s1
      <3>2. s1 \in TreeRecord /\ s1.data = t.data /\ s1.parent = t.parent /\ s1.root = t.root
            /\ s1.left = [t.left EXCEPT ![up] = v] /\ s1.right = t.right
        BY <3>1, <1>1 DEF TreeRecord
      <3>3. DOMAIN t.left = B!TreeNode
        BY DEF TreeRecord
      <3> QED BY <2>2, <3>1, <3>2, <3>3, <1>3
    <2>3. CASE u # t.root /\ t.left[up] # u
      <3>1. s1 = [t EXCEPT !.right[up] = v] /\ up \in N /\ t.right[up] = u
        BY <2>3, <1>1, <1>3
      <3> HIDE DEF s1
      <3>2. s1 \in TreeRecord /\ s1.data = t.data /\ s1.parent = t.parent /\ s1.root = t.root
            /\ s1.right = [t.right EXCEPT ![up] = v] /\ s1.left = t.left
        BY <3>1, <1>1 DEF TreeRecord
      <3>3. DOMAIN t.right = B!TreeNode
        BY DEF TreeRecord
      <3> QED BY <2>3, <3>1, <3>2, <3>3, <1>3
    <2> QED BY <2>1, <2>2, <2>3
  <1> HIDE DEF s, s1
  <1>5. CASE v = NULL
    <2>1. s = s1 /\ \A x \in B!TreeNode : x # v
      BY <1>1, <1>2, <1>5
    <2> QED BY <2>1, <1>4 DEF InPlaceOf, s
  <1>6. CASE v # NULL
    <2>1. s = [s1 EXCEPT !.parent[v] = up] /\ v \in B!TreeNode
      BY <1>2, <1>6
    <2>2. /\ s \in TreeRecord /\ s.data = s1.data /\ s.root = s1.root
          /\ s.left = s1.left /\ s.right = s1.right /\ s.parent = [s1.parent EXCEPT ![v] = up]
      BY <2>1, <1>3, <1>4 DEF TreeRecord
    <2>3. DOMAIN s1.parent = B!TreeNode
      BY <1>4 DEF TreeRecord
    <2> QED BY <2>1, <2>2, <2>3, <1>4 DEF InPlaceOf, s, up
  <1> QED BY <1>5, <1>6

\* What a layout says of the children and parents of its nodes.
LEMMA Family ==
    ASSUME NEW left, NEW right, NEW parent, NEW root, NEW Y, Laid(left, right, parent, root, Y)
    PROVE  /\ NULL \notin Nodes(Y)
           /\ \A x \in Nodes(Y) :
                /\ left[x] # NULL => /\ left[x] \in Nodes(Y) /\ parent[left[x]] = x
                                     /\ left[x] # x /\ left[x] # root /\ left[x] # right[x]
                /\ right[x] # NULL => /\ right[x] \in Nodes(Y) /\ parent[right[x]] = x
                                      /\ right[x] # x /\ right[x] # root
                /\ IF x = root THEN parent[x] = NULL
                   ELSE parent[x] \in Nodes(Y) /\ (left[parent[x]] = x \/ right[parent[x]] = x)
  <1> DEFINE N == Nodes(Y)
  <1>1. /\ PlacesOK(Y) /\ LeftOK(left, Y) /\ RightOK(right, Y)
        /\ ParentsOK(left, right, parent, root, Y)
    BY DEF Laid
  <1>2. /\ NULL \notin N
        /\ \A x \in N : /\ Y.pos[x] \in Int /\ Y.lo[x] \in Int /\ Y.hi[x] \in Int
                        /\ Y.lo[x] <= Y.pos[x] /\ Y.pos[x] <= Y.hi[x]
    BY <1>1 DEF PlacesOK
  <1>3. \A x \in N : /\ left[x] # NULL => left[x] \in N /\ Y.hi[left[x]] = Y.pos[x] - 1
                     /\ right[x] # NULL => right[x] \in N /\ Y.lo[right[x]] = Y.pos[x] + 1
    BY <1>1 DEF LeftOK, RightOK
  <1>4. \A x \in N : /\ left[x] # NULL => left[x] # x /\ left[x] # right[x]
                     /\ right[x] # NULL => right[x] # x
    BY <1>2, <1>3
  <1>5. \A x \in N : /\ left[x] # NULL => parent[left[x]] = x
                     /\ right[x] # NULL => parent[right[x]] = x
                     /\ IF x = root THEN parent[x] = NULL
                        ELSE parent[x] \in N /\ (left[parent[x]] = x \/ right[parent[x]] = x)
    BY <1>1 DEF ParentsOK
  <1>6. \A x \in N : /\ left[x] # NULL => left[x] # root
                     /\ right[x] # NULL => right[x] # root
    BY <1>2, <1>3, <1>5
  <1> QED BY <1>2, <1>3, <1>4, <1>5, <1>6

\* Every node of a tree that is laid out has its place.
LEMMA LaidHeld ==
    ASSUME NEW t, NEW Y, Laid(t.left, t.right, t.parent, t.root, Y),
           Nodes(Y) \subseteq B!TreeNode, NEW u \in Nodes(Y)
    PROVE  Held(t, Nodes(Y), u)
  <1> DEFINE N == Nodes(Y)
  <1>1. /\ NULL \notin N
        /\ \A x \in N :
                /\ t.left[x] # NULL => /\ t.left[x] \in N /\ t.parent[t.left[x]] = x
                                       /\ t.left[x] # t.root /\ t.left[x] # t.right[x]
                /\ t.right[x] # NULL => /\ t.right[x] \in N /\ t.parent[t.right[x]] = x
                                        /\ t.right[x] # t.root
                /\ IF x = t.root THEN t.parent[x] = NULL
                   ELSE t.parent[x] \in N /\ (t.left[t.parent[x]] = x \/ t.right[t.parent[x]] = x)
    BY Family
  <1> QED BY <1>1 DEF Held

\* y, the next node behind z, leaves its place to its right child and takes that of
\* z, which has two children.
Succeeds(left, right, parent, root, left2, right2, parent2, root2, Y, z, y) ==
    /\ z \in Nodes(Y) /\ y \in Nodes(Y) /\ left[y] = NULL /\ Y.pos[y] = Y.pos[z] + 1
    /\ left[z] # NULL /\ right[z] # NULL
    /\ root2 = IF root = z THEN y ELSE root
    /\ left2[y] = left[z] /\ right2[y] = (IF right[z] = y THEN right[y] ELSE right[z])
    /\ parent2[y] = parent[z]
    /\ \A x \in Nodes(Y) \ {y, z} :
        /\ left2[x] = IF left[x] = z THEN y ELSE IF left[x] = y THEN right[y] ELSE left[x]
        /\ right2[x] = IF right[x] = z THEN y ELSE IF right[x] = y THEN right[y] ELSE right[x]
        /\ parent2[x] = IF x = left[z] \/ x = right[z] THEN y
                        ELSE IF x = right[y] THEN (IF parent[y] = z THEN y ELSE parent[y])
                        ELSE parent[x]

LEMMA SuccessorLaid ==
    ASSUME NEW left, NEW right, NEW parent, NEW root, NEW Y, Laid(left, right, parent, root, Y),
           NEW left2, NEW right2, NEW parent2, NEW root2, NEW z, NEW y,
           Succeeds(left, right, parent, root, left2, right2, parent2, root2, Y, z, y)
    PROVE  \E Z : Laid(left2, right2, parent2, root2, Z) /\ Shrunk(Y, Z, z)
  <1> DEFINE N == Nodes(Y)
             left1 == [x \in N |-> IF left[x] = y THEN right[y] ELSE left[x]]
             right1 == [x \in N |-> IF right[x] = y THEN right[y] ELSE right[x]]
             parent1 == [x \in N |-> IF x = right[y] THEN parent[y] ELSE parent[x]]
  <1>1. /\ z \in N /\ y \in N /\ left[y] = NULL /\ Y.pos[y] = Y.pos[z] + 1 /\ y # NULL
        /\ left[z] # NULL /\ right[z] # NULL
        /\ root2 = IF root = z THEN y ELSE root
        /\ left2[y] = left[z] /\ right2[y] = (IF right[z] = y THEN right[y] ELSE right[z])
        /\ parent2[y] = parent[z]
        /\ \A x \in N \ {y, z} :
            /\ left2[x] = IF left[x] = z THEN y ELSE IF left[x] = y THEN right[y] ELSE left[x]
            /\ right2[x] = IF right[x] = z THEN y ELSE IF right[x] = y THEN right[y] ELSE right[x]
            /\ parent2[x] = IF x = left[z] \/ x = right[z] THEN y
                            ELSE IF x = right[y] THEN (IF parent[y] = z THEN y ELSE parent[y])
                            ELSE parent[x]
    BY DEF Succeeds, Laid, PlacesOK
  <1>2. /\ PlacesOK(Y) /\ LeftOK(left, Y) /\ RightOK(right, Y) /\ RootOK(root, Y)
    BY DEF Laid
  <1>3. \A x \in N : /\ Y.pos[x] \in Int /\ Y.lo[x] \in Int /\ Y.hi[x] \in Int /\ 1 <= Y.lo[x]
                     /\ Y.lo[x] <= Y.pos[x] /\ Y.pos[x] <= Y.hi[x] /\ Y.hi[x] <= Y.n
    BY <1>2 DEF PlacesOK
  <1>4. y # z /\ left[z] # y /\ right[y] # z /\ root # y
    <2>1. left[z] # y
      BY <1>1, <1>2, <1>3 DEF LeftOK
    <2>2. right[y] # z
      BY <1>1, <1>2, <1>3 DEF RightOK, PlacesOK
    <2>3. root # y
      <3>1. root = y => Y.lo[y] = 1 /\ Y.lo[y] = Y.pos[y]
        BY <1>1, <1>2, <1>3 DEF RootOK, LeftOK
      <3> QED BY <3>1, <1>1, <1>3
    <2> QED BY <2>1, <2>2, <2>3, <1>1, <1>3
  <1>5. PICK V : Laid(left1, right1, parent1, root, V) /\ Shrunk(Y, V, y)
    <2>1. TakenOut(left, right, parent, root, left1, right1, parent1, root, Y, y, right[y])
      BY <1>4 DEF TakenOut
    <2> HIDE DEF left1, right1, parent1
    <2> QED BY <2>1, <1>1, RemovedLeftless
  <1>6. /\ \A x \in N : /\ left1[x] = IF left[x] = y THEN right[y] ELSE left[x]
                        /\ right1[x] = IF right[x] = y THEN right[y] ELSE right[x]
                        /\ parent1[x] = IF x = right[y] THEN parent[y] ELSE parent[x]
        /\ Nodes(V) = N \ {y} /\ z \in Nodes(V) /\ y \notin Nodes(V)
    BY <1>1, <1>4, <1>5 DEF Shrunk
  <1>7. /\ NULL \notin N
        /\ \A x \in N : /\ left[x] # NULL => left[x] \in N /\ parent[left[x]] = x
                        /\ right[x] # NULL => right[x] \in N /\ parent[right[x]] = x
                        /\ IF x = root THEN parent[x] = NULL
                           ELSE parent[x] \in N /\ (left[parent[x]] = x \/ right[parent[x]] = x)
    BY Family
  <1> HIDE DEF left1, right1, parent1
  <1>8. Renamed(left1, right1, parent1, root, left2, right2, parent2, root2, V, z, y)
    <2>1. left2[y] = left1[z] /\ right2[y] = right1[z] /\ parent2[y] = parent1[z]
      BY <1>1, <1>4, <1>6
    <2>2. ASSUME NEW x \in N \ {y, z}
          PROVE  /\ left2[x] = IF left1[x] = z THEN y ELSE left1[x]
                 /\ right2[x] = IF right1[x] = z THEN y ELSE right1[x]
      BY <1>1, <1>4, <1>6
    <2>3. ASSUME NEW x \in N \ {y, z} PROVE parent2[x] = IF parent1[x] = z THEN y ELSE parent1[x]
      <3>1. CASE x = right[y]
        <4>1. parent[x] = y /\ x # left[z] /\ x # right[z]
          BY <3>1, <1>1, <1>4, <1>7
        <4> QED BY <3>1, <4>1, <1>1, <1>6
      <3>2. CASE x # right[y]
        <4>1. parent[x] = z <=> x = left[z] \/ x = right[z]
          BY <1>1, <1>7
        <4> QED BY <3>2, <4>1, <1>1, <1>6
      <3> QED BY <3>1, <3>2
    <2> QED BY <2>1, <2>2, <2>3, <1>1, <1>6 DEF Renamed
  <1>9. PICK Z : /\ Laid(left2, right2, parent2, root2, Z)
                 /\ Nodes(Z) = (Nodes(V) \ {z}) \cup {y}
                 /\ Z.pos[y] = V.pos[z] /\ \A x \in Nodes(V) \ {z} : Z.pos[x] = V.pos[x]
    BY <1>1, <1>5, <1>6, <1>8, RenamedLaid
  <1>10. Nodes(Z) = N \ {z}
    BY <1>1, <1>4, <1>6, <1>9
  <1>11. SameOrder(N \ {z}, Y, Z)
    <2>1. \A a, b \in N \ {y} : V.pos[a] < V.pos[b] <=> Y.pos[a] < Y.pos[b]
      BY <1>5, <1>6 DEF Shrunk, SameOrder
    <2>2. \A a \in N \ {y, z} : /\ Y.pos[a] < Y.pos[z] <=> Y.pos[a] < Y.pos[y]
                                /\ Y.pos[z] < Y.pos[a] <=> Y.pos[y] < Y.pos[a]
      <3>1. \A a \in N \ {y, z} : Y.pos[a] # Y.pos[y] /\ Y.pos[a] # Y.pos[z] /\ Y.pos[a] \in Int
        BY <1>1, <1>2 DEF PlacesOK
      <3> QED BY <3>1, <1>1, <1>3
    <2>3. ASSUME NEW a \in N \ {z}, NEW b \in N \ {z}
          PROVE  Z.pos[a] < Z.pos[b] <=> Y.pos[a] < Y.pos[b]
      <3>1. CASE a = y /\ b = y
        <4>1. Z.pos[y] \in Int /\ Y.pos[y] \in Int
          BY <1>1, <1>3, <1>9 DEF Laid, PlacesOK
        <4> QED BY <3>1, <4>1
      <3>2. CASE a = y /\ b # y
        BY <3>2, <2>1, <2>2, <1>1, <1>4, <1>6, <1>9
      <3>3. CASE a # y /\ b = y
        BY <3>3, <2>1, <2>2, <1>1, <1>4, <1>6, <1>9
      <3>4. CASE a # y /\ b # y
        BY <3>4, <2>1, <1>6, <1>9
      <3> QED BY <3>1, <3>2, <3>3, <3>4
    <2> QED BY <2>3 DEF SameOrder
  <1> QED BY <1>9, <1>10, <1>11 DEF Shrunk

\* y is the next node behind z, which has two children.
NextOf(t, Y, z, y) ==
    /\ TreeLaid(t, Y) /\ z \in Nodes(Y) /\ t.left[z] # NULL /\ t.right[z] # NULL
    /\ y \in Nodes(Y) /\ t.left[y] = NULL /\ Y.pos[y] = Y.pos[z] + 1

\* s is t with the right subtree of z, without y, at y.
Raised(t, s, N, z, y) ==
    LET moves == t.parent[y] # z IN
    /\ s \in TreeRecord /\ s.data = t.data /\ s.root = t.root
    /\ \A x \in N : s.left[x] = IF moves /\ t.left[x] = y THEN t.right[y] ELSE t.left[x]
    /\ \A x \in N \ {y} :
            s.right[x] = IF moves /\ t.right[x] = y THEN t.right[y] ELSE t.right[x]
    /\ s.right[y] = IF moves THEN t.right[z] ELSE t.right[y]
    /\ \A x \in N : s.parent[x] = IF moves /\ x = t.right[z] THEN y
                                  ELSE IF moves /\ x = t.right[y] THEN t.parent[y] ELSE t.parent[x]
    /\ \A x \in B!TreeNode \ N : s.left[x] = t.left[x] /\ s.right[x] = t.right[x]

\* What a layout says of z and the next node y.
LEMMA NextFamily ==
    ASSUME NEW t, NEW Y, NEW z, NEW y, NextOf(t, Y, z, y)
    PROVE  /\ t \in TreeRecord /\ Nodes(Y) \subseteq B!TreeNode /\ NULL \notin Nodes(Y)
           /\ Laid(t.left, t.right, t.parent, t.root, Y)
           /\ z \in Nodes(Y) /\ y \in Nodes(Y) /\ y # z /\ y # t.root
           /\ t.left[y] = NULL /\ t.left[z] # y /\ t.right[y] # z
           /\ t.left[z] \in Nodes(Y) /\ t.right[z] \in Nodes(Y)
           /\ t.parent[t.left[z]] = z /\ t.parent[t.right[z]] = z
           /\ t.right[y] \in Nodes(Y) \cup {NULL}
           /\ t.parent[y] = z <=> t.right[z] = y
           /\ t.right[y] # NULL => t.parent[t.right[y]] = y
           /\ t.right[z] # t.right[y] /\ t.left[z] # t.right[y] /\ t.left[z] # t.right[z]
  <1> DEFINE N == Nodes(Y)
  <1>1. /\ t \in TreeRecord /\ N \subseteq B!TreeNode /\ NULL \notin N
        /\ Laid(t.left, t.right, t.parent, t.root, Y)
        /\ PlacesOK(Y) /\ LeftOK(t.left, Y) /\ RightOK(t.right, Y) /\ RootOK(t.root, Y)
    BY DEF NextOf, TreeLaid, Ordered, Laid, PlacesOK, TreeRecord
  <1>2. \A x \in N : /\ Y.pos[x] \in Int /\ Y.lo[x] \in Int /\ Y.hi[x] \in Int /\ 1 <= Y.lo[x]
                     /\ Y.lo[x] <= Y.pos[x] /\ Y.pos[x] <= Y.hi[x] /\ Y.hi[x] <= Y.n
    BY <1>1 DEF PlacesOK
  <1>3. /\ z \in N /\ t.left[z] # NULL /\ t.right[z] # NULL
        /\ y \in N /\ t.left[y] = NULL /\ Y.pos[y] = Y.pos[z] + 1
    BY DEF NextOf
  <1>4. y # z /\ t.left[z] # y /\ t.right[y] # z
    BY <1>1, <1>2, <1>3 DEF LeftOK, RightOK
  <1>5. y # t.root
    <2>1. t.root = y => Y.lo[y] = 1 /\ Y.lo[y] = Y.pos[y]
      BY <1>1, <1>2, <1>3 DEF RootOK, LeftOK
    <2> QED BY <2>1, <1>2, <1>3
  <1>6. \A x \in N :
            /\ t.left[x] # NULL => /\ t.left[x] \in N /\ t.parent[t.left[x]] = x
                                   /\ t.left[x] # t.right[x]
            /\ t.right[x] # NULL => t.right[x] \in N /\ t.parent[t.right[x]] = x
            /\ IF x = t.root THEN t.parent[x] = NULL
               ELSE t.parent[x] \in N /\ (t.left[t.parent[x]] = x \/ t.right[t.parent[x]] = x)
    BY <1>1, Family
  <1> QED BY <1>1, <1>3, <1>4, <1>5, <1>6

LEMMA RaiseIs ==
    ASSUME NEW t, NEW Y, NEW z, NEW y, NextOf(t, Y, z, y)
    PROVE  Raised(t, B!RaiseSuccessor(t, z, y), Nodes(Y), z, y)
  <1> DEFINE N == Nodes(Y)
             s1 == B!Transplant(t, y, t.right[y])
             s2 == [s1 EXCEPT !.right[y] = s1.right[z], !.parent[s1.right[z]] = y]
             s == B!RaiseSuccessor(t, z, y)
  <1>1. s = IF t.parent[y] = z THEN t ELSE s2
    BY DEF B!RaiseSuccessor
  <1>2. /\ t \in TreeRecord /\ N \subseteq B!TreeNode /\ NULL \notin N
        /\ Laid(t.left, t.right, t.parent, t.root, Y)
        /\ z \in N /\ y \in N /\ y # z /\ y # t.root
        /\ t.left[y] = NULL /\ t.left[z] # y /\ t.right[y] # z
        /\ t.left[z] \in N /\ t.right[z] \in N
        /\ t.parent[y] = z <=> t.right[z] = y
        /\ t.right[y] # NULL => t.parent[t.right[y]] = y
        /\ t.right[z] # t.right[y] /\ t.right[y] \in N \cup {NULL}
    BY NextFamily
  <1>3. CASE t.parent[y] = z
    BY <1>1, <1>2, <1>3 DEF Raised
  <1>4. CASE t.parent[y] # z
    <2>1. InPlaceOf(t, s1, N, y, t.right[y])
      <3>1. Held(t, N, y)
        BY <1>2, LaidHeld
      <3>2. t.right[y] \in B!TreeNode \cup {NULL}
        BY <1>2
      <3> QED BY <1>2, <3>1, <3>2, TransplantIs
    <2>2. s1 \in TreeRecord /\ s1.right[z] = t.right[z] /\ s1.right[y] = t.right[y]
      BY <2>1, <1>2, <1>4 DEF InPlaceOf
    <2> HIDE DEF s1
    <2>3. /\ s2 \in TreeRecord /\ s2.data = s1.data /\ s2.root = s1.root /\ s2.left = s1.left
          /\ s2.right = [s1.right EXCEPT ![y] = t.right[z]]
          /\ s2.parent = [s1.parent EXCEPT ![t.right[z]] = y]
      <3>1. B!TreeNode \subseteq Int
        BY DEF B!TreeNode
      <3> QED BY <2>2, <3>1, <1>2 DEF TreeRecord
    <2>4. DOMAIN s1.right = B!TreeNode /\ DOMAIN s1.parent = B!TreeNode
      BY <2>2 DEF TreeRecord
    <2>5. s = s2
      BY <1>1, <1>4
    <2> HIDE DEF s2, s
    <2>6. /\ s.data = t.data /\ s.root = t.root
          /\ \A x \in N : s.left[x] = IF t.left[x] = y THEN t.right[y] ELSE t.left[x]
          /\ \A x \in B!TreeNode \ N : s.left[x] = t.left[x] /\ s.right[x] = t.right[x]
      BY <2>1, <2>3, <2>4, <2>5, <1>2 DEF InPlaceOf
    <2>7. /\ s.right[y] = t.right[z]
          /\ \A x \in N \ {y} : s.right[x] = IF t.right[x] = y THEN t.right[y] ELSE t.right[x]
      BY <2>1, <2>3, <2>4, <2>5, <1>2 DEF InPlaceOf
    <2>8. \A x \in N : s.parent[x] = IF x = t.right[z] THEN y
                                     ELSE IF x = t.right[y] THEN t.parent[y] ELSE t.parent[x]
      BY <2>1, <2>3, <2>4, <2>5, <1>2 DEF InPlaceOf
    <2>9. Raised(t, s, N, z, y)
      BY <2>3, <2>5, <2>6, <2>7, <2>8, <1>4 DEF Raised
    <2> QED BY <2>9 DEF s
  <1> QED BY <1>3, <1>4

\* u is t without z, which has a layout that is that of t without z.
Detached(t, u, Y, z) ==
    /\ u \in TreeRecord /\ u.data = t.data
    /\ \E Z : Laid(u.left, u.right, u.parent, u.root, Z) /\ Shrunk(Y, Z, z)
    /\ \A x \in B!TreeNode \ Nodes(Y) : u.left[x] = t.left[x] /\ u.right[x] = t.right[x]

LEMMA SuccessorDetached ==
    ASSUME NEW t, NEW Y, NEW z, NEW y, NextOf(t, Y, z, y),
           NEW s, s = B!Transplant(B!RaiseSuccessor(t, z, y), z, y)
    PROVE  Detached(t, [s EXCEPT !.left[y] = s.left[z], !.parent[s.left[z]] = y], Y, z)
  <1> DEFINE N == Nodes(Y)
             r == B!RaiseSuccessor(t, z, y)
             u == [s EXCEPT !.left[y] = s.left[z], !.parent[s.left[z]] = y]
             moves == t.parent[y] # z
  <1>1. /\ t \in TreeRecord /\ N \subseteq B!TreeNode /\ NULL \notin N
        /\ Laid(t.left, t.right, t.parent, t.root, Y)
        /\ z \in N /\ y \in N /\ y # z /\ y # t.root
        /\ t.left[y] = NULL /\ t.left[z] # y /\ t.right[y] # z
        /\ t.left[z] \in N /\ t.right[z] \in N
        /\ t.parent[t.left[z]] = z /\ t.parent[t.right[z]] = z
        /\ t.right[y] \in N \cup {NULL}
        /\ t.parent[y] = z <=> t.right[z] = y
        /\ t.right[y] # NULL => t.parent[t.right[y]] = y
        /\ t.right[z] # t.right[y] /\ t.left[z] # t.right[y] /\ t.left[z] # t.right[z]
    BY NextFamily
  <1>2. Raised(t, r, N, z, y)
    BY RaiseIs
  <1> HIDE DEF r
  <1>3. /\ r \in TreeRecord /\ r.data = t.data /\ r.root = t.root
        /\ \A x \in N : r.left[x] = IF moves /\ t.left[x] = y THEN t.right[y] ELSE t.left[x]
        /\ \A x \in N \ {y} :
                r.right[x] = IF moves /\ t.right[x] = y THEN t.right[y] ELSE t.right[x]
        /\ r.right[y] = IF moves THEN t.right[z] ELSE t.right[y]
        /\ \A x \in N : r.parent[x] = IF moves /\ x = t.right[z] THEN y
                                      ELSE IF moves /\ x = t.right[y] THEN t.parent[y] ELSE t.parent[x]
        /\ \A x \in B!TreeNode \ N : r.left[x] = t.left[x] /\ r.right[x] = t.right[x]
    BY <1>2 DEF Raised
  <1>4. \A x \in N : /\ t.left[x] = z => t.parent[z] = x /\ t.right[x] # z /\ z # t.root
                     /\ t.right[x] = z => t.parent[z] = x /\ t.left[x] # z /\ z # t.root
    BY <1>1, Family
  <1>5. IF z = t.root THEN t.parent[z] = NULL
        ELSE /\ t.parent[z] \in N
             /\ t.left[t.parent[z]] = z \/ t.right[t.parent[z]] = z
    BY <1>1, Family
  <1>6. /\ \A x \in N : r.left[x] = z <=> t.left[x] = z
        /\ \A x \in N : r.right[x] = z <=> t.right[x] = z
        /\ r.parent[z] = t.parent[z]
    <2>1. t.right[z] # z /\ t.left[z] # z
      BY <1>1, Family
    <2> QED BY <2>1, <1>1, <1>3
  <1>7. InPlaceOf(r, s, N, z, y)
    <2>1. Held(r, N, z)
      BY <1>1, <1>3, <1>4, <1>5, <1>6 DEF Held
    <2>2. y \in B!TreeNode \cup {NULL} /\ s = B!Transplant(r, z, y)
      BY <1>1 DEF r
    <2> QED BY <1>3, <2>1, <2>2, TransplantIs
  <1>8. s \in TreeRecord /\ s.left[z] = t.left[z] /\ t.left[z] \in B!TreeNode
    <2>1. t.left[z] # z
      BY <1>1, Family
    <2> QED BY <2>1, <1>1, <1>3, <1>7 DEF InPlaceOf
  <1>9. /\ u \in TreeRecord /\ u.data = s.data /\ u.root = s.root /\ u.right = s.right
        /\ u.left = [s.left EXCEPT ![y] = t.left[z]]
        /\ u.parent = [s.parent EXCEPT ![t.left[z]] = y]
    <2>1. B!TreeNode \subseteq Int
      BY DEF B!TreeNode
    <2> QED BY <2>1, <1>1, <1>8 DEF TreeRecord
  <1>10. DOMAIN s.left = B!TreeNode /\ DOMAIN s.parent = B!TreeNode
    BY <1>8 DEF TreeRecord
  <1> HIDE DEF u
  <1>11. /\ u.data = t.data /\ u.root = (IF t.root = z THEN y ELSE t.root)
         /\ \A x \in B!TreeNode \ N : u.left[x] = t.left[x] /\ u.right[x] = t.right[x]
    BY <1>1, <1>3, <1>7, <1>9, <1>10 DEF InPlaceOf
  <1>12. u.left[y] = t.left[z] /\ u.right[y] = (IF t.right[z] = y THEN t.right[y] ELSE t.right[z])
         /\ u.parent[y] = t.parent[z]
    <2>1. t.right[y] # y /\ t.right[z] # z
      BY <1>1, Family
    <2> QED BY <2>1, <1>1, <1>3, <1>6, <1>7, <1>9, <1>10 DEF InPlaceOf
  <1>13. \A x \in N \ {y, z} :
            /\ u.left[x] = IF t.left[x] = z THEN y ELSE IF t.left[x] = y THEN t.right[y] ELSE t.left[x]
            /\ u.right[x] = IF t.right[x] = z THEN y
                            ELSE IF t.right[x] = y THEN t.right[y] ELSE t.right[x]
    <2>1. ASSUME NEW x \in N \ {y, z}
          PROVE  /\ u.left[x] = r.left[x] \/ (r.left[x] = z /\ u.left[x] = y)
                 /\ u.right[x] = r.right[x] \/ (r.right[x] = z /\ u.right[x] = y)
                 /\ u.left[x] # z /\ u.right[x] # z
      BY <1>1, <1>3, <1>7, <1>9, <1>10 DEF InPlaceOf
    <2>2. ASSUME NEW x \in N \ {y, z}, ~ moves PROVE t.left[x] # y /\ t.right[x] # y
      BY <1>1, <2>2, Family
    <2> QED BY <2>1, <2>2, <1>1, <1>3, <1>6
  <1>14. \A x \in N \ {y, z} :
            u.parent[x] = IF x = t.left[z] \/ x = t.right[z] THEN y
                          ELSE IF x = t.right[y] THEN (IF t.parent[y] = z THEN y ELSE t.parent[y])
                          ELSE t.parent[x]
    <2>1. \A x \in N \ {y, z} : u.parent[x] = IF x = t.left[z] THEN y ELSE r.parent[x]
      BY <1>1, <1>7, <1>9, <1>10 DEF InPlaceOf
    <2> QED BY <2>1, <1>1, <1>3
  <1>15. Succeeds(t.left, t.right, t.parent, t.root, u.left, u.right, u.parent, u.root, Y, z, y)
    BY <1>1, <1>11, <1>12, <1>13, <1>14 DEF Succeeds, NextOf
  <1>16. \E Z : Laid(u.left, u.right, u.parent, u.root, Z) /\ Shrunk(Y, Z, z)
    BY <1>1, <1>15, SuccessorLaid
  <1>17. Detached(t, u, Y, z)
    BY <1>9, <1>11, <1>16 DEF Detached
  <1> QED BY <1>17 DEF u

LEMMA DetachIs ==
    ASSUME NEW t, NEW Y, TreeLaid(t, Y), NEW z \in Nodes(Y)
    PROVE  Detached(t, B!Detach(t, z), Y, z)
  <1> DEFINE N == Nodes(Y)
             u == B!Detach(t, z)
             y == B!Min(t, t.right[z])
             s == B!Transplant(B!RaiseSuccessor(t, z, y), z, y)
  <1>1. /\ t \in TreeRecord /\ Grounded(t) /\ N \subseteq B!TreeNode /\ N \subseteq DOMAIN t.left
        /\ Laid(t.left, t.right, t.parent, t.root, Y) /\ PlacesOK(Y)
        /\ LeftOK(t.left, Y) /\ RightOK(t.right, Y)
    BY DEF TreeLaid, Ordered, Laid, TreeRecord
  <1>2. u = IF t.left[z] = NULL THEN B!Transplant(t, z, t.right[z])
            ELSE IF t.right[z] = NULL THEN B!Transplant(t, z, t.left[z])
            ELSE [s EXCEPT !.left[y] = s.left[z], !.parent[s.left[z]] = y]
    BY BinaryLoops DEF B!Detach
  <1> HIDE DEF u
  <1>3. Held(t, N, z)
    BY <1>1, LaidHeld
  <1>4. /\ t.left[z] \in N \cup {NULL} /\ t.right[z] \in N \cup {NULL}
        /\ t.left[z] # z /\ t.right[z] # z
        /\ \A x \in N : t.left[x] # z \/ t.right[x] # z
    <2>1. \A x \in N : /\ t.left[x] # NULL => t.left[x] \in N /\ t.left[x] # x /\ t.left[x] # t.right[x]
                       /\ t.right[x] # NULL => t.right[x] \in N /\ t.right[x] # x
      BY <1>1, Family
    <2> QED BY <2>1, <1>1 DEF PlacesOK
  \* One child, or none: it takes the place of z.
  <1>5. ASSUME NEW c \in N \cup {NULL}, u = B!Transplant(t, z, c)
        PROVE  /\ u \in TreeRecord /\ u.data = t.data
               /\ TakenOut(t.left, t.right, t.parent, t.root, u.left, u.right, u.parent, u.root, Y, z, c)
               /\ \A x \in B!TreeNode \ N : u.left[x] = t.left[x] /\ u.right[x] = t.right[x]
    <2>1. InPlaceOf(t, u, N, z, c)
      BY <1>1, <1>3, <1>5, TransplantIs
    <2> QED BY <2>1, <1>1 DEF InPlaceOf, TakenOut
  <1>6. CASE t.left[z] = NULL
    <2>1. u = B!Transplant(t, z, t.right[z])
      BY <1>2, <1>6
    <2>2. \E Z : Laid(u.left, u.right, u.parent, u.root, Z) /\ Shrunk(Y, Z, z)
      <3>1. TakenOut(t.left, t.right, t.parent, t.root, u.left, u.right, u.parent, u.root,
                     Y, z, t.right[z])
        BY <2>1, <1>4, <1>5
      <3> QED BY <3>1, <1>1, <1>6, RemovedLeftless
    <2>3. Detached(t, u, Y, z)
      BY <2>1, <2>2, <1>4, <1>5 DEF Detached
    <2> QED BY <2>3 DEF u
  <1>7. CASE t.left[z] # NULL /\ t.right[z] = NULL
    <2>1. u = B!Transplant(t, z, t.left[z])
      BY <1>2, <1>7
    <2>2. \E Z : Laid(u.left, u.right, u.parent, u.root, Z) /\ Shrunk(Y, Z, z)
      <3>1. TakenOut(t.left, t.right, t.parent, t.root, u.left, u.right, u.parent, u.root,
                     Y, z, t.left[z])
        BY <2>1, <1>4, <1>5
      <3> QED BY <3>1, <1>1, <1>7, RemovedRightless
    <2>3. Detached(t, u, Y, z)
      BY <2>1, <2>2, <1>4, <1>5 DEF Detached
    <2> QED BY <2>3 DEF u
  <1>8. CASE t.left[z] # NULL /\ t.right[z] # NULL
    <2>1. t.right[z] \in N /\ Y.lo[t.right[z]] = Y.pos[z] + 1
      BY <1>1, <1>8 DEF RightOK
    <2>2. y \in N /\ t.left[y] = NULL /\ Y.pos[y] = Y.lo[t.right[z]]
      <3>1. Standing(t, t.parent, t.root, Y)
        BY <1>1 DEF Standing
      <3> QED BY <2>1, <3>1, MinFinds
    <2> HIDE DEF y
    <2>3. NextOf(t, Y, z, y)
      BY <2>1, <2>2, <1>8 DEF NextOf
    <2>4. u = [s EXCEPT !.left[y] = s.left[z], !.parent[s.left[z]] = y]
      BY <1>2, <1>8 DEF y
    <2>5. s = B!Transplant(B!RaiseSuccessor(t, z, y), z, y)
      BY DEF y
    <2> HIDE DEF s
    <2>6. Detached(t, [s EXCEPT !.left[y] = s.left[z], !.parent[s.left[z]] = y], Y, z)
      BY <2>3, <2>5, SuccessorDetached
    <2> QED BY <2>4, <2>6 DEF u
  <1> QED BY <1>6, <1>7, <1>8

\* A node is detached and freed; the other nodes keep their order.
LEMMA TreeDetached ==
    ASSUME NEW t, NEW Y, TreeLaid(t, Y), NEW z \in Nodes(Y)
    PROVE  LET s == B!Freed(B!Detach(t, z), z) IN
           /\ \A x \in B!TreeNode \ {z} : s.data[x] = t.data[x]
           /\ \E Z : TreeLaid(s, Z) /\ Nodes(Z) = Nodes(Y) \ {z}
  <1> DEFINE N == Nodes(Y)
             u == B!Detach(t, z)
             s == B!Freed(u, z)
  <1>1. /\ t \in TreeRecord /\ Grounded(t) /\ N \subseteq B!TreeNode /\ Sorted(t.data, Y)
        /\ DOMAIN t.left = B!TreeNode /\ DOMAIN t.right = B!TreeNode
    BY DEF TreeLaid, Ordered, TreeRecord
  <1>2. Detached(t, u, Y, z)
    BY DetachIs
  <1> HIDE DEF u
  <1>3. /\ u \in TreeRecord /\ u.data = t.data
        /\ \A x \in B!TreeNode \ N : u.left[x] = t.left[x] /\ u.right[x] = t.right[x]
    BY <1>2 DEF Detached
  <1>4. PICK Z : Laid(u.left, u.right, u.parent, u.root, Z) /\ Shrunk(Y, Z, z)
    BY <1>2 DEF Detached
  <1>5. /\ s \in TreeRecord /\ s.root = u.root /\ s.data = [u.data EXCEPT ![z] = 0]
        /\ s.left = [u.left EXCEPT ![z] = NULL] /\ s.right = [u.right EXCEPT ![z] = NULL]
        /\ s.parent = [u.parent EXCEPT ![z] = NULL]
    <2>1. B!NULL = NULL /\ NULL \in Int
      BY BinaryLoops DEF NULL
    <2>2. s = [u EXCEPT !.data[z] = 0, !.left[z] = NULL, !.right[z] = NULL, !.parent[z] = NULL]
      BY <2>1 DEF B!Freed
    <2> HIDE DEF s
    <2>3. z \in B!TreeNode /\ NULL \in Int /\ u \in TreeRecord
      BY <1>1, <1>3 DEF NULL
    <2>4. /\ s.root = u.root /\ s.data = [u.data EXCEPT ![z] = 0]
          /\ s.left = [u.left EXCEPT ![z] = NULL] /\ s.right = [u.right EXCEPT ![z] = NULL]
          /\ s.parent = [u.parent EXCEPT ![z] = NULL]
      BY <2>2, <2>3 DEF TreeRecord
    <2>5. s \in TreeRecord
      <3> DEFINE data == [u.data EXCEPT ![z] = 0]
                 side(f) == [f EXCEPT ![z] = NULL]
      <3>1. s = [root |-> u.root, data |-> data, left |-> side(u.left), right |-> side(u.right),
                 parent |-> side(u.parent)]
        BY <2>2, <2>3 DEF TreeRecord
      <3>2. /\ data \in [B!TreeNode -> Int] /\ side(u.left) \in [B!TreeNode -> Int]
            /\ side(u.right) \in [B!TreeNode -> Int] /\ side(u.parent) \in [B!TreeNode -> Int]
            /\ u.root \in Int
        BY <2>3 DEF TreeRecord
      <3> HIDE DEF data, side
      <3> QED BY <3>1, <3>2 DEF TreeRecord
    <2> QED BY <2>4, <2>5
  <1> HIDE DEF s
  <1>6. /\ DOMAIN s.left = B!TreeNode /\ DOMAIN s.right = B!TreeNode
        /\ \A x \in B!TreeNode \ {z} : /\ s.data[x] = t.data[x] /\ s.left[x] = u.left[x]
                                       /\ s.right[x] = u.right[x] /\ s.parent[x] = u.parent[x]
        /\ s.left[z] = NULL /\ s.right[z] = NULL
    BY <1>1, <1>3, <1>5 DEF TreeRecord
  <1>7. Nodes(Z) = N \ {z} /\ SameOrder(Nodes(Z), Y, Z)
    BY <1>4 DEF Shrunk
  <1>8. Laid(s.left, s.right, s.parent, s.root, Z)
    <2>1. \A x \in Nodes(Z) : /\ s.left[x] = u.left[x] /\ s.right[x] = u.right[x]
                              /\ s.parent[x] = u.parent[x]
      BY <1>1, <1>6, <1>7
    <2>2. Laid(s.left, s.right, s.parent, u.root, Z)
      BY <2>1, <1>4, LaidAlike
    <2> QED BY <2>2, <1>5
  <1>9. Sorted(s.data, Z)
    <2>1. \A x \in Nodes(Z) : x \in N /\ s.data[x] = t.data[x]
      BY <1>1, <1>6, <1>7
    <2> QED BY <2>1, <1>1, <1>7 DEF Sorted, SameOrder
  <1>10. Grounded(s)
    <2>1. \A x \in DOMAIN s.left \ Nodes(Z) :
              \/ s.left[x] = t.left[x] /\ s.right[x] = t.right[x]
              \/ s.left[x] = NULL /\ s.right[x] = NULL
      BY <1>3, <1>6, <1>7
    <2>2. Nodes(Z) \subseteq DOMAIN s.left
      BY <1>1, <1>6, <1>7
    <2> QED BY <2>1, <2>2, <1>1, <1>6, <1>8, StillGrounded
  <1>11. TreeLaid(s, Z)
    BY <1>1, <1>5, <1>6, <1>7, <1>8, <1>9, <1>10 DEF TreeLaid, Ordered
  <1> QED BY <1>6, <1>7, <1>11 DEF s, u

-----------------------------------------------------------------------------
(* The binary tree keeps its contents.                                      *)

\* What the walk over tree lists, while no data was inserted a second time.
Holds(Y) ==
    again = 0 => /\ inserted = {tree.data[x] : x \in Nodes(Y)}
                 /\ \A x, z \in Nodes(Y) : tree.data[x] = tree.data[z] => x = z

TreeInv ==
    /\ again \in Nat /\ allocated \subseteq B!TreeNode
    /\ \E Y : TreeLaid(tree, Y) /\ Nodes(Y) \subseteq allocated /\ Holds(Y)

LEMMA TreeInvInit == B!Init => TreeInv
  <1> SUFFICES ASSUME B!Init PROVE TreeInv
    OBVIOUS
  <1> DEFINE none == [x \in {} |-> 0]
             Y == [n |-> 0, pos |-> none, lo |-> none, hi |-> none]
             blank == [x \in B!TreeNode |-> NULL]
  <1>1. /\ tree = [root |-> NULL, data |-> blank, left |-> blank, right |-> blank, parent |-> blank]
        /\ allocated = {} /\ inserted = {} /\ again = 0
    BY BinaryLoops DEF B!Init
  <1>2. Nodes(Y) = {} /\ Y.n = 0
    BY DEF Nodes
  <1> HIDE DEF Y
  <1>3. tree \in TreeRecord
    BY <1>1 DEF TreeRecord, NULL
  <1>4. Laid(tree.left, tree.right, tree.parent, tree.root, Y)
    BY <1>1, <1>2 DEF Laid, PlacesOK, LeftOK, RightOK, ParentsOK, RootOK
  <1>5. Grounded(tree)
    <2> DEFINE size == [x \in Place(tree) |-> IF x = NULL THEN 0 ELSE 1]
    <2>1. /\ DOMAIN tree.left = B!TreeNode /\ DOMAIN tree.right = B!TreeNode
          /\ NULL \notin B!TreeNode
          /\ \A x \in B!TreeNode : tree.left[x] = NULL /\ tree.right[x] = NULL
      BY <1>1 DEF B!TreeNode, NULL
    <2>2. size \in [Place(tree) -> 0..1] /\ NULL \in Place(tree) /\ size[NULL] = 0
      BY DEF Place
    <2>3. \A x \in B!TreeNode : size[x] = 1
      BY <2>1 DEF Place
    <2> HIDE DEF size
    <2> QED BY <2>1, <2>2, <2>3 DEF Grounded
  <1>6. Sorted(tree.data, Y) /\ Holds(Y)
    BY <1>1, <1>2 DEF Sorted, Holds
  <1> QED BY <1>1, <1>2, <1>3, <1>4, <1>5, <1>6 DEF TreeInv, TreeLaid, Ordered

\* Search finds a node with d exactly if there is one.
LEMMA TreeSearched ==
    ASSUME NEW t, NEW Y, TreeLaid(t, Y), NEW d \in Int
    PROVE  LET r == B!Search(t, d) IN
           \/ r \in Nodes(Y) /\ t.data[r] = d
           \/ r = NULL /\ \A v \in Nodes(Y) : t.data[v] # d
  <1> DEFINE r == SearchFrom(t, t.data, t.root, d)
  <1>1. /\ Grounded(t) /\ Ordered(t, t.data, t.parent, t.root, Y) /\ PlacesOK(Y)
        /\ Laid(t.left, t.right, t.parent, t.root, Y)
    BY DEF TreeLaid, Ordered, Laid
  <1>2. B!Search(t, d) = r
    BY BinaryLoops DEF B!Search
  <1>3. CASE t.root = NULL
    <2>1. Nodes(Y) = {}
      BY <1>1, <1>3, RootIsNode
    <2>2. r = NULL
      BY <1>1, <1>3, SearchEquation DEF Place
    <2> QED BY <2>1, <2>2, <1>2
  <1>4. CASE t.root # NULL
    <2>1. t.root \in Nodes(Y) /\ Y.lo[t.root] = 1 /\ Y.hi[t.root] = Y.n
      BY <1>1, <1>4, RootIsNode
    <2>2. \/ r \in Nodes(Y) /\ t.data[r] = d
          \/ /\ r = NULL
             /\ \A v \in Nodes(Y) : 1 <= Y.pos[v] /\ Y.pos[v] <= Y.n => t.data[v] # d
      BY <2>1, <1>1, SearchFinds
    <2>3. \A v \in Nodes(Y) : 1 <= Y.pos[v] /\ Y.pos[v] <= Y.n
      BY <1>1 DEF PlacesOK
    <2> QED BY <2>2, <2>3, <1>2
  <1> QED BY <1>3, <1>4

LEMMA TreeInvInsert ==
    ASSUME TreeInv, NEW d \in TreeData, B!Insert(d)
    PROVE  TreeInv'
  <1>1. d \in Int
    BY TreeAssumption
  <1>2. PICK Y : TreeLaid(tree, Y) /\ Nodes(Y) \subseteq allocated /\ Holds(Y)
    BY DEF TreeInv
  <1>3. PICK z \in B!TreeNode \ allocated :
            tree' = B!Attach(tree, z, d) /\ allocated' = allocated \cup {z}
    BY DEF B!Insert
  <1>4. /\ again' = IF B!Search(tree, d) # NULL THEN again + 1 ELSE again
        /\ inserted' = IF again' = 0 THEN inserted \cup {d} ELSE {}
    BY BinaryLoops DEF B!Insert
  <1>5. again \in Nat /\ allocated \subseteq B!TreeNode
    BY DEF TreeInv
  <1>6. z \in B!TreeNode /\ z \notin Nodes(Y)
    BY <1>2, <1>3
  <1>7. /\ \A x \in Nodes(Y) : tree'.data[x] = tree.data[x]
        /\ tree'.data[z] = d
        /\ \E Z : /\ TreeLaid(tree', Z)
                  /\ z \in Nodes(Z) /\ Nodes(Z) \subseteq Nodes(Y) \cup {z}
                  /\ (\A x \in Nodes(Y) : tree.data[x] # d) => Nodes(Z) = Nodes(Y) \cup {z}
    BY <1>1, <1>2, <1>3, <1>6, TreeAttached
  <1>8. PICK Z : /\ TreeLaid(tree', Z)
                 /\ z \in Nodes(Z) /\ Nodes(Z) \subseteq Nodes(Y) \cup {z}
                 /\ (\A x \in Nodes(Y) : tree.data[x] # d) => Nodes(Z) = Nodes(Y) \cup {z}
    BY <1>7
  <1>9. ASSUME again' = 0
        PROVE  /\ inserted' = {tree'.data[x] : x \in Nodes(Z)}
               /\ \A x, v \in Nodes(Z) : tree'.data[x] = tree'.data[v] => x = v
    <2>1. again = 0 /\ B!Search(tree, d) = NULL /\ inserted' = inserted \cup {d}
      BY <1>4, <1>5, <1>9
    <2>2. \A x \in Nodes(Y) : tree.data[x] # d
      <3>1. NULL \notin Nodes(Y)
        BY <1>2 DEF TreeLaid, Ordered, Laid, PlacesOK
      <3> QED BY <2>1, <3>1, <1>1, <1>2, TreeSearched
    <2>3. Nodes(Z) = Nodes(Y) \cup {z}
      BY <2>2, <1>8
    <2>4. /\ inserted = {tree.data[x] : x \in Nodes(Y)}
          /\ \A x, v \in Nodes(Y) : tree.data[x] = tree.data[v] => x = v
      BY <2>1, <1>2 DEF Holds
    <2> QED BY <2>1, <2>2, <2>3, <2>4, <1>7
  <1>10. again' \in Nat /\ allocated' \subseteq B!TreeNode
    BY <1>3, <1>4, <1>5
  <1>11. Nodes(Z) \subseteq allocated'
    BY <1>2, <1>3, <1>8
  <1> QED BY <1>8, <1>9, <1>10, <1>11 DEF TreeInv, Holds

LEMMA TreeInvDelete ==
    ASSUME TreeInv, NEW d \in TreeData, B!Delete(d)
    PROVE  TreeInv'
  <1> DEFINE z == B!Search(tree, d)
  <1>1. d \in Int
    BY TreeAssumption
  <1>2. PICK Y : TreeLaid(tree, Y) /\ Nodes(Y) \subseteq allocated /\ Holds(Y)
    BY DEF TreeInv
  <1>3. /\ IF z = NULL THEN tree' = tree /\ allocated' = allocated
           ELSE tree' = B!Freed(B!Detach(tree, z), z) /\ allocated' = allocated \ {z}
        /\ inserted' = inserted \ {d} /\ again' = again
    BY BinaryLoops DEF B!Delete
  <1>4. \/ z \in Nodes(Y) /\ tree.data[z] = d
        \/ z = NULL /\ \A v \in Nodes(Y) : tree.data[v] # d
    BY <1>1, <1>2, TreeSearched
  <1>5. again \in Nat /\ allocated \subseteq B!TreeNode
    BY DEF TreeInv
  <1>6. NULL \notin Nodes(Y)
    BY <1>2 DEF TreeLaid, Ordered, Laid, PlacesOK
  <1> HIDE DEF z
  <1>7. CASE z = NULL
    <2>1. TreeLaid(tree', Y) /\ Nodes(Y) \subseteq allocated'
      BY <1>2, <1>3, <1>7
    <2>2. \A v \in Nodes(Y) : tree.data[v] # d
      BY <1>4, <1>6, <1>7
    <2>3. Holds(Y)'
      BY <2>2, <1>2, <1>3, <1>7 DEF Holds
    <2> QED BY <2>1, <2>3, <1>3, <1>5, <1>7 DEF TreeInv
  <1>8. CASE z # NULL
    <2>1. z \in Nodes(Y) /\ tree.data[z] = d
      BY <1>4, <1>8
    <2>2. tree' = B!Freed(B!Detach(tree, z), z) /\ allocated' = allocated \ {z}
      BY <1>3, <1>8
    <2>3. /\ \A x \in B!TreeNode \ {z} : tree'.data[x] = tree.data[x]
          /\ \E Z : TreeLaid(tree', Z) /\ Nodes(Z) = Nodes(Y) \ {z}
      BY <2>1, <2>2, <1>2, TreeDetached
    <2>4. PICK Z : TreeLaid(tree', Z) /\ Nodes(Z) = Nodes(Y) \ {z}
      BY <2>3
    <2>5. ASSUME again' = 0
          PROVE  /\ inserted' = {tree'.data[x] : x \in Nodes(Z)}
                 /\ \A x, v \in Nodes(Z) : tree'.data[x] = tree'.data[v] => x = v
      <3>1. /\ inserted = {tree.data[x] : x \in Nodes(Y)}
            /\ \A x, v \in Nodes(Y) : tree.data[x] = tree.data[v] => x = v
        BY <2>5, <1>2, <1>3 DEF Holds
      <3>2. \A x \in Nodes(Z) : tree'.data[x] = tree.data[x]
        BY <2>3, <2>4, <1>2, <1>5
      <3> QED BY <2>1, <2>4, <3>1, <3>2, <1>3
    <2>6. Nodes(Z) \subseteq allocated' /\ again' \in Nat /\ allocated' \subseteq B!TreeNode
      BY <2>2, <2>4, <1>2, <1>3, <1>5
    <2> QED BY <2>4, <2>5, <2>6 DEF TreeInv, Holds
  <1> QED BY <1>7, <1>8

LEMMA TreeInvNext == TreeInv /\ [B!Next]_(B!treeVars) => TreeInv'
  <1> SUFFICES ASSUME TreeInv, [B!Next]_(B!treeVars) PROVE TreeInv'
    OBVIOUS
  <1>1. ASSUME NEW d \in TreeData, B!Insert(d) PROVE TreeInv'
    BY <1>1, TreeInvInsert
  <1>2. ASSUME NEW d \in TreeData, B!Delete(d) PROVE TreeInv'
    BY <1>2, TreeInvDelete
  <1>3. ASSUME UNCHANGED B!treeVars PROVE TreeInv'
    BY <1>3 DEF B!treeVars, TreeInv, Holds
  <1> QED BY <1>1, <1>2, <1>3 DEF B!Next

LEMMA TreeInvContents == TreeInv => TreeWalkIsContents
  <1> SUFFICES ASSUME TreeInv PROVE TreeWalkIsContents
    OBVIOUS
  <1> DEFINE w == B!WalkFrom(tree, tree.root)
             D == {tree.data[w[i]] : i \in DOMAIN w}
  <1>1. PICK Y : TreeLaid(tree, Y) /\ Nodes(Y) \subseteq allocated /\ Holds(Y)
    BY DEF TreeInv
  <1> DEFINE N == Nodes(Y)
  <1>2. /\ Standing(tree, tree.parent, tree.root, Y) /\ Sorted(tree.data, Y) /\ PlacesOK(Y)
        /\ Laid(tree.left, tree.right, tree.parent, tree.root, Y) /\ Grounded(tree)
    BY <1>1 DEF TreeLaid, Ordered, Laid, Standing
  <1>3. Whole(w, Y)
    <2>1. w = WalkFrom(tree, tree.root)
      BY BinaryLoops
    <2> QED BY <2>1, <1>2, WholeWalk
  <1> HIDE DEF w
  <1>4. /\ Y.n \in Nat /\ DOMAIN w = 1..Y.n
        /\ \A i \in 1..Y.n : w[i] \in N /\ Y.pos[w[i]] = i
    BY <1>2, <1>3 DEF Whole, PlacesOK
  <1>5. \A x \in N : \E i \in 1..Y.n : w[i] = x
    BY <1>3 DEF Whole
  <1>6. D = {tree.data[x] : x \in N}
    BY <1>4, <1>5
  <1>7. \A i, j \in DOMAIN w :
            i < j => w[i] # w[j] /\ tree.data[w[i]] <= tree.data[w[j]]
    <2>1. ASSUME NEW i \in 1..Y.n, NEW j \in 1..Y.n, i < j
          PROVE  w[i] # w[j] /\ tree.data[w[i]] <= tree.data[w[j]]
      <3>1. w[i] \in N /\ w[j] \in N /\ Y.pos[w[i]] = i /\ Y.pos[w[j]] = j
        BY <1>4
      <3>2. tree.data[w[i]] <= tree.data[w[j]]
        BY <2>1, <3>1, <1>2 DEF Sorted
      <3>3. w[i] # w[j]
        BY <2>1, <3>1, <1>4
      <3> QED BY <3>2, <3>3
    <2> QED BY <2>1, <1>4
  <1>8. \A d \in TreeData : B!Search(tree, d) # NULL <=> d \in D
    <2>1. ASSUME NEW d \in TreeData PROVE B!Search(tree, d) # NULL <=> d \in D
      <3>1. d \in Int /\ NULL \notin N
        BY <1>2, TreeAssumption DEF PlacesOK
      <3>2. LET r == B!Search(tree, d) IN
            \/ r \in N /\ tree.data[r] = d
            \/ r = NULL /\ \A v \in N : tree.data[v] # d
        BY <3>1, <1>1, TreeSearched
      <3> HIDE DEF N, D
      <3> QED BY <3>1, <3>2, <1>6
    <2> QED BY <2>1
  <1>9. \A i \in DOMAIN w : \A x \in {tree.left[w[i]], tree.right[w[i]]} \ {NULL} :
            tree.parent[x] = w[i]
    <2>1. \A n \in N : /\ tree.left[n] # NULL => tree.parent[tree.left[n]] = n
                       /\ tree.right[n] # NULL => tree.parent[tree.right[n]] = n
      BY <1>2, Family
    <2> QED BY <2>1, <1>4
  <1>10. \A i \in DOMAIN w : w[i] \in allocated
    BY <1>1, <1>4
  <1>11. again = 0 => D = inserted
    BY <1>1, <1>6 DEF Holds
  <1> HIDE DEF D
  <1>12. B!NULL = NULL
    BY BinaryLoops
  <1> QED BY <1>7, <1>8, <1>9, <1>10, <1>11, <1>12 DEF TreeWalkIsContents, B!WalkIsContents, w, D

\* Whatever is inserted and deleted, data inserted twice included, the walk over the
\* binary tree is sorted and lists no node twice or freed, search finds just the data
\* on it, children know their parents, and nothing is lost before data is inserted a
\* second time (binary_tree.h).
THEOREM TreeKeepsItsContents == B!Spec => []TreeWalkIsContents
  <1> QED BY TreeInvInit, TreeInvNext, TreeInvContents, PTL DEF B!Spec

-----------------------------------------------------------------------------
(* The colours of a red-black tree.                                         *)

\* The nodes a rotation about x and its right child moves.
LEMMA Pivot ==
    ASSUME NEW left, NEW right, NEW parent, NEW root, NEW Y, Laid(left, right, parent, root, Y),
           NEW x \in Nodes(Y), right[x] # NULL
    PROVE  LET y == right[x]
               c == left[y]
           IN  /\ y \in Nodes(Y) /\ y # x /\ parent[y] = x /\ c \in Nodes(Y) \cup {NULL}
               /\ c # y /\ c # x /\ (c # NULL => parent[c] = y)
               /\ parent[x] \in Nodes(Y) \cup {NULL} /\ parent[x] # y
  <1> DEFINE N == Nodes(Y)
             y == right[x]
             c == left[y]
  <1>1. /\ NULL \notin N
        /\ \A v \in N :
                /\ left[v] # NULL => /\ left[v] \in N /\ parent[left[v]] = v /\ left[v] # v
                /\ right[v] # NULL => right[v] \in N /\ parent[right[v]] = v /\ right[v] # v
                /\ IF v = root THEN parent[v] = NULL
                   ELSE parent[v] \in N /\ (left[parent[v]] = v \/ right[parent[v]] = v)
    BY Family
  <1>2. y \in N /\ y # x /\ parent[y] = x /\ c \in N \cup {NULL} /\ c # y
        /\ (c # NULL => parent[c] = y) /\ parent[x] \in N \cup {NULL}
    BY <1>1
  <1>3. PlacesOK(Y) /\ LeftOK(left, Y) /\ RightOK(right, Y)
    BY DEF Laid
  <1>4. /\ Y.lo[y] = Y.pos[x] + 1 /\ (c # NULL => Y.lo[c] = Y.lo[y])
        /\ Y.lo[x] \in Int /\ Y.pos[x] \in Int /\ Y.pos[y] \in Int
        /\ Y.lo[x] <= Y.pos[x] /\ Y.lo[y] <= Y.pos[y]
    BY <1>1, <1>2, <1>3 DEF LeftOK, RightOK, PlacesOK
  <1>5. c # x
    BY <1>1, <1>4
  <1>6. parent[x] # y
    <2>1. SUFFICES ASSUME parent[x] = y PROVE FALSE
      OBVIOUS
    <2>2. right[y] = x
      BY <2>1, <1>1, <1>2, <1>5
    <2>3. Y.lo[x] = Y.pos[y] + 1
      BY <2>2, <1>1, <1>2, <1>3 DEF RightOK
    <2> QED BY <2>3, <1>4
  <1> QED BY <1>2, <1>5, <1>6

Weight(colour) == IF colour = "BLACK" THEN 1 ELSE 0

\* Of the nodes N, each has b[v] black nodes on every way down from it, and a red one
\* other than z is under a black one.
Colored(left, right, parent, root, color, b, N, z) ==
    /\ color[NULL] = "BLACK" /\ b[NULL] = 0
    /\ \A v \in N : /\ color[v] \in {"RED", "BLACK"} /\ b[v] \in Nat
                    /\ b[left[v]] = b[right[v]] /\ b[v] = b[left[v]] + Weight(color[v])
    /\ \A v \in N \ {z} : color[v] = "RED" => v # root /\ color[parent[v]] = "BLACK"

\* The grandparent g of z, whose parent p is red.
Clash(left, right, parent, root, color, b, Y, z, p, g) ==
    /\ Laid(left, right, parent, root, Y)
    /\ Colored(left, right, parent, root, color, b, Nodes(Y), z)
    /\ z \in Nodes(Y) /\ color[z] = "RED" /\ p = parent[z] /\ g = parent[p] /\ color[p] = "RED"

LEMMA ClashIs ==
    ASSUME NEW left, NEW right, NEW parent, NEW root, NEW color, NEW b, NEW Y, NEW z, NEW p, NEW g,
           Clash(left, right, parent, root, color, b, Y, z, p, g)
    PROVE  /\ z \in Nodes(Y) /\ p \in Nodes(Y) /\ g \in Nodes(Y) /\ z # p /\ p # g /\ z # g
           /\ z # root /\ p # root /\ color[g] = "BLACK"
           /\ left[p] = z \/ right[p] = z
           /\ left[g] = p \/ right[g] = p
  <1> DEFINE N == Nodes(Y)
  <1>1. /\ Laid(left, right, parent, root, Y) /\ color[NULL] = "BLACK"
        /\ \A v \in N \ {z} : color[v] = "RED" => v # root /\ color[parent[v]] = "BLACK"
        /\ z \in N /\ color[z] = "RED" /\ p = parent[z] /\ g = parent[p] /\ color[p] = "RED"
    BY DEF Clash, Colored
  <1>2. \A x \in N : /\ left[x] # NULL => left[x] # x
                     /\ right[x] # NULL => right[x] # x
                     /\ IF x = root THEN parent[x] = NULL
                        ELSE parent[x] \in N /\ (left[parent[x]] = x \/ right[parent[x]] = x)
    BY <1>1, Family
  <1>3. NULL \notin N
    BY <1>1, Family
  <1>4. z # root /\ p \in N /\ (left[p] = z \/ right[p] = z) /\ p # z
    BY <1>1, <1>2, <1>3
  <1>5. p # root /\ color[g] = "BLACK"
    BY <1>1, <1>4
  <1>6. g \in N /\ (left[g] = p \/ right[g] = p)
    BY <1>1, <1>2, <1>4, <1>5
  <1>7. p # g /\ z # g
    BY <1>1, <1>5
  <1> QED BY <1>1, <1>4, <1>5, <1>6, <1>7

\* A red parent and a red uncle turn black, and the grandparent red.
LEMMA RecoloredOK ==
    ASSUME NEW left, NEW right, NEW parent, NEW root, NEW color, NEW b, NEW Y, NEW z, NEW p, NEW g,
           Clash(left, right, parent, root, color, b, Y, z, p, g),
           NEW y, color[y] = "RED", (left[g] = p /\ right[g] = y) \/ (right[g] = p /\ left[g] = y),
           NEW color2, \A v \in Nodes(Y) \cup {NULL} :
                           color2[v] = IF v \in {p, y} THEN "BLACK" ELSE IF v = g THEN "RED"
                                       ELSE color[v]
    PROVE  /\ \E b2 : Colored(left, right, parent, root, color2, b2, Nodes(Y), g)
           /\ color2[g] = "RED"
  <1> DEFINE N == Nodes(Y)
             b2 == [v \in N \cup {NULL} |-> IF v \in {p, y} THEN b[v] + 1 ELSE b[v]]
  <1>1. /\ z \in N /\ p \in N /\ g \in N /\ p # g /\ z # root /\ color[g] = "BLACK" /\ z # g
    BY ClashIs
  <1>2. /\ Laid(left, right, parent, root, Y) /\ color[NULL] = "BLACK" /\ b[NULL] = 0
        /\ \A v \in N : /\ color[v] \in {"RED", "BLACK"} /\ b[v] \in Nat
                        /\ b[left[v]] = b[right[v]] /\ b[v] = b[left[v]] + Weight(color[v])
        /\ \A v \in N \ {z} : color[v] = "RED" => v # root /\ color[parent[v]] = "BLACK"
        /\ color[z] = "RED" /\ p = parent[z] /\ g = parent[p] /\ color[p] = "RED"
    BY DEF Clash, Colored
  <1>3. /\ NULL \notin N
        /\ \A x \in N : /\ left[x] # NULL => left[x] \in N /\ parent[left[x]] = x /\ left[x] # right[x]
                        /\ right[x] # NULL => right[x] \in N /\ parent[right[x]] = x
                        /\ IF x = root THEN parent[x] = NULL
                           ELSE parent[x] \in N /\ (left[parent[x]] = x \/ right[parent[x]] = x)
    BY <1>2, Family
  <1>4. y \in N /\ y # p /\ y # g /\ parent[y] = g /\ parent[p] = g
    BY <1>1, <1>2, <1>3
  <1>5. /\ b2[NULL] = 0 /\ \A v \in N : b2[v] = IF v \in {p, y} THEN b[v] + 1 ELSE b[v]
    BY <1>1, <1>2, <1>3, <1>4
  <1> HIDE DEF b2
  <1>6. color2[NULL] = "BLACK" /\ color2[g] = "RED"
    BY <1>1, <1>2, <1>3, <1>4
  <1>7. ASSUME NEW v \in N
        PROVE  /\ color2[v] \in {"RED", "BLACK"} /\ b2[v] \in Nat
               /\ b2[left[v]] = b2[right[v]] /\ b2[v] = b2[left[v]] + Weight(color2[v])
    <2>1. color2[v] \in {"RED", "BLACK"} /\ b2[v] \in Nat
      BY <1>2, <1>5
    <2>2. CASE v = g
      <3>1. /\ b2[left[g]] = b[left[g]] + 1 /\ b2[right[g]] = b[right[g]] + 1 /\ b2[g] = b[g]
            /\ left[g] \in N
        BY <1>1, <1>4, <1>5
      <3>2. b[left[g]] \in Nat /\ b[g] = b[left[g]] + 1 /\ b[left[g]] = b[right[g]]
        BY <3>1, <1>1, <1>2 DEF Weight
      <3> QED BY <2>1, <2>2, <3>1, <3>2, <1>6 DEF Weight
    <2>3. CASE v # g
      <3>1. /\ left[v] # p /\ left[v] # y /\ right[v] # p /\ right[v] # y
            /\ left[v] \in N \cup {NULL} /\ right[v] \in N \cup {NULL}
        BY <2>3, <1>1, <1>3, <1>4
      <3>2. b2[left[v]] = b[left[v]] /\ b2[right[v]] = b[right[v]]
        BY <3>1, <1>2, <1>5
      <3>3. CASE v \in {p, y}
        <4>1. color[v] = "RED" /\ color2[v] = "BLACK" /\ b2[v] = b[v] + 1
          BY <3>3, <1>2, <1>5
        <4>2. b[v] = b[left[v]] + 0 /\ b[v] \in Nat /\ b[left[v]] = b[right[v]]
          BY <4>1, <1>2 DEF Weight
        <4>3. b[left[v]] \in Nat
          BY <3>1, <1>2
        <4> QED BY <2>1, <3>2, <4>1, <4>2, <4>3 DEF Weight
      <3>4. CASE v \notin {p, y}
        <4>1. color2[v] = color[v] /\ b2[v] = b[v]
          BY <2>3, <3>4, <1>5
        <4> QED BY <2>1, <3>2, <4>1, <1>2
      <3> QED BY <3>3, <3>4
    <2> QED BY <2>2, <2>3
  <1>8. ASSUME NEW v \in N \ {g}, color2[v] = "RED"
        PROVE  v # root /\ color2[parent[v]] = "BLACK"
    <2>1. v \notin {p, y} /\ color[v] = "RED"
      BY <1>8
    <2>2. CASE v = z
      BY <2>2, <1>1, <1>2
    <2>3. CASE v # z
      <3>1. v # root /\ color[parent[v]] = "BLACK" /\ parent[v] \in N
        BY <2>1, <2>3, <1>2, <1>3
      <3>2. parent[v] # g
        BY <2>1, <3>1, <1>3, <1>4
      <3> QED BY <3>1, <3>2
    <2> QED BY <2>2, <2>3
  <1> QED BY <1>5, <1>6, <1>7, <1>8 DEF Colored

\* z on the inner side of p, both red, changes places with it.
LEMMA InnerOK ==
    ASSUME NEW left, NEW right, NEW parent, NEW root, NEW color, NEW b, NEW Y, NEW z, NEW p, NEW g,
           Clash(left, right, parent, root, color, b, Y, z, p, g), right[p] = z,
           NEW left2, NEW right2, NEW parent2, NEW root2,
           Rotated(left, right, parent, root, left2, right2, parent2, root2, Y, p, z)
    PROVE  Colored(left2, right2, parent2, root2, color, b, Nodes(Y), p)
  <1> DEFINE N == Nodes(Y)
             c == left[z]
  <1>1. z \in N /\ p \in N /\ g \in N /\ z # p /\ z # root /\ p # root /\ color[g] = "BLACK"
    BY ClashIs
  <1>2. /\ Laid(left, right, parent, root, Y) /\ color[NULL] = "BLACK" /\ b[NULL] = 0
        /\ \A v \in N : /\ color[v] \in {"RED", "BLACK"} /\ b[v] \in Nat
                        /\ b[left[v]] = b[right[v]] /\ b[v] = b[left[v]] + Weight(color[v])
        /\ \A v \in N \ {z} : color[v] = "RED" => v # root /\ color[parent[v]] = "BLACK"
        /\ color[z] = "RED" /\ p = parent[z] /\ g = parent[p] /\ color[p] = "RED"
    BY DEF Clash, Colored
  <1>3. /\ NULL \notin N
        /\ \A x \in N : /\ left[x] # NULL => left[x] \in N /\ parent[left[x]] = x /\ left[x] # x
                        /\ right[x] # NULL => right[x] \in N /\ parent[right[x]] = x /\ right[x] # x
    BY <1>2, Family
  <1>4. /\ root2 = root
        /\ \A v \in N :
            /\ left2[v] = IF v = z THEN p ELSE IF left[v] = p THEN z ELSE left[v]
            /\ right2[v] = IF v = p THEN c ELSE IF right[v] = p THEN z ELSE right[v]
            /\ parent2[v] = IF v = p THEN z ELSE IF v = z THEN parent[p]
                            ELSE IF v = c THEN p ELSE parent[v]
    BY <1>1 DEF Rotated
  <1>5. \A v \in N : b[left[v]] \in Nat /\ b[right[v]] \in Nat
    BY <1>2, <1>3
  <1>6. b[z] = b[left[z]] /\ b[z] = b[right[z]] /\ b[p] = b[left[p]] /\ b[p] = b[right[p]]
    BY <1>1, <1>2, <1>5 DEF Weight
  <1>7. b[p] = b[z] /\ right[z] # p
    BY <1>1, <1>2, <1>3, <1>6
  <1>8. ASSUME NEW v \in N
        PROVE  b[left2[v]] = b[left[v]] /\ b[right2[v]] = b[right[v]]
    BY <1>1, <1>4, <1>6, <1>7
  <1>9. ASSUME NEW v \in N \ {p}, color[v] = "RED"
        PROVE  v # root2 /\ color[parent2[v]] = "BLACK"
    <2>1. CASE v = z
      BY <2>1, <1>1, <1>2, <1>4
    <2>2. CASE v # z
      <3>1. v # root /\ color[parent[v]] = "BLACK"
        BY <2>2, <1>2, <1>9
      <3>2. v # c
        BY <3>1, <1>1, <1>2, <1>3
      <3> QED BY <2>2, <3>1, <3>2, <1>4
    <2> QED BY <2>1, <2>2
  <1> QED BY <1>2, <1>8, <1>9 DEF Colored

\* p turns black and g red.
Flipped(color, color2, Y, p, g) ==
    \A v \in Nodes(Y) \cup {NULL} :
        color2[v] = IF v = p THEN "BLACK" ELSE IF v = g THEN "RED" ELSE color[v]

\* z on the outer side of p, both red, with a black uncle: p and g change places.
Swung(left, right, parent, root, color, b, left2, right2, parent2, root2, color2, Y, z, p, g) ==
    /\ Clash(left, right, parent, root, color, b, Y, z, p, g)
    /\ right[g] = p /\ right[p] = z /\ color[left[g]] = "BLACK"
    /\ Rotated(left, right, parent, root, left2, right2, parent2, root2, Y, g, p)
    /\ Flipped(color, color2, Y, p, g)

\* z on the outer side of p, both red, with a black uncle y: p and the grandparent
\* change their places and colours, and no red node is left under a red one.
LEMMA OuterOK ==
    ASSUME NEW left, NEW right, NEW parent, NEW root, NEW color, NEW b, NEW Y, NEW z, NEW p, NEW g,
           NEW left2, NEW right2, NEW parent2, NEW root2, NEW color2,
           Swung(left, right, parent, root, color, b,
                 left2, right2, parent2, root2, color2, Y, z, p, g)
    PROVE  /\ \E b2 : Colored(left2, right2, parent2, root2, color2, b2, Nodes(Y), z)
           /\ color2[z] = "RED" /\ color2[parent2[z]] = "BLACK"
  <1> DEFINE N == Nodes(Y)
             y == left[g]
             c == left[p]
             b2 == [v \in N \cup {NULL} |->
                        IF v = g THEN b[p] ELSE IF v = p THEN b[g] ELSE b[v]]
  <1>0. \A v \in N \cup {NULL} :
            color2[v] = IF v = p THEN "BLACK" ELSE IF v = g THEN "RED" ELSE color[v]
    BY DEF Flipped, Swung
  <1>1. /\ z \in N /\ p \in N /\ g \in N /\ z # p /\ p # g /\ z # g /\ z # root /\ p # root
        /\ color[g] = "BLACK"
    BY ClashIs DEF Swung
  <1>2. /\ Laid(left, right, parent, root, Y) /\ color[NULL] = "BLACK" /\ b[NULL] = 0
        /\ \A v \in N : /\ color[v] \in {"RED", "BLACK"} /\ b[v] \in Nat
                        /\ b[left[v]] = b[right[v]] /\ b[v] = b[left[v]] + Weight(color[v])
        /\ \A v \in N \ {z} : color[v] = "RED" => v # root /\ color[parent[v]] = "BLACK"
        /\ color[z] = "RED" /\ p = parent[z] /\ g = parent[p] /\ color[p] = "RED"
        /\ right[g] = p /\ right[p] = z /\ color[y] = "BLACK"
    BY DEF Clash, Colored, Swung
  <1>3. /\ NULL \notin N
        /\ \A x \in N : /\ left[x] # NULL => /\ left[x] \in N /\ parent[left[x]] = x
                                             /\ left[x] # right[x] /\ left[x] # x
                        /\ right[x] # NULL => /\ right[x] \in N /\ parent[right[x]] = x
                                              /\ right[x] # x
                        /\ IF x = root THEN parent[x] = NULL
                           ELSE parent[x] \in N /\ (left[parent[x]] = x \/ right[parent[x]] = x)
    BY <1>2, Family
  <1>4. /\ root2 = IF root = g THEN p ELSE root
        /\ \A v \in N :
            /\ left2[v] = IF v = p THEN g ELSE IF left[v] = g THEN p ELSE left[v]
            /\ right2[v] = IF v = g THEN c ELSE IF right[v] = g THEN p ELSE right[v]
            /\ parent2[v] = IF v = g THEN p ELSE IF v = p THEN parent[g]
                            ELSE IF v = c THEN g ELSE parent[v]
    BY <1>1 DEF Rotated, Swung
  <1>5. /\ \A v \in N : b[left[v]] \in Nat /\ b[right[v]] \in Nat
        /\ b[g] \in Nat /\ b[p] \in Nat
    BY <1>1, <1>2, <1>3
  <1>6. b[p] = b[c] /\ b[p] = b[z] /\ b[y] = b[p] /\ b[g] = b[p] + 1
    <2>1. b[p] = b[left[p]] /\ b[left[p]] = b[right[p]]
      BY <1>1, <1>2, <1>5 DEF Weight
    <2>2. b[g] = b[left[g]] + 1 /\ b[left[g]] = b[right[g]]
      BY <1>1, <1>2, <1>5 DEF Weight
    <2> QED BY <2>1, <2>2, <1>2
  <1>7. /\ b2[NULL] = 0
        /\ \A v \in N : b2[v] = IF v = g THEN b[p] ELSE IF v = p THEN b[g] ELSE b[v]
        /\ \A v \in N \cup {NULL} : v # g /\ v # p => b2[v] = b[v]
    BY <1>1, <1>2, <1>3
  <1> HIDE DEF b2
  <1>8. y # p /\ y # g /\ y \in N \cup {NULL} /\ c \in N \cup {NULL} /\ c # g /\ c # p /\ c # z
    <2>1. c # g
      BY <1>1, <1>2, <1>3, Pivot
    <2> QED BY <2>1, <1>1, <1>2, <1>3
  <1>9. ASSUME NEW v \in N
        PROVE  /\ color2[v] \in {"RED", "BLACK"} /\ b2[v] \in Nat
               /\ b2[left2[v]] = b2[right2[v]] /\ b2[v] = b2[left2[v]] + Weight(color2[v])
    <2>1. color2[v] \in {"RED", "BLACK"} /\ b2[v] \in Nat
      BY <1>0, <1>2, <1>5, <1>7
    <2>2. CASE v = g
      <3>1. left2[v] = y /\ right2[v] = c /\ color2[v] = "RED" /\ b2[v] = b[p]
        BY <2>2, <1>0, <1>1, <1>3, <1>4, <1>7
      <3>2. b2[y] = b[p] /\ b2[c] = b[p]
        BY <1>6, <1>7, <1>8
      <3> QED BY <2>1, <3>1, <3>2, <1>5 DEF Weight
    <2>3. CASE v = p
      <3>1. left2[v] = g /\ right2[v] = z /\ color2[v] = "BLACK" /\ b2[v] = b[g]
        BY <2>3, <1>0, <1>1, <1>2, <1>3, <1>4, <1>7
      <3>2. b2[g] = b[p] /\ b2[z] = b[p]
        BY <1>1, <1>6, <1>7
      <3> QED BY <2>1, <3>1, <3>2, <1>5, <1>6 DEF Weight
    <2>4. CASE v # g /\ v # p
      <3>1. b2[v] = b[v] /\ color2[v] = color[v]
        BY <2>4, <1>0, <1>7
      <3>2. b2[left2[v]] = b[left[v]]
        <4>1. CASE left[v] = g
          BY <4>1, <2>4, <1>1, <1>4, <1>7
        <4>2. CASE left[v] # g
          <5>1. left2[v] = left[v] /\ left[v] # p /\ left[v] \in N \cup {NULL}
            BY <4>2, <2>4, <1>2, <1>3, <1>4
          <5> QED BY <5>1, <4>2, <1>7
        <4> QED BY <4>1, <4>2
      <3>3. b2[right2[v]] = b[right[v]]
        <4>1. CASE right[v] = g
          BY <4>1, <2>4, <1>1, <1>4, <1>7
        <4>2. CASE right[v] # g
          <5>1. right2[v] = right[v] /\ right[v] # p /\ right[v] \in N \cup {NULL}
            BY <4>2, <2>4, <1>2, <1>3, <1>4
          <5> QED BY <5>1, <4>2, <1>7
        <4> QED BY <4>1, <4>2
      <3> QED BY <2>1, <3>1, <3>2, <3>3, <1>2
    <2> QED BY <2>2, <2>3, <2>4
  <1>10. ASSUME NEW v \in N \ {z}, color2[v] = "RED"
         PROVE  v # root2 /\ color2[parent2[v]] = "BLACK"
    <2>1. v # p
      BY <1>0, <1>10
    <2>2. CASE v = g
      BY <2>2, <1>0, <1>1, <1>4
    <2>3. CASE v # g
      <3>1. color[v] = "RED" /\ v # root /\ color[parent[v]] = "BLACK" /\ parent[v] \in N
        BY <2>1, <2>3, <1>0, <1>2, <1>3, <1>10
      <3>2. v # c
        BY <3>1, <1>1, <1>2, <1>3
      <3>3. parent2[v] = parent[v] /\ v # root2
        BY <2>1, <2>3, <3>1, <3>2, <1>4
      <3>4. parent[v] # g
        BY <2>1, <3>1, <1>2, <1>3
      <3> QED BY <3>1, <3>3, <3>4, <1>0
    <2> QED BY <2>2, <2>3
  <1>11. color2[NULL] = "BLACK" /\ color2[z] = "RED"
    BY <1>0, <1>1, <1>2, <1>3
  <1>12. parent2[z] = p /\ color2[p] = "BLACK"
    BY <1>0, <1>1, <1>2, <1>4, <1>8
  <1>13. Colored(left2, right2, parent2, root2, color2, b2, N, z)
    BY <1>7, <1>9, <1>10, <1>11 DEF Colored
  <1> QED BY <1>11, <1>12, <1>13

-----------------------------------------------------------------------------
(* The rotations of the red-black tree.                                     *)

RbRecord ==
    [size_ : Int, root_ : Int, key : [R!RbNode -> Int], p : [R!RbNode -> Int],
     left : [R!RbNode -> Int], right : [R!RbNode -> Int],
     color : [R!RbNode \cup {NULL} -> {"RED", "BLACK"}]]

LEMMA RbLoops ==
    ASSUME NEW t, NEW value, NEW x, NEW d
    PROVE  /\ R!SearchFrom(t, value, x, d) = SearchFrom(t, value, x, d)
           /\ R!LastFrom(t, value, x, d) = LastFrom(t, value, x, d)
           /\ R!WalkFrom(t, x) = WalkFrom(t, x)
           /\ R!NULL = NULL /\ R!nil_ = NULL
  <1>1. R!NULL = NULL /\ R!nil_ = NULL
    BY DEF R!NULL, R!nil_, NULL
  <1>2. R!SearchFrom(t, value, x, d) = SearchFrom(t, value, x, d)
    BY DEF R!SearchFrom, SearchFrom, R!Place, Place, R!NULL, NULL, R!Toward, Toward
  <1>3. R!LastFrom(t, value, x, d) = LastFrom(t, value, x, d)
    BY DEF R!LastFrom, LastFrom, R!NULL, NULL, R!Toward, Toward
  <1>4. R!WalkFrom(t, x) = WalkFrom(t, x)
    BY DEF R!WalkFrom, WalkFrom, R!Place, Place, R!NULL, NULL
  <1> QED BY <1>1, <1>2, <1>3, <1>4

\* s has the keys and colours of t.
Alike(t, s) ==
    s \in RbRecord /\ s.size_ = t.size_ /\ s.key = t.key /\ s.color = t.color

\* What Adopt does.
Adopted(t, s, c, x) ==
    /\ Alike(t, s) /\ s.root_ = t.root_ /\ s.left = t.left /\ s.right = t.right
    /\ s.p = IF c = NULL THEN t.p ELSE [t.p EXCEPT ![c] = x]

LEMMA AdoptIs ==
    ASSUME NEW t \in RbRecord, NEW x \in R!RbNode, NEW c \in R!RbNode \cup {NULL}
    PROVE  Adopted(t, R!Adopt(t, c, x), c, x)
  <1> DEFINE s == R!Adopt(t, c, x)
  <1>1. R!nil_ = NULL /\ R!RbNode \subseteq Int
    BY RbLoops DEF R!RbNode
  <1>2. s = IF c = NULL THEN t ELSE [t EXCEPT !.p[c] = x]
    BY <1>1 DEF R!Adopt
  <1> HIDE DEF s
  <1>3. CASE c = NULL
    BY <1>2, <1>3 DEF Adopted, Alike, s
  <1>4. CASE c # NULL
    <2>1. /\ s \in RbRecord /\ s.p = [t.p EXCEPT ![c] = x] /\ s.root_ = t.root_
          /\ s.left = t.left /\ s.right = t.right /\ s.key = t.key /\ s.size_ = t.size_
          /\ s.color = t.color
      BY <1>1, <1>2, <1>4 DEF RbRecord
    <2> QED BY <2>1, <1>4 DEF Adopted, Alike, s
  <1> QED BY <1>3, <1>4

\* What Above does.
Lifted(t, s, x, y) ==
    /\ Alike(t, s)
    /\ s.p = [t.p EXCEPT ![y] = t.p[x], ![x] = y]
    /\ s.root_ = IF t.p[x] = NULL THEN y ELSE t.root_
    /\ s.left = IF t.p[x] # NULL /\ t.left[t.p[x]] = x THEN [t.left EXCEPT ![t.p[x]] = y]
                ELSE t.left
    /\ s.right = IF t.p[x] # NULL /\ t.left[t.p[x]] # x THEN [t.right EXCEPT ![t.p[x]] = y]
                 ELSE t.right

LEMMA AboveIs ==
    ASSUME NEW t \in RbRecord, NEW x \in R!RbNode, NEW y \in R!RbNode,
           t.p[x] \in R!RbNode \cup {NULL}
    PROVE  Lifted(t, R!Above(t, x, y), x, y)
  <1> DEFINE up == t.p[x]
             s0 == [t EXCEPT !.p[y] = up, !.p[x] = y]
             s == R!Above(t, x, y)
  <1>1. R!nil_ = NULL /\ R!RbNode \subseteq Int /\ NULL \in Int /\ up \in Int
    BY RbLoops DEF R!RbNode, NULL
  <1>2. s = IF up = NULL THEN [s0 EXCEPT !.root_ = y]
            ELSE IF t.left[up] = x THEN [s0 EXCEPT !.left[up] = y]
            ELSE [s0 EXCEPT !.right[up] = y]
    BY <1>1 DEF R!Above
  <1>3. /\ s0 \in RbRecord /\ s0.p = [t.p EXCEPT ![y] = up, ![x] = y] /\ s0.root_ = t.root_
        /\ s0.left = t.left /\ s0.right = t.right /\ s0.key = t.key /\ s0.size_ = t.size_
        /\ s0.color = t.color
    BY <1>1 DEF RbRecord
  <1> HIDE DEF s, s0
  <1>4. CASE up = NULL
    <2>1. s = [s0 EXCEPT !.root_ = y]
      BY <1>2, <1>4
    <2>2. /\ s \in RbRecord /\ s.p = s0.p /\ s.root_ = y /\ s.left = s0.left /\ s.right = s0.right
          /\ s.key = s0.key /\ s.size_ = s0.size_ /\ s.color = s0.color
      BY <2>1, <1>1, <1>3 DEF RbRecord
    <2> QED BY <2>2, <1>3, <1>4 DEF Lifted, Alike, s
  <1>5. CASE up # NULL /\ t.left[up] = x
    <2>1. s = [s0 EXCEPT !.left[up] = y]
      BY <1>2, <1>5
    <2>2. /\ s \in RbRecord /\ s.p = s0.p /\ s.root_ = s0.root_
          /\ s.left = [s0.left EXCEPT ![up] = y] /\ s.right = s0.right
          /\ s.key = s0.key /\ s.size_ = s0.size_ /\ s.color = s0.color
      BY <2>1, <1>1, <1>3 DEF RbRecord
    <2> QED BY <2>2, <1>3, <1>5 DEF Lifted, Alike, s
  <1>6. CASE up # NULL /\ t.left[up] # x
    <2>1. s = [s0 EXCEPT !.right[up] = y]
      BY <1>2, <1>6
    <2>2. /\ s \in RbRecord /\ s.p = s0.p /\ s.root_ = s0.root_
          /\ s.left = s0.left /\ s.right = [s0.right EXCEPT ![up] = y]
          /\ s.key = s0.key /\ s.size_ = s0.size_ /\ s.color = s0.color
      BY <2>1, <1>1, <1>3 DEF RbRecord
    <2> QED BY <2>2, <1>3, <1>6 DEF Lifted, Alike, s
  <1> QED BY <1>4, <1>5, <1>6

RbLaid(t, Y) ==
    t \in RbRecord /\ Laid(t.left, t.right, t.p, t.root_, Y) /\ Nodes(Y) \subseteq R!RbNode

\* s has the keys and colours of t, and the children of nodes not in the tree.
Turned(t, s, Y) ==
    /\ Alike(t, s)
    /\ \A v \in R!RbNode \ Nodes(Y) : s.left[v] = t.left[v] /\ s.right[v] = t.right[v]

LEMMA LeftRorateIs ==
    ASSUME NEW t, NEW Y, RbLaid(t, Y), NEW x \in Nodes(Y), t.right[x] # NULL
    PROVE  LET s == R!LeftRorate(t, x) IN
           /\ Turned(t, s, Y)
           /\ Rotated(t.left, t.right, t.p, t.root_, s.left, s.right, s.p, s.root_, Y, x, t.right[x])
  <1> DEFINE N == Nodes(Y)
             y == t.right[x]
             c == t.left[y]
             up == t.p[x]
             u == R!Adopt(t, c, x)
             w == R!Above(u, x, y)
             s == R!LeftRorate(t, x)
  <1>1. /\ t \in RbRecord /\ N \subseteq R!RbNode /\ NULL \notin N
        /\ \A v \in N :
                /\ t.left[v] # NULL => /\ t.left[v] \in N /\ t.p[t.left[v]] = v
                                       /\ t.left[v] # v /\ t.left[v] # t.right[v]
                /\ t.right[v] # NULL => t.right[v] \in N /\ t.p[t.right[v]] = v /\ t.right[v] # v
                /\ IF v = t.root_ THEN t.p[v] = NULL
                   ELSE t.p[v] \in N /\ (t.left[t.p[v]] = v \/ t.right[t.p[v]] = v)
    BY Family DEF RbLaid
  <1>2. /\ y \in N /\ y # x /\ t.p[y] = x /\ c \in N \cup {NULL} /\ c # y /\ c # x
        /\ c # NULL => t.p[c] = y
        /\ up \in N \cup {NULL} /\ up # y
    BY <1>1, Pivot DEF RbLaid
  <1>3. Adopted(t, u, c, x)
    BY <1>1, <1>2, AdoptIs
  <1> HIDE DEF u
  <1>4. u \in RbRecord /\ u.p[x] = up
    BY <1>1, <1>2, <1>3 DEF Adopted, Alike, RbRecord
  <1>5. Lifted(u, w, x, y)
    BY <1>1, <1>2, <1>4, AboveIs
  <1> HIDE DEF w
  <1>6. s = [w EXCEPT !.right[x] = c, !.left[y] = x]
    BY DEF R!LeftRorate, w, u
  <1>7. w \in RbRecord
    BY <1>5 DEF Lifted, Alike
  <1> HIDE DEF s
  <1>8. /\ s \in RbRecord /\ s.size_ = w.size_ /\ s.key = w.key /\ s.color = w.color
        /\ s.root_ = w.root_ /\ s.p = w.p
        /\ s.left = [w.left EXCEPT ![y] = x] /\ s.right = [w.right EXCEPT ![x] = c]
    <2>1. x \in Int /\ c \in Int
      BY <1>1, <1>2 DEF R!RbNode, NULL
    <2> HIDE DEF c, y
    <2> QED BY <2>1, <1>6, <1>7 DEF RbRecord
  <1>9. Alike(t, s)
    BY <1>3, <1>5, <1>8 DEF Alike, Adopted, Lifted
  <1>10. /\ DOMAIN t.left = R!RbNode /\ DOMAIN t.right = R!RbNode /\ DOMAIN t.p = R!RbNode
    BY <1>1 DEF RbRecord
  <1>11. /\ u.left = t.left /\ u.right = t.right /\ u.root_ = t.root_
         /\ u.p = IF c = NULL THEN t.p ELSE [t.p EXCEPT ![c] = x]
    BY <1>3 DEF Adopted
  <1>12. \A v \in R!RbNode : s.left[v] = IF v = y THEN x
                             ELSE IF up # NULL /\ t.left[up] = x /\ v = up THEN y ELSE t.left[v]
    <2>1. w.left = IF up # NULL /\ t.left[up] = x THEN [t.left EXCEPT ![up] = y] ELSE t.left
      BY <1>4, <1>5, <1>11 DEF Lifted
    <2> HIDE DEF y, up
    <2> QED BY <2>1, <1>8, <1>10
  <1>13. \A v \in R!RbNode : s.right[v] = IF v = x THEN c
                             ELSE IF up # NULL /\ t.left[up] # x /\ v = up THEN y ELSE t.right[v]
    <2>1. w.right = IF up # NULL /\ t.left[up] # x THEN [t.right EXCEPT ![up] = y] ELSE t.right
      BY <1>4, <1>5, <1>11 DEF Lifted
    <2> HIDE DEF y, up, c
    <2> QED BY <2>1, <1>8, <1>10
  <1>14. \A v \in R!RbNode : s.p[v] = IF v = x THEN y ELSE IF v = y THEN up
                                      ELSE IF v = c THEN x ELSE t.p[v]
    <2>1. s.p = [u.p EXCEPT ![y] = up, ![x] = y] /\ DOMAIN u.p = R!RbNode
      BY <1>4, <1>5, <1>8 DEF Lifted, RbRecord
    <2>2. \A v \in R!RbNode : u.p[v] = IF v = c THEN x ELSE t.p[v]
      <3>1. NULL \notin R!RbNode
        BY DEF NULL, R!RbNode
      <3> HIDE DEF c
      <3> QED BY <3>1, <1>10, <1>11
    <2> HIDE DEF y, up, c
    <2> QED BY <2>1, <2>2, <1>2
  <1>15. s.root_ = IF up = NULL THEN y ELSE t.root_
    BY <1>4, <1>5, <1>8, <1>11 DEF Lifted
  <1> HIDE DEF y, c, up
  <1>16. (up = NULL) <=> (t.root_ = x)
    BY <1>1 DEF up
  <1>17. up # NULL => /\ up \in N /\ (t.left[up] = x \/ t.right[up] = x)
                      /\ ~ (t.left[up] = x /\ t.right[up] = x)
    BY <1>1, <1>2 DEF up
  <1>18. \A v \in N : (t.left[v] = x => v = up) /\ (t.right[v] = x => v = up)
    BY <1>1 DEF up
  <1>19. Rotated(t.left, t.right, t.p, t.root_, s.left, s.right, s.p, s.root_, Y, x, y)
    <2>1. ASSUME NEW v \in N
          PROVE  /\ s.left[v] = IF v = y THEN x ELSE IF t.left[v] = x THEN y ELSE t.left[v]
                 /\ s.right[v] = IF v = x THEN c ELSE IF t.right[v] = x THEN y ELSE t.right[v]
                 /\ s.p[v] = IF v = x THEN y ELSE IF v = y THEN up ELSE IF v = c THEN x ELSE t.p[v]
      <3>1. v \in R!RbNode /\ NULL \notin N
        BY <1>1
      <3>2. s.left[v] = IF v = y THEN x ELSE IF t.left[v] = x THEN y ELSE t.left[v]
        BY <3>1, <1>12, <1>17, <1>18
      <3>3. s.right[v] = IF v = x THEN c ELSE IF t.right[v] = x THEN y ELSE t.right[v]
        BY <3>1, <1>13, <1>17, <1>18
      <3> QED BY <3>1, <3>2, <3>3, <1>14
    <2> QED BY <2>1, <1>1, <1>2, <1>15, <1>16 DEF Rotated, y, c, up
  <1>20. \A v \in R!RbNode \ N : s.left[v] = t.left[v] /\ s.right[v] = t.right[v]
    BY <1>2, <1>12, <1>13, <1>17
  <1>21. Turned(t, s, Y)
    BY <1>9, <1>20 DEF Turned
  <1> QED BY <1>19, <1>21 DEF s, y

LEMMA RightRorateIs ==
    ASSUME NEW t, NEW Y, RbLaid(t, Y), NEW x \in Nodes(Y), t.left[x] # NULL
    PROVE  LET s == R!RightRorate(t, x) IN
           /\ Turned(t, s, Y)
           /\ Rotated(t.right, t.left, t.p, t.root_, s.right, s.left, s.p, s.root_, Y, x, t.left[x])
  <1> DEFINE N == Nodes(Y)
             y == t.left[x]
             c == t.right[y]
             up == t.p[x]
             u == R!Adopt(t, c, x)
             w == R!Above(u, x, y)
             s == R!RightRorate(t, x)
  <1>1. /\ t \in RbRecord /\ N \subseteq R!RbNode /\ NULL \notin N
        /\ \A v \in N :
                /\ t.right[v] # NULL => /\ t.right[v] \in N /\ t.p[t.right[v]] = v
                                       /\ t.right[v] # v /\ t.right[v] # t.left[v]
                /\ t.left[v] # NULL => t.left[v] \in N /\ t.p[t.left[v]] = v /\ t.left[v] # v
                /\ IF v = t.root_ THEN t.p[v] = NULL
                   ELSE t.p[v] \in N /\ (t.right[t.p[v]] = v \/ t.left[t.p[v]] = v)
    BY Family DEF RbLaid
  <1>2. /\ y \in N /\ y # x /\ t.p[y] = x /\ c \in N \cup {NULL} /\ c # y /\ c # x
        /\ c # NULL => t.p[c] = y
        /\ up \in N \cup {NULL} /\ up # y
    <2>1. Laid(t.right, t.left, t.p, t.root_, Mirrored(Y)) /\ Nodes(Mirrored(Y)) = N
      BY MirroredLaid, MirroredIs DEF RbLaid
    <2> QED BY <2>1, Pivot
  <1>3. Adopted(t, u, c, x)
    BY <1>1, <1>2, AdoptIs
  <1> HIDE DEF u
  <1>4. u \in RbRecord /\ u.p[x] = up
    BY <1>1, <1>2, <1>3 DEF Adopted, Alike, RbRecord
  <1>5. Lifted(u, w, x, y)
    BY <1>1, <1>2, <1>4, AboveIs
  <1> HIDE DEF w
  <1>6. s = [w EXCEPT !.left[x] = c, !.right[y] = x]
    BY DEF R!RightRorate, w, u
  <1>7. w \in RbRecord
    BY <1>5 DEF Lifted, Alike
  <1> HIDE DEF s
  <1>8. /\ s \in RbRecord /\ s.size_ = w.size_ /\ s.key = w.key /\ s.color = w.color
        /\ s.root_ = w.root_ /\ s.p = w.p
        /\ s.right = [w.right EXCEPT ![y] = x] /\ s.left = [w.left EXCEPT ![x] = c]
    <2>1. x \in Int /\ c \in Int
      BY <1>1, <1>2 DEF R!RbNode, NULL
    <2> HIDE DEF c, y
    <2> QED BY <2>1, <1>6, <1>7 DEF RbRecord
  <1>9. Alike(t, s)
    BY <1>3, <1>5, <1>8 DEF Alike, Adopted, Lifted
  <1>10. /\ DOMAIN t.right = R!RbNode /\ DOMAIN t.left = R!RbNode /\ DOMAIN t.p = R!RbNode
    BY <1>1 DEF RbRecord
  <1>11. /\ u.right = t.right /\ u.left = t.left /\ u.root_ = t.root_
         /\ u.p = IF c = NULL THEN t.p ELSE [t.p EXCEPT ![c] = x]
    BY <1>3 DEF Adopted
  <1>12. \A v \in R!RbNode : s.right[v] = IF v = y THEN x
                             ELSE IF up # NULL /\ t.left[up] # x /\ v = up THEN y ELSE t.right[v]
    <2>1. w.right = IF up # NULL /\ t.left[up] # x THEN [t.right EXCEPT ![up] = y] ELSE t.right
      BY <1>4, <1>5, <1>11 DEF Lifted
    <2> HIDE DEF y, up
    <2> QED BY <2>1, <1>8, <1>10
  <1>13. \A v \in R!RbNode : s.left[v] = IF v = x THEN c
                             ELSE IF up # NULL /\ t.left[up] = x /\ v = up THEN y ELSE t.left[v]
    <2>1. w.left = IF up # NULL /\ t.left[up] = x THEN [t.left EXCEPT ![up] = y] ELSE t.left
      BY <1>4, <1>5, <1>11 DEF Lifted
    <2> HIDE DEF y, up, c
    <2> QED BY <2>1, <1>8, <1>10
  <1>14. \A v \in R!RbNode : s.p[v] = IF v = x THEN y ELSE IF v = y THEN up
                                      ELSE IF v = c THEN x ELSE t.p[v]
    <2>1. s.p = [u.p EXCEPT ![y] = up, ![x] = y] /\ DOMAIN u.p = R!RbNode
      BY <1>4, <1>5, <1>8 DEF Lifted, RbRecord
    <2>2. \A v \in R!RbNode : u.p[v] = IF v = c THEN x ELSE t.p[v]
      <3>1. NULL \notin R!RbNode
        BY DEF NULL, R!RbNode
      <3> HIDE DEF c
      <3> QED BY <3>1, <1>10, <1>11
    <2> HIDE DEF y, up, c
    <2> QED BY <2>1, <2>2, <1>2
  <1>15. s.root_ = IF up = NULL THEN y ELSE t.root_
    BY <1>4, <1>5, <1>8, <1>11 DEF Lifted
  <1> HIDE DEF y, c, up
  <1>16. (up = NULL) <=> (t.root_ = x)
    BY <1>1 DEF up
  <1>17. up # NULL => /\ up \in N /\ (t.right[up] = x \/ t.left[up] = x)
                      /\ ~ (t.right[up] = x /\ t.left[up] = x)
    BY <1>1, <1>2 DEF up
  <1>18. \A v \in N : (t.right[v] = x => v = up) /\ (t.left[v] = x => v = up)
    BY <1>1 DEF up
  <1>19. Rotated(t.right, t.left, t.p, t.root_, s.right, s.left, s.p, s.root_, Y, x, y)
    <2>1. ASSUME NEW v \in N
          PROVE  /\ s.right[v] = IF v = y THEN x ELSE IF t.right[v] = x THEN y ELSE t.right[v]
                 /\ s.left[v] = IF v = x THEN c ELSE IF t.left[v] = x THEN y ELSE t.left[v]
                 /\ s.p[v] = IF v = x THEN y ELSE IF v = y THEN up ELSE IF v = c THEN x ELSE t.p[v]
      <3>1. v \in R!RbNode /\ NULL \notin N
        BY <1>1
      <3>2. s.right[v] = IF v = y THEN x ELSE IF t.right[v] = x THEN y ELSE t.right[v]
        BY <3>1, <1>12, <1>17, <1>18
      <3>3. s.left[v] = IF v = x THEN c ELSE IF t.left[v] = x THEN y ELSE t.left[v]
        BY <3>1, <1>13, <1>17, <1>18
      <3> QED BY <3>1, <3>2, <3>3, <1>14
    <2> QED BY <2>1, <1>1, <1>2, <1>15, <1>16 DEF Rotated, y, c, up
  <1>20. \A v \in R!RbNode \ N : s.right[v] = t.right[v] /\ s.left[v] = t.left[v]
    BY <1>2, <1>12, <1>13, <1>17
  <1>21. Turned(t, s, Y)
    BY <1>9, <1>20 DEF Turned
  <1> QED BY <1>19, <1>21 DEF s, y

\* What Recolor does.
Repainted(t, s, black, red) ==
    /\ s \in RbRecord /\ s.size_ = t.size_ /\ s.key = t.key /\ s.root_ = t.root_
    /\ s.p = t.p /\ s.left = t.left /\ s.right = t.right
    /\ \A v \in R!RbNode \cup {NULL} :
        s.color[v] = IF v \in black THEN "BLACK" ELSE IF v = red THEN "RED" ELSE t.color[v]

LEMMA RecolorIs ==
    ASSUME NEW t \in RbRecord, NEW black, NEW red
    PROVE  Repainted(t, R!Recolor(t, black, red), black, red)
  <1> DEFINE C == R!RbNode \cup {NULL}
             f == [v \in C |-> IF v \in black THEN "BLACK" ELSE IF v = red THEN "RED"
                               ELSE t.color[v]]
             s == R!Recolor(t, black, red)
  <1>1. t.color \in [C -> {"RED", "BLACK"}] /\ DOMAIN t.color = C
    BY DEF RbRecord
  <1>2. f \in [C -> {"RED", "BLACK"}]
    BY <1>1
  <1>3. s = [t EXCEPT !.color = f]
    BY <1>1 DEF R!Recolor
  <1>4. \A v \in C : f[v] = IF v \in black THEN "BLACK" ELSE IF v = red THEN "RED" ELSE t.color[v]
    OBVIOUS
  <1> HIDE DEF f, s, C
  <1>5. /\ s \in RbRecord /\ s.size_ = t.size_ /\ s.key = t.key /\ s.root_ = t.root_
        /\ s.p = t.p /\ s.left = t.left /\ s.right = t.right /\ s.color = f
    BY <1>2, <1>3 DEF RbRecord, C
  <1> QED BY <1>4, <1>5 DEF Repainted, s, C

-----------------------------------------------------------------------------
(* The loop of InsertFixup.                                                 *)

\* The red-black tree t, with the nodes 1..t.size_ in the order of their keys.
RbShape(t, Y) ==
    /\ RbLaid(t, Y) /\ Sorted(t.key, Y)
    /\ t.size_ \in Nat /\ t.size_ <= RbSize /\ Nodes(Y) = 1..t.size_ /\ Y.n = t.size_
    /\ \A v \in R!RbNode \ Nodes(Y) : t.left[v] = NULL /\ t.right[v] = NULL

Colours(t, Y, z) ==
    \E b : Colored(t.left, t.right, t.p, t.root_, t.color, b, Nodes(Y), z)

\* Only the red node z may be the root or under a red one.
RbLoop(t, z, Y) ==
    RbShape(t, Y) /\ Colours(t, Y, z) /\ z \in Nodes(Y) /\ t.color[z] = "RED"

Kept(t, s) == s \in RbRecord /\ s.size_ = t.size_ /\ s.key = t.key

LEMMA TurnedShape ==
    ASSUME NEW t, NEW Y, RbShape(t, Y), NEW s, Turned(t, s, Y), NEW Z,
           Laid(s.left, s.right, s.p, s.root_, Z), SamePlaces(Y, Z)
    PROVE  RbShape(s, Z) /\ Kept(t, s)
  <1>1. s \in RbRecord /\ s.size_ = t.size_ /\ s.key = t.key /\ Nodes(Z) = Nodes(Y) /\ Z.n = Y.n
    BY DEF Turned, Alike, SamePlaces
  <1>2. Sorted(s.key, Z)
    BY <1>1 DEF RbShape, Sorted, SamePlaces
  <1>3. RbLaid(s, Z)
    BY <1>1 DEF RbLaid, RbShape
  <1>4. \A v \in R!RbNode \ Nodes(Z) : s.left[v] = NULL /\ s.right[v] = NULL
    BY <1>1 DEF RbShape, Turned
  <1> QED BY <1>1, <1>2, <1>3, <1>4 DEF RbShape, Kept

LEMMA RepaintedShape ==
    ASSUME NEW t, NEW Y, RbShape(t, Y), NEW s, NEW black, NEW red, Repainted(t, s, black, red)
    PROVE  RbShape(s, Y) /\ Kept(t, s)
  BY DEF RbShape, Kept, Repainted, RbLaid

\* The tree seen from the other side.
LEMMA MirroredClash ==
    ASSUME NEW left, NEW right, NEW parent, NEW root, NEW color, NEW b, NEW Y, NEW z, NEW p, NEW g,
           Clash(left, right, parent, root, color, b, Y, z, p, g)
    PROVE  Clash(right, left, parent, root, color, b, Mirrored(Y), z, p, g)
  <1>1. Laid(right, left, parent, root, Mirrored(Y)) /\ Nodes(Mirrored(Y)) = Nodes(Y)
    BY MirroredLaid, MirroredIs DEF Clash
  <1>2. Colored(right, left, parent, root, color, b, Nodes(Y), z)
    BY DEF Clash, Colored
  <1> QED BY <1>1, <1>2 DEF Clash

LEMMA MirroredColours ==
    ASSUME NEW left, NEW right, NEW parent, NEW root, NEW color, NEW b, NEW N, NEW z,
           Colored(right, left, parent, root, color, b, N, z)
    PROVE  Colored(left, right, parent, root, color, b, N, z)
  BY DEF Colored

\* A parent has more nodes at or below it than its child.
LEMMA Wider ==
    ASSUME NEW left, NEW right, NEW parent, NEW root, NEW Y, Laid(left, right, parent, root, Y),
           NEW x \in Nodes(Y), NEW c \in Nodes(Y), left[x] = c \/ right[x] = c
    PROVE  Y.hi[c] - Y.lo[c] + 1 <= Y.hi[x] - Y.lo[x]
  <1>1. PlacesOK(Y) /\ LeftOK(left, Y) /\ RightOK(right, Y) /\ NULL \notin Nodes(Y)
    BY DEF Laid, PlacesOK
  <1>2. /\ Y.pos[x] \in Int /\ Y.lo[x] \in Int /\ Y.hi[x] \in Int
        /\ Y.lo[x] <= Y.pos[x] /\ Y.pos[x] <= Y.hi[x]
    BY <1>1 DEF PlacesOK
  <1>3. CASE left[x] = c
    <2>1. Y.lo[c] = Y.lo[x] /\ Y.hi[c] = Y.pos[x] - 1
      BY <1>1, <1>3 DEF LeftOK
    <2> QED BY <2>1, <1>2
  <1>4. CASE right[x] = c
    <2>1. Y.lo[c] = Y.pos[x] + 1 /\ Y.hi[c] = Y.hi[x]
      BY <1>1, <1>4 DEF RightOK
    <2> QED BY <2>1, <1>2
  <1> QED BY <1>3, <1>4

\* The loop has no more to do.
Done(t, z) == t.color[t.p[z]] = "BLACK"

\* Only a last rotation is left: z is on the outer side, and its uncle is black.
Almost(t, z) ==
    LET p == t.p[z]
        g == t.p[p]
    IN  \/ t.left[g] = p /\ t.left[p] = z /\ t.color[t.right[g]] = "BLACK"
        \/ t.right[g] = p /\ t.right[p] = z /\ t.color[t.left[g]] = "BLACK"

LEMMA LoopClash ==
    ASSUME NEW t, NEW z, NEW Y, RbLoop(t, z, Y), ~ Done(t, z)
    PROVE  \E b : Clash(t.left, t.right, t.p, t.root_, t.color, b, Y, z, t.p[z], t.p[t.p[z]])
  <1>1. PICK b : Colored(t.left, t.right, t.p, t.root_, t.color, b, Nodes(Y), z)
    BY DEF RbLoop, Colours
  <1>2. /\ Laid(t.left, t.right, t.p, t.root_, Y) /\ z \in Nodes(Y) /\ t.color[z] = "RED"
        /\ t.color \in [R!RbNode \cup {NULL} -> {"RED", "BLACK"}] /\ Nodes(Y) \subseteq R!RbNode
    BY DEF RbLoop, RbShape, RbLaid, RbRecord
  <1>3. t.p[z] \in Nodes(Y) \cup {NULL}
    BY <1>2, Family
  <1>4. t.color[t.p[z]] = "RED"
    BY <1>2, <1>3 DEF Done
  <1> QED BY <1>1, <1>2, <1>4 DEF Clash

\* The nodes at or below z.
Reach(Y, z) == Y.hi[z] - Y.lo[z] + 1

\* The uncle of z, whose parent is p and grandparent g.
Uncle(t, p, g) == IF p = t.left[g] THEN t.right[g] ELSE t.left[g]

\* A round under a red uncle.
LEMMA RoundRecolors ==
    ASSUME NEW t, NEW z, NEW Y, RbLoop(t, z, Y), ~ Done(t, z),
           t.color[Uncle(t, t.p[z], t.p[t.p[z]])] = "RED"
    PROVE  LET r == R!Round(t, z) IN
           RbLoop(r.tree, r.z, Y) /\ Kept(t, r.tree) /\ Reach(Y, z) + 2 <= Reach(Y, r.z)
  <1> DEFINE N == Nodes(Y)
             p == t.p[z]
             g == t.p[p]
             y == Uncle(t, p, g)
             s == R!Recolor(t, {p, y}, g)
  <1>1. PICK b : Clash(t.left, t.right, t.p, t.root_, t.color, b, Y, z, p, g)
    BY LoopClash
  <1>2. /\ z \in N /\ p \in N /\ g \in N
        /\ t.left[p] = z \/ t.right[p] = z
        /\ t.left[g] = p \/ t.right[g] = p
    BY <1>1, ClashIs
  <1>3. t.color[p] # "BLACK"
    BY DEF Done
  <1>4. R!Round(t, z) = [tree |-> s, z |-> g]
    BY <1>3 DEF R!Round, Uncle
  <1>5. Repainted(t, s, {p, y}, g)
    BY RecolorIs DEF RbLoop, RbShape, RbLaid
  <1> HIDE DEF s
  <1>6. RbShape(s, Y) /\ Kept(t, s)
    BY <1>5, RepaintedShape DEF RbLoop
  <1>7. (t.left[g] = p /\ t.right[g] = y) \/ (t.right[g] = p /\ t.left[g] = y)
    BY <1>2 DEF Uncle
  <1>8. \A v \in N \cup {NULL} :
            s.color[v] = IF v \in {p, y} THEN "BLACK" ELSE IF v = g THEN "RED" ELSE t.color[v]
    BY <1>5 DEF Repainted, RbLoop, RbShape, RbLaid
  <1> HIDE DEF y, p, g
  <1>9. t.color[y] = "RED"
    BY DEF y, p, g
  <1>10. /\ \E b2 : Colored(t.left, t.right, t.p, t.root_, s.color, b2, N, g)
         /\ s.color[g] = "RED"
    BY <1>1, <1>7, <1>8, <1>9, RecoloredOK
  <1>11. Colours(s, Y, g)
    BY <1>5, <1>10 DEF Repainted, Colours
  <1>12. Reach(Y, z) + 2 <= Reach(Y, g)
    <2>1. Laid(t.left, t.right, t.p, t.root_, Y) /\ PlacesOK(Y)
      BY DEF RbLoop, RbShape, RbLaid, Laid
    <2>2. Y.hi[z] - Y.lo[z] + 1 <= Y.hi[p] - Y.lo[p]
      BY <2>1, <1>2, Wider
    <2>3. Y.hi[p] - Y.lo[p] + 1 <= Y.hi[g] - Y.lo[g]
      BY <2>1, <1>2, Wider
    <2>4. /\ Y.hi[z] \in Int /\ Y.lo[z] \in Int /\ Y.hi[p] \in Int /\ Y.lo[p] \in Int
          /\ Y.hi[g] \in Int /\ Y.lo[g] \in Int
      BY <2>1, <1>2 DEF PlacesOK
    <2> QED BY <2>2, <2>3, <2>4 DEF Reach
  <1> QED BY <1>2, <1>4, <1>6, <1>10, <1>11, <1>12 DEF RbLoop

\* A round under a black uncle, on the inner side.
LEMMA RoundTurnsIn ==
    ASSUME NEW t, NEW z, NEW Y, RbLoop(t, z, Y), ~ Done(t, z), ~ Almost(t, z),
           t.color[Uncle(t, t.p[z], t.p[t.p[z]])] # "RED"
    PROVE  LET r == R!Round(t, z) IN
           /\ \E Z : RbLoop(r.tree, r.z, Z) /\ Z.n = Y.n
           /\ Kept(t, r.tree) /\ Almost(r.tree, r.z)
  <1> DEFINE N == Nodes(Y)
             p == t.p[z]
             g == t.p[p]
             y == Uncle(t, p, g)
             r == R!Round(t, z)
  <1>1. PICK b : Clash(t.left, t.right, t.p, t.root_, t.color, b, Y, z, p, g)
    BY LoopClash
  <1>2. /\ z \in N /\ p \in N /\ g \in N /\ z # p /\ p # g /\ z # g
        /\ t.left[p] = z \/ t.right[p] = z
        /\ t.left[g] = p \/ t.right[g] = p
        /\ t.color[g] = "BLACK" /\ t.color[p] = "RED" /\ t.color[z] = "RED"
    BY <1>1, ClashIs DEF Clash
  <1>3. /\ t.color[p] # "BLACK" /\ RbShape(t, Y) /\ RbLaid(t, Y) /\ NULL \notin N
        /\ Laid(t.left, t.right, t.p, t.root_, Y)
        /\ \A v \in N : t.left[v] # NULL => t.left[v] # t.right[v]
    BY Family DEF Done, RbLoop, RbShape, RbLaid
  <1>4. y \in N \cup {NULL}
    <2>1. t.left[g] \in N \cup {NULL} /\ t.right[g] \in N \cup {NULL}
      BY <1>2, <1>3 DEF Laid, LeftOK, RightOK
    <2> QED BY <2>1 DEF Uncle
  <1>5. t.color[y] = "BLACK"
    <2>1. t.color \in [R!RbNode \cup {NULL} -> {"RED", "BLACK"}] /\ N \subseteq R!RbNode
      BY <1>3 DEF RbLaid, RbRecord
    <2>2. t.color[y] # "RED"
      OBVIOUS
    <2>3. y \in R!RbNode \cup {NULL}
      BY <2>1, <1>4
    <2> HIDE DEF y
    <2> QED BY <2>1, <2>2, <2>3
  <1>6. CASE t.left[g] = p
    <2> DEFINE s == R!LeftRorate(t, p)
    <2>1. t.right[p] = z /\ t.right[g] = y
      BY <1>2, <1>3, <1>5, <1>6 DEF Almost, Uncle
    <2>2. r = [tree |-> s, z |-> p]
      BY <2>1, <1>3, <1>6 DEF R!Round, Uncle
    <2>3. Turned(t, s, Y)
          /\ Rotated(t.left, t.right, t.p, t.root_, s.left, s.right, s.p, s.root_, Y, p, z)
      BY <2>1, <1>2, <1>3, LeftRorateIs
    <2> HIDE DEF s, r, y, g, p
    <2>4. PICK Z : Laid(s.left, s.right, s.p, s.root_, Z) /\ SamePlaces(Y, Z)
      BY <2>3, <1>3, RotatedLaid
    <2>5. RbShape(s, Z) /\ Kept(t, s) /\ Nodes(Z) = N /\ Z.n = Y.n /\ s.color = t.color
      BY <2>3, <2>4, <1>3, TurnedShape DEF SamePlaces, Turned, Alike
    <2>6. Colored(s.left, s.right, s.p, s.root_, s.color, b, N, p)
      BY <2>1, <2>3, <2>5, <1>1, InnerOK
    <2>7. RbLoop(s, p, Z)
      BY <2>5, <2>6, <1>2 DEF RbLoop, Colours
    <2>8. /\ s.p[p] = z /\ s.p[z] = g /\ s.left[g] = z /\ s.left[z] = p /\ s.right[g] = y
      <3>1. t.p[p] = g /\ t.right[g] # p
        BY <1>2, <1>3, <1>6 DEF g
      <3> QED BY <3>1, <2>1, <2>3, <1>2, <1>6 DEF Rotated
    <2>9. Almost(s, p)
      BY <2>5, <2>8, <1>5 DEF Almost
    <2> QED BY <2>2, <2>5, <2>7, <2>9 DEF r
  <1>7. CASE t.left[g] # p
    <2> DEFINE s == R!RightRorate(t, p)
    <2>1. t.left[p] = z /\ t.left[g] = y /\ t.right[g] = p
      BY <1>2, <1>3, <1>5, <1>7 DEF Almost, Uncle
    <2>2. r = [tree |-> s, z |-> p]
      BY <2>1, <1>3, <1>7 DEF R!Round, Uncle
    <2>3. Turned(t, s, Y)
          /\ Rotated(t.right, t.left, t.p, t.root_, s.right, s.left, s.p, s.root_, Y, p, z)
      BY <2>1, <1>2, <1>3, RightRorateIs
    <2> HIDE DEF s, r, y, g, p
    <2>4. PICK Z : Laid(s.left, s.right, s.p, s.root_, Z) /\ SamePlaces(Y, Z)
      BY <2>3, <1>3, RotatedBack
    <2>5. RbShape(s, Z) /\ Kept(t, s) /\ Nodes(Z) = N /\ Z.n = Y.n /\ s.color = t.color
      BY <2>3, <2>4, <1>3, TurnedShape DEF SamePlaces, Turned, Alike
    <2>6. Colored(s.left, s.right, s.p, s.root_, s.color, b, N, p)
      <3>1. Clash(t.right, t.left, t.p, t.root_, t.color, b, Mirrored(Y), z, p, g)
        BY <1>1, MirroredClash
      <3>2. /\ Rotated(t.right, t.left, t.p, t.root_, s.right, s.left, s.p, s.root_, Mirrored(Y), p, z)
            /\ Nodes(Mirrored(Y)) = N
        BY <2>3, MirroredIs DEF Rotated
      <3>3. Colored(s.right, s.left, s.p, s.root_, s.color, b, N, p)
        BY <3>1, <3>2, <2>1, <2>5, InnerOK
      <3> QED BY <3>3, MirroredColours
    <2>7. RbLoop(s, p, Z)
      BY <2>5, <2>6, <1>2 DEF RbLoop, Colours
    <2>8. /\ s.p[p] = z /\ s.p[z] = g /\ s.right[g] = z /\ s.right[z] = p /\ s.left[g] = y
      <3>1. t.p[p] = g
        BY DEF g
      <3> QED BY <3>1, <2>1, <2>3, <1>2, <1>7 DEF Rotated
    <2>9. Almost(s, p)
      BY <2>5, <2>8, <1>5 DEF Almost
    <2> QED BY <2>2, <2>5, <2>7, <2>9 DEF r
  <1> QED BY <1>6, <1>7

\* A round under a black uncle, on the outer side.
LEMMA RoundTurnsOut ==
    ASSUME NEW t, NEW z, NEW Y, RbLoop(t, z, Y), ~ Done(t, z), Almost(t, z)
    PROVE  LET r == R!Round(t, z) IN
           /\ \E Z : RbLoop(r.tree, r.z, Z) /\ Z.n = Y.n
           /\ Kept(t, r.tree) /\ Done(r.tree, r.z)
  <1> DEFINE N == Nodes(Y)
             p == t.p[z]
             g == t.p[p]
             u == R!Recolor(t, {p}, g)
             r == R!Round(t, z)
  <1>1. PICK b : Clash(t.left, t.right, t.p, t.root_, t.color, b, Y, z, p, g)
    BY LoopClash
  <1>2. /\ z \in N /\ p \in N /\ g \in N /\ z # p /\ p # g /\ z # g
        /\ t.color[g] = "BLACK" /\ t.color[p] = "RED" /\ t.color[z] = "RED"
    BY <1>1, ClashIs DEF Clash
  <1>3. /\ t.color[p] # "BLACK" /\ RbShape(t, Y) /\ RbLaid(t, Y) /\ NULL \notin N
        /\ Laid(t.left, t.right, t.p, t.root_, Y)
        /\ \A v \in N : t.left[v] # NULL => t.left[v] # t.right[v]
    BY Family DEF Done, RbLoop, RbShape, RbLaid
  <1>4. Repainted(t, u, {p}, g)
    BY <1>3, RecolorIs DEF RbLaid
  <1> HIDE DEF u
  <1>5. /\ RbShape(u, Y) /\ Kept(t, u) /\ RbLaid(u, Y)
        /\ u.left = t.left /\ u.right = t.right /\ u.p = t.p /\ u.root_ = t.root_
    <2>1. RbShape(u, Y) /\ Kept(t, u)
      BY <1>3, <1>4, RepaintedShape
    <2> QED BY <2>1, <1>4 DEF Repainted, RbShape
  <1>6. Flipped(t.color, u.color, Y, p, g)
    BY <1>3, <1>4 DEF Repainted, RbLaid, Flipped
  <1>7. CASE t.right[g] = p /\ t.right[p] = z /\ t.color[t.left[g]] = "BLACK"
    <2> DEFINE s == R!LeftRorate(u, g)
    <2>1. t.left[g] # p /\ t.left[p] # z
      BY <1>2, <1>3, <1>7
    <2>2. r = [tree |-> s, z |-> z]
      BY <2>1, <1>3, <1>7 DEF R!Round, u
    <2>3. Turned(u, s, Y)
          /\ Rotated(t.left, t.right, t.p, t.root_, s.left, s.right, s.p, s.root_, Y, g, p)
      BY <1>2, <1>3, <1>5, <1>7, LeftRorateIs
    <2> HIDE DEF s, r, g, p
    <2>4. PICK Z : Laid(s.left, s.right, s.p, s.root_, Z) /\ SamePlaces(Y, Z)
      BY <2>3, <1>3, RotatedLaid
    <2>5. RbShape(s, Z) /\ Kept(u, s) /\ Nodes(Z) = N /\ Z.n = Y.n /\ s.color = u.color
      BY <2>3, <2>4, <1>5, TurnedShape DEF SamePlaces, Turned, Alike
    <2>6. /\ \E b2 : Colored(s.left, s.right, s.p, s.root_, s.color, b2, N, z)
          /\ s.color[z] = "RED" /\ s.color[s.p[z]] = "BLACK"
      <3>1. Swung(t.left, t.right, t.p, t.root_, t.color, b,
                  s.left, s.right, s.p, s.root_, s.color, Y, z, p, g)
        BY <2>3, <2>5, <1>1, <1>6, <1>7 DEF Swung
      <3> QED BY <3>1, OuterOK
    <2>7. RbLoop(s, z, Z)
      BY <2>5, <2>6, <1>2 DEF RbLoop, Colours
    <2>8. Kept(t, s) /\ Done(s, z)
      BY <2>5, <2>6, <1>5 DEF Kept, Done
    <2> QED BY <2>2, <2>5, <2>7, <2>8 DEF r
  <1>8. CASE t.left[g] = p /\ t.left[p] = z /\ t.color[t.right[g]] = "BLACK"
    <2> DEFINE s == R!RightRorate(u, g)
    <2>1. t.right[p] # z
      BY <1>2, <1>3, <1>8
    <2>2. r = [tree |-> s, z |-> z]
      BY <2>1, <1>3, <1>8 DEF R!Round, u
    <2>3. Turned(u, s, Y)
          /\ Rotated(t.right, t.left, t.p, t.root_, s.right, s.left, s.p, s.root_, Y, g, p)
      BY <1>2, <1>3, <1>5, <1>8, RightRorateIs
    <2> HIDE DEF s, r, g, p
    <2>4. PICK Z : Laid(s.left, s.right, s.p, s.root_, Z) /\ SamePlaces(Y, Z)
      BY <2>3, <1>3, RotatedBack
    <2>5. RbShape(s, Z) /\ Kept(u, s) /\ Nodes(Z) = N /\ Z.n = Y.n /\ s.color = u.color
      BY <2>3, <2>4, <1>5, TurnedShape DEF SamePlaces, Turned, Alike
    <2>6. /\ \E b2 : Colored(s.left, s.right, s.p, s.root_, s.color, b2, N, z)
          /\ s.color[z] = "RED" /\ s.color[s.p[z]] = "BLACK"
      <3>1. Clash(t.right, t.left, t.p, t.root_, t.color, b, Mirrored(Y), z, p, g)
        BY <1>1, MirroredClash
      <3>2. /\ Rotated(t.right, t.left, t.p, t.root_, s.right, s.left, s.p, s.root_, Mirrored(Y), g, p)
            /\ Nodes(Mirrored(Y)) = N
        BY <2>3, MirroredIs DEF Rotated
      <3>3. Flipped(t.color, s.color, Mirrored(Y), p, g)
        BY <3>2, <2>5, <1>6 DEF Flipped
      <3>4. Swung(t.right, t.left, t.p, t.root_, t.color, b,
                  s.right, s.left, s.p, s.root_, s.color, Mirrored(Y), z, p, g)
        BY <3>1, <3>2, <3>3, <1>8 DEF Swung
      <3>5. /\ \E b2 : Colored(s.right, s.left, s.p, s.root_, s.color, b2, Nodes(Mirrored(Y)), z)
            /\ s.color[z] = "RED" /\ s.color[s.p[z]] = "BLACK"
        BY <3>4, OuterOK
      <3> QED BY <3>2, <3>5, MirroredColours
    <2>7. RbLoop(s, z, Z)
      BY <2>5, <2>6, <1>2 DEF RbLoop, Colours
    <2>8. Kept(t, s) /\ Done(s, z)
      BY <2>5, <2>6, <1>5 DEF Kept, Done
    <2> QED BY <2>2, <2>5, <2>7, <2>8 DEF r
  <1> QED BY <1>7, <1>8 DEF Almost

\* The loop has come so far that it is done in time: n rounds have climbed two nodes
\* each, or only the last is left.
Climbed(t, z, Y, n) ==
    Done(t, z) \/ (2 * n + 1 <= Y.n /\ (Almost(t, z) \/ 2 * n + 1 <= Reach(Y, z)))

LEMMA RoundClimbs ==
    ASSUME NEW t, NEW z, NEW Y, RbLoop(t, z, Y), NEW n \in Nat, Climbed(t, z, Y, n)
    PROVE  LET r == R!Round(t, z) IN
           /\ \E Z : RbLoop(r.tree, r.z, Z) /\ Climbed(r.tree, r.z, Z, n + 1)
           /\ Kept(t, r.tree)
  <1> DEFINE N == Nodes(Y)
             r == R!Round(t, z)
  <1>1. CASE Done(t, z)
    <2>1. r = [tree |-> t, z |-> z]
      BY <1>1 DEF R!Round, Done
    <2>2. Kept(t, t)
      BY DEF Kept, RbLoop, RbShape, RbLaid
    <2> QED BY <2>1, <2>2, <1>1 DEF Climbed
  <1>2. CASE ~ Done(t, z) /\ Almost(t, z)
    BY <1>2, RoundTurnsOut DEF Climbed
  <1>3. CASE ~ Done(t, z) /\ ~ Almost(t, z)
    <2> DEFINE p == t.p[z]
               g == t.p[p]
    <2>1. 2 * n + 1 <= Reach(Y, z) /\ Y.n \in Nat
      BY <1>3 DEF Climbed, RbLoop, RbShape, RbLaid, Laid, PlacesOK
    <2>2. PICK b : Clash(t.left, t.right, t.p, t.root_, t.color, b, Y, z, p, g)
      BY <1>3, LoopClash
    <2>3. Laid(t.left, t.right, t.p, t.root_, Y) /\ PlacesOK(Y)
      BY DEF RbLoop, RbShape, RbLaid, Laid
    <2>4. /\ z \in N /\ p \in N /\ g \in N
          /\ t.left[p] = z \/ t.right[p] = z
          /\ t.left[g] = p \/ t.right[g] = p
      BY <2>2, ClashIs
    <2>5. \A v \in N : /\ Y.hi[v] \in Int /\ Y.lo[v] \in Int /\ Reach(Y, v) \in Int
                       /\ Reach(Y, v) <= Y.n
      BY <2>3 DEF PlacesOK, Reach
    <2>6. CASE t.color[Uncle(t, p, g)] = "RED"
      <3>1. RbLoop(r.tree, r.z, Y) /\ Kept(t, r.tree) /\ Reach(Y, z) + 2 <= Reach(Y, r.z)
        BY <2>6, <1>3, RoundRecolors
      <3>2. r.z \in N
        BY <3>1 DEF RbLoop
      <3> HIDE DEF r
      <3>3. 2 * (n + 1) + 1 <= Reach(Y, r.z) /\ 2 * (n + 1) + 1 <= Y.n
        BY <3>1, <3>2, <2>1, <2>4, <2>5
      <3>4. Climbed(r.tree, r.z, Y, n + 1)
        BY <3>3 DEF Climbed
      <3> QED BY <3>1, <3>4 DEF r
    <2>7. CASE t.color[Uncle(t, p, g)] # "RED"
      <3>1. (\E Z : RbLoop(r.tree, r.z, Z) /\ Z.n = Y.n) /\ Kept(t, r.tree) /\ Almost(r.tree, r.z)
        BY <2>7, <1>3, RoundTurnsIn
      <3>2. PICK Z : RbLoop(r.tree, r.z, Z) /\ Z.n = Y.n
        BY <3>1
      <3> HIDE DEF r
      <3>3. Reach(Y, z) + 2 <= Y.n
        <4>1. Y.hi[z] - Y.lo[z] + 1 <= Y.hi[p] - Y.lo[p]
          BY <2>3, <2>4, Wider
        <4>2. Y.hi[p] - Y.lo[p] + 1 <= Y.hi[g] - Y.lo[g]
          BY <2>3, <2>4, Wider
        <4>3. /\ Y.hi[z] \in Int /\ Y.lo[z] \in Int /\ Y.hi[p] \in Int /\ Y.lo[p] \in Int
              /\ Y.hi[g] \in Int /\ Y.lo[g] \in Int /\ Reach(Y, g) <= Y.n
          BY <2>4, <2>5
        <4> QED BY <4>1, <4>2, <4>3, <2>1 DEF Reach
      <3>4. Reach(Y, z) \in Int
        BY <2>4, <2>5
      <3>5. 2 * (n + 1) + 1 <= Z.n
        BY <3>2, <3>3, <3>4, <2>1
      <3>6. Climbed(r.tree, r.z, Z, n + 1)
        BY <3>1, <3>5 DEF Climbed
      <3> QED BY <3>1, <3>2, <3>6 DEF r
    <2> QED BY <2>6, <2>7
  <1> QED BY <1>1, <1>2, <1>3

LEMMA RoundIsState ==
    ASSUME NEW t, NEW z
    PROVE  R!Round(t, z) = [tree |-> R!Round(t, z).tree, z |-> R!Round(t, z).z]
  <1>1. ASSUME NEW s, NEW x, R!Round(t, z) = [tree |-> s, z |-> x]
        PROVE  R!Round(t, z) = [tree |-> R!Round(t, z).tree, z |-> R!Round(t, z).z]
    BY <1>1
  <1>2. \E s, x : R!Round(t, z) = [tree |-> s, z |-> x]
    <2> DEFINE p == t.p[z]
               g == t.p[p]
               y == IF p = t.left[g] THEN t.right[g] ELSE t.left[g]
               s == R!Recolor(t, {p}, g)
    <2>1. \/ R!Round(t, z) = [tree |-> t, z |-> z]
          \/ R!Round(t, z) = [tree |-> R!Recolor(t, {p, y}, g), z |-> g]
          \/ R!Round(t, z) = [tree |-> R!LeftRorate(t, p), z |-> p]
          \/ R!Round(t, z) = [tree |-> R!RightRorate(t, p), z |-> p]
          \/ R!Round(t, z) = [tree |-> R!RightRorate(s, g), z |-> z]
          \/ R!Round(t, z) = [tree |-> R!LeftRorate(s, g), z |-> z]
      BY DEF R!Round
    <2> HIDE DEF s, y, g, p
    <2> QED BY <2>1
  <1> QED BY <1>1, <1>2

\* After as many rounds as there are nodes the loop is done.
LEMMA LoopEnds ==
    ASSUME NEW t, NEW z, NEW Y, RbLoop(t, z, Y)
    PROVE  \E s, x, Z : /\ R!InsertFixup(t, z) = [s EXCEPT !.color[s.root_] = "BLACK"]
                        /\ RbLoop(s, x, Z) /\ Done(s, x) /\ Kept(t, s)
  <1> DEFINE n == t.size_
             S == 0..n
             T == {r \in [tree : RbRecord, z : R!RbNode] :
                    (\E Z : RbLoop(r.tree, r.z, Z)) /\ Kept(t, r.tree)}
             e == [tree |-> t, z |-> z]
             E(g, i) == IF i = 0 THEN e ELSE R!Round(g[i - 1].tree, g[i - 1].z)
             f == CHOOSE f : f = [i \in S |-> E(f, i)]
             G == [g \in [S -> T] |-> [i \in S |-> E(g, i)]]
             size == [i \in S |-> i]
  <1>1. n \in Nat /\ S \subseteq Nat /\ t \in RbRecord /\ z \in R!RbNode
    BY DEF RbLoop, RbShape, RbLaid
  <1>2. ASSUME NEW s, NEW x, NEW Z, RbLoop(s, x, Z), NEW i \in Nat, Climbed(s, x, Z, i), Kept(t, s)
        PROVE  /\ \E W : /\ RbLoop(R!Round(s, x).tree, R!Round(s, x).z, W)
                         /\ Climbed(R!Round(s, x).tree, R!Round(s, x).z, W, i + 1)
               /\ Kept(t, R!Round(s, x).tree)
    <2>1. /\ \E W : /\ RbLoop(R!Round(s, x).tree, R!Round(s, x).z, W)
                    /\ Climbed(R!Round(s, x).tree, R!Round(s, x).z, W, i + 1)
          /\ Kept(s, R!Round(s, x).tree)
      BY <1>2, RoundClimbs
    <2>2. Kept(t, R!Round(s, x).tree)
      BY <2>1, <1>2 DEF Kept
    <2> QED BY <2>1, <2>2
  <1>3. ASSUME NEW s, NEW x, NEW Z, RbLoop(s, x, Z)
        PROVE  Climbed(s, x, Z, 0)
    <2>1. PlacesOK(Z) /\ x \in Nodes(Z)
      BY <1>3 DEF RbLoop, RbShape, RbLaid, Laid
    <2>2. Z.n \in Nat /\ 1 <= Z.n /\ 1 <= Reach(Z, x)
      BY <2>1 DEF PlacesOK, Reach
    <2> QED BY <2>2 DEF Climbed
  <1>4. ASSUME NEW s, NEW x, NEW Z, RbLoop(s, x, Z)
        PROVE  s \in RbRecord /\ x \in R!RbNode
    BY <1>4 DEF RbLoop, RbShape, RbLaid
  <1>5. e \in T
    BY <1>1 DEF Kept
  <1>6. ASSUME NEW r \in T PROVE R!Round(r.tree, r.z) \in T
    <2>1. PICK Z : RbLoop(r.tree, r.z, Z) /\ Kept(t, r.tree)
      OBVIOUS
    <2>2. Climbed(r.tree, r.z, Z, 0)
      BY <2>1, <1>3
    <2> DEFINE o == R!Round(r.tree, r.z)
    <2>3. (\E W : RbLoop(o.tree, o.z, W)) /\ Kept(t, o.tree)
      BY <2>1, <2>2, <1>2
    <2>4. o.tree \in RbRecord /\ o.z \in R!RbNode
      BY <2>3, <1>4
    <2>5. o = [tree |-> o.tree, z |-> o.z]
      BY RoundIsState
    <2> HIDE DEF o
    <2>6. o \in [tree : RbRecord, z : R!RbNode]
      BY <2>4, <2>5
    <2>7. o \in T
      BY <2>3, <2>6
    <2> QED BY <2>7 DEF o
  <1>7. G \in [[S -> T] -> [S -> T]]
    <2>1. ASSUME NEW g \in [S -> T], NEW i \in S PROVE E(g, i) \in T
      <3>1. CASE i = 0
        BY <3>1, <1>5
      <3>2. CASE i # 0
        <4>1. i - 1 \in S
          BY <3>2, <1>1
        <4>2. g[i - 1] \in T
          <5> HIDE DEF T, S
          <5> QED BY <4>1
        <4> HIDE DEF T
        <4> QED BY <3>2, <4>2, <1>6
      <3> QED BY <3>1, <3>2
    <2> HIDE DEF S, T, E
    <2> QED BY <2>1
  <1>8. size \in [S -> 0..n] /\ \A i \in S : size[i] = i
    BY <1>1
  <1>9. \E g : g = [i \in S |-> E(g, i)]
    <2>1. Descending(G, S, T, size)
      <3>1. ASSUME NEW g \in [S -> T], NEW h \in [S -> T], NEW i \in S,
                   \A j \in S : size[j] < size[i] => g[j] = h[j]
            PROVE  G[g][i] = G[h][i]
        <4>1. CASE i = 0
          BY <4>1
        <4>2. CASE i # 0
          <5>1. i - 1 \in S /\ i - 1 < i
            BY <4>2, <1>1
          <5>2. size[i - 1] < size[i]
            BY <5>1, <1>8
          <5>3. g[i - 1] = h[i - 1]
            <6> HIDE DEF size, S, T
            <6> QED BY <5>1, <5>2, <3>1
          <5>4. G[g][i] = E(g, i) /\ G[h][i] = E(h, i)
            <6> HIDE DEF E, T
            <6> QED OBVIOUS
          <5>5. E(g, i) = E(h, i)
            BY <5>3
          <5> QED BY <5>4, <5>5
        <4> QED BY <4>1, <4>2
      <3> HIDE DEF G, S, T, size
      <3> QED BY <3>1 DEF Descending
    <2> HIDE DEF G, S, T, size, e
    <2>2. Solved(G, S, T)
      BY <2>1, <1>1, <1>5, <1>7, <1>8, Solvable
    <2>3. PICK g \in [S -> T] : g = G[g]
      BY <2>2 DEF Solved
    <2> QED BY <2>3 DEF G
  <1>10. f = [i \in S |-> E(f, i)]
    <2> HIDE DEF E, S
    <2> QED BY <1>9
  <1>11. \A i \in S : f[i] = E(f, i)
    <2> HIDE DEF f, E, S
    <2> QED BY <1>10
  <1>12. R!InsertFixup(t, z) = [f[n].tree EXCEPT !.color[f[n].tree.root_] = "BLACK"]
    BY DEF R!InsertFixup
  <1> HIDE DEF f
  <1> DEFINE Good(i) == /\ \E Z : RbLoop(f[i].tree, f[i].z, Z) /\ Climbed(f[i].tree, f[i].z, Z, i)
                        /\ Kept(t, f[i].tree)
             K == {i \in Nat : i <= n => Good(i)}
  <1>13. 0 \in K
    <2>1. f[0] = e
      BY <1>1, <1>11
    <2>2. Climbed(t, z, Y, 0) /\ Kept(t, t)
      BY <1>1, <1>3 DEF Kept
    <2> QED BY <2>1, <2>2
  <1>14. ASSUME NEW i \in Nat, i \in K PROVE i + 1 \in K
    <2> SUFFICES ASSUME i + 1 <= n PROVE Good(i + 1)
      OBVIOUS
    <2>1. i <= n /\ i + 1 \in S /\ i + 1 # 0 /\ i + 1 - 1 = i
      BY <1>1
    <2>2. Good(i)
      BY <2>1, <1>14
    <2>3. f[i + 1] = R!Round(f[i].tree, f[i].z)
      <3> HIDE DEF S
      <3> QED BY <2>1, <1>11
    <2>4. PICK Z : RbLoop(f[i].tree, f[i].z, Z) /\ Climbed(f[i].tree, f[i].z, Z, i)
      BY <2>2
    <2> QED BY <2>2, <2>3, <2>4, <1>2
  <1>15. Good(n)
    <2>1. n \in K
      <3> HIDE DEF K, n
      <3> QED BY <1>1, <1>13, <1>14, Upward
    <2> QED BY <2>1, <1>1
  <1>16. PICK Z : RbLoop(f[n].tree, f[n].z, Z) /\ Climbed(f[n].tree, f[n].z, Z, n)
    BY <1>15
  <1>17. Z.n = n
    BY <1>15, <1>16 DEF RbLoop, RbShape, Kept
  <1>18. Done(f[n].tree, f[n].z)
    BY <1>1, <1>16, <1>17 DEF Climbed
  <1> QED BY <1>12, <1>15, <1>16, <1>18

\* The tree between two insertions.
RbFine(t, Y) == RbShape(t, Y) /\ Colours(t, Y, NULL)

\* At last the root turns black.
LEMMA FixupIs ==
    ASSUME NEW t, NEW z, NEW Y, RbLoop(t, z, Y)
    PROVE  LET u == R!InsertFixup(t, z) IN (\E Z : RbFine(u, Z)) /\ Kept(t, u)
  <1> DEFINE u == R!InsertFixup(t, z)
  <1>1. PICK s, x, Z : /\ u = [s EXCEPT !.color[s.root_] = "BLACK"]
                       /\ RbLoop(s, x, Z) /\ Done(s, x) /\ Kept(t, s)
    BY LoopEnds
  <1> HIDE DEF u
  <1> DEFINE N == Nodes(Z)
             r == s.root_
  <1>2. /\ RbShape(s, Z) /\ RbLaid(s, Z) /\ s \in RbRecord /\ x \in N /\ s.color[x] = "RED"
        /\ Laid(s.left, s.right, s.p, s.root_, Z) /\ N \subseteq R!RbNode
        /\ DOMAIN s.color = R!RbNode \cup {NULL}
    BY <1>1 DEF RbLoop, RbShape, RbLaid, RbRecord
  <1>3. r \in N /\ NULL \notin N
    BY <1>2, RootIsNode, Family
  <1>4. /\ u \in RbRecord /\ u.size_ = s.size_ /\ u.key = s.key /\ u.root_ = s.root_ /\ u.p = s.p
        /\ u.left = s.left /\ u.right = s.right /\ u.color = [s.color EXCEPT ![r] = "BLACK"]
    BY <1>1, <1>2, <1>3 DEF RbRecord
  <1>5. RbShape(u, Z) /\ Kept(t, u)
    BY <1>1, <1>2, <1>4 DEF RbShape, RbLaid, Kept
  <1>6. PICK b : Colored(s.left, s.right, s.p, s.root_, s.color, b, N, x)
    BY <1>1 DEF RbLoop, Colours
  <1>7. /\ s.color[NULL] = "BLACK" /\ b[NULL] = 0
        /\ \A v \in N : /\ s.color[v] \in {"RED", "BLACK"} /\ b[v] \in Nat
                        /\ b[s.left[v]] = b[s.right[v]]
                        /\ b[v] = b[s.left[v]] + Weight(s.color[v])
        /\ \A v \in N \ {x} : s.color[v] = "RED" => v # r /\ s.color[s.p[v]] = "BLACK"
    BY <1>6 DEF Colored
  <1>8. \A v \in N : /\ s.left[v] \in N \cup {NULL} /\ s.left[v] # r
                     /\ s.right[v] \in N \cup {NULL} /\ s.right[v] # r
                     /\ v # r => s.p[v] \in N
    BY <1>2, <1>3, Family
  <1> DEFINE b2 == [v \in N \cup {NULL} |-> IF v = r THEN b[s.left[r]] + 1 ELSE b[v]]
  <1>9. /\ b2[NULL] = 0 /\ b2[r] = b[s.left[r]] + 1 /\ b[s.left[r]] \in Nat
        /\ \A v \in N \cup {NULL} : v # r => b2[v] = b[v]
    BY <1>3, <1>7, <1>8
  <1> HIDE DEF b2
  <1>10. \A v \in N \cup {NULL} : u.color[v] = IF v = r THEN "BLACK" ELSE s.color[v]
    BY <1>2, <1>4
  <1>11. ASSUME NEW v \in N
         PROVE  /\ u.color[v] \in {"RED", "BLACK"} /\ b2[v] \in Nat
                /\ b2[s.left[v]] = b2[s.right[v]]
                /\ b2[v] = b2[s.left[v]] + Weight(u.color[v])
    <2>1. b2[s.left[v]] = b[s.left[v]] /\ b2[s.right[v]] = b[s.right[v]]
      BY <1>8, <1>9
    <2>2. CASE v = r
      <3>1. u.color[v] = "BLACK" /\ b2[v] \in Nat
        BY <2>2, <1>3, <1>9, <1>10
      <3> QED BY <2>1, <2>2, <3>1, <1>7, <1>9 DEF Weight
    <2>3. CASE v # r
      BY <2>1, <2>3, <1>7, <1>9, <1>10
    <2> QED BY <2>2, <2>3
  <1>12. ASSUME NEW v \in N \ {NULL}, u.color[v] = "RED"
         PROVE  v # r /\ u.color[s.p[v]] = "BLACK"
    <2>1. v # r /\ s.color[v] = "RED"
      BY <1>10, <1>12
    <2>2. s.color[s.p[v]] = "BLACK"
      BY <2>1, <1>1, <1>7 DEF Done
    <2> QED BY <2>1, <2>2, <1>8, <1>10
  <1>13. Colored(u.left, u.right, u.p, u.root_, u.color, b2, N, NULL)
    <2>1. u.color[NULL] = "BLACK"
      BY <1>3, <1>7, <1>10
    <2> QED BY <2>1, <1>4, <1>9, <1>11, <1>12 DEF Colored
  <1>14. Colours(u, Z, NULL)
    BY <1>13 DEF Colours
  <1> QED BY <1>5, <1>14 DEF RbFine, u

-----------------------------------------------------------------------------
(* Insertion.                                                               *)

LEMMA RbGrounded ==
    ASSUME NEW t, NEW Y, RbShape(t, Y)
    PROVE  Grounded(t)
  <1> DEFINE blank == [x \in R!RbNode |-> NULL]
             s == [left |-> blank, right |-> blank]
             size == [x \in Place(s) |-> IF x = NULL THEN 0 ELSE 1]
  <1>1. /\ DOMAIN s.left = R!RbNode /\ DOMAIN s.right = R!RbNode /\ NULL \notin R!RbNode
        /\ \A x \in R!RbNode : s.left[x] = NULL /\ s.right[x] = NULL
    BY DEF R!RbNode, NULL
  <1> HIDE DEF s
  <1>2. size \in [Place(s) -> 0..1] /\ NULL \in Place(s) /\ size[NULL] = 0
    BY DEF Place
  <1>3. \A x \in R!RbNode : size[x] = 1
    BY <1>1 DEF Place
  <1> HIDE DEF size
  <1>4. Grounded(s)
    BY <1>1, <1>2, <1>3 DEF Grounded
  <1>5. /\ DOMAIN t.left = DOMAIN s.left /\ DOMAIN t.right = DOMAIN s.left
        /\ Laid(t.left, t.right, t.p, t.root_, Y) /\ Nodes(Y) \subseteq DOMAIN t.left
        /\ \A x \in DOMAIN t.left \ Nodes(Y) : t.left[x] = NULL /\ t.right[x] = NULL
    BY <1>1 DEF RbShape, RbLaid, RbRecord
  <1> QED BY <1>4, <1>5, StillGrounded

\* The node under which k belongs.
RbSpot(t, k) == IF t.root_ = NULL THEN NULL ELSE LastFrom(t, t.key, t.root_, k)

\* u is t with the red leaf z under y.
RbHung(t, u, z, k, y) ==
    /\ u \in RbRecord /\ u.size_ = t.size_ + 1 /\ u.key = [t.key EXCEPT ![z] = k]
    /\ u.p = [t.p EXCEPT ![z] = y] /\ u.color = [t.color EXCEPT ![z] = "RED"]
    /\ u.root_ = IF y = NULL THEN z ELSE t.root_
    /\ u.left = IF y # NULL /\ k < t.key[y] THEN [t.left EXCEPT ![y] = z] ELSE t.left
    /\ u.right = IF y # NULL /\ ~ (k < t.key[y]) THEN [t.right EXCEPT ![y] = z] ELSE t.right

LEMMA RbAttachIs ==
    ASSUME NEW t \in RbRecord, NEW z \in R!RbNode, NEW k \in Int,
           RbSpot(t, k) \in R!RbNode \cup {NULL}
    PROVE  \E u : R!Attach(t, z, k) = R!InsertFixup(u, z) /\ RbHung(t, u, z, k, RbSpot(t, k))
  <1> DEFINE y == RbSpot(t, k)
             s0 == [t EXCEPT !.size_ = @ + 1, !.key[z] = k, !.p[z] = y, !.color[z] = "RED"]
             u == IF y = NULL THEN [s0 EXCEPT !.root_ = z]
                  ELSE IF k < t.key[y] THEN [s0 EXCEPT !.left[y] = z]
                  ELSE [s0 EXCEPT !.right[y] = z]
  <1>1. /\ R!nil_ = NULL /\ R!RbNode \subseteq Int /\ NULL \in Int /\ y \in Int
        /\ y \in R!RbNode \cup {NULL} /\ t.size_ + 1 \in Int
    <2>1. R!nil_ = NULL /\ R!RbNode \subseteq Int /\ NULL \in Int
      BY RbLoops DEF R!RbNode, NULL
    <2>2. t.size_ + 1 \in Int
      BY DEF RbRecord
    <2> HIDE DEF y
    <2>3. y \in R!RbNode \cup {NULL}
      BY DEF y
    <2> QED BY <2>1, <2>2, <2>3
  <1>2. R!LastFrom(t, t.key, t.root_, k) = LastFrom(t, t.key, t.root_, k)
    BY RbLoops
  <1>3. R!Attach(t, z, k) = R!InsertFixup(u, z)
    BY <1>1, <1>2, SMTT(30) DEF R!Attach, RbSpot
  <1>4. /\ s0 \in RbRecord /\ s0.size_ = t.size_ + 1 /\ s0.key = [t.key EXCEPT ![z] = k]
        /\ s0.p = [t.p EXCEPT ![z] = y] /\ s0.color = [t.color EXCEPT ![z] = "RED"]
        /\ s0.root_ = t.root_ /\ s0.left = t.left /\ s0.right = t.right
    <2> HIDE DEF y
    <2> QED BY <1>1 DEF RbRecord
  <1> HIDE DEF s0, y
  <1>5. CASE y = NULL
    <2>1. u = [s0 EXCEPT !.root_ = z]
      BY <1>5
    <2> HIDE DEF u
    <2>2. /\ u \in RbRecord /\ u.root_ = z /\ u.size_ = s0.size_ /\ u.key = s0.key /\ u.p = s0.p
          /\ u.color = s0.color /\ u.left = s0.left /\ u.right = s0.right
      BY <2>1, <1>1, <1>4 DEF RbRecord
    <2>3. RbHung(t, u, z, k, y)
      BY <2>2, <1>4, <1>5 DEF RbHung
    <2> QED BY <2>3, <1>3 DEF y
  <1>6. CASE y # NULL /\ k < t.key[y]
    <2>1. u = [s0 EXCEPT !.left[y] = z]
      BY <1>6
    <2> HIDE DEF u
    <2>2. /\ u \in RbRecord /\ u.root_ = s0.root_ /\ u.size_ = s0.size_ /\ u.key = s0.key
          /\ u.p = s0.p /\ u.color = s0.color /\ u.left = [s0.left EXCEPT ![y] = z]
          /\ u.right = s0.right
      BY <2>1, <1>1, <1>4, <1>6 DEF RbRecord
    <2>3. RbHung(t, u, z, k, y)
      BY <2>2, <1>4, <1>6 DEF RbHung
    <2> QED BY <2>3, <1>3 DEF y
  <1>7. CASE y # NULL /\ ~ (k < t.key[y])
    <2>1. u = [s0 EXCEPT !.right[y] = z]
      BY <1>7
    <2> HIDE DEF u
    <2>2. /\ u \in RbRecord /\ u.root_ = s0.root_ /\ u.size_ = s0.size_ /\ u.key = s0.key
          /\ u.p = s0.p /\ u.color = s0.color /\ u.left = s0.left
          /\ u.right = [s0.right EXCEPT ![y] = z]
      BY <2>1, <1>1, <1>4, <1>7 DEF RbRecord
    <2>3. RbHung(t, u, z, k, y)
      BY <2>2, <1>4, <1>7 DEF RbHung
    <2> QED BY <2>3, <1>3 DEF y
  <1> QED BY <1>5, <1>6, <1>7

\* y is where k belongs in the tree t.
RbWhere(t, Y, k, y) ==
    /\ RbShape(t, Y) /\ k \in Int
    /\ IF t.root_ = NULL THEN Nodes(Y) = {} /\ Y.n = 0 /\ y = NULL
       ELSE y \in Nodes(Y) /\ y # NULL /\ Under(t, t.key, k, Y, y)

LEMMA RbSpotIs ==
    ASSUME NEW t, NEW Y, RbShape(t, Y), NEW k \in Int
    PROVE  RbWhere(t, Y, k, RbSpot(t, k)) /\ RbSpot(t, k) \in R!RbNode \cup {NULL}
  <1> DEFINE y == RbSpot(t, k)
  <1>1. /\ Laid(t.left, t.right, t.p, t.root_, Y) /\ PlacesOK(Y) /\ Grounded(t)
        /\ Nodes(Y) \subseteq R!RbNode /\ Ordered(t, t.key, t.p, t.root_, Y)
    <2>1. Grounded(t)
      BY RbGrounded
    <2>2. DOMAIN t.left = R!RbNode
      BY DEF RbShape, RbLaid, RbRecord
    <2> QED BY <2>1, <2>2 DEF RbShape, RbLaid, Laid, Ordered
  <1>2. CASE t.root_ = NULL
    <2>1. Nodes(Y) = {} /\ Y.n = 0 /\ y = NULL
      BY <1>1, <1>2, RootIsNode DEF RbSpot
    <2> QED BY <2>1, <1>2 DEF RbWhere
  <1>3. CASE t.root_ # NULL
    <2>1. t.root_ \in Nodes(Y)
      BY <1>1, <1>3, RootIsNode
    <2>2. Under(t, t.key, k, Y, LastFrom(t, t.key, t.root_, k))
      BY <2>1, <1>1, LastFinds
    <2>3. y \in Nodes(Y) /\ y # NULL /\ Under(t, t.key, k, Y, y)
      BY <2>2, <1>1, <1>3 DEF Under, PlacesOK, RbSpot
    <2> QED BY <2>3, <1>1, <1>3 DEF RbWhere
  <1> QED BY <1>2, <1>3

\* The new layout.
LEMMA HungLaid ==
    ASSUME NEW t, NEW Y, NEW k, NEW y, RbWhere(t, Y, k, y), NEW z \in R!RbNode, z \notin Nodes(Y),
           NEW u, RbHung(t, u, z, k, y)
    PROVE  \E Z : /\ Laid(u.left, u.right, u.p, u.root_, Z)
                  /\ Nodes(Z) = Nodes(Y) \cup {z} /\ Z.n = Y.n + 1 /\ Sorted(u.key, Z)
  <1> DEFINE N == Nodes(Y)
  <1>1. /\ t \in RbRecord /\ Laid(t.left, t.right, t.p, t.root_, Y) /\ N \subseteq R!RbNode
        /\ Sorted(t.key, Y) /\ PlacesOK(Y) /\ k \in Int /\ NULL \notin N /\ z # NULL
        /\ DOMAIN t.left = R!RbNode /\ DOMAIN t.right = R!RbNode
        /\ DOMAIN t.p = R!RbNode /\ DOMAIN t.key = R!RbNode
        /\ t.left[z] = NULL /\ t.right[z] = NULL
    <2>1. /\ RbShape(t, Y) /\ t \in RbRecord /\ Laid(t.left, t.right, t.p, t.root_, Y)
          /\ N \subseteq R!RbNode /\ Sorted(t.key, Y) /\ k \in Int
          /\ t.left[z] = NULL /\ t.right[z] = NULL
      BY DEF RbWhere, RbShape, RbLaid
    <2>2. PlacesOK(Y) /\ NULL \notin N
      BY <2>1 DEF Laid, PlacesOK
    <2>3. z # NULL
      BY DEF R!RbNode, NULL
    <2> QED BY <2>1, <2>2, <2>3 DEF RbRecord
  <1>2. IF t.root_ = NULL THEN N = {} /\ Y.n = 0 /\ y = NULL
        ELSE y \in N /\ y # NULL /\ Under(t, t.key, k, Y, y)
    BY DEF RbWhere
  <1>3. /\ u.key[z] = k /\ \A x \in N : u.key[x] = t.key[x]
        /\ u.p[z] = y /\ \A x \in N : u.p[x] = t.p[x]
    BY <1>1 DEF RbHung
  <1>4. ASSUME NEW Z, Laid(u.left, u.right, u.p, u.root_, Z), Nodes(Z) = N \cup {z},
               SameOrder(N, Y, Z),
               \A x \in N : IF Z.pos[x] < Z.pos[z] THEN t.key[x] <= k ELSE k <= t.key[x]
        PROVE  Sorted(u.key, Z)
    <2>1. \A x \in Nodes(Z) : Z.pos[x] \in Int
      BY <1>4 DEF Laid, PlacesOK
    <2> QED BY <2>1, <1>1, <1>3, <1>4, SortedWith
  <1>5. CASE t.root_ = NULL
    <2>1. N = {} /\ Y.n = 0 /\ y = NULL /\ u.root_ = z /\ u.left = t.left /\ u.right = t.right
      BY <1>2, <1>5 DEF RbHung
    <2>2. Lone(u.left, u.right, u.p, z)
      BY <2>1, <1>1, <1>3 DEF Lone
    <2>3. PICK Z : Laid(u.left, u.right, u.p, z, Z) /\ Nodes(Z) = {z} /\ Z.n = 1
      BY <2>2, Alone
    <2>4. Nodes(Z) = N \cup {z} /\ SameOrder(N, Y, Z)
      BY <2>1, <2>3 DEF SameOrder
    <2>5. Sorted(u.key, Z)
      BY <2>1, <2>3, <2>4, <1>4
    <2> QED BY <2>1, <2>3, <2>4, <2>5
  <1>6. CASE t.root_ # NULL /\ k < t.key[y]
    <2>1. /\ y \in N /\ y # NULL /\ t.key[y] \in Int /\ t.left[y] = NULL
          /\ \A v \in N : Y.pos[v] < Y.pos[y] => t.key[v] <= k
          /\ u.root_ = t.root_
      BY <1>1, <1>2, <1>6 DEF Under, Sorted, RbHung
    <2>2. Hung(t.left, t.right, t.p, u.left, u.right, u.p, Y, y, z)
      BY <2>1, <1>1, <1>3, <1>6 DEF Hung, RbHung
    <2>3. PICK Z : /\ Laid(u.left, u.right, u.p, t.root_, Z) /\ Grown(Y, Z, z)
                   /\ \A x \in N : Z.pos[x] < Z.pos[z] <=> Y.pos[x] < Y.pos[y]
      BY <2>2, <1>1, AttachedLeft
    <2>4. \A x \in N : IF Z.pos[x] < Z.pos[z] THEN t.key[x] <= k ELSE k <= t.key[x]
      <3>1. ASSUME NEW x \in N, ~ (Y.pos[x] < Y.pos[y]) PROVE k <= t.key[x]
        <4>1. x = y \/ Y.pos[x] > Y.pos[y]
          <5>1. /\ Y.pos[x] \in Int /\ Y.pos[y] \in Int
                /\ Y.pos[x] = Y.pos[y] => x = y
            BY <2>1, <1>1 DEF PlacesOK
          <5> QED BY <5>1, <3>1
        <4>2. t.key[y] <= t.key[x] /\ t.key[x] \in Int
          BY <2>1, <4>1, <1>1 DEF Sorted
        <4> QED BY <4>2, <2>1, <1>1, <1>6
      <3> QED BY <2>1, <2>3, <3>1
    <2>5. Nodes(Z) = N \cup {z} /\ SameOrder(N, Y, Z) /\ Z.n = Y.n + 1
      BY <2>3 DEF Grown
    <2>6. Sorted(u.key, Z)
      BY <2>1, <2>3, <2>4, <2>5, <1>4
    <2> QED BY <2>1, <2>3, <2>5, <2>6
  <1>7. CASE t.root_ # NULL /\ ~ (k < t.key[y])
    <2>1. /\ y \in N /\ y # NULL /\ t.key[y] \in Int /\ t.right[y] = NULL
          /\ \A v \in N : Y.pos[v] > Y.pos[y] => k < t.key[v]
          /\ u.root_ = t.root_
      BY <1>1, <1>2, <1>7 DEF Under, Sorted, RbHung
    <2>2. Hung(t.right, t.left, t.p, u.right, u.left, u.p, Y, y, z)
      BY <2>1, <1>1, <1>3, <1>7 DEF Hung, RbHung
    <2>3. PICK Z : /\ Laid(u.left, u.right, u.p, t.root_, Z) /\ Grown(Y, Z, z)
                   /\ \A x \in N : Z.pos[x] < Z.pos[z] <=> Y.pos[x] <= Y.pos[y]
      BY <2>2, <1>1, AttachedRight
    <2>4. \A x \in N : IF Z.pos[x] < Z.pos[z] THEN t.key[x] <= k ELSE k <= t.key[x]
      <3>1. ASSUME NEW x \in N, Y.pos[x] <= Y.pos[y] PROVE t.key[x] <= k
        <4>1. t.key[x] <= t.key[y] /\ t.key[x] \in Int
          BY <2>1, <3>1, <1>1 DEF Sorted, PlacesOK
        <4> QED BY <4>1, <2>1, <1>1, <1>7
      <3>2. ASSUME NEW x \in N, ~ (Y.pos[x] <= Y.pos[y]) PROVE k <= t.key[x]
        <4>1. Y.pos[x] > Y.pos[y] /\ t.key[x] \in Int
          BY <2>1, <3>2, <1>1 DEF Sorted, PlacesOK
        <4> QED BY <4>1, <2>1, <1>1
      <3> QED BY <2>3, <3>1, <3>2
    <2>5. Nodes(Z) = N \cup {z} /\ SameOrder(N, Y, Z) /\ Z.n = Y.n + 1
      BY <2>3 DEF Grown
    <2>6. Sorted(u.key, Z)
      BY <2>1, <2>3, <2>4, <2>5, <1>4
    <2> QED BY <2>1, <2>3, <2>5, <2>6
  <1> QED BY <1>5, <1>6, <1>7

\* The loop begins with the new node, which is red.
LEMMA HungLoop ==
    ASSUME NEW t, NEW Y, RbFine(t, Y), NEW k, NEW y, RbWhere(t, Y, k, y), t.size_ < RbSize,
           NEW u, RbHung(t, u, t.size_ + 1, k, y)
    PROVE  \E Z : RbLoop(u, t.size_ + 1, Z)
  <1> DEFINE N == Nodes(Y)
             z == t.size_ + 1
  <1>1. /\ RbShape(t, Y) /\ t \in RbRecord /\ Laid(t.left, t.right, t.p, t.root_, Y)
        /\ N \subseteq R!RbNode /\ t.size_ \in Nat /\ N = 1..t.size_ /\ Y.n = t.size_
        /\ NULL \notin N
        /\ DOMAIN t.left = R!RbNode /\ DOMAIN t.right = R!RbNode /\ DOMAIN t.p = R!RbNode
        /\ DOMAIN t.color = R!RbNode \cup {NULL}
        /\ \A v \in R!RbNode \ N : t.left[v] = NULL /\ t.right[v] = NULL
    BY DEF RbFine, RbShape, RbLaid, RbRecord, Laid, PlacesOK
  <1>2. RbSize \in Nat /\ z \in R!RbNode /\ z \notin N /\ z # NULL /\ z <= RbSize
        /\ NULL \notin R!RbNode
    BY <1>1, TreeAssumption DEF R!RbNode, NULL
  <1> HIDE DEF z
  <1>3. RbHung(t, u, z, k, y)
    BY DEF z
  <1>4. PICK Z : /\ Laid(u.left, u.right, u.p, u.root_, Z)
                 /\ Nodes(Z) = N \cup {z} /\ Z.n = Y.n + 1 /\ Sorted(u.key, Z)
    BY <1>2, <1>3, HungLaid
  <1>5. IF t.root_ = NULL THEN N = {} /\ y = NULL ELSE y \in N /\ y # NULL
    BY DEF RbWhere
  <1>6. u \in RbRecord /\ u.size_ = t.size_ + 1 /\ u.root_ = IF y = NULL THEN z ELSE t.root_
    BY <1>3 DEF RbHung
  <1>7. \A v \in R!RbNode : /\ u.left[v] = t.left[v] \/ (v = y /\ u.left[v] = z /\ t.left[v] = NULL)
                            /\ u.right[v] = t.right[v] \/ (v = y /\ u.right[v] = z /\ t.right[v] = NULL)
                            /\ v # z => u.p[v] = t.p[v]
    <2>1. y # NULL => IF k < t.key[y] THEN t.left[y] = NULL ELSE t.right[y] = NULL
      BY <1>1, <1>5 DEF RbWhere, Under
    <2> QED BY <2>1, <1>1, <1>3 DEF RbHung
  <1>8. u.color[z] = "RED" /\ \A v \in N \cup {NULL} : u.color[v] = t.color[v]
    BY <1>1, <1>2, <1>3 DEF RbHung
  <1>9. RbShape(u, Z)
    <2>1. Nodes(Z) = 1..u.size_ /\ u.size_ \in Nat /\ u.size_ <= RbSize /\ Z.n = u.size_
      BY <1>1, <1>2, <1>4, <1>6 DEF z
    <2>2. \A v \in R!RbNode \ Nodes(Z) : u.left[v] = NULL /\ u.right[v] = NULL
      BY <1>1, <1>2, <1>4, <1>5, <1>7
    <2>3. RbLaid(u, Z)
      BY <1>1, <1>2, <1>4, <1>6 DEF RbLaid
    <2> QED BY <2>1, <2>2, <2>3, <1>4 DEF RbShape
  <1>10. PICK b : Colored(t.left, t.right, t.p, t.root_, t.color, b, N, NULL)
    BY DEF RbFine, Colours
  <1>11. /\ t.color[NULL] = "BLACK" /\ b[NULL] = 0
         /\ \A v \in N : /\ t.color[v] \in {"RED", "BLACK"} /\ b[v] \in Nat
                         /\ b[t.left[v]] = b[t.right[v]]
                         /\ b[v] = b[t.left[v]] + Weight(t.color[v])
         /\ \A v \in N : t.color[v] = "RED" => v # t.root_ /\ t.color[t.p[v]] = "BLACK"
    BY <1>1, <1>10 DEF Colored
  <1>12. \A v \in N : /\ t.left[v] \in N \cup {NULL} /\ t.right[v] \in N \cup {NULL}
                      /\ v # t.root_ => t.p[v] \in N
    BY <1>1, Family
  <1> DEFINE b2 == [v \in N \cup {NULL, z} |-> IF v = z THEN 0 ELSE b[v]]
  <1>13. /\ b2[NULL] = 0 /\ b2[z] = 0 /\ \A v \in N \cup {NULL} : b2[v] = b[v]
    BY <1>1, <1>2, <1>11
  <1> HIDE DEF b2
  <1>14. ASSUME NEW v \in N
         PROVE  b2[u.left[v]] = b[t.left[v]] /\ b2[u.right[v]] = b[t.right[v]]
    BY <1>1, <1>7, <1>11, <1>12, <1>13
  <1>15. ASSUME NEW v \in N \cup {z}
         PROVE  /\ u.color[v] \in {"RED", "BLACK"} /\ b2[v] \in Nat
                /\ b2[u.left[v]] = b2[u.right[v]]
                /\ b2[v] = b2[u.left[v]] + Weight(u.color[v])
    <2>1. CASE v = z
      <3>1. u.left[z] = NULL /\ u.right[z] = NULL
        BY <1>1, <1>2, <1>5, <1>7
      <3> QED BY <2>1, <3>1, <1>8, <1>13 DEF Weight
    <2>2. CASE v # z
      BY <2>2, <1>8, <1>11, <1>13, <1>14
    <2> QED BY <2>1, <2>2
  <1>16. ASSUME NEW v \in (N \cup {z}) \ {z}, u.color[v] = "RED"
         PROVE  v # u.root_ /\ u.color[u.p[v]] = "BLACK"
    <2>1. v \in N /\ t.color[v] = "RED" /\ v # t.root_ /\ t.color[t.p[v]] = "BLACK"
      BY <1>8, <1>11, <1>16
    <2>2. y # NULL /\ u.root_ = t.root_ /\ u.p[v] = t.p[v] /\ t.p[v] \in N
      BY <2>1, <1>1, <1>5, <1>6, <1>7, <1>12, <1>16
    <2> QED BY <2>1, <2>2, <1>8
  <1>17. Colored(u.left, u.right, u.p, u.root_, u.color, b2, Nodes(Z), z)
    <2>1. u.color[NULL] = "BLACK"
      BY <1>8, <1>11
    <2> QED BY <2>1, <1>4, <1>13, <1>15, <1>16 DEF Colored
  <1>18. Colours(u, Z, z) /\ z \in Nodes(Z)
    BY <1>4, <1>17 DEF Colours
  <1> QED BY <1>8, <1>9, <1>18 DEF RbLoop, z

\* All ways down from a node have the number of black nodes its colouring says.
LEMMA HeightsAre ==
    ASSUME NEW t, NEW Y, RbShape(t, Y), NEW b, NEW z,
           Colored(t.left, t.right, t.p, t.root_, t.color, b, Nodes(Y), z)
    PROVE  \A x \in Nodes(Y) \cup {NULL} : R!BlackHeights(t, x) = {b[x]}
  <1> DEFINE N == Nodes(Y)
             H(x) == R!BlackHeights(t, x)
             size == [n \in N |-> Y.hi[n] - Y.lo[n]]
             K == {n \in N : H(n) = {b[n]}}
  <1>1. /\ Laid(t.left, t.right, t.p, t.root_, Y) /\ PlacesOK(Y) /\ Grounded(t)
        /\ NULL \notin N /\ N \subseteq Place(t) /\ NULL \in Place(t)
    <2>1. Grounded(t) /\ DOMAIN t.left = R!RbNode
      BY RbGrounded DEF RbShape, RbLaid, RbRecord
    <2> QED BY <2>1 DEF RbShape, RbLaid, Laid, PlacesOK, Place
  <1>2. size \in [N -> Nat] /\ \A n \in N : size[n] = Y.hi[n] - Y.lo[n]
    BY <1>1 DEF PlacesOK
  <1>3. H(NULL) = {0}
    BY <1>1, BlackEquation
  <1>4. \A n \in N : H(n) = {h + (IF t.color[n] = "BLACK" THEN 1 ELSE 0) :
                                h \in H(t.left[n]) \cup H(t.right[n])}
    BY <1>1, BlackEquation
  <1> HIDE DEF H
  <1>5. /\ b[NULL] = 0
        /\ \A v \in N : /\ b[v] \in Nat /\ b[t.left[v]] = b[t.right[v]]
                        /\ b[v] = b[t.left[v]] + (IF t.color[v] = "BLACK" THEN 1 ELSE 0)
    BY DEF Colored, Weight
  <1>6. ASSUME NEW n \in N, \A c \in N : size[c] < size[n] => c \in K
        PROVE  n \in K
    <2> HIDE DEF size
    <2>1. ASSUME NEW c \in N, t.left[n] = c \/ t.right[n] = c
          PROVE  H(c) = {b[c]}
      <3>1. Y.hi[c] - Y.lo[c] + 1 <= Y.hi[n] - Y.lo[n]
        BY <2>1, <1>1, Wider
      <3>2. size[c] < size[n]
        BY <3>1, <1>1, <1>2 DEF PlacesOK
      <3> QED BY <3>2, <1>6
    <2>2. t.left[n] \in N \cup {NULL} /\ t.right[n] \in N \cup {NULL}
      BY <1>1, Family
    <2>3. H(t.left[n]) = {b[t.left[n]]} /\ H(t.right[n]) = {b[t.left[n]]}
      BY <2>1, <2>2, <1>3, <1>5
    <2> QED BY <2>3, <1>4, <1>5
  <1>7. \A n \in N : n \in K
    <2> HIDE DEF K, size, N
    <2> QED BY <1>2, <1>6, ByMeasure
  <1> QED BY <1>3, <1>5, <1>7 DEF H

\* The inductive invariant.
RbInv == \E Y : RbFine(rb, Y)

LEMMA RbInvInit == R!Init => RbInv
  <1> SUFFICES ASSUME R!Init PROVE RbInv
    OBVIOUS
  <1> DEFINE none == [x \in {} |-> 0]
             Y == [n |-> 0, pos |-> none, lo |-> none, hi |-> none]
             no == [x \in R!RbNode |-> NULL]
             b == [x \in {NULL} |-> 0]
  <1>1. rb = [size_ |-> 0, root_ |-> NULL, key |-> no, p |-> no, left |-> no, right |-> no,
              color |-> [x \in R!RbNode \cup {NULL} |-> "BLACK"]]
    BY RbLoops DEF R!Init
  <1>2. Nodes(Y) = {} /\ Y.n = 0
    BY DEF Nodes
  <1> HIDE DEF Y
  <1>3. rb \in RbRecord
    BY <1>1 DEF RbRecord, NULL
  <1>4. Laid(rb.left, rb.right, rb.p, rb.root_, Y)
    BY <1>1, <1>2 DEF Laid, PlacesOK, LeftOK, RightOK, ParentsOK, RootOK
  <1>5. RbShape(rb, Y)
    <2>1. rb.size_ = 0 /\ 0 <= RbSize /\ Nodes(Y) = 1..0 /\ Sorted(rb.key, Y)
      BY <1>1, <1>2, TreeAssumption DEF Sorted
    <2>2. \A v \in R!RbNode : rb.left[v] = NULL /\ rb.right[v] = NULL
      BY <1>1
    <2> QED BY <2>1, <2>2, <1>2, <1>3, <1>4 DEF RbShape, RbLaid
  <1>6. Colored(rb.left, rb.right, rb.p, rb.root_, rb.color, b, Nodes(Y), NULL)
    BY <1>1, <1>2 DEF Colored
  <1>7. Colours(rb, Y, NULL)
    BY <1>6 DEF Colours
  <1> QED BY <1>5, <1>7 DEF RbInv, RbFine

LEMMA RbInvNext == RbInv /\ [R!Next]_rb => RbInv'
  <1> SUFFICES ASSUME RbInv, [R!Next]_rb PROVE RbInv'
    OBVIOUS
  <1>1. PICK Y : RbFine(rb, Y)
    BY DEF RbInv
  <1>2. CASE UNCHANGED rb
    BY <1>1, <1>2 DEF RbInv
  <1>3. ASSUME NEW k \in RbKey, R!Insert(k)
        PROVE  RbInv'
    <2> DEFINE z == rb.size_ + 1
               y == RbSpot(rb, k)
    <2>1. rb.size_ < RbSize /\ rb' = R!Attach(rb, z, k) /\ k \in Int
      BY <1>3, TreeAssumption DEF R!Insert
    <2>2. RbShape(rb, Y) /\ rb \in RbRecord /\ z \in R!RbNode
      BY <1>1, <2>1, TreeAssumption DEF RbFine, RbShape, RbLaid, R!RbNode
    <2>3. RbWhere(rb, Y, k, y) /\ y \in R!RbNode \cup {NULL}
      BY <2>1, <2>2, RbSpotIs
    <2>4. PICK u : rb' = R!InsertFixup(u, z) /\ RbHung(rb, u, z, k, y)
      BY <2>1, <2>2, <2>3, RbAttachIs
    <2>5. PICK Z : RbLoop(u, z, Z)
      BY <1>1, <2>1, <2>3, <2>4, HungLoop
    <2>6. PICK W : RbFine(rb', W)
      BY <2>4, <2>5, FixupIs
    <2> QED BY <2>6 DEF RbInv, RbFine, RbShape, RbLaid, Colours
  <1> QED BY <1>2, <1>3 DEF R!Next

LEMMA RbInvRedBlack == RbInv => InsertionKeepsRedBlack
  <1> SUFFICES ASSUME RbInv PROVE InsertionKeepsRedBlack
    OBVIOUS
  <1> DEFINE w == R!WalkFrom(rb, rb.root_)
  <1>1. PICK Y : RbFine(rb, Y)
    BY DEF RbInv
  <1>2. PICK b : Colored(rb.left, rb.right, rb.p, rb.root_, rb.color, b, Nodes(Y), NULL)
    BY <1>1 DEF RbFine, Colours
  <1> DEFINE N == Nodes(Y)
  <1>0. RbShape(rb, Y)
    BY <1>1 DEF RbFine
  <1>3. /\ RbShape(rb, Y) /\ Laid(rb.left, rb.right, rb.p, rb.root_, Y) /\ PlacesOK(Y)
        /\ Grounded(rb) /\ Sorted(rb.key, Y) /\ N = 1..rb.size_ /\ Y.n = rb.size_
        /\ rb.size_ \in Nat /\ NULL \notin N /\ N \subseteq DOMAIN rb.left
    <2>1. RbShape(rb, Y) /\ Grounded(rb)
      BY <1>0, RbGrounded
    <2> QED BY <2>1 DEF RbShape, RbLaid, RbRecord, Laid, PlacesOK
  <1>4. Whole(w, Y)
    <2>1. w = WalkFrom(rb, rb.root_)
      BY RbLoops
    <2>2. Standing(rb, rb.p, rb.root_, Y)
      BY <1>3 DEF Standing
    <2> QED BY <2>1, <2>2, WholeWalk
  <1> HIDE DEF w
  <1>5. Len(w) = rb.size_ /\ \A x \in 1..rb.size_ : \E i \in DOMAIN w : w[i] = x
    BY <1>3, <1>4 DEF Whole
  <1>6. \A i \in 1..Len(w) - 1 : rb.key[w[i]] <= rb.key[w[i + 1]]
    <2>1. ASSUME NEW i \in 1..Len(w) - 1 PROVE rb.key[w[i]] <= rb.key[w[i + 1]]
      <3>1. i \in 1..Y.n /\ i + 1 \in 1..Y.n /\ i < i + 1
        BY <1>3, <1>4 DEF Whole
      <3>2. w[i] \in N /\ w[i + 1] \in N /\ Y.pos[w[i]] = i /\ Y.pos[w[i + 1]] = i + 1
        BY <3>1, <1>4 DEF Whole
      <3> QED BY <3>1, <3>2, <1>3 DEF Sorted
    <2> QED BY <2>1
  <1>7. \A x \in 1..rb.size_ : R!Search(rb, rb.key[x]) # NULL
    <2>1. ASSUME NEW x \in N PROVE R!Search(rb, rb.key[x]) # NULL
      <3> DEFINE k == rb.key[x]
                 r == SearchFrom(rb, rb.key, rb.root_, k)
      <3>1. R!Search(rb, k) = r
        BY RbLoops DEF R!Search
      <3>2. k \in Int
        BY <1>3 DEF Sorted
      <3>3. rb.root_ \in N /\ Y.lo[rb.root_] = 1 /\ Y.hi[rb.root_] = Y.n
        BY <1>3, RootIsNode
      <3>4. Ordered(rb, rb.key, rb.p, rb.root_, Y)
        BY <1>3 DEF Ordered
      <3>5. \/ r \in N /\ rb.key[r] = k
            \/ r = NULL /\ \A v \in N : 1 <= Y.pos[v] /\ Y.pos[v] <= Y.n => rb.key[v] # k
        BY <3>2, <3>3, <3>4, <1>3, SearchFinds
      <3>6. 1 <= Y.pos[x] /\ Y.pos[x] <= Y.n
        <4>1. PlacesOK(Y)
          BY <1>3
        <4> QED BY <4>1 DEF PlacesOK
      <3> QED BY <3>1, <3>5, <3>6, <1>3
    <2> QED BY <2>1, <1>3
  <1>8. /\ rb.color[NULL] = "BLACK"
        /\ \A v \in N : /\ rb.color[v] \in {"RED", "BLACK"}
                        /\ rb.color[v] = "RED" => v # rb.root_ /\ rb.color[rb.p[v]] = "BLACK"
    BY <1>2, <1>3 DEF Colored
  <1>9. rb.color[rb.root_] = "BLACK" /\ (rb.root_ # NULL => rb.p[rb.root_] = NULL)
    <2>1. rb.root_ \in N \cup {NULL}
      BY <1>3, RootIsNode
    <2> QED BY <2>1, <1>3, <1>8, Family
  <1>10. \A x \in 1..rb.size_ : \A c \in {rb.left[x], rb.right[x]} \ {NULL} :
            rb.p[c] = x /\ ~ (rb.color[x] = "RED" /\ rb.color[c] = "RED")
    <2>1. ASSUME NEW x \in N, NEW c \in {rb.left[x], rb.right[x]} \ {NULL}
          PROVE  c \in N /\ rb.p[c] = x
      BY <1>3, Family
    <2> QED BY <2>1, <1>3, <1>8
  <1>11. R!Cardinality(R!BlackHeights(rb, rb.root_)) = 1
    <2>1. rb.root_ \in N \cup {NULL}
      BY <1>3, RootIsNode
    <2>2. \A x \in N \cup {NULL} : R!BlackHeights(rb, x) = {b[x]}
      BY <1>0, <1>2, HeightsAre
    <2>3. R!BlackHeights(rb, rb.root_) = {b[rb.root_]}
      BY <2>1, <2>2
    <2>4. R!Cardinality({b[rb.root_]}) = Cardinality({b[rb.root_]})
      BY DEF R!Cardinality, Cardinality
    <2> QED BY <2>3, <2>4, FS_Singleton
  <1>12. R!nil_ = NULL
    BY RbLoops
  <1>13. R!RedBlack
    <2>1. w = R!WalkFrom(rb, rb.root_)
      BY DEF w
    <2> QED BY <2>1, <1>5, <1>6, <1>7, <1>8, <1>9, <1>10, <1>11, <1>12 DEF R!RedBlack
  <1> QED BY <1>13 DEF InsertionKeepsRedBlack

\* After every insertion, equal keys and chains of recolourings up to the root included,
\* the red-black tree has every node once in the order of the keys, finds every key, has
\* no red node under a red one and as many black nodes on all ways down (rb_tree.h).
THEOREM InsertionKeepsItRedBlack == R!Spec => []InsertionKeepsRedBlack
  <1> QED BY RbInvInit, RbInvNext, RbInvRedBlack, PTL DEF R!Spec
=============================================================================
