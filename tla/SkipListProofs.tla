--------------------------- MODULE SkipListProofs ---------------------------
(***************************************************************************)
(* The heap of SkipList, for any scores, members, addresses and number of  *)
(* levels: every node has a place, every link leads to the next place of   *)
(* its level, and its span is the distance.  What the walk of Insert and   *)
(* Delete computes follows by induction along the places.                  *)
(***************************************************************************)
EXTENDS SkipListProperties, FunctionTheorems, FiniteSetTheorems, SequenceTheorems,
        WellFoundedInduction, TLAPS

-----------------------------------------------------------------------------
(* Induction.                                                               *)

\* A nonempty set of natural numbers has a least element.
LEMMA LeastElement ==
    ASSUME NEW S \in SUBSET Nat, S # {}
    PROVE  \E i \in S : \A j \in S : i <= j
  <1> DEFINE Less == {p \in Nat \X Nat : p[1] < p[2]}
  <1>1. IsWellFoundedOn(Less, Nat)
    BY NatLessThanWellFounded DEF OpToRel
  <1>2. S \subseteq Nat
    OBVIOUS
  <1>3. \E i \in S : \A j \in S : <<j, i>> \notin Less
    <2> HIDE DEF Less
    <2> QED BY <1>1, <1>2, WFMin
  <1>4. PICK i \in S : \A j \in S : <<j, i>> \notin Less
    BY <1>3
  <1>5. ASSUME NEW j \in S PROVE i <= j
    <2>1. <<j, i>> \notin Less
      BY <1>4
    <2> QED BY <2>1, <1>2
  <1> QED BY <1>5

\* Induction over the natural numbers, for a set instead of a formula.
LEMMA Upward ==
    ASSUME NEW S, 0 \in S, \A n \in Nat : n \in S => n + 1 \in S
    PROVE  \A n \in Nat : n \in S
  <1> SUFFICES ASSUME Nat \ S # {} PROVE FALSE
    OBVIOUS
  <1>1. PICK n \in Nat \ S : \A k \in Nat \ S : n <= k
    BY LeastElement
  <1>2. n # 0 /\ n - 1 \in Nat /\ n - 1 \notin Nat \ S
    BY <1>1
  <1> QED BY <1>2

\* Induction down from n to 1.
LEMMA Downward ==
    ASSUME NEW n \in Nat, NEW S, n \in S, \A i \in 1..n - 1 : i + 1 \in S => i \in S
    PROVE  \A i \in 1..n : i \in S
  <1> DEFINE D == {d \in Nat : d < n => n - d \in S}
  <1>1. 0 \in D
    OBVIOUS
  <1>2. ASSUME NEW d \in Nat, d \in D PROVE d + 1 \in D
    <2> SUFFICES ASSUME d + 1 < n PROVE n - (d + 1) \in S
      OBVIOUS
    <2>1. n - (d + 1) \in 1..n - 1 /\ (n - (d + 1)) + 1 = n - d /\ n - d \in S
      BY <1>2
    <2> QED BY <2>1
  <1>3. \A d \in Nat : d \in D
    <2> HIDE DEF D
    <2> QED BY <1>1, <1>2, Upward
  <1>4. ASSUME NEW i \in 1..n PROVE i \in S
    <2>1. n - i \in Nat /\ n - i < n /\ n - (n - i) = i
      OBVIOUS
    <2> QED BY <2>1, <1>3
  <1> QED BY <1>4

\* f is defined from n downwards: F gives its value at i from the value at i + 1,
\* and first the one at n.
FromAbove(n, F, first, f) ==
    f = [i \in 1..n |-> F[i][IF i = n THEN first ELSE f[i + 1]]]

\* There is such a function.
LEMMA DownwardFunction ==
    ASSUME NEW n \in Nat, NEW F, NEW first
    PROVE  \E f : FromAbove(n, F, first, f)
  <1> DEFINE Part(d, f) ==
                f = [i \in (n - d)..n |-> F[i][IF i = n THEN first ELSE f[i + 1]]]
             D == {d \in Nat : \E f : Part(d, f)}
  <1>1. 0 \in D
    <2>1. Part(0, [i \in n..n |-> F[i][first]])
      OBVIOUS
    <2> QED BY <2>1
  <1>2. ASSUME NEW d \in Nat, d \in D PROVE d + 1 \in D
    <2>1. PICK f : Part(d, f)
      BY <1>2
    <2> DEFINE k == n - (d + 1)
               g == [i \in k..n |-> IF i = k THEN F[k][f[k + 1]] ELSE f[i]]
    <2>2. \A i \in k..n : g[i] = F[i][IF i = n THEN first ELSE g[i + 1]]
      <3> SUFFICES ASSUME NEW i \in k..n
                   PROVE  g[i] = F[i][IF i = n THEN first ELSE g[i + 1]]
        OBVIOUS
      <3>1. CASE i = k
        BY <3>1
      <3>2. CASE i # k
        <4>1. i \in (n - d)..n /\ (i # n => i + 1 \in (n - d)..n /\ i + 1 # k /\ i + 1 \in k..n)
          BY <3>2
        <4>2. g[i] = f[i] /\ (i # n => g[i + 1] = f[i + 1])
          BY <4>1, <3>2
        <4>3. f[i] = F[i][IF i = n THEN first ELSE f[i + 1]]
          BY <4>1, <2>1
        <4> QED BY <4>2, <4>3
      <3> QED BY <3>1, <3>2
    <2>3. g = [i \in k..n |-> g[i]]
      OBVIOUS
    <2>4. Part(d + 1, g)
      <3> HIDE DEF g
      <3>1. [i \in k..n |-> g[i]]
              = [i \in k..n |-> F[i][IF i = n THEN first ELSE g[i + 1]]]
        BY <2>2
      <3> QED BY <2>3, <3>1
    <2>5. \E h : Part(d + 1, h)
      <3> HIDE DEF g, Part
      <3> QED BY <2>4
    <2> QED BY <2>5
  <1>3. \A d \in Nat : d \in D
    <2> HIDE DEF D
    <2> QED BY <1>1, <1>2, Upward
  <1>4. CASE n = 0
    <2>1. FromAbove(n, F, first, [i \in 1..n |-> first])
      BY <1>4 DEF FromAbove
    <2> QED BY <2>1
  <1>5. CASE n # 0
    <2>1. n - 1 \in D /\ n - (n - 1) = 1
      BY <1>5, <1>3
    <2>2. PICK f : Part(n - 1, f)
      BY <2>1
    <2>3. FromAbove(n, F, first, f)
      BY <2>1, <2>2 DEF FromAbove
    <2> QED BY <2>3
  <1> QED BY <1>4, <1>5

-----------------------------------------------------------------------------
(* The invariant.  pos is the place of each node, the head's 0, and N the   *)
(* number of elements.                                                      *)

Tall(L, n, i) == n \in DOMAIN L.node /\ i \in DOMAIN L.node[n].level

\* Types, and that towers have no gaps.
NodesOK(L) ==
    /\ head_ \in DOMAIN L.node /\ Elements(L) \subseteq Node
    /\ L.level \in 1..MaxLevel /\ L.lenth \in Nat
    /\ \A n \in Elements(L) : L.node[n].score \in Score /\ L.node[n].val \in Member
    /\ DOMAIN L.node[head_].level = 1..MaxLevel
    /\ \A n \in Elements(L) : \E h \in 1..MaxLevel : DOMAIN L.node[n].level = 1..h
    /\ \A n \in DOMAIN L.node : \A i \in DOMAIN L.node[n].level :
          L.node[n].level[i] \in [forward : Elements(L) \cup {NULL}, span : Nat]

\* Every node has one place and every place one node; lenth_ may be too high.
PlacesOK(L, pos, N) ==
    /\ N \in Nat /\ pos \in [DOMAIN L.node -> 0..N] /\ pos[head_] = 0
    /\ \A n, o \in DOMAIN L.node : pos[n] = pos[o] => n = o
    /\ \A k \in 0..N : \E n \in DOMAIN L.node : pos[n] = k
    /\ N <= L.lenth

Ordered(L, pos) ==
    \A n, o \in Elements(L) : pos[n] < pos[o] => L.node[n].score <= L.node[o].score

\* A link leads to the next place of its level, over the distance its span
\* says.  A span that leads nowhere is at least the distance to the end: Insert
\* and DeleteNode take from it what a new link or a node under it needs.
LinkOK(L, pos, N, n, i) ==
    /\ Forward(L, n, i) = NULL =>
          /\ \A o \in DOMAIN L.node : Tall(L, o, i) => pos[o] <= pos[n]
          /\ i <= L.level => N - pos[n] <= Span(L, n, i)
    /\ Forward(L, n, i) # NULL =>
          /\ Tall(L, Forward(L, n, i), i)
          /\ pos[n] < pos[Forward(L, n, i)]
          /\ Span(L, n, i) = pos[Forward(L, n, i)] - pos[n]
          /\ \A o \in DOMAIN L.node :
                Tall(L, o, i) => pos[o] <= pos[n] \/ pos[Forward(L, n, i)] <= pos[o]

Linked(L, pos, N) ==
    /\ \A n \in DOMAIN L.node : \A i \in DOMAIN L.node[n].level : LinkOK(L, pos, N, n, i)
    /\ \A i \in L.level + 1..MaxLevel : Forward(L, head_, i) = NULL

\* backward and tail_ by place.
Mirrored(L, pos, N) ==
    /\ N = 0 => L.tail = NULL
    /\ N > 0 => L.tail \in Elements(L) /\ pos[L.tail] = N
    /\ \A n \in Elements(L) :
          /\ pos[n] = 1 => L.node[n].backward = NULL
          /\ pos[n] > 1 => /\ L.node[n].backward \in Elements(L)
                           /\ pos[L.node[n].backward] = pos[n] - 1

Laid(L, pos, N) ==
    /\ NodesOK(L) /\ PlacesOK(L, pos, N) /\ Ordered(L, pos)
    /\ Linked(L, pos, N) /\ Mirrored(L, pos, N)

-----------------------------------------------------------------------------
(* The walk.                                                                *)

Beyond(L, i, at) ==
    [node |-> Forward(L, at.node, i), rank |-> at.rank + Span(L, at.node, i)]

GoesOn(L, i, on, at) == Forward(L, at.node, i) # NULL /\ at \in on

LEMMA BeyondIsFurther ==
    ASSUME NEW L, NEW pos, NEW N, NodesOK(L), PlacesOK(L, pos, N), Linked(L, pos, N),
           NEW i \in 1..MaxLevel, NEW at \in Spot(L, i), Forward(L, at.node, i) # NULL
    PROVE  /\ Beyond(L, i, at) \in Spot(L, i)
           /\ at.node \in DOMAIN L.node /\ Tall(L, at.node, i) /\ at.rank \in Nat
           /\ Beyond(L, i, at).node = Forward(L, at.node, i)
           /\ pos[at.node] < pos[Forward(L, at.node, i)]
           /\ pos[at.node] \in 0..N /\ pos[Forward(L, at.node, i)] \in 0..N
           /\ Beyond(L, i, at).rank = at.rank + (pos[Forward(L, at.node, i)] - pos[at.node])
  <1>1. /\ at.node \in DOMAIN L.node /\ Tall(L, at.node, i) /\ at.rank \in Nat
        /\ i \in DOMAIN L.node[at.node].level
    BY DEF Spot, Tall
  <1>2. LinkOK(L, pos, N, at.node, i)
    BY <1>1 DEF Linked
  <1>3. /\ Tall(L, Forward(L, at.node, i), i)
        /\ pos[at.node] < pos[Forward(L, at.node, i)]
        /\ Span(L, at.node, i) = pos[Forward(L, at.node, i)] - pos[at.node]
    BY <1>2 DEF LinkOK
  <1>4. /\ pos[at.node] \in 0..N /\ pos[Forward(L, at.node, i)] \in 0..N /\ N \in Nat
        /\ Forward(L, at.node, i) \in DOMAIN L.node
    BY <1>1, <1>3 DEF PlacesOK, Tall
  <1>5. at.rank + Span(L, at.node, i) \in Nat
    BY <1>1, <1>3, <1>4
  <1>6. Beyond(L, i, at) \in Spot(L, i)
    BY <1>3, <1>5 DEF Beyond, Spot, Tall
  <1> QED
    BY <1>1, <1>3, <1>4, <1>6 DEF Beyond

\* Along is what its definition says: the places give the recursion an end.
LEMMA AlongEquation ==
    ASSUME NEW L, NEW pos, NEW N, NodesOK(L), PlacesOK(L, pos, N), Linked(L, pos, N),
           NEW i \in 1..MaxLevel, NEW on
    PROVE  Along(L, i, on) =
              [at \in Spot(L, i) |-> IF GoesOn(L, i, on, at)
                                     THEN Along(L, i, on)[Beyond(L, i, at)] ELSE at]
  <1> DEFINE From(f, at) == IF GoesOn(L, i, on, at) THEN f[Beyond(L, i, at)] ELSE at
             Upto(k, f) == \A at \in Spot(L, i) : N - pos[at.node] < k => f[at] = From(f, at)
             K == {k \in Nat : \E f : Upto(k, f)}
  <1>1. \A at \in Spot(L, i) : pos[at.node] \in 0..N /\ N \in Nat
    BY DEF Spot, PlacesOK
  <1>2. 0 \in K
    <2>1. Upto(0, << >>)
      BY <1>1
    <2>2. \E f : Upto(0, f)
      <3> HIDE DEF Upto
      <3> QED BY <2>1
    <2> QED BY <2>2
  <1>3. ASSUME NEW k \in Nat, k \in K PROVE k + 1 \in K
    <2>1. PICK f : Upto(k, f)
      BY <1>3
    <2> DEFINE g == [at \in Spot(L, i) |-> IF N - pos[at.node] < k THEN f[at]
                                           ELSE From(f, at)]
    <2>2. ASSUME NEW at \in Spot(L, i), N - pos[at.node] < k + 1
          PROVE  g[at] = From(g, at)
      <3>1. CASE ~ GoesOn(L, i, on, at)
        <4>1. From(f, at) = at /\ From(g, at) = at
          BY <3>1
        <4>2. N - pos[at.node] < k => f[at] = From(f, at)
          BY <2>1
        <4> HIDE DEF From
        <4> QED BY <4>1, <4>2
      <3>2. CASE GoesOn(L, i, on, at)
        <4>1. /\ Beyond(L, i, at) \in Spot(L, i)
              /\ pos[at.node] < pos[Beyond(L, i, at).node]
              /\ pos[Beyond(L, i, at).node] \in 0..N
          BY <3>2, BeyondIsFurther DEF GoesOn
        <4>2. N - pos[Beyond(L, i, at).node] < k
          BY <4>1, <1>1, <2>2
        <4>3. g[Beyond(L, i, at)] = f[Beyond(L, i, at)]
          BY <4>1, <4>2
        <4>4. From(f, at) = f[Beyond(L, i, at)] /\ From(g, at) = g[Beyond(L, i, at)]
          BY <3>2
        <4>5. N - pos[at.node] < k => f[at] = From(f, at)
          BY <2>1
        <4>6. g[at] = IF N - pos[at.node] < k THEN f[at] ELSE From(f, at)
          OBVIOUS
        <4> HIDE DEF g, From
        <4> QED BY <4>3, <4>4, <4>5, <4>6
      <3> QED BY <3>1, <3>2
    <2>3. Upto(k + 1, g)
      <3> HIDE DEF g, From
      <3> QED BY <2>2
    <2>4. \E h : Upto(k + 1, h)
      <3> HIDE DEF g, Upto
      <3> QED BY <2>3
    <2> QED BY <2>4
  <1>4. \A k \in Nat : k \in K
    <2> HIDE DEF K
    <2> QED BY <1>2, <1>3, Upward
  <1>5. PICK f : Upto(N + 1, f)
    <2>1. N + 1 \in Nat
      BY DEF PlacesOK
    <2> QED BY <2>1, <1>4
  <1> DEFINE g == [at \in Spot(L, i) |-> f[at]]
  <1>6. ASSUME NEW at \in Spot(L, i) PROVE g[at] = From(g, at)
    <2>1. f[at] = From(f, at)
      BY <1>5, <1>1
    <2>2. CASE GoesOn(L, i, on, at)
      <3>1. Beyond(L, i, at) \in Spot(L, i)
        BY <2>2, BeyondIsFurther DEF GoesOn
      <3> QED BY <2>1, <2>2, <3>1
    <2>3. CASE ~ GoesOn(L, i, on, at)
      BY <2>1, <2>3
    <2> QED BY <2>2, <2>3
  <1>7. g = [at \in Spot(L, i) |-> From(g, at)]
    <2>1. [at \in Spot(L, i) |-> g[at]] = [at \in Spot(L, i) |-> From(g, at)]
      <3> HIDE DEF g, From
      <3> QED BY <1>6
    <2>2. g = [at \in Spot(L, i) |-> g[at]]
      OBVIOUS
    <2> QED BY <2>1, <2>2
  <1>8. \E h : h = [at \in Spot(L, i) |-> From(h, at)]
    <2> HIDE DEF g, From
    <2> QED BY <1>7
  <1>9. Along(L, i, on) = CHOOSE h : h = [at \in Spot(L, i) |-> From(h, at)]
    BY DEF Along, GoesOn, Beyond
  <1> HIDE DEF From
  <1>10. Along(L, i, on) = [at \in Spot(L, i) |-> From(Along(L, i, on), at)]
    BY <1>8, <1>9
  <1> QED
    BY <1>10 DEF From

\* What the loop along a level does: it ends at a spot where it may not go on,
\* every node of the level it went over was stepped on from one where it might,
\* and the rank has grown by the distance.
WalkOK(L, pos, i, on, at, r) ==
    /\ r \in Spot(L, i)
    /\ pos[at.node] <= pos[r.node]
    /\ r.rank = at.rank + (pos[r.node] - pos[at.node])
    /\ Forward(L, r.node, i) = NULL \/ r \notin on
    /\ \A v \in DOMAIN L.node :
          Tall(L, v, i) /\ pos[at.node] < pos[v] /\ pos[v] <= pos[r.node] =>
            \E w \in DOMAIN L.node :
                /\ Tall(L, w, i) /\ Forward(L, w, i) = v /\ pos[at.node] <= pos[w]
                /\ [node |-> w, rank |-> at.rank + (pos[w] - pos[at.node])] \in on

LEMMA AlongWalks ==
    ASSUME NEW L, NEW pos, NEW N, NodesOK(L), PlacesOK(L, pos, N), Linked(L, pos, N),
           NEW i \in 1..MaxLevel, NEW on
    PROVE  \A at \in Spot(L, i) : WalkOK(L, pos, i, on, at, Along(L, i, on)[at])
  <1> DEFINE A == Along(L, i, on)
             K == {k \in Nat : \A at \in Spot(L, i) :
                      N - pos[at.node] < k => WalkOK(L, pos, i, on, at, A[at])}
  <1>1. ASSUME NEW at \in Spot(L, i)
        PROVE  /\ pos[at.node] \in 0..N /\ N \in Nat
               /\ at.rank \in Nat /\ at.node \in DOMAIN L.node /\ Tall(L, at.node, i)
               /\ at = [node |-> at.node, rank |-> at.rank]
    BY DEF Spot, PlacesOK, Tall
  <1>2. 0 \in K
    BY <1>1
  <1>3. ASSUME NEW k \in Nat, k \in K PROVE k + 1 \in K
    <2> SUFFICES ASSUME NEW at \in Spot(L, i), N - pos[at.node] < k + 1
                 PROVE  WalkOK(L, pos, i, on, at, A[at])
      OBVIOUS
    <2>1. A[at] = IF GoesOn(L, i, on, at) THEN A[Beyond(L, i, at)] ELSE at
      <3> HIDE DEF A
      <3>1. A = [a \in Spot(L, i) |-> IF GoesOn(L, i, on, a) THEN A[Beyond(L, i, a)] ELSE a]
        BY AlongEquation DEF A
      <3> QED BY <3>1
    <2> HIDE DEF A
    <2>2. CASE ~ GoesOn(L, i, on, at)
      <3>1. A[at] = at
        BY <2>1, <2>2
      <3>2. \A v \in DOMAIN L.node : pos[v] \in Nat
        BY DEF PlacesOK
      <3>3. ~ (Forward(L, at.node, i) # NULL /\ at \in on)
        BY <2>2 DEF GoesOn
      <3>4. pos[at.node] \in Nat /\ at.rank \in Nat
        BY <1>1
      <3>5. WalkOK(L, pos, i, on, at, at)
        BY <3>2, <3>3, <3>4 DEF WalkOK
      <3> QED BY <3>1, <3>5
    <2>3. CASE GoesOn(L, i, on, at)
      <3> DEFINE b == Beyond(L, i, at)
                 r == A[b]
      <3>1. /\ b \in Spot(L, i) /\ b.node = Forward(L, at.node, i)
            /\ pos[at.node] < pos[b.node]
            /\ b.rank = at.rank + (pos[b.node] - pos[at.node])
        BY <2>3, BeyondIsFurther DEF GoesOn
      <3>2. A[at] = r
        BY <2>1, <2>3
      <3>3. /\ pos[b.node] \in 0..N /\ pos[at.node] \in 0..N /\ N \in Nat
            /\ at.rank \in Nat /\ b.rank \in Nat
            /\ at.node \in DOMAIN L.node /\ Tall(L, at.node, i)
            /\ at = [node |-> at.node, rank |-> at.rank]
        BY <1>1, <3>1
      <3>4. at \in on /\ Forward(L, at.node, i) # NULL
        BY <2>3 DEF GoesOn
      <3> HIDE DEF b
      <3>5. N - pos[b.node] < k
        BY <3>1, <3>3
      <3>6. WalkOK(L, pos, i, on, b, r)
        BY <1>3, <3>1, <3>5
      <3> HIDE DEF r
      <3>7. pos[r.node] \in Nat
        BY <3>6, <1>1 DEF WalkOK
      <3>8. ASSUME NEW v \in DOMAIN L.node, Tall(L, v, i),
                   pos[at.node] < pos[v], pos[v] <= pos[r.node]
            PROVE  \E w \in DOMAIN L.node :
                      /\ Tall(L, w, i) /\ Forward(L, w, i) = v /\ pos[at.node] <= pos[w]
                      /\ [node |-> w, rank |-> at.rank + (pos[w] - pos[at.node])] \in on
        <4>1. LinkOK(L, pos, N, at.node, i)
          BY <3>3 DEF Linked, Tall
        <4>2. pos[b.node] <= pos[v]
          <5>1. pos[v] <= pos[at.node] \/ pos[b.node] <= pos[v]
            BY <4>1, <3>1, <3>4, <3>8 DEF LinkOK
          <5>2. pos[v] \in Nat
            BY DEF PlacesOK
          <5> QED BY <5>1, <5>2, <3>3, <3>8
        <4>3. CASE pos[b.node] = pos[v]
          <5>1. b.node = v
            BY <4>3, <1>1, <3>1 DEF PlacesOK
          <5>2. [node |-> at.node, rank |-> at.rank + (pos[at.node] - pos[at.node])] = at
            BY <3>3
          <5> QED BY <5>1, <5>2, <3>1, <3>3, <3>4
        <4>4. CASE pos[b.node] # pos[v]
          <5>1. pos[v] \in Nat
            BY DEF PlacesOK
          <5>2. pos[b.node] < pos[v]
            BY <4>2, <4>4, <5>1, <3>3
          <5>3. PICK w \in DOMAIN L.node :
                      /\ Tall(L, w, i) /\ Forward(L, w, i) = v /\ pos[b.node] <= pos[w]
                      /\ [node |-> w, rank |-> b.rank + (pos[w] - pos[b.node])] \in on
            BY <5>2, <3>6, <3>8 DEF WalkOK
          <5>4. pos[w] \in Nat
            BY DEF PlacesOK
          <5>5. b.rank + (pos[w] - pos[b.node]) = at.rank + (pos[w] - pos[at.node])
            BY <3>1, <3>3, <5>4
          <5>6. pos[at.node] <= pos[w]
            BY <3>1, <3>3, <5>3, <5>4
          <5> QED BY <5>3, <5>5, <5>6
        <4> QED BY <4>3, <4>4
      <3>9. WalkOK(L, pos, i, on, at, r)
        <4>1. pos[at.node] <= pos[r.node]
          BY <3>6, <3>1, <3>3, <3>7 DEF WalkOK
        <4>2. r.rank = at.rank + (pos[r.node] - pos[at.node])
          <5>1. r.rank = b.rank + (pos[r.node] - pos[b.node])
            BY <3>6 DEF WalkOK
          <5> QED BY <5>1, <3>1, <3>3, <3>7
        <4>3. r \in Spot(L, i) /\ (Forward(L, r.node, i) = NULL \/ r \notin on)
          BY <3>6 DEF WalkOK
        <4> QED BY <4>1, <4>2, <4>3, <3>8 DEF WalkOK
      <3> QED BY <3>2, <3>9
    <2> QED BY <2>2, <2>3
  <1>4. \A k \in Nat : k \in K
    <2> HIDE DEF K
    <2> QED BY <1>2, <1>3, Upward
  <1>5. ASSUME NEW at \in Spot(L, i) PROVE WalkOK(L, pos, i, on, at, A[at])
    <2>1. N - pos[at.node] < N + 1 /\ N + 1 \in Nat
      BY <1>1
    <2>2. N + 1 \in K
      BY <2>1, <1>4
    <2> QED BY <2>1, <2>2
  <1> QED BY <1>5

\* Descend is what its definition says.
LEMMA DescendEquation ==
    ASSUME NEW L, L.level \in Nat, NEW On
    PROVE  Descend(L, On) =
              [i \in 1..L.level |->
                  Along(L, i, On[i])[IF i = L.level THEN [node |-> head_, rank |-> 0]
                                     ELSE Descend(L, On)[i + 1]]]
  <1> DEFINE top == [node |-> head_, rank |-> 0]
             F == [i \in 1..L.level |-> Along(L, i, On[i])]
             From(f, i) == Along(L, i, On[i])[IF i = L.level THEN top ELSE f[i + 1]]
  <1>1. PICK f : f = [i \in 1..L.level |-> F[i][IF i = L.level THEN top ELSE f[i + 1]]]
    <2> HIDE DEF F, top
    <2>1. \E f : FromAbove(L.level, F, top, f)
      BY DownwardFunction
    <2> QED BY <2>1 DEF FromAbove
  <1>2. [i \in 1..L.level |-> F[i][IF i = L.level THEN top ELSE f[i + 1]]]
          = [i \in 1..L.level |-> From(f, i)]
    OBVIOUS
  <1>3. f = [i \in 1..L.level |-> From(f, i)]
    BY <1>1, <1>2
  <1>4. \E h : h = [i \in 1..L.level |-> From(h, i)]
    <2> HIDE DEF From
    <2> QED BY <1>3
  <1>5. Descend(L, On) = CHOOSE h : h = [i \in 1..L.level |-> From(h, i)]
    BY DEF Descend
  <1> HIDE DEF From
  <1>6. Descend(L, On) = [i \in 1..L.level |-> From(Descend(L, On), i)]
    BY <1>4, <1>5
  <1> QED
    BY <1>6 DEF From

\* Where the walk comes to level i.
Start(L, path, i) == IF i = L.level THEN [node |-> head_, rank |-> 0] ELSE path[i + 1]

LEMMA TallDown ==
    ASSUME NEW L, NodesOK(L), NEW n, NEW i, Tall(L, n, i), NEW k \in 1..i
    PROVE  Tall(L, n, k) /\ i \in 1..MaxLevel /\ k \in 1..MaxLevel
  <1>1. PICK h \in 1..MaxLevel : DOMAIN L.node[n].level = 1..h
    <2>1. CASE n = head_
      BY <2>1, LevelAssumption DEF NodesOK
    <2>2. CASE n # head_
      BY <2>2 DEF NodesOK, Elements, Tall
    <2> QED BY <2>1, <2>2
  <1>2. MaxLevel \in Nat
    BY LevelAssumption
  <1>3. i \in 1..h /\ n \in DOMAIN L.node
    BY <1>1 DEF Tall
  <1> QED
    BY <1>1, <1>2, <1>3 DEF Tall

\* On every level the walk of Descend is one of Along, and ranks are places.
LEMMA DescendWalks ==
    ASSUME NEW L, NEW pos, NEW N, NodesOK(L), PlacesOK(L, pos, N), Linked(L, pos, N), NEW On
    PROVE  \A i \in 1..L.level : LET path == Descend(L, On) IN
              /\ path[i] \in Spot(L, i) /\ path[i].rank = pos[path[i].node]
              /\ Start(L, path, i) \in Spot(L, i)
              /\ Start(L, path, i).rank = pos[Start(L, path, i).node]
              /\ WalkOK(L, pos, i, On[i], Start(L, path, i), path[i])
  <1> DEFINE path == Descend(L, On)
             Placed(i, at) == at \in Spot(L, i) /\ at.rank = pos[at.node]
             S == {i \in 1..L.level : Placed(i, path[i])}
  <1>1. L.level \in 1..MaxLevel /\ L.level \in Nat /\ MaxLevel \in Nat
    BY LevelAssumption DEF NodesOK
  <1>2. \A i \in 1..L.level : path[i] = Along(L, i, On[i])[Start(L, path, i)]
    BY <1>1, DescendEquation DEF Start
  <1> HIDE DEF path
  <1>3. ASSUME NEW i \in 1..L.level, Placed(i, Start(L, path, i))
        PROVE  /\ WalkOK(L, pos, i, On[i], Start(L, path, i), path[i])
               /\ Placed(i, path[i])
    <2>1. i \in 1..MaxLevel
      BY <1>1
    <2>2. WalkOK(L, pos, i, On[i], Start(L, path, i), path[i])
      BY <2>1, <1>2, <1>3, AlongWalks
    <2>3. pos[path[i].node] \in Nat /\ pos[Start(L, path, i).node] \in Nat
      BY <2>2, <1>3 DEF WalkOK, Spot, PlacesOK
    <2>4. path[i].rank = pos[path[i].node]
      BY <2>2, <2>3, <1>3 DEF WalkOK
    <2> QED BY <2>2, <2>4 DEF WalkOK
  <1>4. ASSUME NEW i \in 1..L.level, i # L.level => i + 1 \in S
        PROVE  Placed(i, Start(L, path, i))
    <2>1. CASE i = L.level
      <3>1. i \in 1..MaxLevel
        BY <1>1
      <3>2. head_ \in DOMAIN L.node /\ DOMAIN L.node[head_].level = 1..MaxLevel
        BY DEF NodesOK
      <3>3. Start(L, path, i) = [node |-> head_, rank |-> 0] /\ pos[head_] = 0
        BY <2>1 DEF Start, PlacesOK
      <3>4. [node |-> head_, rank |-> 0] \in Spot(L, i)
        BY <3>1, <3>2 DEF Spot
      <3> QED BY <3>3, <3>4
    <2>2. CASE i # L.level
      <3>1. Placed(i + 1, path[i + 1]) /\ Start(L, path, i) = path[i + 1]
        BY <2>2, <1>4 DEF Start
      <3>2. Tall(L, path[i + 1].node, i + 1)
        BY <3>1 DEF Spot, Tall
      <3>3. Tall(L, path[i + 1].node, i)
        BY <3>2, TallDown
      <3> QED BY <3>1, <3>3 DEF Spot, Tall
    <2> QED BY <2>1, <2>2
  <1>5. \A i \in 1..L.level : i \in S
    <2>1. CASE L.level = 0
      BY <2>1
    <2>2. CASE L.level # 0
      <3>1. L.level \in S
        <4>1. L.level \in 1..L.level
          BY <1>1, <2>2
        <4> QED BY <4>1, <1>3, <1>4
      <3>2. ASSUME NEW i \in 1..L.level - 1, i + 1 \in S PROVE i \in S
        <4>1. i \in 1..L.level
          BY <1>1
        <4> QED BY <4>1, <3>2, <1>3, <1>4
      <3> HIDE DEF S
      <3> QED BY <1>1, <3>1, <3>2, Downward
    <2> QED BY <2>1, <2>2
  <1>6. ASSUME NEW i \in 1..L.level
        PROVE  /\ Placed(i, path[i]) /\ Placed(i, Start(L, path, i))
               /\ WalkOK(L, pos, i, On[i], Start(L, path, i), path[i])
    <2>1. i # L.level => i + 1 \in 1..L.level
      BY <1>1
    <2> QED BY <2>1, <1>3, <1>4, <1>5
  <1> QED
    BY <1>6 DEF path

\* The walk is at the head, or it went onto the node it is at from a spot where
\* the test held.
Entered(L, pos, On, n) ==
    \E k \in 1..L.level : \E w \in DOMAIN L.node :
        /\ Tall(L, w, k) /\ Forward(L, w, k) = n
        /\ [node |-> w, rank |-> pos[w]] \in On[k]

LEMMA DescendEnters ==
    ASSUME NEW L, NEW pos, NEW N, NodesOK(L), PlacesOK(L, pos, N), Linked(L, pos, N), NEW On
    PROVE  \A i \in 1..L.level :
              Descend(L, On)[i].node = head_ \/ Entered(L, pos, On, Descend(L, On)[i].node)
  <1> DEFINE path == Descend(L, On)
             In(n) == n = head_ \/ Entered(L, pos, On, n)
             S == {i \in 1..L.level : In(path[i].node)}
  <1>1. L.level \in Nat /\ L.level \in 1..L.level /\ L.level # 0
    BY LevelAssumption DEF NodesOK
  <1>2. \A i \in 1..L.level :
              /\ path[i] \in Spot(L, i) /\ path[i].rank = pos[path[i].node]
              /\ Start(L, path, i) \in Spot(L, i)
              /\ Start(L, path, i).rank = pos[Start(L, path, i).node]
              /\ WalkOK(L, pos, i, On[i], Start(L, path, i), path[i])
    BY DescendWalks
  <1> HIDE DEF path
  <1>3. ASSUME NEW i \in 1..L.level, In(Start(L, path, i).node)
        PROVE  In(path[i].node)
    <2> DEFINE at == Start(L, path, i)
               r == path[i]
    <2>1. /\ at \in Spot(L, i) /\ r \in Spot(L, i) /\ at.rank = pos[at.node]
          /\ WalkOK(L, pos, i, On[i], at, r)
      BY <1>2
    <2> HIDE DEF at, r
    <2>2. /\ at.node \in DOMAIN L.node /\ r.node \in DOMAIN L.node /\ Tall(L, r.node, i)
          /\ pos[at.node] \in Nat /\ pos[r.node] \in Nat
      BY <2>1 DEF Spot, Tall, PlacesOK
    <2>3. CASE pos[at.node] = pos[r.node]
      <3>1. at.node = r.node
        BY <2>2, <2>3 DEF PlacesOK
      <3> QED BY <3>1, <1>3 DEF at, r
    <2>4. CASE pos[at.node] # pos[r.node]
      <3>1. pos[at.node] < pos[r.node] /\ pos[r.node] <= pos[r.node]
        BY <2>1, <2>2, <2>4 DEF WalkOK
      <3>2. PICK w \in DOMAIN L.node :
                /\ Tall(L, w, i) /\ Forward(L, w, i) = r.node
                /\ [node |-> w, rank |-> at.rank + (pos[w] - pos[at.node])] \in On[i]
        BY <3>1, <2>1, <2>2 DEF WalkOK
      <3>3. at.rank + (pos[w] - pos[at.node]) = pos[w]
        <4>1. pos[w] \in Nat
          BY DEF PlacesOK
        <4> QED BY <4>1, <2>1, <2>2
      <3>4. Entered(L, pos, On, r.node)
        BY <3>2, <3>3 DEF Entered
      <3> QED BY <3>4 DEF r
    <2> QED BY <2>3, <2>4
  <1>4. L.level \in S
    <2>1. Start(L, path, L.level).node = head_
      BY DEF Start
    <2> QED BY <2>1, <1>1, <1>3
  <1>5. ASSUME NEW i \in 1..L.level - 1, i + 1 \in S PROVE i \in S
    <2>1. i \in 1..L.level /\ i # L.level
      BY <1>1
    <2>2. Start(L, path, i).node = path[i + 1].node
      BY <2>1 DEF Start
    <2> QED BY <2>1, <2>2, <1>3, <1>5
  <1>6. \A i \in 1..L.level : i \in S
    <2> HIDE DEF S
    <2> QED BY <1>1, <1>4, <1>5, Downward
  <1> QED
    BY <1>6 DEF path

\* A walk onto nodes of P, which Insert and Delete do: it ends on every level
\* before a node not in P, and the ends of the lower levels are not past that.
LEMMA DescendOnto ==
    ASSUME NEW L, NEW pos, NEW N, NodesOK(L), PlacesOK(L, pos, N), Linked(L, pos, N), NEW P
    PROVE  \A i \in 1..L.level : LET path == Descend(L, Onto(L, P)) IN
              /\ Tall(L, path[i].node, i)
              /\ path[i].rank = pos[path[i].node]
              /\ path[i].node = head_ \/ path[i].node \in P
              /\ pos[path[i].node] <= pos[path[1].node]
              /\ Forward(L, path[i].node, i) # NULL =>
                    /\ Forward(L, path[i].node, i) \notin P
                    /\ pos[path[1].node] < pos[Forward(L, path[i].node, i)]
  <1> DEFINE On == Onto(L, P)
             path == Descend(L, On)
             End(i) == path[i].node
             Next(i) == Forward(L, End(i), i)
  <1>1. L.level \in Nat /\ L.level \in 1..MaxLevel /\ L.level # 0 /\ MaxLevel \in Nat
    BY LevelAssumption DEF NodesOK
  <1>2. \A i \in 1..L.level :
              /\ path[i] \in Spot(L, i) /\ path[i].rank = pos[path[i].node]
              /\ Start(L, path, i) \in Spot(L, i)
              /\ Start(L, path, i).rank = pos[Start(L, path, i).node]
              /\ WalkOK(L, pos, i, On[i], Start(L, path, i), path[i])
    BY DescendWalks
  <1>3. \A i \in 1..L.level : End(i) = head_ \/ Entered(L, pos, On, End(i))
    BY DescendEnters
  <1>4. \A i \in 1..L.level : On[i] = {at \in Spot(L, i) : Forward(L, at.node, i) \in P}
    BY <1>1 DEF Onto
  <1> HIDE DEF path, On
  <1>5. ASSUME NEW i \in 1..L.level
        PROVE  /\ Tall(L, End(i), i) /\ End(i) \in DOMAIN L.node /\ pos[End(i)] \in Nat
               /\ End(i) = head_ \/ End(i) \in P
               /\ Next(i) # NULL => Next(i) \notin P
               /\ Next(i) # NULL => pos[End(i)] < pos[Next(i)]
               /\ Next(i) # NULL => Tall(L, Next(i), i) /\ pos[Next(i)] \in Nat
    <2>1. Tall(L, End(i), i) /\ End(i) \in DOMAIN L.node
      BY <1>2 DEF Spot, Tall
    <2>2. Next(i) # NULL => Next(i) \notin P
      BY <1>2, <1>4 DEF WalkOK
    <2>3. End(i) = head_ \/ End(i) \in P
      <3>1. ASSUME Entered(L, pos, On, End(i)) PROVE End(i) \in P
        <4>1. PICK k \in 1..L.level, w \in DOMAIN L.node :
                  Forward(L, w, k) = End(i) /\ [node |-> w, rank |-> pos[w]] \in On[k]
          BY <3>1 DEF Entered
        <4>2. Forward(L, w, k) \in P
          <5>1. [node |-> w, rank |-> pos[w]] \in {at \in Spot(L, k) : Forward(L, at.node, k) \in P}
            BY <4>1, <1>4
          <5> QED BY <5>1
        <4> QED BY <4>1, <4>2
      <3> QED BY <3>1, <1>3
    <2>4. LinkOK(L, pos, N, End(i), i)
      BY <2>1 DEF Linked, Tall
    <2>5. Next(i) # NULL => pos[End(i)] < pos[Next(i)] /\ Tall(L, Next(i), i)
      BY <2>4 DEF LinkOK
    <2>6. pos[End(i)] \in Nat /\ (Next(i) # NULL => pos[Next(i)] \in Nat)
      BY <2>1, <2>5 DEF PlacesOK, Tall
    <2> QED BY <2>1, <2>2, <2>3, <2>5, <2>6
  <1>6. ASSUME NEW i \in 1..L.level
        PROVE  /\ pos[End(i)] <= pos[End(1)]
               /\ Next(i) # NULL => pos[End(1)] < pos[Next(i)]
    <2> DEFINE S == {k \in 1..i : /\ pos[End(i)] <= pos[End(k)]
                                  /\ Next(i) # NULL => pos[End(k)] < pos[Next(i)]}
    <2>1. i \in S
      BY <1>5
    <2>2. ASSUME NEW k \in 1..i - 1, k + 1 \in S PROVE k \in S
      <3>1. /\ k \in 1..L.level /\ k + 1 \in 1..L.level /\ k # L.level /\ k \in 1..i
            /\ k \in Nat
        BY <1>1
      <3>2. Start(L, path, k) = path[k + 1]
        BY <3>1 DEF Start
      <3>3. WalkOK(L, pos, k, On[k], path[k + 1], path[k])
        BY <3>1, <3>2, <1>2
      <3>4. pos[End(k + 1)] <= pos[End(k)]
        BY <3>3 DEF WalkOK
      <3>5. /\ pos[End(k)] \in Nat /\ pos[End(k + 1)] \in Nat /\ pos[End(i)] \in Nat
        BY <3>1, <1>5
      <3>6. ASSUME Next(i) # NULL, pos[Next(i)] <= pos[End(k)] PROVE FALSE
        <4>1. Tall(L, Next(i), i) /\ pos[Next(i)] \in Nat /\ Next(i) \notin P
          BY <3>6, <1>5
        <4>2. Tall(L, Next(i), k) /\ Next(i) \in DOMAIN L.node
          BY <4>1, <3>1, TallDown DEF Tall
        <4>3. pos[End(k + 1)] < pos[Next(i)]
          BY <2>2, <3>6
        <4>4. PICK w \in DOMAIN L.node : \E r : Forward(L, w, k) = Next(i)
                                                 /\ [node |-> w, rank |-> r] \in On[k]
          BY <4>2, <4>3, <3>3, <3>6 DEF WalkOK
        <4>5. Next(i) \in P
          BY <4>4, <3>1, <1>4
        <4> QED BY <4>1, <4>5
      <3>7. Next(i) # NULL => pos[End(k)] < pos[Next(i)]
        BY <3>5, <3>6, <1>5
      <3>8. pos[End(i)] <= pos[End(k)]
        BY <2>2, <3>4, <3>5
      <3> QED BY <3>1, <3>7, <3>8
    <2>3. 1 \in S
      <3>1. i \in Nat /\ 1 \in 1..i
        BY <1>1
      <3> HIDE DEF S
      <3> QED BY <3>1, <2>1, <2>2, Downward
    <2> QED BY <2>3
  <1> QED
    BY <1>2, <1>5, <1>6 DEF path, On

-----------------------------------------------------------------------------
(* Insert.                                                                  *)

\* The links Insert is about to change, one on each level up to top: the one
\* that leads over the end of place K.
Splice(L, pos, N, update, top, K) ==
    /\ top \in 1..MaxLevel /\ L.level <= top
    /\ DOMAIN update = 1..top /\ K \in 0..N /\ K = pos[update[1].node]
    /\ \A i \in 1..top :
          /\ Tall(L, update[i].node, i)
          /\ update[i].rank = pos[update[i].node] /\ pos[update[i].node] <= K
          /\ update[i].link \in [forward : Elements(L) \cup {NULL}, span : Nat]
          /\ update[i].link.forward = Forward(L, update[i].node, i)
          /\ Forward(L, update[i].node, i) = NULL =>
                N - pos[update[i].node] <= update[i].link.span
          /\ Forward(L, update[i].node, i) # NULL =>
                /\ K < pos[Forward(L, update[i].node, i)]
                /\ update[i].link.span =
                      pos[Forward(L, update[i].node, i)] - pos[update[i].node]

LEMMA LinkType ==
    ASSUME NEW L, NodesOK(L), NEW n, NEW i, Tall(L, n, i)
    PROVE  /\ L.node[n].level[i] \in [forward : Elements(L) \cup {NULL}, span : Nat]
           /\ Forward(L, n, i) \in Elements(L) \cup {NULL} /\ Span(L, n, i) \in Nat
           /\ L.node[n].level[i].forward = Forward(L, n, i)
           /\ L.node[n].level[i].span = Span(L, n, i)
  <1>1. L.node[n].level[i] \in [forward : Elements(L) \cup {NULL}, span : Nat]
    BY DEF NodesOK, Tall
  <1> QED
    BY <1>1 DEF Forward, Span

\* Above level_ there is only the head.
LEMMA OnlyHeadAbove ==
    ASSUME NEW L, NEW pos, NEW N, NodesOK(L), PlacesOK(L, pos, N), Linked(L, pos, N),
           NEW n, NEW i, Tall(L, n, i), L.level < i
    PROVE  n = head_ /\ Forward(L, n, i) = NULL
  <1>1. i \in 1..MaxLevel /\ i \in L.level + 1..MaxLevel
    <2>1. i \in 1..MaxLevel
      <3>1. CASE n = head_
        BY <3>1 DEF NodesOK, Tall
      <3>2. CASE n # head_
        <4>1. PICK h \in 1..MaxLevel : DOMAIN L.node[n].level = 1..h
          BY <3>2 DEF NodesOK, Elements, Tall
        <4> QED BY <4>1, LevelAssumption DEF Tall
      <3> QED BY <3>1, <3>2
    <2> QED BY <2>1, LevelAssumption DEF NodesOK
  <1>2. Forward(L, head_, i) = NULL
    BY <1>1 DEF Linked
  <1>3. head_ \in DOMAIN L.node /\ i \in DOMAIN L.node[head_].level
    BY <1>1 DEF NodesOK
  <1>4. LinkOK(L, pos, N, head_, i)
    BY <1>3 DEF Linked
  <1>5. n \in DOMAIN L.node /\ pos[n] <= pos[head_]
    BY <1>2, <1>4 DEF LinkOK, Tall
  <1>6. pos[n] \in Nat /\ pos[head_] = 0
    BY <1>5 DEF PlacesOK
  <1>7. n = head_
    BY <1>3, <1>5, <1>6 DEF PlacesOK
  <1> QED BY <1>2, <1>7

LEMMA PredecessorsSplice ==
    ASSUME NEW L, NEW pos, NEW N, Laid(L, pos, N), NEW s \in Score, NEW m \in Member,
           NEW lvl \in 1..MaxLevel
    PROVE  LET update == Predecessors(L, s, m, lvl)
               K == pos[update[1].node]
           IN  /\ Splice(L, pos, N, update, Top(L, lvl), K)
               /\ update[1].node \in Elements(L) => L.node[update[1].node].score <= s
               /\ update[1].link.forward # NULL =>
                    /\ s <= L.node[update[1].link.forward].score
                    /\ ~ Before(L, s, m, update[1].link.forward)
  <1> DEFINE P == {n \in Elements(L) : Before(L, s, m, n)}
             path == PathTo(L, s, m)
             update == Predecessors(L, s, m, lvl)
             top == Top(L, lvl)
             K == pos[update[1].node]
  <1>1. NodesOK(L) /\ PlacesOK(L, pos, N) /\ Linked(L, pos, N)
    BY DEF Laid
  <1>2. L.level \in 1..MaxLevel /\ L.level \in Nat /\ MaxLevel \in Nat /\ lvl \in Nat
    BY <1>1, LevelAssumption DEF NodesOK
  <1>3. \A i \in 1..L.level :
              /\ Tall(L, path[i].node, i)
              /\ path[i].rank = pos[path[i].node]
              /\ path[i].node = head_ \/ path[i].node \in P
              /\ pos[path[i].node] <= pos[path[1].node]
              /\ Forward(L, path[i].node, i) # NULL =>
                    /\ Forward(L, path[i].node, i) \notin P
                    /\ pos[path[1].node] < pos[Forward(L, path[i].node, i)]
    BY <1>1, DescendOnto DEF PathTo
  <1>4. top \in 1..MaxLevel /\ L.level <= top /\ 1 \in 1..top /\ 1 \in 1..L.level /\ lvl <= top
    BY <1>2 DEF Top
  <1>5. update = [i \in 1..top |->
             IF i <= L.level
             THEN [node |-> path[i].node, rank |-> path[i].rank,
                   link |-> L.node[path[i].node].level[i]]
             ELSE [node |-> head_, rank |-> 0,
                   link |-> [forward |-> Forward(L, head_, i), span |-> L.lenth]]]
    BY DEF Predecessors
  <1> HIDE DEF path, update, top
  <1>6. ASSUME NEW i \in 1..top, i <= L.level
        PROVE  /\ i \in 1..L.level
               /\ update[i].node = path[i].node /\ update[i].rank = path[i].rank
               /\ update[i].link = L.node[path[i].node].level[i]
    BY <1>2, <1>4, <1>5, <1>6
  <1>7. ASSUME NEW i \in 1..top, ~ (i <= L.level)
        PROVE  /\ update[i].node = head_ /\ update[i].rank = 0
               /\ update[i].link = [forward |-> Forward(L, head_, i), span |-> L.lenth]
               /\ Tall(L, head_, i) /\ Forward(L, head_, i) = NULL
    <2>1. i \in 1..MaxLevel /\ i \in L.level + 1..MaxLevel
      BY <1>2, <1>4, <1>7
    <2>2. Tall(L, head_, i)
      BY <1>1, <2>1 DEF NodesOK, Tall
    <2>3. Forward(L, head_, i) = NULL
      BY <1>1, <2>1 DEF Linked
    <2> QED BY <1>5, <1>7, <2>2, <2>3
  <1>8. update[1].node = path[1].node /\ K = pos[path[1].node]
    BY <1>2, <1>4, <1>6
  <1>9. K \in 0..N /\ N \in Nat
    <2>1. path[1].node \in DOMAIN L.node
      BY <1>3, <1>4 DEF Tall
    <2> QED BY <2>1, <1>1, <1>8 DEF PlacesOK
  <1>10. ASSUME NEW i \in 1..top
         PROVE  /\ Tall(L, update[i].node, i)
                /\ update[i].rank = pos[update[i].node] /\ pos[update[i].node] <= K
                /\ update[i].link \in [forward : Elements(L) \cup {NULL}, span : Nat]
                /\ update[i].link.forward = Forward(L, update[i].node, i)
                /\ Forward(L, update[i].node, i) = NULL =>
                      N - pos[update[i].node] <= update[i].link.span
                /\ Forward(L, update[i].node, i) # NULL =>
                      /\ K < pos[Forward(L, update[i].node, i)]
                      /\ update[i].link.span =
                            pos[Forward(L, update[i].node, i)] - pos[update[i].node]
    <2>1. CASE i <= L.level
      <3>1. i \in 1..L.level /\ update[i].node = path[i].node /\ update[i].rank = path[i].rank
            /\ update[i].link = L.node[path[i].node].level[i]
        BY <2>1, <1>6
      <3>2. Tall(L, path[i].node, i)
        BY <3>1, <1>3
      <3>3. /\ update[i].link \in [forward : Elements(L) \cup {NULL}, span : Nat]
            /\ update[i].link.forward = Forward(L, update[i].node, i)
            /\ update[i].link.span = Span(L, update[i].node, i)
        <4>1. /\ L.node[path[i].node].level[i] \in [forward : Elements(L) \cup {NULL}, span : Nat]
              /\ L.node[path[i].node].level[i].forward = Forward(L, path[i].node, i)
              /\ L.node[path[i].node].level[i].span = Span(L, path[i].node, i)
          BY <3>2, <1>1, LinkType
        <4> QED BY <4>1, <3>1
      <3>4. LinkOK(L, pos, N, update[i].node, i)
        BY <3>1, <3>2, <1>1 DEF Linked, Tall
      <3> QED BY <3>1, <3>2, <3>3, <3>4, <1>3, <1>8, <2>1 DEF LinkOK
    <2>2. CASE ~ (i <= L.level)
      <3>1. /\ update[i].node = head_ /\ update[i].rank = 0
            /\ update[i].link = [forward |-> NULL, span |-> L.lenth]
            /\ Tall(L, head_, i) /\ Forward(L, head_, i) = NULL
        BY <2>2, <1>7
      <3>2. pos[head_] = 0 /\ N <= L.lenth /\ L.lenth \in Nat
        BY <1>1 DEF PlacesOK, NodesOK
      <3> QED BY <3>1, <3>2, <1>9
    <2> QED BY <2>1, <2>2
  <1>11. Splice(L, pos, N, update, top, K)
    <2>1. DOMAIN update = 1..top
      BY <1>5
    <2> QED BY <2>1, <1>4, <1>9, <1>10 DEF Splice
  <1>12. ASSUME update[1].node \in Elements(L) PROVE L.node[update[1].node].score <= s
    <2>1. path[1].node \in P
      BY <1>3, <1>4, <1>8, <1>12 DEF Elements
    <2>2. Before(L, s, m, path[1].node) /\ path[1].node \in Elements(L)
      BY <2>1
    <2>3. L.node[path[1].node].score \in Int /\ s \in Int
      BY <2>2, <1>1, ScoreAssumption DEF NodesOK
    <2> QED BY <2>2, <2>3, <1>8 DEF Before
  <1>13. ASSUME update[1].link.forward # NULL
         PROVE  /\ s <= L.node[update[1].link.forward].score
                /\ ~ Before(L, s, m, update[1].link.forward)
    <2>1. update[1].link.forward = Forward(L, path[1].node, 1)
      BY <1>4, <1>8, <1>10
    <2>2. Forward(L, path[1].node, 1) \in Elements(L)
      <3>1. Forward(L, path[1].node, 1) \in Elements(L) \cup {NULL}
        BY <1>1, <1>3, <1>4, LinkType
      <3> QED BY <3>1, <2>1, <1>13
    <2>3. ~ Before(L, s, m, Forward(L, path[1].node, 1))
      BY <2>1, <2>2, <1>3, <1>4, <1>13
    <2>4. L.node[Forward(L, path[1].node, 1)].score \in Int /\ s \in Int
      BY <2>2, <1>1, ScoreAssumption DEF NodesOK
    <2> QED BY <2>1, <2>3, <2>4 DEF Before
  <1> QED
    BY <1>11, <1>12, <1>13 DEF update, top

\* The places once a node x stands behind place K.
Opened(L, pos, x, K) ==
    [n \in DOMAIN L.node \cup {x} |->
        IF n = x THEN K + 1 ELSE IF K < pos[n] THEN pos[n] + 1 ELSE pos[n]]

\* What Insert writes, link by link.
LEMMA InsertNodeLinks ==
    ASSUME NEW L, NEW pos, NEW N, NodesOK(L), PlacesOK(L, pos, N),
           NEW s, NEW m, NEW lvl \in 1..MaxLevel, NEW x \in Node \ DOMAIN L.node,
           NEW K, Splice(L, pos, N, Predecessors(L, s, m, lvl), Top(L, lvl), K)
    PROVE  LET R == InsertNode(L, s, m, lvl, x)
               U(i) == Predecessors(L, s, m, lvl)[i].node
           IN  /\ DOMAIN R.node = DOMAIN L.node \cup {x}
               /\ DOMAIN R.node[x].level = 1..lvl
               /\ \A i \in 1..lvl :
                     /\ Tall(L, U(i), i) /\ pos[U(i)] <= K
                     /\ R.node[x].level[i] \in [forward : Elements(L) \cup {NULL}, span : Nat]
                     /\ Forward(R, x, i) = Forward(L, U(i), i)
                     /\ Forward(L, U(i), i) = NULL => N - K <= Span(R, x, i)
                     /\ Forward(L, U(i), i) # NULL =>
                           Span(R, x, i) = pos[Forward(L, U(i), i)] - K
               /\ \A n \in DOMAIN L.node :
                     /\ DOMAIN R.node[n].level = DOMAIN L.node[n].level
                     /\ \A i \in DOMAIN L.node[n].level :
                           /\ R.node[n].level[i] \in [forward : Elements(L) \cup {NULL, x}, span : Nat]
                           /\ \/ i \notin 1..Top(L, lvl)
                              \/ U(i) # n
                              => /\ Forward(R, n, i) = Forward(L, n, i)
                                 /\ Span(R, n, i) = Span(L, n, i)
                           /\ i \in 1..Top(L, lvl) /\ U(i) = n =>
                                 /\ i <= lvl => /\ Forward(R, n, i) = x
                                                /\ Span(R, n, i) = K - pos[n] + 1
                                 /\ ~ (i <= lvl) =>
                                      /\ Forward(R, n, i) = Forward(L, n, i)
                                      /\ Forward(L, n, i) = NULL =>
                                            N - pos[n] + 1 <= Span(R, n, i)
                                      /\ Forward(L, n, i) # NULL =>
                                            Span(R, n, i) = pos[Forward(L, n, i)] - pos[n] + 1
  <1> DEFINE update == Predecessors(L, s, m, lvl)
             R == InsertNode(L, s, m, lvl, x)
             top == Top(L, lvl)
             U(i) == update[i].node
  <1>1. /\ top \in 1..MaxLevel /\ L.level <= top
        /\ DOMAIN update = 1..top /\ K \in 0..N /\ K = pos[update[1].node]
    BY DEF Splice
  <1>2. \A i \in 1..top :
          /\ Tall(L, update[i].node, i)
          /\ update[i].rank = pos[update[i].node] /\ pos[update[i].node] <= K
          /\ update[i].link \in [forward : Elements(L) \cup {NULL}, span : Nat]
          /\ update[i].link.forward = Forward(L, update[i].node, i)
          /\ Forward(L, update[i].node, i) = NULL =>
                N - pos[update[i].node] <= update[i].link.span
          /\ Forward(L, update[i].node, i) # NULL =>
                /\ K < pos[Forward(L, update[i].node, i)]
                /\ update[i].link.span =
                      pos[Forward(L, update[i].node, i)] - pos[update[i].node]
    BY DEF Splice
  <1>3. lvl \in Nat /\ top \in Nat /\ lvl <= top /\ MaxLevel \in Nat /\ N \in Nat
        /\ x \notin DOMAIN L.node
    BY LevelAssumption DEF Top, NodesOK, PlacesOK
  <1>4. /\ DOMAIN R.node = DOMAIN L.node \cup {x}
        /\ R.node[x].level = [i \in 1..lvl |-> Split(update[i].link, Gap(update, i))]
        /\ \A n \in DOMAIN L.node : R.node[n].level = LinksAfterInsert(L, update, lvl, x, n)
    BY <1>3 DEF InsertNode, Relinked
  <1> HIDE DEF update, R, top
  <1>5. ASSUME NEW i \in 1..top
        PROVE  /\ U(i) \in DOMAIN L.node /\ pos[U(i)] \in Nat /\ K \in Nat
               /\ Gap(update, i) = K - pos[U(i)] /\ Gap(update, i) \in Nat
               /\ Forward(L, U(i), i) # NULL => pos[Forward(L, U(i), i)] \in Nat
    <2>1. U(i) \in DOMAIN L.node /\ 1 \in 1..top
      BY <1>1, <1>2, <1>3 DEF Tall
    <2>2. pos[U(i)] \in Nat /\ K \in Nat
      BY <2>1, <1>1 DEF PlacesOK
    <2>3. Gap(update, i) = K - pos[U(i)]
      BY <1>1, <1>2, <2>1 DEF Gap
    <2>4. Forward(L, U(i), i) \in Elements(L) \cup {NULL}
      BY <1>2, LinkType
    <2>5. Forward(L, U(i), i) # NULL => pos[Forward(L, U(i), i)] \in Nat
      BY <2>4 DEF Elements, PlacesOK
    <2> QED BY <2>1, <2>2, <2>3, <2>5, <1>2
  <1>6. ASSUME NEW i \in 1..lvl
        PROVE  /\ Tall(L, U(i), i) /\ pos[U(i)] <= K
               /\ R.node[x].level[i] \in [forward : Elements(L) \cup {NULL}, span : Nat]
               /\ Forward(R, x, i) = Forward(L, U(i), i)
               /\ Forward(L, U(i), i) = NULL => N - K <= Span(R, x, i)
               /\ Forward(L, U(i), i) # NULL => Span(R, x, i) = pos[Forward(L, U(i), i)] - K
    <2>1. i \in 1..top
      BY <1>3
    <2> DEFINE l == update[i].link
               g == Gap(update, i)
    <2>2. /\ l \in [forward : Elements(L) \cup {NULL}, span : Nat]
          /\ g = K - pos[U(i)] /\ g \in Nat /\ pos[U(i)] \in Nat /\ K \in Nat
          /\ l.forward = Forward(L, U(i), i)
          /\ Forward(L, U(i), i) = NULL => N - pos[U(i)] <= l.span
          /\ Forward(L, U(i), i) # NULL => /\ K < pos[Forward(L, U(i), i)]
                                           /\ l.span = pos[Forward(L, U(i), i)] - pos[U(i)]
          /\ Forward(L, U(i), i) # NULL => pos[Forward(L, U(i), i)] \in Nat
      BY <2>1, <1>2, <1>5
    <2>3. R.node[x].level[i] = Split(l, g)
      BY <1>4
    <2> HIDE DEF l, g
    <2>4. /\ Split(l, g).forward = l.forward /\ Split(l, g).span = l.span - g
          /\ Split(l, g) = [forward |-> l.forward, span |-> l.span - g]
      BY <2>2 DEF Split
    <2>5. l.span \in Nat /\ l.forward \in Elements(L) \cup {NULL}
      BY <2>2
    <2>6. g <= l.span
      <3>1. CASE Forward(L, U(i), i) = NULL
        BY <3>1, <2>2, <2>5, <1>1, <1>3
      <3>2. CASE Forward(L, U(i), i) # NULL
        BY <3>2, <2>2, <2>5
      <3> QED BY <3>1, <3>2
    <2>7. l.span - g \in Nat
      BY <2>2, <2>5, <2>6
    <2>8. R.node[x].level[i] \in [forward : Elements(L) \cup {NULL}, span : Nat]
      BY <2>3, <2>4, <2>5, <2>7
    <2>9. Forward(R, x, i) = Forward(L, U(i), i) /\ Span(R, x, i) = l.span - g
      BY <2>2, <2>3, <2>4 DEF Forward, Span
    <2>10. Forward(L, U(i), i) = NULL => N - K <= Span(R, x, i)
      BY <2>2, <2>5, <2>9, <1>3
    <2>11. Forward(L, U(i), i) # NULL => Span(R, x, i) = pos[Forward(L, U(i), i)] - K
      BY <2>2, <2>5, <2>9
    <2> QED BY <2>1, <2>8, <2>9, <2>10, <2>11, <1>2
  <1>7. ASSUME NEW n \in DOMAIN L.node, NEW i \in DOMAIN L.node[n].level
        PROVE  /\ R.node[n].level[i] \in [forward : Elements(L) \cup {NULL, x}, span : Nat]
               /\ i \notin 1..top \/ U(i) # n =>
                    /\ Forward(R, n, i) = Forward(L, n, i)
                    /\ Span(R, n, i) = Span(L, n, i)
               /\ i \in 1..top /\ U(i) = n =>
                    /\ i <= lvl => Forward(R, n, i) = x /\ Span(R, n, i) = K - pos[n] + 1
                    /\ ~ (i <= lvl) =>
                          /\ Forward(R, n, i) = Forward(L, n, i)
                          /\ Forward(L, n, i) = NULL => N - pos[n] + 1 <= Span(R, n, i)
                          /\ Forward(L, n, i) # NULL =>
                                Span(R, n, i) = pos[Forward(L, n, i)] - pos[n] + 1
    <2>1. R.node[n].level[i] = LinksAfterInsert(L, update, lvl, x, n)[i]
      BY <1>4
    <2>2. CASE i \notin 1..top \/ U(i) # n
      <3>1. R.node[n].level[i] = L.node[n].level[i]
        BY <2>1, <2>2, <1>1 DEF LinksAfterInsert
      <3>2. L.node[n].level[i] \in [forward : Elements(L) \cup {NULL}, span : Nat]
        BY DEF NodesOK
      <3>3. R.node[n].level[i] \in [forward : Elements(L) \cup {NULL, x}, span : Nat]
        BY <3>1, <3>2
      <3> QED BY <2>2, <3>1, <3>3 DEF Forward, Span
    <2>3. CASE i \in 1..top /\ U(i) = n /\ i <= lvl
      <3>1. R.node[n].level[i] = [forward |-> x, span |-> Gap(update, i) + 1]
        BY <2>1, <2>3, <1>1 DEF LinksAfterInsert
      <3>2. Gap(update, i) = K - pos[n] /\ Gap(update, i) + 1 \in Nat
        BY <2>3, <1>5
      <3>3. R.node[n].level[i] \in [forward : Elements(L) \cup {NULL, x}, span : Nat]
        BY <3>1, <3>2
      <3> QED BY <2>3, <3>1, <3>2, <3>3 DEF Forward, Span
    <2>4. CASE i \in 1..top /\ U(i) = n /\ ~ (i <= lvl)
      <3> DEFINE l == update[i].link
      <3>1. R.node[n].level[i] = [l EXCEPT !.span = @ + 1]
        BY <2>1, <2>4, <1>1 DEF LinksAfterInsert
      <3>2. /\ l \in [forward : Elements(L) \cup {NULL}, span : Nat]
            /\ pos[n] \in Nat /\ l.forward = Forward(L, n, i)
            /\ Forward(L, n, i) = NULL => N - pos[n] <= l.span
            /\ Forward(L, n, i) # NULL => l.span = pos[Forward(L, n, i)] - pos[n]
        BY <2>4, <1>2, <1>5
      <3> HIDE DEF l
      <3>3. R.node[n].level[i] = [forward |-> l.forward, span |-> l.span + 1]
        BY <3>1, <3>2
      <3>4. l.span \in Nat /\ l.span + 1 \in Nat /\ l.forward \in Elements(L) \cup {NULL}
        BY <3>2
      <3>5. R.node[n].level[i] \in [forward : Elements(L) \cup {NULL, x}, span : Nat]
        BY <3>3, <3>4
      <3>6. Forward(R, n, i) = Forward(L, n, i) /\ Span(R, n, i) = l.span + 1
        BY <3>2, <3>3 DEF Forward, Span
      <3>7. Forward(L, n, i) = NULL => N - pos[n] + 1 <= Span(R, n, i)
        BY <3>2, <3>4, <3>6, <1>3
      <3> QED BY <2>4, <3>2, <3>5, <3>6, <3>7
    <2> QED BY <2>2, <2>3, <2>4
  <1>8. \A n \in DOMAIN L.node : DOMAIN R.node[n].level = DOMAIN L.node[n].level
    BY <1>4 DEF LinksAfterInsert
  <1>9. DOMAIN R.node[x].level = 1..lvl
    BY <1>4
  <1> QED
    BY <1>4, <1>6, <1>7, <1>8, <1>9 DEF update, R, top

\* q gives each node of D a place of its own, and no place up to N is left out.
OnePlaceEach(D, q, N) ==
    /\ q \in [D -> 0..N]
    /\ \A n, o \in D : q[n] = q[o] => n = o
    /\ \A k \in 0..N : \E n \in D : q[n] = k

\* What Opened does to the places.
LEMMA OpenedPlaces ==
    ASSUME NEW L, NEW pos, NEW N, PlacesOK(L, pos, N), NEW x, x \notin DOMAIN L.node,
           NEW K \in 0..N
    PROVE  OnePlaceEach(DOMAIN L.node \cup {x}, Opened(L, pos, x, K), N + 1)
  <1> DEFINE q == Opened(L, pos, x, K)
  <1>1. N \in Nat /\ K \in Nat /\ K <= N /\ \A n \in DOMAIN L.node : pos[n] \in 0..N
    BY DEF PlacesOK
  <1>2. q[x] = K + 1 /\ q[x] \in 0..N + 1
    BY <1>1 DEF Opened
  <1>3. ASSUME NEW n \in DOMAIN L.node
        PROVE  /\ pos[n] \in Nat /\ pos[n] <= N /\ q[n] \in 0..N + 1
               /\ pos[n] <= K => q[n] = pos[n]
               /\ K < pos[n] => q[n] = pos[n] + 1
    <2>1. n # x /\ pos[n] \in 0..N
      BY <1>1
    <2>2. q[n] = IF K < pos[n] THEN pos[n] + 1 ELSE pos[n]
      BY <2>1 DEF Opened
    <2> QED BY <1>1, <2>1, <2>2
  <1>4. q \in [DOMAIN L.node \cup {x} -> 0..N + 1]
    <2>1. q = [n \in DOMAIN L.node \cup {x} |-> q[n]]
      BY DEF Opened
    <2> HIDE DEF q
    <2>2. \A n \in DOMAIN L.node \cup {x} : q[n] \in 0..N + 1
      BY <1>2, <1>3
    <2> QED BY <2>1, <2>2
  <1> HIDE DEF q
  <1>5. ASSUME NEW n \in DOMAIN L.node, NEW o \in DOMAIN L.node, q[n] = q[o]
        PROVE  n = o
    <2>1. pos[n] = pos[o]
      BY <1>1, <1>3, <1>5
    <2> QED BY <2>1 DEF PlacesOK
  <1>6. \A n \in DOMAIN L.node : q[n] # q[x]
    BY <1>1, <1>2, <1>3
  <1>7. ASSUME NEW k \in 0..N + 1 PROVE \E n \in DOMAIN L.node \cup {x} : q[n] = k
    <2>1. CASE k <= K
      <3>1. PICK n \in DOMAIN L.node : pos[n] = k
        BY <2>1, <1>1 DEF PlacesOK
      <3> QED BY <3>1, <2>1, <1>3
    <2>2. CASE k = K + 1
      BY <2>2, <1>2
    <2>3. CASE K + 1 < k
      <3>1. PICK n \in DOMAIN L.node : pos[n] = k - 1
        BY <2>3, <1>1 DEF PlacesOK
      <3>2. K < pos[n] /\ pos[n] + 1 = k
        BY <3>1, <2>3, <1>1
      <3> QED BY <3>2, <1>3
    <2> QED BY <2>1, <2>2, <2>3, <1>1
  <1> QED
    BY <1>4, <1>5, <1>6, <1>7 DEF OnePlaceEach, q

\* The links after Insert lead to the next places.
LEMMA InsertLinked ==
    ASSUME NEW L, NEW pos, NEW N, NodesOK(L), PlacesOK(L, pos, N), Linked(L, pos, N),
           NEW s, NEW m, NEW lvl \in 1..MaxLevel, NEW x \in Node \ DOMAIN L.node,
           NEW K, Splice(L, pos, N, Predecessors(L, s, m, lvl), Top(L, lvl), K)
    PROVE  Linked(InsertNode(L, s, m, lvl, x), Opened(L, pos, x, K), N + 1)
  <1> DEFINE R == InsertNode(L, s, m, lvl, x)
             q == Opened(L, pos, x, K)
             top == Top(L, lvl)
             U(i) == Predecessors(L, s, m, lvl)[i].node
  <1>1. /\ DOMAIN R.node = DOMAIN L.node \cup {x}
        /\ DOMAIN R.node[x].level = 1..lvl
        /\ \A i \in 1..lvl :
              /\ Tall(L, U(i), i) /\ pos[U(i)] <= K
              /\ Forward(R, x, i) = Forward(L, U(i), i)
              /\ Forward(L, U(i), i) = NULL => N - K <= Span(R, x, i)
              /\ Forward(L, U(i), i) # NULL =>
                    Span(R, x, i) = pos[Forward(L, U(i), i)] - K
    BY InsertNodeLinks
  <1>2. \A n \in DOMAIN L.node :
              /\ DOMAIN R.node[n].level = DOMAIN L.node[n].level
              /\ \A i \in DOMAIN L.node[n].level :
                    /\ \/ i \notin 1..Top(L, lvl)
                       \/ U(i) # n
                       => /\ Forward(R, n, i) = Forward(L, n, i)
                          /\ Span(R, n, i) = Span(L, n, i)
                    /\ i \in 1..Top(L, lvl) /\ U(i) = n =>
                          /\ i <= lvl => /\ Forward(R, n, i) = x
                                         /\ Span(R, n, i) = K - pos[n] + 1
                          /\ ~ (i <= lvl) =>
                               /\ Forward(R, n, i) = Forward(L, n, i)
                               /\ Forward(L, n, i) = NULL =>
                                     N - pos[n] + 1 <= Span(R, n, i)
                               /\ Forward(L, n, i) # NULL =>
                                     Span(R, n, i) = pos[Forward(L, n, i)] - pos[n] + 1
    BY InsertNodeLinks
  <1>3. /\ top \in 1..MaxLevel /\ L.level <= top /\ K \in 0..N
        /\ \A i \in 1..top :
              /\ Tall(L, U(i), i) /\ pos[U(i)] <= K
              /\ Forward(L, U(i), i) # NULL => K < pos[Forward(L, U(i), i)]
    BY DEF Splice
  <1>4. N \in Nat /\ K \in Nat /\ K <= N /\ top \in Nat /\ lvl \in Nat /\ MaxLevel \in Nat
        /\ lvl <= top /\ L.level \in Nat /\ x \notin DOMAIN L.node /\ x # head_ /\ x # NULL
        /\ R.level = top
    <2>1. N \in Nat /\ L.level \in Nat /\ MaxLevel \in Nat /\ lvl \in Nat
      BY LevelAssumption DEF PlacesOK, NodesOK
    <2>2. x \notin DOMAIN L.node /\ x # head_ /\ x # NULL
      BY AddressAssumption
    <2>3. R.level = top
      BY DEF InsertNode
    <2>4. lvl <= top
      BY <2>1 DEF Top
    <2> QED BY <2>1, <2>2, <2>3, <2>4, <1>3
  <1>5. /\ q[x] = K + 1
        /\ \A n \in DOMAIN L.node : /\ pos[n] \in Nat /\ pos[n] <= N
                                    /\ pos[n] <= K => q[n] = pos[n]
                                    /\ K < pos[n] => q[n] = pos[n] + 1
    <2>1. q[x] = K + 1
      BY DEF Opened
    <2>2. ASSUME NEW n \in DOMAIN L.node
          PROVE  /\ pos[n] \in Nat /\ pos[n] <= N
                 /\ pos[n] <= K => q[n] = pos[n]
                 /\ K < pos[n] => q[n] = pos[n] + 1
      <3>1. n # x /\ pos[n] \in 0..N
        BY <1>4 DEF PlacesOK
      <3>2. q[n] = IF K < pos[n] THEN pos[n] + 1 ELSE pos[n]
        BY <3>1 DEF Opened
      <3> QED BY <1>4, <3>1, <3>2
    <2> QED BY <2>1, <2>2
  <1>6. \A o, i : Tall(R, o, i) <=> (o = x /\ i \in 1..lvl) \/ Tall(L, o, i)
    BY <1>1, <1>2, <1>4 DEF Tall
  <1> HIDE DEF R, q, top, U
  <1>7. ASSUME NEW n, NEW i, Tall(L, n, i)
        PROVE  /\ n \in DOMAIN L.node /\ i \in DOMAIN L.node[n].level
               /\ Forward(L, n, i) = NULL =>
                     /\ \A o \in DOMAIN L.node : Tall(L, o, i) => pos[o] <= pos[n]
                     /\ i <= L.level => N - pos[n] <= Span(L, n, i)
               /\ Forward(L, n, i) # NULL =>
                     /\ Tall(L, Forward(L, n, i), i)
                     /\ Forward(L, n, i) \in DOMAIN L.node
                     /\ pos[n] < pos[Forward(L, n, i)]
                     /\ Span(L, n, i) = pos[Forward(L, n, i)] - pos[n]
                     /\ \A o \in DOMAIN L.node :
                           Tall(L, o, i) => pos[o] <= pos[n] \/ pos[Forward(L, n, i)] <= pos[o]
    BY <1>7 DEF Linked, LinkOK, Tall
  \* The new node.
  <1>8. ASSUME NEW i \in 1..lvl PROVE LinkOK(R, q, N + 1, x, i)
    <2> DEFINE f == Forward(L, U(i), i)
    <2>1. /\ i \in 1..top /\ Tall(L, U(i), i) /\ U(i) \in DOMAIN L.node /\ pos[U(i)] <= K
          /\ Forward(R, x, i) = f
          /\ f = NULL => N - K <= Span(R, x, i)
          /\ f # NULL => Span(R, x, i) = pos[f] - K /\ K < pos[f]
      BY <1>1, <1>3, <1>4 DEF Tall
    <2>2. ASSUME f = NULL PROVE LinkOK(R, q, N + 1, x, i)
      <3>1. ASSUME NEW o \in DOMAIN R.node, Tall(R, o, i) PROVE q[o] <= q[x]
        <4>1. CASE o = x
          BY <4>1, <1>4, <1>5
        <4>2. CASE Tall(L, o, i)
          <5>1. o \in DOMAIN L.node /\ pos[o] <= pos[U(i)]
            BY <4>2, <2>1, <2>2, <1>7 DEF Tall
          <5>2. pos[o] <= K
            BY <5>1, <2>1, <1>4, <1>5
          <5> QED BY <5>1, <5>2, <1>4, <1>5
        <4> QED BY <4>1, <4>2, <3>1, <1>6
      <3>2. (N + 1) - q[x] <= Span(R, x, i)
        BY <2>1, <2>2, <1>4, <1>5
      <3> QED BY <2>1, <2>2, <3>1, <3>2 DEF LinkOK
    <2>3. ASSUME f # NULL PROVE LinkOK(R, q, N + 1, x, i)
      <3>1. f \in DOMAIN L.node /\ Tall(L, f, i) /\ K < pos[f] /\ q[f] = pos[f] + 1
            /\ pos[f] \in Nat
        BY <2>1, <2>3, <1>5, <1>7
      <3>2. Tall(R, f, i) /\ q[x] < q[f] /\ Span(R, x, i) = q[f] - q[x]
        BY <3>1, <2>1, <2>3, <1>4, <1>5, <1>6
      <3>3. ASSUME NEW o \in DOMAIN R.node, Tall(R, o, i) PROVE q[o] <= q[x] \/ q[f] <= q[o]
        <4>1. CASE o = x
          BY <4>1, <1>4, <1>5
        <4>2. CASE Tall(L, o, i)
          <5>1. o \in DOMAIN L.node /\ (pos[o] <= pos[U(i)] \/ pos[f] <= pos[o])
            BY <4>2, <2>1, <2>3, <1>7 DEF Tall
          <5>2. pos[o] \in Nat /\ pos[U(i)] \in Nat
            BY <5>1, <2>1, <1>5
          <5>3. pos[o] <= K \/ pos[f] <= pos[o]
            BY <5>1, <5>2, <2>1, <1>4
          <5> QED BY <5>1, <5>2, <5>3, <3>1, <1>4, <1>5
        <4> QED BY <4>1, <4>2, <3>3, <1>6
      <3> QED BY <2>1, <2>3, <3>2, <3>3 DEF LinkOK
    <2> QED BY <2>2, <2>3
  \* A link Insert leads to the new node.
  <1>9. ASSUME NEW i \in 1..lvl PROVE LinkOK(R, q, N + 1, U(i), i)
    <2>1. /\ i \in 1..top /\ Tall(L, U(i), i) /\ U(i) \in DOMAIN L.node /\ pos[U(i)] <= K
          /\ i <= lvl /\ i \in DOMAIN L.node[U(i)].level
      BY <1>1, <1>4 DEF Tall
    <2>2. Forward(R, U(i), i) = x /\ Span(R, U(i), i) = K - pos[U(i)] + 1
      BY <2>1, <1>2 DEF top
    <2>3. q[U(i)] = pos[U(i)] /\ pos[U(i)] \in Nat
      BY <2>1, <1>5
    <2>4. Tall(R, x, i) /\ q[U(i)] < q[x] /\ Span(R, U(i), i) = q[x] - q[U(i)]
      BY <2>1, <2>2, <2>3, <1>4, <1>5, <1>6
    <2>5. ASSUME NEW o \in DOMAIN R.node, Tall(R, o, i)
          PROVE  q[o] <= q[U(i)] \/ q[x] <= q[o]
      <3>1. CASE o = x
        BY <3>1, <1>4, <1>5
      <3>2. CASE Tall(L, o, i)
        <4>1. o \in DOMAIN L.node /\ pos[o] \in Nat
          BY <3>2, <1>5 DEF Tall
        <4>2. pos[o] <= pos[U(i)] \/ K < pos[o]
          <5>1. CASE Forward(L, U(i), i) = NULL
            BY <5>1, <3>2, <4>1, <2>1, <1>7
          <5>2. CASE Forward(L, U(i), i) # NULL
            <6>1. pos[o] <= pos[U(i)] \/ pos[Forward(L, U(i), i)] <= pos[o]
              BY <5>2, <3>2, <4>1, <2>1, <1>7
            <6>2. K < pos[Forward(L, U(i), i)] /\ pos[Forward(L, U(i), i)] \in Nat
              BY <5>2, <2>1, <1>3, <1>5, <1>7
            <6> QED BY <6>1, <6>2, <4>1, <1>4
          <5> QED BY <5>1, <5>2
        <4>3. CASE pos[o] <= pos[U(i)]
          <5>1. pos[o] <= K
            BY <4>1, <4>3, <2>1, <2>3, <1>4
          <5> QED BY <5>1, <4>1, <4>3, <2>3, <1>5
        <4>4. CASE K < pos[o]
          BY <4>1, <4>4, <1>4, <1>5
        <4> QED BY <4>2, <4>3, <4>4
      <3> QED BY <3>1, <3>2, <2>5, <1>6
    <2> QED BY <2>2, <2>4, <2>5, <1>4 DEF LinkOK
  \* A link over the new node.
  <1>10. ASSUME NEW i \in 1..top, ~ (i <= lvl) PROVE LinkOK(R, q, N + 1, U(i), i)
    <2> DEFINE u == U(i)
               f == Forward(L, u, i)
    <2>1. /\ Tall(L, u, i) /\ u \in DOMAIN L.node /\ pos[u] <= K
          /\ i \in DOMAIN L.node[u].level /\ pos[u] \in Nat /\ q[u] = pos[u]
          /\ f # NULL => K < pos[f]
      BY <1>3, <1>5 DEF Tall
    <2>2. /\ Forward(R, u, i) = f
          /\ f = NULL => N - pos[u] + 1 <= Span(R, u, i)
          /\ f # NULL => Span(R, u, i) = pos[f] - pos[u] + 1
      BY <2>1, <1>2, <1>10 DEF top
    <2>3. \A o \in DOMAIN R.node : Tall(R, o, i) => Tall(L, o, i) /\ o \in DOMAIN L.node
      BY <1>4, <1>6, <1>10 DEF Tall
    <2>4. ASSUME f = NULL PROVE LinkOK(R, q, N + 1, u, i)
      <3>1. ASSUME NEW o \in DOMAIN R.node, Tall(R, o, i) PROVE q[o] <= q[u]
        <4>1. o \in DOMAIN L.node /\ pos[o] <= pos[u] /\ pos[o] \in Nat
          BY <3>1, <2>1, <2>3, <2>4, <1>5, <1>7
        <4>2. pos[o] <= K
          BY <4>1, <2>1, <1>4
        <4> QED BY <4>1, <4>2, <2>1, <1>5
      <3>2. (N + 1) - q[u] <= Span(R, u, i)
        <4>1. (N + 1) - q[u] = N - pos[u] + 1
          BY <2>1, <1>4
        <4> QED BY <4>1, <2>2, <2>4
      <3> QED BY <2>2, <2>4, <3>1, <3>2 DEF LinkOK
    <2>5. ASSUME f # NULL PROVE LinkOK(R, q, N + 1, u, i)
      <3>1. f \in DOMAIN L.node /\ Tall(L, f, i) /\ q[f] = pos[f] + 1 /\ pos[f] \in Nat
        BY <2>1, <2>5, <1>5, <1>7
      <3>2. Tall(R, f, i) /\ q[u] < q[f] /\ Span(R, u, i) = q[f] - q[u]
        BY <3>1, <2>1, <2>2, <2>5, <1>4, <1>6
      <3>3. ASSUME NEW o \in DOMAIN R.node, Tall(R, o, i) PROVE q[o] <= q[u] \/ q[f] <= q[o]
        <4>1. o \in DOMAIN L.node /\ pos[o] \in Nat /\ (pos[o] <= pos[u] \/ pos[f] <= pos[o])
          BY <3>3, <2>1, <2>3, <2>5, <1>5, <1>7
        <4>2. CASE pos[o] <= pos[u]
          <5>1. pos[o] <= K
            BY <4>1, <4>2, <2>1, <1>4
          <5> QED BY <4>1, <4>2, <5>1, <2>1, <1>5
        <4>3. CASE pos[f] <= pos[o]
          <5>1. K < pos[o]
            BY <4>1, <4>3, <2>1, <2>5, <3>1, <1>4
          <5> QED BY <4>1, <4>3, <5>1, <3>1, <1>5
        <4> QED BY <4>1, <4>2, <4>3
      <3> QED BY <2>2, <2>5, <3>2, <3>3 DEF LinkOK
    <2> QED BY <2>4, <2>5
  \* A link that stays as it is: both its ends are before the new node or behind.
  <1>11. ASSUME NEW n, NEW i \in 1..top, Tall(L, n, i), n # U(i)
         PROVE  LinkOK(R, q, N + 1, n, i)
    <2> DEFINE f == Forward(L, n, i)
    <2>1. /\ n \in DOMAIN L.node /\ pos[n] \in Nat /\ i \in DOMAIN L.node[n].level
          /\ U(i) \in DOMAIN L.node /\ Tall(L, U(i), i) /\ pos[U(i)] \in Nat /\ pos[U(i)] <= K
          /\ pos[n] # pos[U(i)]
      BY <1>3, <1>5, <1>11 DEF Tall, PlacesOK
    <2>2. Forward(R, n, i) = f /\ Span(R, n, i) = Span(L, n, i)
      BY <2>1, <1>2, <1>11
    <2>3. CASE pos[n] < pos[U(i)]
      <3>1. f # NULL
        <4>1. f = NULL => pos[U(i)] <= pos[n]
          BY <2>1, <1>7, <1>11
        <4> QED BY <4>1, <2>1, <2>3
      <3>2. /\ Tall(L, f, i) /\ f \in DOMAIN L.node /\ pos[n] < pos[f] /\ pos[f] \in Nat
            /\ Span(L, n, i) = pos[f] - pos[n] /\ pos[f] <= pos[U(i)]
        <4>1. /\ Tall(L, f, i) /\ f \in DOMAIN L.node /\ pos[n] < pos[f]
              /\ Span(L, n, i) = pos[f] - pos[n]
              /\ pos[U(i)] <= pos[n] \/ pos[f] <= pos[U(i)]
          BY <3>1, <2>1, <1>7, <1>11
        <4> QED BY <4>1, <2>1, <2>3, <1>5
      <3>3. q[n] = pos[n] /\ q[f] = pos[f] /\ pos[f] <= K /\ pos[n] <= K
        BY <3>2, <2>1, <2>3, <1>4, <1>5
      <3>4. ASSUME NEW o \in DOMAIN R.node, Tall(R, o, i) PROVE q[o] <= q[n] \/ q[f] <= q[o]
        <4>1. CASE o = x
          BY <4>1, <3>2, <3>3, <1>4, <1>5
        <4>2. CASE Tall(L, o, i)
          <5>1. o \in DOMAIN L.node /\ pos[o] \in Nat /\ (pos[o] <= pos[n] \/ pos[f] <= pos[o])
            BY <4>2, <3>1, <1>5, <1>7, <1>11 DEF Tall
          <5> QED BY <5>1, <3>2, <3>3, <2>1, <1>4, <1>5
        <4> QED BY <4>1, <4>2, <3>4, <1>6
      <3>5. Tall(R, f, i)
        BY <3>2, <1>6
      <3> QED BY <2>2, <3>1, <3>2, <3>3, <3>4, <3>5 DEF LinkOK
    <2>4. CASE pos[U(i)] < pos[n]
      <3>1. K < pos[n]
        <4>1. Forward(L, U(i), i) = NULL => pos[n] <= pos[U(i)]
          BY <2>1, <1>7, <1>11
        <4>2. Forward(L, U(i), i) # NULL
          BY <4>1, <2>1, <2>4
        <4>3. /\ K < pos[Forward(L, U(i), i)]
              /\ pos[Forward(L, U(i), i)] \in Nat
              /\ pos[n] <= pos[U(i)] \/ pos[Forward(L, U(i), i)] <= pos[n]
          BY <4>2, <2>1, <1>3, <1>5, <1>7, <1>11
        <4> QED BY <4>3, <2>1, <2>4, <1>4
      <3>2. q[n] = pos[n] + 1
        BY <3>1, <2>1, <1>5
      <3>3. ASSUME f = NULL PROVE LinkOK(R, q, N + 1, n, i)
        <4>1. ASSUME NEW o \in DOMAIN R.node, Tall(R, o, i) PROVE q[o] <= q[n]
          <5>1. CASE o = x
            BY <5>1, <3>1, <3>2, <2>1, <1>4, <1>5
          <5>2. CASE Tall(L, o, i)
            <6>1. o \in DOMAIN L.node /\ pos[o] \in Nat /\ pos[o] <= pos[n]
              BY <5>2, <3>3, <1>5, <1>7, <1>11 DEF Tall
            <6> QED BY <6>1, <3>2, <2>1, <1>4, <1>5
          <5> QED BY <5>1, <5>2, <4>1, <1>6
        <4>2. (N + 1) - q[n] <= Span(R, n, i)
          <5>1. i <= L.level
            <6>1. ASSUME L.level < i PROVE FALSE
              <7>1. n = head_ /\ U(i) = head_
                BY <6>1, <2>1, <1>11, OnlyHeadAbove
              <7> QED BY <7>1, <1>11
            <6> QED BY <6>1, <1>4
          <5>2. N - pos[n] <= Span(L, n, i)
            BY <5>1, <3>3, <1>7, <1>11
          <5>3. (N + 1) - q[n] = N - pos[n]
            BY <3>2, <2>1, <1>4
          <5> QED BY <5>2, <5>3, <2>2
        <4> QED BY <2>2, <3>3, <4>1, <4>2 DEF LinkOK
      <3>4. ASSUME f # NULL PROVE LinkOK(R, q, N + 1, n, i)
        <4>1. /\ Tall(L, f, i) /\ f \in DOMAIN L.node /\ pos[n] < pos[f] /\ pos[f] \in Nat
              /\ Span(L, n, i) = pos[f] - pos[n]
          BY <3>4, <1>5, <1>7, <1>11
        <4>2. K < pos[f] /\ q[f] = pos[f] + 1
          <5>1. K < pos[f]
            BY <4>1, <3>1, <2>1, <1>4
          <5> QED BY <5>1, <4>1, <1>5
        <4>3. ASSUME NEW o \in DOMAIN R.node, Tall(R, o, i) PROVE q[o] <= q[n] \/ q[f] <= q[o]
          <5>1. CASE o = x
            BY <5>1, <3>1, <3>2, <2>1, <1>4, <1>5
          <5>2. CASE Tall(L, o, i)
            <6>1. o \in DOMAIN L.node /\ pos[o] \in Nat /\ (pos[o] <= pos[n] \/ pos[f] <= pos[o])
              BY <5>2, <3>4, <1>5, <1>7, <1>11 DEF Tall
            <6>2. q[o] = pos[o] \/ q[o] = pos[o] + 1
              BY <6>1, <1>4, <1>5
            <6>3. pos[f] <= pos[o] => q[o] = pos[o] + 1
              BY <6>1, <4>1, <4>2, <1>4, <1>5
            <6>4. CASE pos[o] <= pos[n]
              BY <6>1, <6>2, <6>4, <3>2, <2>1
            <6>5. CASE pos[f] <= pos[o]
              BY <6>1, <6>3, <6>5, <4>1, <4>2
            <6> QED BY <6>1, <6>4, <6>5
          <5> QED BY <5>1, <5>2, <4>3, <1>6
        <4>4. Tall(R, f, i) /\ q[n] < q[f] /\ Span(R, n, i) = q[f] - q[n]
          BY <4>1, <4>2, <3>2, <2>1, <2>2, <1>6
        <4> QED BY <2>2, <3>4, <4>3, <4>4 DEF LinkOK
      <3> QED BY <3>3, <3>4
    <2> QED BY <2>1, <2>3, <2>4
  \* The head above the levels in use.
  <1>12. ASSUME NEW n, NEW i, Tall(L, n, i), i \notin 1..top
         PROVE  LinkOK(R, q, N + 1, n, i) /\ n = head_ /\ Forward(R, n, i) = NULL
    <2>1. i \in Nat /\ top < i /\ L.level < i
      <3>1. i \in 1..MaxLevel
        <4>1. CASE n = head_
          BY <4>1, <1>12 DEF NodesOK, Tall
        <4>2. CASE n # head_
          <5>1. PICK h \in 1..MaxLevel : DOMAIN L.node[n].level = 1..h
            BY <4>2, <1>12 DEF NodesOK, Elements, Tall
          <5> QED BY <5>1, <1>4, <1>12 DEF Tall
        <4> QED BY <4>1, <4>2
      <3> QED BY <3>1, <1>3, <1>4, <1>12
    <2>2. n = head_ /\ Forward(L, n, i) = NULL
      BY <2>1, <1>12, OnlyHeadAbove
    <2>3. Forward(R, n, i) = NULL
      BY <2>2, <1>2, <1>12 DEF Tall, top
    <2>4. ASSUME NEW o \in DOMAIN R.node, Tall(R, o, i) PROVE q[o] <= q[n]
      <3>1. Tall(L, o, i)
        BY <2>1, <2>4, <1>4, <1>6
      <3>2. o = head_
        BY <3>1, <2>1, OnlyHeadAbove
      <3>3. o = n /\ n \in DOMAIN L.node
        BY <3>2, <2>2, <1>12 DEF Tall
      <3> QED BY <3>3, <1>4, <1>5
    <2>5. ~ (i <= R.level)
      BY <2>1, <1>4
    <2> QED BY <2>2, <2>3, <2>4, <2>5 DEF LinkOK
  <1>13. ASSUME NEW n \in DOMAIN R.node, NEW i \in DOMAIN R.node[n].level
         PROVE  LinkOK(R, q, N + 1, n, i)
    <2>1. Tall(R, n, i)
      BY DEF Tall
    <2>2. CASE n = x /\ i \in 1..lvl
      BY <2>2, <1>8
    <2>3. CASE Tall(L, n, i)
      <3>1. CASE i \notin 1..top
        BY <3>1, <2>3, <1>12
      <3>2. CASE i \in 1..top /\ n # U(i)
        BY <3>2, <2>3, <1>11
      <3>3. CASE i \in 1..top /\ n = U(i)
        <4>1. i \in 1..lvl \/ ~ (i <= lvl)
          BY <3>3, <1>4
        <4> QED BY <4>1, <3>3, <1>9, <1>10
      <3> QED BY <3>1, <3>2, <3>3
    <2> QED BY <2>1, <2>2, <2>3, <1>6
  <1>14. ASSUME NEW i \in R.level + 1..MaxLevel PROVE Forward(R, head_, i) = NULL
    <2>1. i \in 1..MaxLevel /\ i \notin 1..top
      BY <1>3, <1>4
    <2>2. Tall(L, head_, i)
      BY <2>1 DEF NodesOK, Tall
    <2> QED BY <2>1, <2>2, <1>12
  <1> QED
    BY <1>13, <1>14 DEF Linked, R, q

\* The other fields Insert writes.
LEMMA InsertNodeFields ==
    ASSUME NEW L, NEW s, NEW m, NEW lvl, NEW x
    PROVE  LET R == InsertNode(L, s, m, lvl, x)
               before == Predecessors(L, s, m, lvl)[1]
           IN  /\ DOMAIN R.node = DOMAIN L.node \cup {x}
               /\ R.node[x].score = s /\ R.node[x].val = m
               /\ R.node[x].backward = BackwardTo(before.node)
               /\ \A n \in DOMAIN L.node \ {x} :
                     /\ R.node[n].score = L.node[n].score /\ R.node[n].val = L.node[n].val
                     /\ R.node[n].backward = IF n = before.link.forward THEN x
                                             ELSE L.node[n].backward
               /\ R.tail = IF before.link.forward = NULL THEN x ELSE L.tail
               /\ R.lenth = L.lenth + 1
               /\ R.level = Top(L, lvl)
  BY DEF InsertNode, Relinked

\* Insert allocates a node and keeps the types of all others.
LEMMA InsertNodesOK ==
    ASSUME NEW L, NEW pos, NEW N, NodesOK(L), PlacesOK(L, pos, N),
           NEW s \in Score, NEW m \in Member, NEW lvl \in 1..MaxLevel,
           NEW x \in Node \ DOMAIN L.node,
           NEW K, Splice(L, pos, N, Predecessors(L, s, m, lvl), Top(L, lvl), K)
    PROVE  /\ NodesOK(InsertNode(L, s, m, lvl, x))
           /\ Elements(InsertNode(L, s, m, lvl, x)) = Elements(L) \cup {x}
  <1> DEFINE R == InsertNode(L, s, m, lvl, x)
  <1>1. /\ DOMAIN R.node = DOMAIN L.node \cup {x}
        /\ DOMAIN R.node[x].level = 1..lvl
        /\ \A i \in 1..lvl :
              R.node[x].level[i] \in [forward : Elements(L) \cup {NULL}, span : Nat]
        /\ \A n \in DOMAIN L.node :
              /\ DOMAIN R.node[n].level = DOMAIN L.node[n].level
              /\ \A i \in DOMAIN L.node[n].level :
                    R.node[n].level[i] \in [forward : Elements(L) \cup {NULL, x}, span : Nat]
    BY InsertNodeLinks
  <1>2. /\ R.node[x].score = s /\ R.node[x].val = m
        /\ \A n \in DOMAIN L.node \ {x} :
              R.node[n].score = L.node[n].score /\ R.node[n].val = L.node[n].val
        /\ R.lenth = L.lenth + 1 /\ R.level = Top(L, lvl)
    BY InsertNodeFields
  <1>3. x # head_ /\ x \notin DOMAIN L.node /\ x \in Node
    BY AddressAssumption
  <1>4. Top(L, lvl) \in 1..MaxLevel /\ L.lenth \in Nat
    BY DEF Splice, NodesOK
  <1> HIDE DEF R
  <1>5. Elements(R) = Elements(L) \cup {x}
    BY <1>1, <1>3 DEF Elements
  <1>6. head_ \in DOMAIN R.node /\ Elements(R) \subseteq Node
        /\ R.level \in 1..MaxLevel /\ R.lenth \in Nat
    BY <1>1, <1>2, <1>3, <1>4, <1>5 DEF NodesOK
  <1>7. \A n \in Elements(R) : R.node[n].score \in Score /\ R.node[n].val \in Member
    BY <1>2, <1>3, <1>5 DEF NodesOK, Elements
  <1>8. DOMAIN R.node[head_].level = 1..MaxLevel
    BY <1>1, <1>3 DEF NodesOK
  <1>9. \A n \in Elements(R) : \E h \in 1..MaxLevel : DOMAIN R.node[n].level = 1..h
    <2> SUFFICES ASSUME NEW n \in Elements(R)
                 PROVE  \E h \in 1..MaxLevel : DOMAIN R.node[n].level = 1..h
      OBVIOUS
    <2>1. CASE n = x
      BY <2>1, <1>1
    <2>2. CASE n # x
      <3>1. n \in Elements(L) /\ n \in DOMAIN L.node
        BY <2>2, <1>5 DEF Elements
      <3> QED BY <3>1, <1>1 DEF NodesOK
    <2> QED BY <2>1, <2>2
  <1>10. ASSUME NEW n \in DOMAIN R.node, NEW i \in DOMAIN R.node[n].level
         PROVE  R.node[n].level[i] \in [forward : Elements(R) \cup {NULL}, span : Nat]
    <2>1. CASE n = x
      <3>1. R.node[x].level[i] \in [forward : Elements(L) \cup {NULL}, span : Nat]
        BY <2>1, <1>1, <1>10
      <3> QED BY <3>1, <2>1, <1>5
    <2>2. CASE n # x
      <3>1. R.node[n].level[i] \in [forward : Elements(L) \cup {NULL, x}, span : Nat]
        BY <2>2, <1>1, <1>10
      <3>2. Elements(L) \cup {NULL, x} = Elements(R) \cup {NULL}
        BY <1>5
      <3> QED BY <3>1, <3>2
    <2> QED BY <2>1, <2>2
  <1> QED
    BY <1>5, <1>6, <1>7, <1>8, <1>9, <1>10 DEF NodesOK, R

\* On the lowest level every link leads to the very next place.
LEMMA LowestLevel ==
    ASSUME NEW L, NEW pos, NEW N, NodesOK(L), PlacesOK(L, pos, N), Linked(L, pos, N),
           NEW n \in DOMAIN L.node
    PROVE  /\ Tall(L, n, 1)
           /\ Forward(L, n, 1) = NULL => pos[n] = N
           /\ Forward(L, n, 1) # NULL => /\ Forward(L, n, 1) \in Elements(L)
                                         /\ pos[Forward(L, n, 1)] = pos[n] + 1
  <1>1. ASSUME NEW o \in DOMAIN L.node PROVE Tall(L, o, 1)
    <2>1. CASE o = head_
      BY <2>1, LevelAssumption DEF NodesOK, Tall
    <2>2. CASE o # head_
      <3>1. PICK h \in 1..MaxLevel : DOMAIN L.node[o].level = 1..h
        BY <2>2 DEF NodesOK, Elements
      <3> QED BY <3>1, LevelAssumption DEF Tall
    <2> QED BY <2>1, <2>2
  <1>2. Tall(L, n, 1) /\ LinkOK(L, pos, N, n, 1)
    BY <1>1 DEF Linked, Tall
  <1>3. N \in Nat /\ pos[n] \in 0..N
    BY DEF PlacesOK
  <1>4. ASSUME Forward(L, n, 1) = NULL PROVE pos[n] = N
    <2>1. PICK o \in DOMAIN L.node : pos[o] = N
      BY <1>3 DEF PlacesOK
    <2>2. pos[o] <= pos[n]
      BY <1>1, <1>2, <1>4 DEF LinkOK
    <2> QED BY <2>1, <2>2, <1>3
  <1>5. ASSUME Forward(L, n, 1) # NULL
        PROVE  Forward(L, n, 1) \in Elements(L) /\ pos[Forward(L, n, 1)] = pos[n] + 1
    <2> DEFINE f == Forward(L, n, 1)
    <2>1. f \in Elements(L) /\ f \in DOMAIN L.node
      BY <1>2, <1>5, LinkType DEF Elements
    <2>2. /\ pos[n] < pos[f] /\ pos[f] \in 0..N
          /\ \A o \in DOMAIN L.node : Tall(L, o, 1) => pos[o] <= pos[n] \/ pos[f] <= pos[o]
      BY <1>2, <1>5, <2>1 DEF LinkOK, PlacesOK
    <2>3. PICK o \in DOMAIN L.node : pos[o] = pos[n] + 1
      <3>1. pos[n] + 1 \in 0..N
        BY <2>2, <1>3
      <3> QED BY <3>1 DEF PlacesOK
    <2>4. pos[o] <= pos[n] \/ pos[f] <= pos[o]
      BY <2>2, <1>1
    <2> QED BY <2>1, <2>2, <2>3, <2>4, <1>3
  <1> QED BY <1>2, <1>4, <1>5

\* Insert puts the member behind the lower and equal scores the walk passed and
\* before the others.
LEMMA InsertOrdered ==
    ASSUME NEW L, NEW pos, NEW N, Laid(L, pos, N), NEW s \in Score, NEW m \in Member,
           NEW lvl \in 1..MaxLevel, NEW x \in Node \ DOMAIN L.node
    PROVE  Ordered(InsertNode(L, s, m, lvl, x),
                   Opened(L, pos, x, pos[Predecessors(L, s, m, lvl)[1].node]))
  <1> DEFINE R == InsertNode(L, s, m, lvl, x)
             u == Predecessors(L, s, m, lvl)[1].node
             next == Predecessors(L, s, m, lvl)[1].link.forward
             K == pos[u]
             q == Opened(L, pos, x, K)
  <1>1. NodesOK(L) /\ PlacesOK(L, pos, N) /\ Linked(L, pos, N) /\ Ordered(L, pos)
    BY DEF Laid
  <1>2. /\ Splice(L, pos, N, Predecessors(L, s, m, lvl), Top(L, lvl), K)
        /\ u \in Elements(L) => L.node[u].score <= s
        /\ next # NULL => s <= L.node[next].score
    BY PredecessorsSplice
  <1>3. u \in DOMAIN L.node /\ next = Forward(L, u, 1) /\ K \in 0..N
    BY <1>2, LevelAssumption DEF Splice, Tall
  <1>4. Elements(R) = Elements(L) \cup {x} /\ x \notin DOMAIN L.node
    BY <1>1, <1>2, InsertNodesOK
  <1>5. /\ R.node[x].score = s
        /\ \A n \in DOMAIN L.node \ {x} : R.node[n].score = L.node[n].score
    BY InsertNodeFields
  <1>6. /\ next = NULL => K = N
        /\ next # NULL => next \in Elements(L) /\ pos[next] = K + 1
    BY <1>1, <1>3, LowestLevel
  <1>7. N \in Nat /\ K \in Nat /\ K <= N
    BY <1>1, <1>3 DEF PlacesOK
  <1>8. ASSUME NEW n \in Elements(L)
        PROVE  /\ n \in DOMAIN L.node /\ pos[n] \in Nat /\ pos[n] <= N /\ pos[n] # 0 /\ n # x
               /\ q[n] = IF K < pos[n] THEN pos[n] + 1 ELSE pos[n]
               /\ L.node[n].score \in Int /\ R.node[n].score = L.node[n].score
    <2>1. n \in DOMAIN L.node /\ n # head_ /\ n # x
      BY <1>4 DEF Elements
    <2>2. pos[n] \in 0..N /\ pos[n] # pos[head_] /\ pos[head_] = 0
      BY <2>1, <1>1 DEF PlacesOK, NodesOK
    <2>3. L.node[n].score \in Int
      BY <1>1, ScoreAssumption DEF NodesOK
    <2>4. q[n] = IF K < pos[n] THEN pos[n] + 1 ELSE pos[n]
      BY <2>1 DEF Opened
    <2> QED BY <2>1, <2>2, <2>3, <2>4, <1>5, <1>7
  <1>9. q[x] = K + 1 /\ s \in Int
    BY ScoreAssumption DEF Opened
  <1> HIDE DEF R, u, next, K, q
  <1>10. ASSUME NEW n \in Elements(L), pos[n] <= K PROVE L.node[n].score <= s
    <2>1. u \in Elements(L)
      <3>1. u # head_
        BY <1>1, <1>7, <1>8, <1>10 DEF PlacesOK, K
      <3> QED BY <3>1, <1>3 DEF Elements
    <2>2. pos[n] < pos[u] => L.node[n].score <= L.node[u].score
      BY <2>1, <1>1 DEF Ordered
    <2>3. pos[n] = pos[u] => n = u
      BY <1>1, <1>3, <1>8 DEF PlacesOK
    <2>4. L.node[u].score \in Int /\ L.node[n].score \in Int /\ pos[u] \in Nat /\ pos[n] \in Nat
      BY <2>1, <1>8
    <2>5. pos[n] < pos[u] \/ pos[n] = pos[u]
      BY <2>4, <1>10 DEF K
    <2> QED BY <2>1, <2>2, <2>3, <2>4, <2>5, <1>2, <1>9
  <1>11. ASSUME NEW n \in Elements(L), K < pos[n] PROVE s <= L.node[n].score
    <2>1. next \in Elements(L) /\ pos[next] = K + 1 /\ s <= L.node[next].score
      BY <1>2, <1>6, <1>7, <1>8, <1>11
    <2>2. pos[next] < pos[n] => L.node[next].score <= L.node[n].score
      BY <2>1, <1>1 DEF Ordered
    <2>3. pos[next] = pos[n] => n = next
      BY <2>1, <1>1, <1>8 DEF PlacesOK
    <2>4. L.node[next].score \in Int /\ L.node[n].score \in Int
      BY <2>1, <1>8
    <2>5. pos[next] < pos[n] \/ pos[next] = pos[n]
      BY <2>1, <1>7, <1>8, <1>11
    <2> QED BY <2>1, <2>2, <2>3, <2>4, <2>5, <1>9
  <1>12. ASSUME NEW n \in Elements(R), NEW o \in Elements(R), q[n] < q[o]
         PROVE  R.node[n].score <= R.node[o].score
    <2>1. CASE n = x /\ o = x
      BY <2>1, <1>5, <1>9
    <2>2. CASE n = x /\ o \in Elements(L)
      <3>1. K < pos[o]
        BY <2>2, <1>7, <1>8, <1>9, <1>12
      <3> QED BY <3>1, <2>2, <1>5, <1>8, <1>11
    <2>3. CASE n \in Elements(L) /\ o = x
      <3>1. pos[n] <= K
        BY <2>3, <1>7, <1>8, <1>9, <1>12
      <3> QED BY <3>1, <2>3, <1>5, <1>8, <1>10
    <2>4. CASE n \in Elements(L) /\ o \in Elements(L)
      <3>1. pos[n] < pos[o]
        BY <2>4, <1>7, <1>8, <1>12
      <3> QED BY <3>1, <2>4, <1>1, <1>8 DEF Ordered
    <2> QED BY <2>1, <2>2, <2>3, <2>4, <1>4
  <1> QED
    BY <1>12 DEF Ordered, R, q, K, u

\* Insert sets the backward links on both sides of the new node, and tail_ when
\* it is the last one.
LEMMA InsertMirrored ==
    ASSUME NEW L, NEW pos, NEW N, Laid(L, pos, N), NEW s \in Score, NEW m \in Member,
           NEW lvl \in 1..MaxLevel, NEW x \in Node \ DOMAIN L.node
    PROVE  Mirrored(InsertNode(L, s, m, lvl, x),
                    Opened(L, pos, x, pos[Predecessors(L, s, m, lvl)[1].node]), N + 1)
  <1> DEFINE R == InsertNode(L, s, m, lvl, x)
             u == Predecessors(L, s, m, lvl)[1].node
             next == Predecessors(L, s, m, lvl)[1].link.forward
             K == pos[u]
             q == Opened(L, pos, x, K)
  <1>1. NodesOK(L) /\ PlacesOK(L, pos, N) /\ Linked(L, pos, N) /\ Mirrored(L, pos, N)
    BY DEF Laid
  <1>2. Splice(L, pos, N, Predecessors(L, s, m, lvl), Top(L, lvl), K)
    BY PredecessorsSplice
  <1>3. u \in DOMAIN L.node /\ next = Forward(L, u, 1) /\ K \in 0..N
    BY <1>2, LevelAssumption DEF Splice, Tall
  <1>4. Elements(R) = Elements(L) \cup {x} /\ x \notin DOMAIN L.node
    BY <1>1, <1>2, InsertNodesOK
  <1>5. /\ R.node[x].backward = BackwardTo(u)
        /\ \A n \in DOMAIN L.node \ {x} :
              R.node[n].backward = IF n = next THEN x ELSE L.node[n].backward
        /\ R.tail = IF next = NULL THEN x ELSE L.tail
    BY InsertNodeFields
  <1>6. /\ next = NULL => K = N
        /\ next # NULL => next \in Elements(L) /\ pos[next] = K + 1
    BY <1>1, <1>3, LowestLevel
  <1>7. N \in Nat /\ K \in Nat /\ K <= N /\ q[x] = K + 1
    BY <1>1, <1>3 DEF PlacesOK, Opened
  <1>8. ASSUME NEW n \in Elements(L)
        PROVE  /\ n \in DOMAIN L.node /\ pos[n] \in Nat /\ pos[n] <= N /\ pos[n] # 0 /\ n # x
               /\ q[n] = IF K < pos[n] THEN pos[n] + 1 ELSE pos[n]
    <2>1. n \in DOMAIN L.node /\ n # head_ /\ n # x
      BY <1>4 DEF Elements
    <2>2. pos[n] \in 0..N /\ pos[n] # pos[head_] /\ pos[head_] = 0
      BY <2>1, <1>1 DEF PlacesOK, NodesOK
    <2>4. q[n] = IF K < pos[n] THEN pos[n] + 1 ELSE pos[n]
      BY <2>1 DEF Opened
    <2> QED BY <2>1, <2>2, <2>4, <1>7
  <1> HIDE DEF R, u, next, K, q
  <1>9. R.tail \in Elements(R) /\ q[R.tail] = N + 1
    <2>1. CASE next = NULL
      BY <2>1, <1>4, <1>5, <1>6, <1>7
    <2>2. CASE next # NULL
      <3>1. K < N
        BY <2>2, <1>6, <1>7, <1>8
      <3>2. L.tail \in Elements(L) /\ pos[L.tail] = N /\ R.tail = L.tail
        BY <2>2, <3>1, <1>1, <1>5, <1>7 DEF Mirrored
      <3> QED BY <3>1, <3>2, <1>4, <1>8
    <2> QED BY <2>1, <2>2
  <1>10. ASSUME NEW n \in Elements(R)
         PROVE  /\ q[n] = 1 => R.node[n].backward = NULL
                /\ q[n] > 1 => /\ R.node[n].backward \in Elements(R)
                               /\ q[R.node[n].backward] = q[n] - 1
    <2>1. CASE n = x
      <3>1. CASE u = head_
        <4>1. K = 0
          BY <3>1, <1>1 DEF PlacesOK, K
        <4>2. R.node[x].backward = NULL
          BY <3>1, <1>5 DEF BackwardTo
        <4> QED BY <4>1, <4>2, <2>1, <1>7
      <3>2. CASE u # head_
        <4>1. u \in Elements(L) /\ R.node[x].backward = u
          BY <3>2, <1>3, <1>5 DEF BackwardTo, Elements
        <4>2. q[u] = K /\ K # 0
          BY <4>1, <1>8 DEF K
        <4> QED BY <4>1, <4>2, <2>1, <1>4, <1>7
      <3> QED BY <3>1, <3>2
    <2>2. CASE n \in Elements(L) /\ n = next
      <3>1. pos[n] = K + 1 /\ q[n] = K + 2
        <4>1. pos[n] = K + 1
          BY <2>2, <1>6, AddressAssumption, <1>1 DEF NodesOK
        <4> QED BY <4>1, <2>2, <1>7, <1>8
      <3>2. R.node[n].backward = x
        BY <2>2, <1>5, <1>8
      <3> QED BY <3>1, <3>2, <1>4, <1>7
    <2>3. CASE n \in Elements(L) /\ n # next /\ pos[n] <= K
      <3>1. R.node[n].backward = L.node[n].backward /\ q[n] = pos[n]
        BY <2>3, <1>5, <1>7, <1>8
      <3>2. /\ pos[n] = 1 => L.node[n].backward = NULL
            /\ pos[n] > 1 => /\ L.node[n].backward \in Elements(L)
                             /\ pos[L.node[n].backward] = pos[n] - 1
        BY <2>3, <1>1 DEF Mirrored
      <3>3. pos[n] > 1 => q[L.node[n].backward] = pos[n] - 1
        BY <2>3, <3>2, <1>7, <1>8
      <3> QED BY <3>1, <3>2, <3>3, <1>4
    <2>4. CASE n \in Elements(L) /\ n # next /\ K < pos[n]
      <3>1. R.node[n].backward = L.node[n].backward /\ q[n] = pos[n] + 1
        BY <2>4, <1>5, <1>7, <1>8
      <3>2. next # NULL
        BY <2>4, <1>6, <1>7, <1>8
      <3>3. pos[n] # K + 1
        BY <2>4, <3>2, <1>1, <1>6, <1>8 DEF PlacesOK
      <3>4. pos[n] > K + 1 /\ pos[n] > 1
        BY <2>4, <3>3, <1>7, <1>8
      <3>5. L.node[n].backward \in Elements(L) /\ pos[L.node[n].backward] = pos[n] - 1
        BY <2>4, <3>4, <1>1 DEF Mirrored
      <3>6. q[L.node[n].backward] = pos[n]
        BY <2>4, <3>4, <3>5, <1>7, <1>8
      <3> QED BY <2>4, <3>1, <3>4, <3>5, <3>6, <1>4, <1>8
    <2>5. \/ n = x
          \/ n \in Elements(L) /\ n = next
          \/ n \in Elements(L) /\ n # next /\ pos[n] <= K
          \/ n \in Elements(L) /\ n # next /\ K < pos[n]
      BY <1>4, <1>7, <1>8
    <2> QED BY <2>1, <2>2, <2>3, <2>4, <2>5
  <1>11. N + 1 > 0
    BY <1>7
  <1> QED
    <2> HIDE DEF R, q
    <2>1. Mirrored(R, q, N + 1)
      BY <1>7, <1>9, <1>10, <1>11 DEF Mirrored
    <2> QED BY <2>1 DEF R, q, K, u

\* Insert keeps the heap laid out, with one place more.
LEMMA InsertKeepsLaid ==
    ASSUME NEW L, NEW pos, NEW N, Laid(L, pos, N), NEW s \in Score, NEW m \in Member,
           NEW lvl \in 1..MaxLevel, NEW x \in Node \ DOMAIN L.node
    PROVE  LET K == pos[Predecessors(L, s, m, lvl)[1].node]
           IN  /\ K \in 0..N
               /\ Laid(InsertNode(L, s, m, lvl, x), Opened(L, pos, x, K), N + 1)
  <1> DEFINE R == InsertNode(L, s, m, lvl, x)
             K == pos[Predecessors(L, s, m, lvl)[1].node]
             q == Opened(L, pos, x, K)
  <1>1. NodesOK(L) /\ PlacesOK(L, pos, N) /\ Linked(L, pos, N)
    BY DEF Laid
  <1>2. Splice(L, pos, N, Predecessors(L, s, m, lvl), Top(L, lvl), K) /\ K \in 0..N
    <2>1. Splice(L, pos, N, Predecessors(L, s, m, lvl), Top(L, lvl), K)
      BY PredecessorsSplice
    <2> QED BY <2>1 DEF Splice
  <1>3. NodesOK(R)
    BY <1>1, <1>2, InsertNodesOK
  <1>4. Linked(R, q, N + 1)
    BY <1>1, <1>2, InsertLinked
  <1>5. Ordered(R, q) /\ Mirrored(R, q, N + 1)
    BY InsertOrdered, InsertMirrored
  <1>6. PlacesOK(R, q, N + 1)
    <2>1. DOMAIN R.node = DOMAIN L.node \cup {x} /\ R.lenth = L.lenth + 1
      BY InsertNodeFields
    <2>2. x \notin DOMAIN L.node /\ x # head_ /\ head_ \in DOMAIN L.node
      BY <1>1, AddressAssumption DEF NodesOK
    <2> HIDE DEF K
    <2>3. OnePlaceEach(DOMAIN L.node \cup {x}, q, N + 1)
      BY <1>1, <1>2, <2>2, OpenedPlaces
    <2>4. q[head_] = 0
      <3>1. q[head_] = IF K < pos[head_] THEN pos[head_] + 1 ELSE pos[head_]
        BY <2>2 DEF Opened
      <3> QED BY <3>1, <1>1, <1>2 DEF PlacesOK
    <2>5. N + 1 \in Nat /\ N + 1 <= R.lenth
      BY <2>1, <1>1 DEF PlacesOK, NodesOK
    <2> HIDE DEF R, q
    <2> QED BY <2>1, <2>3, <2>4, <2>5 DEF PlacesOK, OnePlaceEach
  <1> QED
    BY <1>2, <1>3, <1>4, <1>5, <1>6 DEF Laid

-----------------------------------------------------------------------------
(* Delete.                                                                  *)

\* LevelInUse is a level of the list, and the head has no link above it.
LEMMA LevelInUseIsHighest ==
    ASSUME NEW node, NEW level \in 1..MaxLevel
    PROVE  /\ LevelInUse(node, level) \in 1..level
           /\ \A i \in LevelInUse(node, level) + 1..level :
                 node[head_].level[i].forward = NULL
  <1> DEFINE used == {1} \cup {i \in 1..level : node[head_].level[i].forward # NULL}
             above == {level - i : i \in used}
  <1>1. level \in Nat /\ used \subseteq 1..level /\ 1 \in used
    BY LevelAssumption
  <1>2. above \in SUBSET Nat /\ above # {}
    <2>1. \A i \in used : level - i \in Nat
      <3> HIDE DEF used
      <3> QED BY <1>1
    <2>2. level - 1 \in above
      BY <1>1
    <2> HIDE DEF used
    <2> QED BY <2>1, <2>2
  <1>3. PICK d \in above : \A e \in above : d <= e
    <2> HIDE DEF above
    <2> QED BY <1>2, LeastElement
  <1>4. PICK i \in used : \A e \in above : level - i <= e
    BY <1>3
  <1>5. \A j \in used : j <= i
    <2> SUFFICES ASSUME NEW j \in used PROVE j <= i
      OBVIOUS
    <2>1. level - i <= level - j
      BY <1>4
    <2> HIDE DEF used
    <2> QED BY <2>1, <1>1
  <1>6. \E k \in used : \A j \in used : j <= k
    BY <1>5
  <1>7. /\ LevelInUse(node, level) \in used
        /\ \A j \in used : j <= LevelInUse(node, level)
    <2>1. LevelInUse(node, level) = CHOOSE k \in used : \A j \in used : j <= k
      BY DEF LevelInUse
    <2> HIDE DEF used
    <2> QED BY <2>1, <1>6
  <1>8. ASSUME NEW j \in LevelInUse(node, level) + 1..level
        PROVE  node[head_].level[j].forward = NULL
    <2>1. LevelInUse(node, level) \in 1..level
      BY <1>1, <1>7
    <2>2. j \in 1..level /\ ~ (j <= LevelInUse(node, level))
      BY <2>1, <1>1
    <2>3. j \notin used
      BY <2>2, <1>7
    <2> QED BY <2>2, <2>3
  <1>9. LevelInUse(node, level) \in 1..level
    BY <1>1, <1>7
  <1> QED BY <1>8, <1>9

\* The places once x is gone.
Closed(L, pos, x) ==
    [n \in DOMAIN L.node \ {x} |-> IF pos[x] < pos[n] THEN pos[n] - 1 ELSE pos[n]]

LEMMA ClosedPlaces ==
    ASSUME NEW L, NEW pos, NEW N, NodesOK(L), PlacesOK(L, pos, N), NEW x \in Elements(L)
    PROVE  OnePlaceEach(DOMAIN L.node \ {x}, Closed(L, pos, x), N - 1)
  <1> DEFINE q == Closed(L, pos, x)
             p == pos[x]
             D == DOMAIN L.node \ {x}
  <1>1. N \in Nat /\ p \in Nat /\ p <= N /\ p # 0 /\ x \in DOMAIN L.node
    <2>1. x \in DOMAIN L.node /\ x # head_
      BY DEF Elements
    <2> QED BY <2>1 DEF PlacesOK, NodesOK
  <1>2. ASSUME NEW n \in D
        PROVE  /\ pos[n] \in Nat /\ pos[n] <= N /\ pos[n] # p
               /\ q[n] = IF p < pos[n] THEN pos[n] - 1 ELSE pos[n]
    <2>1. pos[n] \in 0..N /\ pos[n] # p
      BY <1>1 DEF PlacesOK
    <2> QED BY <2>1, <1>1 DEF Closed
  <1> HIDE DEF p
  <1>3. \A n \in D : q[n] \in 0..N - 1
    <2> HIDE DEF q, D
    <2> QED BY <1>1, <1>2
  <1>4. q = [n \in D |-> q[n]]
    BY DEF Closed
  <1> HIDE DEF q
  <1>5. ASSUME NEW n \in D, NEW o \in D, q[n] = q[o] PROVE n = o
    <2>1. pos[n] = pos[o]
      BY <1>1, <1>2, <1>5
    <2> QED BY <2>1 DEF PlacesOK
  <1>6. ASSUME NEW k \in 0..N - 1 PROVE \E n \in D : q[n] = k
    <2>1. CASE k < p
      <3>1. k \in 0..N
        BY <1>1
      <3>2. PICK n \in DOMAIN L.node : pos[n] = k
        BY <3>1 DEF PlacesOK
      <3>3. n \in D
        BY <3>2, <2>1, <1>1 DEF p
      <3> QED BY <3>2, <3>3, <2>1, <1>1, <1>2
    <2>2. CASE p <= k
      <3>1. k + 1 \in 0..N
        BY <1>1
      <3>2. PICK n \in DOMAIN L.node : pos[n] = k + 1
        BY <3>1 DEF PlacesOK
      <3>3. n \in D
        BY <3>2, <2>2, <1>1 DEF p
      <3> QED BY <3>2, <3>3, <2>2, <1>1, <1>2
    <2> QED BY <2>1, <2>2, <1>1
  <1>7. q \in [D -> 0..N - 1]
    <2> HIDE DEF D
    <2> QED BY <1>3, <1>4
  <1> QED
    BY <1>5, <1>6, <1>7 DEF OnePlaceEach, q

\* The links DeleteNode is about to change: on each level the one that leads to
\* x or over it.
Over(L, pos, update, x) ==
    \A i \in 1..L.level :
        /\ Tall(L, update[i].node, i) /\ pos[update[i].node] < pos[x]
        /\ Forward(L, update[i].node, i) # NULL =>
              pos[x] <= pos[Forward(L, update[i].node, i)]

\* The walk of Delete finds them.
LEMMA PathOver ==
    ASSUME NEW L, NEW pos, NEW N, Laid(L, pos, N), NEW s, NEW m, Target(L, s, m) # NULL
    PROVE  LET x == Target(L, s, m) IN
           /\ x \in Elements(L) /\ L.node[x].score = s /\ L.node[x].val = m
           /\ Over(L, pos, PathTo(L, s, m), x)
  <1> DEFINE P == {n \in Elements(L) : Before(L, s, m, n)}
             path == PathTo(L, s, m)
             x == Target(L, s, m)
             E(i) == path[i].node
  <1>1. NodesOK(L) /\ PlacesOK(L, pos, N) /\ Linked(L, pos, N)
    BY DEF Laid
  <1>2. /\ x \in Elements(L) /\ L.node[x].score = s /\ L.node[x].val = m
        /\ x = Forward(L, E(1), 1)
    BY DEF Target
  <1>3. path = Descend(L, Onto(L, P))
    BY DEF PathTo
  <1> HIDE DEF path, P, x
  <1>4. \A i \in 1..L.level :
              /\ Tall(L, E(i), i)
              /\ pos[E(i)] <= pos[E(1)]
              /\ Forward(L, E(i), i) # NULL => pos[E(1)] < pos[Forward(L, E(i), i)]
    BY <1>1, <1>3, DescendOnto
  <1>5. 1 \in 1..L.level
    BY <1>1, LevelAssumption DEF NodesOK
  <1>6. E(1) \in DOMAIN L.node /\ x # NULL
    BY <1>1, <1>2, <1>4, <1>5, AddressAssumption DEF Tall, NodesOK
  <1>7. pos[x] = pos[E(1)] + 1 /\ pos[E(1)] \in Nat
    BY <1>1, <1>2, <1>6, LowestLevel DEF PlacesOK
  <1>8. ASSUME NEW i \in 1..L.level
        PROVE  /\ pos[E(i)] < pos[x]
               /\ Forward(L, E(i), i) # NULL => pos[x] <= pos[Forward(L, E(i), i)]
    <2>1. E(i) \in DOMAIN L.node /\ pos[E(i)] \in Nat
      BY <1>1, <1>4 DEF Tall, PlacesOK
    <2>2. ASSUME Forward(L, E(i), i) # NULL PROVE pos[Forward(L, E(i), i)] \in Nat
      <3>1. Forward(L, E(i), i) \in DOMAIN L.node
        BY <2>2, <1>1, <1>4, LinkType DEF Elements
      <3> QED BY <3>1, <1>1 DEF PlacesOK
    <2> QED BY <2>1, <2>2, <1>4, <1>7
  <1> QED
    BY <1>2, <1>4, <1>8 DEF Over, path, x

\* What DeleteNode writes.
LEMMA DeleteNodeFields ==
    ASSUME NEW L, NEW x, NEW update, L.level \in 1..MaxLevel, head_ # x
    PROVE  LET R == DeleteNode(L, x, update)
           IN  /\ DOMAIN R.node = DOMAIN L.node \ {x}
               /\ \A n \in DOMAIN L.node \ {x} :
                     /\ R.node[n].score = L.node[n].score /\ R.node[n].val = L.node[n].val
                     /\ R.node[n].backward = IF n = Forward(L, x, 1) THEN L.node[x].backward
                                             ELSE L.node[n].backward
                     /\ R.node[n].level = LinksAfterDelete(L, x, update, n)
               /\ R.tail = IF Forward(L, x, 1) = NULL THEN L.node[x].backward ELSE L.tail
               /\ R.lenth = L.lenth + 1
               /\ R.level \in 1..L.level
               /\ \A i \in R.level + 1..L.level : Forward(R, head_, i) = NULL
  <1> DEFINE R == DeleteNode(L, x, update)
  <1>1. R.level = LevelInUse(R.node, L.level)
    BY DEF DeleteNode
  <1>2. /\ R.level \in 1..L.level
        /\ \A i \in R.level + 1..L.level : R.node[head_].level[i].forward = NULL
    <2> HIDE DEF R
    <2> QED BY <1>1, LevelInUseIsHighest
  <1>3. /\ DOMAIN R.node = DOMAIN L.node \ {x}
        /\ \A n \in DOMAIN L.node \ {x} :
              /\ R.node[n].score = L.node[n].score /\ R.node[n].val = L.node[n].val
              /\ R.node[n].backward = BackwardAfterDelete(L, x, n)
              /\ R.node[n].level = LinksAfterDelete(L, x, update, n)
        /\ R.tail = IF Forward(L, x, 1) = NULL THEN L.node[x].backward ELSE L.tail
        /\ R.lenth = L.lenth + 1
    BY DEF DeleteNode, Relinked
  <1> HIDE DEF R
  <1> QED
    BY <1>2, <1>3 DEF R, BackwardAfterDelete, Forward

\* The same, link by link.
LEMMA DeleteNodeLinks ==
    ASSUME NEW L, NEW pos, NEW N, NodesOK(L), PlacesOK(L, pos, N), Linked(L, pos, N),
           NEW x \in Elements(L), NEW update, Over(L, pos, update, x)
    PROVE  LET R == DeleteNode(L, x, update)
               U(i) == update[i].node
           IN  \A n \in DOMAIN L.node \ {x} :
                 /\ DOMAIN R.node[n].level = DOMAIN L.node[n].level
                 /\ \A i \in DOMAIN L.node[n].level :
                     /\ R.node[n].level[i] \in [forward : Elements(L) \cup {NULL}, span : Nat]
                     /\ i \notin 1..L.level \/ U(i) # n =>
                           R.node[n].level[i] = L.node[n].level[i]
                     /\ i \in 1..L.level /\ U(i) = n =>
                          /\ Forward(L, n, i) = x =>
                               /\ Tall(L, x, i)
                               /\ Forward(R, n, i) = Forward(L, x, i)
                               /\ Span(R, n, i) = Span(L, n, i) + Span(L, x, i) - 1
                          /\ Forward(L, n, i) # x =>
                               /\ Forward(R, n, i) = Forward(L, n, i)
                               /\ Span(R, n, i) = Span(L, n, i) - 1
  <1> DEFINE R == DeleteNode(L, x, update)
             U(i) == update[i].node
  <1>1. L.level \in 1..MaxLevel /\ head_ # x /\ N \in Nat /\ L.level \in Nat
    BY LevelAssumption DEF NodesOK, Elements, PlacesOK
  <1>2. \A n \in DOMAIN L.node \ {x} : R.node[n].level = LinksAfterDelete(L, x, update, n)
    BY <1>1, DeleteNodeFields
  <1>3. ASSUME NEW n \in DOMAIN L.node \ {x}
        PROVE  /\ DOMAIN R.node[n].level = DOMAIN L.node[n].level
               /\ \A i \in DOMAIN L.node[n].level : i \in Nat
    <2>1. DOMAIN R.node[n].level = DOMAIN L.node[n].level
      BY <1>2 DEF LinksAfterDelete
    <2>2. ASSUME NEW i \in DOMAIN L.node[n].level PROVE i \in Nat
      <3>1. Tall(L, n, i)
        BY DEF Tall
      <3>2. CASE n = head_
        BY <3>2, LevelAssumption DEF NodesOK
      <3>3. CASE n # head_
        <4>1. PICK h \in 1..MaxLevel : DOMAIN L.node[n].level = 1..h
          BY <3>3 DEF NodesOK, Elements
        <4> QED BY <4>1
      <3> QED BY <3>2, <3>3
    <2> QED BY <2>1, <2>2
  <1> HIDE DEF R
  <1>4. ASSUME NEW n \in DOMAIN L.node \ {x}, NEW i \in DOMAIN L.node[n].level
        PROVE  /\ R.node[n].level[i] \in [forward : Elements(L) \cup {NULL}, span : Nat]
               /\ i \notin 1..L.level \/ U(i) # n =>
                     R.node[n].level[i] = L.node[n].level[i]
               /\ i \in 1..L.level /\ U(i) = n =>
                    /\ Forward(L, n, i) = x =>
                         /\ Tall(L, x, i)
                         /\ Forward(R, n, i) = Forward(L, x, i)
                         /\ Span(R, n, i) = Span(L, n, i) + Span(L, x, i) - 1
                    /\ Forward(L, n, i) # x =>
                         /\ Forward(R, n, i) = Forward(L, n, i)
                         /\ Span(R, n, i) = Span(L, n, i) - 1
    <2> DEFINE link == L.node[n].level[i]
               f == Forward(L, n, i)
    <2>1. /\ Tall(L, n, i) /\ i \in Nat /\ LinkOK(L, pos, N, n, i)
          /\ link \in [forward : Elements(L) \cup {NULL}, span : Nat]
          /\ link.forward = f /\ link.span = Span(L, n, i) /\ Span(L, n, i) \in Nat
          /\ link = [forward |-> link.forward, span |-> link.span]
      <3>1. Tall(L, n, i)
        BY DEF Tall
      <3>2. /\ link \in [forward : Elements(L) \cup {NULL}, span : Nat]
            /\ link.forward = f /\ link.span = Span(L, n, i) /\ Span(L, n, i) \in Nat
        BY <3>1, LinkType
      <3> HIDE DEF link
      <3> QED BY <3>1, <3>2, <1>3 DEF Linked, Tall
    <2>2. R.node[n].level[i] =
             CASE i > L.level -> link
               [] i <= L.level /\ U(i) # n -> link
               [] i <= L.level /\ U(i) = n ->
                    IF link.forward = x
                    THEN [forward |-> Forward(L, x, i),
                          span    |-> link.span + L.node[x].level[i].span - 1]
                    ELSE [link EXCEPT !.span = @ - 1]
      BY <1>2 DEF LinksAfterDelete
    <2> HIDE DEF link
    <2>3. CASE i \notin 1..L.level \/ U(i) # n
      <3>1. i > L.level \/ (i <= L.level /\ U(i) # n)
        <4>1. i # 0
          <5>1. CASE n = head_
            BY <5>1, LevelAssumption DEF NodesOK
          <5>2. CASE n # head_
            <6>1. PICK h \in 1..MaxLevel : DOMAIN L.node[n].level = 1..h
              BY <5>2 DEF NodesOK, Elements
            <6> QED BY <6>1
          <5> QED BY <5>1, <5>2
        <4> QED BY <4>1, <2>1, <2>3, <1>1
      <3>2. R.node[n].level[i] = link
        BY <3>1, <2>1, <2>2, <1>1
      <3> QED BY <3>2, <2>1, <2>3 DEF link
    <2>4. CASE i \in 1..L.level /\ U(i) = n /\ f = x
      <3>1. R.node[n].level[i] = [forward |-> Forward(L, x, i),
                                  span    |-> link.span + L.node[x].level[i].span - 1]
        BY <2>1, <2>2, <2>4, <1>1
      <3>2. f # NULL
        BY <2>4, AddressAssumption DEF NodesOK
      <3>3. Tall(L, x, i) /\ pos[n] < pos[x] /\ Span(L, n, i) = pos[x] - pos[n]
        BY <2>1, <2>4, <3>2 DEF LinkOK
      <3>4. /\ Forward(L, x, i) \in Elements(L) \cup {NULL} /\ Span(L, x, i) \in Nat
            /\ L.node[x].level[i].span = Span(L, x, i)
        BY <3>3, LinkType
      <3>5. pos[n] \in Nat /\ pos[x] \in Nat
        BY <2>1, <3>3 DEF PlacesOK, Tall
      <3>6. link.span + L.node[x].level[i].span - 1 \in Nat
        BY <2>1, <3>3, <3>4, <3>5
      <3> QED BY <3>1, <3>3, <3>4, <3>6, <2>1, <2>4 DEF Forward, Span
    <2>5. CASE i \in 1..L.level /\ U(i) = n /\ f # x
      <3>1. R.node[n].level[i] = [link EXCEPT !.span = @ - 1]
        BY <2>1, <2>2, <2>5, <1>1
      <3>2. R.node[n].level[i] = [forward |-> f, span |-> Span(L, n, i) - 1]
        BY <3>1, <2>1
      <3>3. Span(L, n, i) # 0
        <4>1. pos[n] < pos[x] /\ pos[n] \in Nat /\ pos[x] \in Nat /\ pos[x] <= N
          BY <2>1, <2>5 DEF Over, PlacesOK, Tall, Elements
        <4>2. f = NULL => N - pos[n] <= Span(L, n, i)
          BY <2>1, <2>5 DEF LinkOK
        <4>3. f # NULL => pos[n] < pos[f] /\ Span(L, n, i) = pos[f] - pos[n]
          BY <2>1 DEF LinkOK
        <4>4. f # NULL => pos[f] \in Nat
          BY <2>1 DEF PlacesOK, Elements
        <4> QED BY <4>1, <4>2, <4>3, <4>4, <1>1
      <3>4. Span(L, n, i) - 1 \in Nat
        BY <3>3, <2>1
      <3>5. [forward |-> f, span |-> Span(L, n, i) - 1] \in [forward : Elements(L) \cup {NULL}, span : Nat]
        BY <3>4, <2>1
      <3>6. Forward(R, n, i) = f /\ Span(R, n, i) = Span(L, n, i) - 1
        <4> HIDE DEF f
        <4> DEFINE d == Span(L, n, i) - 1
        <4>1. R.node[n].level[i] = [forward |-> f, span |-> d]
          BY <3>2
        <4>2. Forward(R, n, i) = f /\ Span(R, n, i) = d
          <5> HIDE DEF d
          <5> QED BY <4>1 DEF Forward, Span
        <4> QED BY <4>2
      <3>7. R.node[n].level[i] \in [forward : Elements(L) \cup {NULL}, span : Nat]
        BY <3>2, <3>5
      <3> QED BY <3>6, <3>7, <2>5
    <2> QED BY <2>3, <2>4, <2>5
  <1> QED
    BY <1>3, <1>4 DEF R

\* The links after Delete lead to the next places.
LEMMA DeleteLinked ==
    ASSUME NEW L, NEW pos, NEW N, NodesOK(L), PlacesOK(L, pos, N), Linked(L, pos, N),
           NEW x \in Elements(L), NEW update, Over(L, pos, update, x)
    PROVE  Linked(DeleteNode(L, x, update), Closed(L, pos, x), N - 1)
  <1> DEFINE R == DeleteNode(L, x, update)
             q == Closed(L, pos, x)
             p == pos[x]
             D == DOMAIN L.node \ {x}
             U(i) == update[i].node
  <1>1. /\ L.level \in 1..MaxLevel /\ L.level \in Nat /\ MaxLevel \in Nat /\ N \in Nat
        /\ x # head_ /\ x \in DOMAIN L.node /\ x # NULL
        /\ p \in Nat /\ p <= N
    <2>1. L.level \in 1..MaxLevel /\ L.level \in Nat /\ MaxLevel \in Nat
      BY LevelAssumption DEF NodesOK
    <2>2. x # head_ /\ x \in DOMAIN L.node /\ x # NULL
      BY AddressAssumption DEF NodesOK, Elements
    <2>3. N \in Nat /\ p \in Nat /\ p <= N
      BY <2>2 DEF PlacesOK
    <2> QED BY <2>1, <2>2, <2>3
  <1>2. /\ DOMAIN R.node = D
        /\ R.level \in 1..L.level
        /\ \A i \in R.level + 1..L.level : Forward(R, head_, i) = NULL
    BY <1>1, DeleteNodeFields
  <1>3. \A n \in D :
            /\ DOMAIN R.node[n].level = DOMAIN L.node[n].level
            /\ \A i \in DOMAIN L.node[n].level :
                /\ i \notin 1..L.level \/ U(i) # n =>
                      Forward(R, n, i) = Forward(L, n, i) /\ Span(R, n, i) = Span(L, n, i)
                /\ i \in 1..L.level /\ U(i) = n =>
                     /\ Forward(L, n, i) = x =>
                          /\ Tall(L, x, i)
                          /\ Forward(R, n, i) = Forward(L, x, i)
                          /\ Span(R, n, i) = Span(L, n, i) + Span(L, x, i) - 1
                     /\ Forward(L, n, i) # x =>
                          /\ Forward(R, n, i) = Forward(L, n, i)
                          /\ Span(R, n, i) = Span(L, n, i) - 1
    <2>1. \A n \in D :
            /\ DOMAIN R.node[n].level = DOMAIN L.node[n].level
            /\ \A i \in DOMAIN L.node[n].level :
                /\ i \notin 1..L.level \/ U(i) # n => R.node[n].level[i] = L.node[n].level[i]
                /\ i \in 1..L.level /\ U(i) = n =>
                     /\ Forward(L, n, i) = x =>
                          /\ Tall(L, x, i)
                          /\ Forward(R, n, i) = Forward(L, x, i)
                          /\ Span(R, n, i) = Span(L, n, i) + Span(L, x, i) - 1
                     /\ Forward(L, n, i) # x =>
                          /\ Forward(R, n, i) = Forward(L, n, i)
                          /\ Span(R, n, i) = Span(L, n, i) - 1
      BY DeleteNodeLinks
    <2> HIDE DEF R, U, D
    <2>2. ASSUME NEW n \in D, NEW i \in DOMAIN L.node[n].level,
                 R.node[n].level[i] = L.node[n].level[i]
          PROVE  Forward(R, n, i) = Forward(L, n, i) /\ Span(R, n, i) = Span(L, n, i)
      BY <2>2 DEF Forward, Span
    <2> QED BY <2>1, <2>2
  <1>4. ASSUME NEW n \in D
        PROVE  /\ pos[n] \in Nat /\ pos[n] <= N /\ pos[n] # p
               /\ q[n] = IF p < pos[n] THEN pos[n] - 1 ELSE pos[n]
    <2>1. pos[n] \in 0..N /\ pos[n] # p
      BY <1>1 DEF PlacesOK
    <2> QED BY <2>1, <1>1 DEF Closed
  <1>5. \A n, i : Tall(R, n, i) <=> n # x /\ Tall(L, n, i)
    BY <1>2, <1>3 DEF Tall
  <1>6. ASSUME NEW i \in 1..L.level
        PROVE  /\ Tall(L, U(i), i) /\ U(i) \in D /\ pos[U(i)] < p
               /\ Forward(L, U(i), i) # NULL => p <= pos[Forward(L, U(i), i)]
    BY <1>1 DEF Over, Tall
  <1>7. ASSUME NEW n, NEW i, Tall(L, n, i)
        PROVE  /\ n \in DOMAIN L.node /\ i \in DOMAIN L.node[n].level /\ pos[n] \in Nat
               /\ Forward(L, n, i) = NULL =>
                     /\ \A o \in DOMAIN L.node : Tall(L, o, i) => pos[o] <= pos[n]
                     /\ i <= L.level => N - pos[n] <= Span(L, n, i)
               /\ Forward(L, n, i) # NULL =>
                     /\ Tall(L, Forward(L, n, i), i)
                     /\ Forward(L, n, i) \in DOMAIN L.node
                     /\ pos[Forward(L, n, i)] \in Nat
                     /\ pos[n] < pos[Forward(L, n, i)]
                     /\ Span(L, n, i) = pos[Forward(L, n, i)] - pos[n]
                     /\ \A o \in DOMAIN L.node :
                           Tall(L, o, i) => pos[o] <= pos[n] \/ pos[Forward(L, n, i)] <= pos[o]
    BY <1>7 DEF Linked, LinkOK, Tall, PlacesOK
  <1> HIDE DEF R, q, p, D, U
  <1>8. \A n \in DOMAIN L.node : n # x => n \in D
    BY DEF D
  <1>9. \A n \in DOMAIN L.node : pos[n] = p => n = x
    BY <1>1 DEF PlacesOK, p
  \* The link around x.
  <1>10. ASSUME NEW i \in 1..L.level, Forward(L, U(i), i) = x
         PROVE  LinkOK(R, q, N - 1, U(i), i)
    <2> DEFINE u == U(i)
               f == Forward(L, x, i)
    <2>1. /\ Tall(L, u, i) /\ u \in D /\ pos[u] < p /\ pos[u] \in Nat /\ q[u] = pos[u]
          /\ i \in DOMAIN L.node[u].level /\ Span(L, u, i) = p - pos[u]
          /\ \A o \in DOMAIN L.node : Tall(L, o, i) => pos[o] <= pos[u] \/ p <= pos[o]
      <3>1. /\ Tall(L, u, i) /\ u \in D /\ pos[u] < p /\ pos[u] \in Nat
            /\ i \in DOMAIN L.node[u].level /\ Span(L, u, i) = p - pos[u]
            /\ \A o \in DOMAIN L.node : Tall(L, o, i) => pos[o] <= pos[u] \/ p <= pos[o]
        BY <1>1, <1>6, <1>7, <1>10 DEF p
      <3> QED BY <3>1, <1>1, <1>4
    <2>2. /\ Tall(L, x, i) /\ Forward(R, u, i) = f
          /\ Span(R, u, i) = Span(L, u, i) + Span(L, x, i) - 1
      BY <2>1, <1>3, <1>10
    <2>3. i <= L.level
      BY <1>1
    <2>4. ASSUME f = NULL PROVE LinkOK(R, q, N - 1, u, i)
      <3>1. ASSUME NEW o \in DOMAIN R.node, Tall(R, o, i) PROVE q[o] <= q[u]
        <4>1. o \in D /\ Tall(L, o, i) /\ o \in DOMAIN L.node
          BY <3>1, <1>2, <1>5 DEF Tall
        <4>2. pos[o] <= p /\ pos[o] # p /\ pos[o] \in Nat
          BY <4>1, <2>2, <2>4, <1>4, <1>7 DEF p
        <4>3. pos[o] <= pos[u] \/ p <= pos[o]
          BY <4>1, <2>1
        <4>4. pos[o] <= pos[u]
          BY <4>2, <4>3, <1>1
        <4>5. q[o] = pos[o]
          BY <4>1, <4>2, <1>1, <1>4
        <4> QED BY <4>4, <4>5, <2>1
      <3>2. (N - 1) - q[u] <= Span(R, u, i)
        <4>1. N - p <= Span(L, x, i) /\ Span(L, x, i) \in Nat
          BY <2>2, <2>3, <2>4, <1>7, LinkType DEF p
        <4> QED BY <4>1, <2>1, <2>2, <1>1
      <3> QED BY <2>2, <2>4, <3>1, <3>2 DEF LinkOK
    <2>5. ASSUME f # NULL PROVE LinkOK(R, q, N - 1, u, i)
      <3>1. /\ Tall(L, f, i) /\ f \in DOMAIN L.node /\ p < pos[f] /\ pos[f] \in Nat
            /\ Span(L, x, i) = pos[f] - p
            /\ \A o \in DOMAIN L.node : Tall(L, o, i) => pos[o] <= p \/ pos[f] <= pos[o]
        BY <2>2, <2>5, <1>7 DEF p
      <3>2. f # x /\ f \in D /\ q[f] = pos[f] - 1
        <4>1. f # x
          BY <3>1, <1>1 DEF p
        <4> QED BY <4>1, <3>1, <1>4, <1>8
      <3>3. Tall(R, f, i) /\ q[u] < q[f] /\ Span(R, u, i) = q[f] - q[u]
        BY <3>1, <3>2, <2>1, <2>2, <1>1, <1>5
      <3>4. ASSUME NEW o \in DOMAIN R.node, Tall(R, o, i) PROVE q[o] <= q[u] \/ q[f] <= q[o]
        <4>1. o \in D /\ Tall(L, o, i) /\ o \in DOMAIN L.node
          BY <3>4, <1>2, <1>5 DEF Tall
        <4>2. /\ pos[o] \in Nat /\ pos[o] # p
              /\ q[o] = IF p < pos[o] THEN pos[o] - 1 ELSE pos[o]
          BY <4>1, <1>4
        <4>3. pos[o] <= pos[u] \/ p <= pos[o]
          BY <4>1, <2>1
        <4>4. pos[o] <= p \/ pos[f] <= pos[o]
          BY <4>1, <3>1
        <4>5. CASE pos[o] <= pos[u]
          BY <4>2, <4>5, <2>1, <1>1
        <4>6. CASE pos[f] <= pos[o]
          BY <4>2, <4>6, <3>1, <3>2, <1>1
        <4> QED BY <4>2, <4>3, <4>4, <4>5, <4>6, <1>1
      <3> QED BY <2>2, <2>5, <3>3, <3>4 DEF LinkOK
    <2> QED BY <2>4, <2>5
  \* A link over x.
  <1>11. ASSUME NEW i \in 1..L.level, Forward(L, U(i), i) # x
         PROVE  LinkOK(R, q, N - 1, U(i), i)
    <2> DEFINE u == U(i)
               f == Forward(L, u, i)
    <2>1. /\ Tall(L, u, i) /\ u \in D /\ pos[u] < p /\ pos[u] \in Nat /\ q[u] = pos[u]
          /\ i \in DOMAIN L.node[u].level /\ i <= L.level
      <3>1. /\ Tall(L, u, i) /\ u \in D /\ pos[u] < p /\ pos[u] \in Nat
            /\ i \in DOMAIN L.node[u].level /\ i <= L.level
        BY <1>1, <1>6, <1>7
      <3> QED BY <3>1, <1>1, <1>4
    <2>2. Forward(R, u, i) = f /\ Span(R, u, i) = Span(L, u, i) - 1
      BY <2>1, <1>3, <1>11
    <2>3. ASSUME f = NULL PROVE LinkOK(R, q, N - 1, u, i)
      <3>1. ASSUME NEW o \in DOMAIN R.node, Tall(R, o, i) PROVE q[o] <= q[u]
        <4>1. o \in D /\ Tall(L, o, i) /\ o \in DOMAIN L.node
          BY <3>1, <1>2, <1>5 DEF Tall
        <4>2. pos[o] <= pos[u] /\ pos[o] \in Nat
          BY <4>1, <2>1, <2>3, <1>7
        <4>3. q[o] = pos[o]
          BY <4>1, <4>2, <2>1, <1>1, <1>4
        <4> QED BY <4>2, <4>3, <2>1
      <3>2. (N - 1) - q[u] <= Span(R, u, i)
        <4>1. N - pos[u] <= Span(L, u, i) /\ Span(L, u, i) \in Nat
          BY <2>1, <2>3, <1>7, LinkType
        <4> QED BY <4>1, <2>1, <2>2, <1>1
      <3> QED BY <2>2, <2>3, <3>1, <3>2 DEF LinkOK
    <2>4. ASSUME f # NULL PROVE LinkOK(R, q, N - 1, u, i)
      <3>1. /\ Tall(L, f, i) /\ f \in D /\ p < pos[f] /\ pos[f] \in Nat
            /\ q[f] = pos[f] - 1 /\ Span(L, u, i) = pos[f] - pos[u]
            /\ \A o \in DOMAIN L.node : Tall(L, o, i) => pos[o] <= pos[u] \/ pos[f] <= pos[o]
        <4>1. /\ Tall(L, f, i) /\ f \in DOMAIN L.node /\ pos[f] \in Nat
              /\ Span(L, u, i) = pos[f] - pos[u]
              /\ \A o \in DOMAIN L.node : Tall(L, o, i) => pos[o] <= pos[u] \/ pos[f] <= pos[o]
          BY <2>1, <2>4, <1>7
        <4>2. f \in D /\ p <= pos[f] /\ pos[f] # p
          BY <4>1, <2>4, <1>4, <1>6, <1>8, <1>11
        <4>3. p < pos[f]
          BY <4>1, <4>2, <1>1
        <4>4. q[f] = pos[f] - 1
          BY <4>2, <4>3, <1>4
        <4> QED BY <4>1, <4>2, <4>3, <4>4
      <3>2. Tall(R, f, i) /\ q[u] < q[f] /\ Span(R, u, i) = q[f] - q[u]
        <4>1. f # x
          BY <2>4, <1>11
        <4> QED BY <4>1, <3>1, <2>1, <2>2, <1>1, <1>5
      <3>3. ASSUME NEW o \in DOMAIN R.node, Tall(R, o, i) PROVE q[o] <= q[u] \/ q[f] <= q[o]
        <4>1. o \in D /\ Tall(L, o, i) /\ o \in DOMAIN L.node
          BY <3>3, <1>2, <1>5 DEF Tall
        <4>2. /\ pos[o] \in Nat /\ pos[o] # p
              /\ q[o] = IF p < pos[o] THEN pos[o] - 1 ELSE pos[o]
          BY <4>1, <1>4
        <4>3. CASE pos[o] <= pos[u]
          BY <4>2, <4>3, <2>1, <1>1
        <4>4. CASE pos[f] <= pos[o]
          BY <4>2, <4>4, <3>1, <1>1
        <4> QED BY <4>1, <4>3, <4>4, <3>1
      <3> QED BY <2>2, <2>4, <3>2, <3>3 DEF LinkOK
    <2> QED BY <2>3, <2>4
  \* A link that stays as it is: both its ends are before x or behind.
  <1>12. ASSUME NEW n \in D, NEW i \in 1..L.level, Tall(L, n, i), n # U(i)
         PROVE  LinkOK(R, q, N - 1, n, i)
    <2> DEFINE f == Forward(L, n, i)
               u == U(i)
    <2>1. /\ n \in DOMAIN L.node /\ pos[n] \in Nat /\ i \in DOMAIN L.node[n].level
          /\ pos[n] # p /\ i <= L.level
          /\ q[n] = IF p < pos[n] THEN pos[n] - 1 ELSE pos[n]
      BY <1>1, <1>4, <1>7, <1>12
    <2>2. Forward(R, n, i) = f /\ Span(R, n, i) = Span(L, n, i)
      BY <2>1, <1>3, <1>12
    <2>3. /\ u \in D /\ Tall(L, u, i) /\ pos[u] < p /\ pos[u] \in Nat /\ u \in DOMAIN L.node
          /\ pos[u] # pos[n]
      BY <2>1, <1>6, <1>7, <1>12 DEF PlacesOK
    <2>4. ASSUME pos[n] < p
          PROVE  /\ f # NULL /\ Tall(L, f, i) /\ f \in DOMAIN L.node /\ pos[f] \in Nat
                 /\ pos[n] < pos[f] /\ pos[f] < p
      <3>1. pos[n] < pos[u]
        <4>1. CASE Forward(L, u, i) = NULL
          <5>1. pos[n] <= pos[u]
            BY <4>1, <2>1, <2>3, <1>7, <1>12
          <5> QED BY <5>1, <2>1, <2>3
        <4>2. CASE Forward(L, u, i) # NULL
          <5>1. pos[n] <= pos[u] \/ pos[Forward(L, u, i)] <= pos[n]
            BY <4>2, <2>1, <2>3, <1>7, <1>12
          <5>2. p <= pos[Forward(L, u, i)] /\ pos[Forward(L, u, i)] \in Nat
            BY <4>2, <2>3, <1>6, <1>7
          <5> QED BY <5>1, <5>2, <2>1, <2>3, <2>4, <1>1
        <4> QED BY <4>1, <4>2
      <3>2. f # NULL
        <4>1. f = NULL => pos[u] <= pos[n]
          BY <2>3, <1>7, <1>12
        <4> QED BY <4>1, <3>1, <2>1, <2>3
      <3>3. /\ Tall(L, f, i) /\ f \in DOMAIN L.node /\ pos[f] \in Nat /\ pos[n] < pos[f]
            /\ pos[u] <= pos[n] \/ pos[f] <= pos[u]
        BY <3>2, <2>3, <1>7, <1>12
      <3> QED BY <3>1, <3>2, <3>3, <2>1, <2>3, <1>1
    <2>5. ASSUME f = NULL PROVE LinkOK(R, q, N - 1, n, i)
      <3>1. p < pos[n] /\ q[n] = pos[n] - 1
        <4>1. p < pos[n]
          BY <2>1, <2>4, <2>5, <1>1
        <4> QED BY <4>1, <2>1
      <3>2. ASSUME NEW o \in DOMAIN R.node, Tall(R, o, i) PROVE q[o] <= q[n]
        <4>1. o \in D /\ Tall(L, o, i) /\ o \in DOMAIN L.node
          BY <3>2, <1>2, <1>5 DEF Tall
        <4>2. pos[o] <= pos[n] /\ pos[o] \in Nat
          BY <4>1, <2>1, <2>5, <1>7, <1>12
        <4>3. q[o] = IF p < pos[o] THEN pos[o] - 1 ELSE pos[o]
          BY <4>1, <1>4
        <4> QED BY <4>2, <4>3, <3>1, <2>1, <1>1
      <3>3. (N - 1) - q[n] <= Span(R, n, i)
        <4>1. N - pos[n] <= Span(L, n, i)
          BY <2>1, <2>5, <1>7, <1>12
        <4>2. (N - 1) - q[n] = N - pos[n]
          BY <3>1, <2>1, <1>1
        <4> QED BY <4>1, <4>2, <2>2
      <3> QED BY <2>2, <2>5, <3>2, <3>3 DEF LinkOK
    <2>6. ASSUME f # NULL PROVE LinkOK(R, q, N - 1, n, i)
      <3>1. /\ Tall(L, f, i) /\ f \in DOMAIN L.node /\ pos[f] \in Nat /\ pos[n] < pos[f]
            /\ Span(L, n, i) = pos[f] - pos[n]
            /\ \A o \in DOMAIN L.node : Tall(L, o, i) => pos[o] <= pos[n] \/ pos[f] <= pos[o]
        BY <2>6, <1>7, <1>12
      <3>2. \/ pos[n] < p /\ pos[f] < p
            \/ p < pos[n] /\ p < pos[f]
        <4>1. CASE pos[n] < p
          BY <4>1, <2>4
        <4>2. CASE p < pos[n]
          BY <4>2, <3>1, <2>1, <1>1
        <4> QED BY <4>1, <4>2, <2>1, <1>1
      <3>3. f # x /\ f \in D /\ q[f] = IF p < pos[f] THEN pos[f] - 1 ELSE pos[f]
        <4>1. f # x
          BY <3>1, <3>2, <1>1 DEF p
        <4> QED BY <4>1, <3>1, <1>4, <1>8
      <3>4. Tall(R, f, i) /\ q[n] < q[f] /\ Span(R, n, i) = q[f] - q[n]
        <4>1. CASE pos[n] < p /\ pos[f] < p
          BY <4>1, <3>1, <3>3, <2>1, <2>2, <1>1, <1>5
        <4>2. CASE p < pos[n] /\ p < pos[f]
          BY <4>2, <3>1, <3>3, <2>1, <2>2, <1>1, <1>5
        <4> QED BY <4>1, <4>2, <3>2
      <3>5. ASSUME NEW o \in DOMAIN R.node, Tall(R, o, i) PROVE q[o] <= q[n] \/ q[f] <= q[o]
        <4>1. o \in D /\ Tall(L, o, i) /\ o \in DOMAIN L.node
          BY <3>5, <1>2, <1>5 DEF Tall
        <4>2. /\ pos[o] \in Nat
              /\ q[o] = IF p < pos[o] THEN pos[o] - 1 ELSE pos[o]
          BY <4>1, <1>4
        <4>3. CASE pos[o] <= pos[n]
          BY <4>2, <4>3, <3>2, <3>1, <3>3, <2>1, <1>1
        <4>4. CASE pos[f] <= pos[o]
          BY <4>2, <4>4, <3>2, <3>1, <3>3, <2>1, <1>1
        <4> QED BY <4>1, <4>3, <4>4, <3>1
      <3> QED BY <2>2, <2>6, <3>4, <3>5 DEF LinkOK
    <2> QED BY <2>5, <2>6
  \* The head above the levels in use.
  <1>13. ASSUME NEW n \in D, NEW i, Tall(L, n, i), i \notin 1..L.level
         PROVE  LinkOK(R, q, N - 1, n, i) /\ n = head_ /\ Forward(R, n, i) = NULL
    <2>1. i \in Nat /\ L.level < i /\ R.level < i
      <3>1. i \in 1..MaxLevel
        <4>1. CASE n = head_
          BY <4>1, <1>13 DEF NodesOK, Tall
        <4>2. CASE n # head_
          <5>1. PICK h \in 1..MaxLevel : DOMAIN L.node[n].level = 1..h
            BY <4>2, <1>7, <1>13 DEF NodesOK, Elements
          <5> QED BY <5>1, <1>1, <1>13 DEF Tall
        <4> QED BY <4>1, <4>2
      <3> QED BY <3>1, <1>1, <1>2, <1>13
    <2>2. n = head_ /\ Forward(L, n, i) = NULL
      BY <2>1, <1>13, OnlyHeadAbove
    <2>3. Forward(R, n, i) = NULL
      BY <2>2, <1>3, <1>7, <1>13
    <2>4. ASSUME NEW o \in DOMAIN R.node, Tall(R, o, i) PROVE q[o] <= q[n]
      <3>1. Tall(L, o, i)
        BY <2>4, <1>5
      <3>2. o = n
        BY <3>1, <2>1, <2>2, OnlyHeadAbove
      <3> QED BY <3>2, <1>1, <1>4
    <2>5. ~ (i <= R.level)
      BY <2>1, <1>1, <1>2
    <2> QED BY <2>2, <2>3, <2>4, <2>5 DEF LinkOK
  <1>14. ASSUME NEW n \in DOMAIN R.node, NEW i \in DOMAIN R.node[n].level
         PROVE  LinkOK(R, q, N - 1, n, i)
    <2>1. n \in D /\ Tall(L, n, i)
      <3>1. Tall(R, n, i)
        BY DEF Tall
      <3> QED BY <3>1, <1>2, <1>5
    <2>2. CASE i \notin 1..L.level
      BY <2>1, <2>2, <1>13
    <2>3. CASE i \in 1..L.level /\ n # U(i)
      BY <2>1, <2>3, <1>12
    <2>4. CASE i \in 1..L.level /\ n = U(i)
      BY <2>4, <1>10, <1>11
    <2> QED BY <2>2, <2>3, <2>4
  <1>15. ASSUME NEW i \in R.level + 1..MaxLevel PROVE Forward(R, head_, i) = NULL
    <2>1. CASE i <= L.level
      BY <2>1, <1>1, <1>2
    <2>2. CASE ~ (i <= L.level)
      <3>1. i \in 1..MaxLevel /\ i \notin 1..L.level
        BY <2>2, <1>1, <1>2
      <3>2. Tall(L, head_, i) /\ head_ \in D
        BY <3>1, <1>1 DEF NodesOK, Tall, D
      <3> QED BY <3>1, <3>2, <1>13
    <2> QED BY <2>1, <2>2
  <1> QED
    BY <1>14, <1>15 DEF Linked, R, q

\* Delete leaves no link to the freed node, and keeps the types of the others.
LEMMA DeleteNodesOK ==
    ASSUME NEW L, NEW pos, NEW N, NodesOK(L), PlacesOK(L, pos, N), Linked(L, pos, N),
           NEW x \in Elements(L), NEW update, Over(L, pos, update, x)
    PROVE  /\ NodesOK(DeleteNode(L, x, update))
           /\ Elements(DeleteNode(L, x, update)) = Elements(L) \ {x}
  <1> DEFINE R == DeleteNode(L, x, update)
             D == DOMAIN L.node \ {x}
             q == Closed(L, pos, x)
  <1>1. L.level \in 1..MaxLevel /\ MaxLevel \in Nat /\ head_ # x /\ head_ \in D /\ x # NULL
    BY LevelAssumption, AddressAssumption DEF NodesOK, Elements
  <1>2. /\ DOMAIN R.node = D
        /\ \A n \in D : R.node[n].score = L.node[n].score /\ R.node[n].val = L.node[n].val
        /\ R.lenth = L.lenth + 1 /\ R.level \in 1..L.level
    BY <1>1, DeleteNodeFields
  <1>3. \A n \in D :
            /\ DOMAIN R.node[n].level = DOMAIN L.node[n].level
            /\ \A i \in DOMAIN L.node[n].level :
                  R.node[n].level[i] \in [forward : Elements(L) \cup {NULL}, span : Nat]
    BY DeleteNodeLinks
  <1>4. Linked(R, q, N - 1)
    BY DeleteLinked
  <1> HIDE DEF R, q
  <1>5. Elements(R) = Elements(L) \ {x}
    BY <1>1, <1>2 DEF Elements, D
  <1> HIDE DEF D
  <1>6. /\ head_ \in DOMAIN R.node /\ Elements(R) \subseteq Node
        /\ R.level \in 1..MaxLevel /\ R.lenth \in Nat
    BY <1>1, <1>2, <1>5 DEF NodesOK
  <1>7. \A n \in Elements(R) : n \in D /\ n \in Elements(L)
    BY <1>5 DEF Elements, D
  <1>8. \A n \in Elements(R) : R.node[n].score \in Score /\ R.node[n].val \in Member
    BY <1>2, <1>7 DEF NodesOK
  <1>9. DOMAIN R.node[head_].level = 1..MaxLevel
    BY <1>1, <1>3 DEF NodesOK
  <1>10. \A n \in Elements(R) : \E h \in 1..MaxLevel : DOMAIN R.node[n].level = 1..h
    BY <1>3, <1>7 DEF NodesOK
  <1>11. ASSUME NEW n \in DOMAIN R.node, NEW i \in DOMAIN R.node[n].level
         PROVE  R.node[n].level[i] \in [forward : Elements(R) \cup {NULL}, span : Nat]
    <2>1. R.node[n].level[i] \in [forward : Elements(L) \cup {NULL}, span : Nat]
      BY <1>2, <1>3
    <2>2. R.node[n].level[i].forward # NULL => R.node[n].level[i].forward \in DOMAIN R.node
      BY <1>4 DEF Linked, LinkOK, Tall, Forward
    <2>3. R.node[n].level[i].forward \in Elements(R) \cup {NULL}
      BY <2>1, <2>2, <1>2, <1>5 DEF D
    <2> QED BY <2>1, <2>3
  <1> QED
    BY <1>5, <1>6, <1>8, <1>9, <1>10, <1>11 DEF NodesOK, R

\* The backward links and tail_ after Delete.
LEMMA DeleteMirrored ==
    ASSUME NEW L, NEW pos, NEW N, Laid(L, pos, N),
           NEW x \in Elements(L), NEW update, Over(L, pos, update, x)
    PROVE  Mirrored(DeleteNode(L, x, update), Closed(L, pos, x), N - 1)
  <1> DEFINE R == DeleteNode(L, x, update)
             D == DOMAIN L.node \ {x}
             q == Closed(L, pos, x)
             p == pos[x]
             next == Forward(L, x, 1)
  <1>1. NodesOK(L) /\ PlacesOK(L, pos, N) /\ Linked(L, pos, N) /\ Mirrored(L, pos, N)
    BY DEF Laid
  <1>2. L.level \in 1..MaxLevel /\ x # head_ /\ x \in DOMAIN L.node
    BY <1>1 DEF NodesOK, Elements
  <1>3. Elements(R) = Elements(L) \ {x}
    BY <1>1, DeleteNodesOK
  <1>4. /\ \A n \in D : R.node[n].backward = IF n = next THEN L.node[x].backward
                                             ELSE L.node[n].backward
        /\ R.tail = IF next = NULL THEN L.node[x].backward ELSE L.tail
    BY <1>2, DeleteNodeFields
  <1>5. /\ next = NULL => p = N
        /\ next # NULL => next \in Elements(L) /\ pos[next] = p + 1
    BY <1>1, <1>2, LowestLevel
  <1>6. N \in Nat /\ p \in Nat /\ p <= N /\ p # 0
    BY <1>1, <1>2 DEF PlacesOK, NodesOK
  <1>7. ASSUME NEW n \in Elements(L)
        PROVE  /\ n \in DOMAIN L.node /\ pos[n] \in Nat /\ pos[n] <= N /\ pos[n] # 0
               /\ pos[n] = p => n = x
               /\ n # x => /\ n \in D /\ n \in Elements(R)
                           /\ q[n] = IF p < pos[n] THEN pos[n] - 1 ELSE pos[n]
    <2>1. n \in DOMAIN L.node /\ n # head_
      BY DEF Elements
    <2>2. pos[n] \in 0..N /\ pos[n] # 0 /\ (pos[n] = p => n = x)
      BY <2>1, <1>1, <1>2 DEF PlacesOK, NodesOK
    <2>3. n # x => q[n] = IF p < pos[n] THEN pos[n] - 1 ELSE pos[n]
      BY <2>1 DEF Closed
    <2> QED BY <2>1, <2>2, <2>3, <1>3, <1>6
  <1>8. /\ p = 1 => L.node[x].backward = NULL
        /\ p > 1 => L.node[x].backward \in Elements(L) /\ pos[L.node[x].backward] = p - 1
    BY <1>1 DEF Mirrored
  <1> HIDE DEF R, D, q, p, next
  <1>9. p > 1 => L.node[x].backward \in Elements(R) /\ q[L.node[x].backward] = p - 1
    <2> SUFFICES ASSUME p > 1
                 PROVE  L.node[x].backward \in Elements(R) /\ q[L.node[x].backward] = p - 1
      OBVIOUS
    <2> DEFINE b == L.node[x].backward
    <2>1. b \in Elements(L) /\ pos[b] = p - 1
      BY <1>8
    <2>2. b # x
      BY <2>1, <1>6 DEF p
    <2> HIDE DEF b
    <2>3. b \in Elements(R) /\ q[b] = p - 1
      BY <2>1, <2>2, <1>6, <1>7
    <2> QED BY <2>3 DEF b
  <1>10. ASSUME N - 1 = 0 PROVE R.tail = NULL
    <2>1. p = 1
      BY <1>6, <1>10
    <2>2. next = NULL
      BY <2>1, <1>5, <1>6, <1>7, <1>10
    <2> QED BY <2>1, <2>2, <1>4, <1>8
  <1>11. ASSUME N - 1 > 0 PROVE R.tail \in Elements(R) /\ q[R.tail] = N - 1
    <2>1. CASE next = NULL
      <3>1. p > 1 /\ p = N
        BY <2>1, <1>5, <1>6, <1>11
      <3> QED BY <3>1, <2>1, <1>4, <1>9
    <2>2. CASE next # NULL
      <3>1. p < N
        BY <2>2, <1>5, <1>6, <1>7
      <3>2. L.tail \in Elements(L) /\ pos[L.tail] = N /\ R.tail = L.tail
        BY <2>2, <3>1, <1>1, <1>4, <1>6 DEF Mirrored
      <3>3. L.tail # x
        BY <3>1, <3>2, <1>6 DEF p
      <3>4. q[L.tail] = N - 1 /\ L.tail \in Elements(R)
        BY <3>1, <3>2, <3>3, <1>6, <1>7
      <3> QED BY <3>2, <3>4
    <2> QED BY <2>1, <2>2
  <1>12. ASSUME NEW n \in Elements(R)
         PROVE  /\ q[n] = 1 => R.node[n].backward = NULL
                /\ q[n] > 1 => /\ R.node[n].backward \in Elements(R)
                               /\ q[R.node[n].backward] = q[n] - 1
    <2>1. /\ n \in Elements(L) /\ n # x /\ n \in D /\ pos[n] \in Nat /\ pos[n] # p
          /\ q[n] = IF p < pos[n] THEN pos[n] - 1 ELSE pos[n]
      BY <1>3, <1>7
    <2>2. CASE n = next
      <3>1. pos[n] = p + 1
        BY <2>1, <2>2, <1>1, <1>5, AddressAssumption DEF NodesOK
      <3>2. q[n] = p /\ R.node[n].backward = L.node[x].backward
        BY <3>1, <2>1, <2>2, <1>4, <1>6
      <3> QED BY <3>2, <1>6, <1>8, <1>9
    <2>3. CASE n # next /\ pos[n] < p
      <3>1. q[n] = pos[n] /\ R.node[n].backward = L.node[n].backward
        BY <2>1, <2>3, <1>4, <1>6
      <3>2. /\ pos[n] = 1 => L.node[n].backward = NULL
            /\ pos[n] > 1 => /\ L.node[n].backward \in Elements(L)
                             /\ pos[L.node[n].backward] = pos[n] - 1
        BY <2>1, <1>1 DEF Mirrored
      <3>3. ASSUME pos[n] > 1
            PROVE  L.node[n].backward \in Elements(R) /\ q[L.node[n].backward] = pos[n] - 1
        <4> DEFINE b == L.node[n].backward
        <4>1. b \in Elements(L) /\ pos[b] = pos[n] - 1
          BY <3>2, <3>3
        <4>2. b # x /\ ~ (p < pos[b])
          BY <4>1, <2>1, <2>3, <1>6 DEF p
        <4> HIDE DEF b
        <4>3. b \in Elements(R) /\ q[b] = pos[n] - 1
          BY <4>1, <4>2, <1>7
        <4> QED BY <4>3 DEF b
      <3> QED BY <3>1, <3>2, <3>3
    <2>4. CASE n # next /\ p < pos[n]
      <3>1. next # NULL
        <4>1. next = NULL => pos[n] <= p
          BY <2>1, <1>5, <1>7
        <4> QED BY <4>1, <2>1, <2>4, <1>6
      <3>2. pos[n] # p + 1
        <4>1. next \in Elements(L) /\ pos[next] = p + 1
          BY <3>1, <1>5
        <4> QED BY <4>1, <2>1, <2>4, <1>1, <1>7 DEF PlacesOK
      <3>3. pos[n] > p + 1 /\ pos[n] > 1
        BY <3>2, <2>1, <2>4, <1>6
      <3>4. q[n] = pos[n] - 1 /\ R.node[n].backward = L.node[n].backward
        BY <2>1, <2>4, <1>4
      <3> DEFINE b == L.node[n].backward
      <3>5. b \in Elements(L) /\ pos[b] = pos[n] - 1
        BY <3>3, <2>1, <1>1 DEF Mirrored
      <3>6. b # x /\ p < pos[b]
        BY <3>3, <3>5, <2>1, <1>6 DEF p
      <3> HIDE DEF b
      <3>7. b \in Elements(R) /\ q[b] = q[n] - 1
        BY <3>4, <3>5, <3>6, <2>1, <1>7
      <3>8. q[n] > 1
        BY <3>3, <3>4, <2>1, <1>6
      <3> QED BY <3>4, <3>7, <3>8 DEF b
    <2> QED BY <2>1, <2>2, <2>3, <2>4, <1>6
  <1> QED
    BY <1>10, <1>11, <1>12 DEF Mirrored, R, q

\* DeleteNode keeps the heap laid out, with one place less.
LEMMA DeleteKeepsLaid ==
    ASSUME NEW L, NEW pos, NEW N, Laid(L, pos, N),
           NEW x \in Elements(L), NEW update, Over(L, pos, update, x)
    PROVE  Laid(DeleteNode(L, x, update), Closed(L, pos, x), N - 1)
  <1> DEFINE R == DeleteNode(L, x, update)
             D == DOMAIN L.node \ {x}
             q == Closed(L, pos, x)
  <1>1. NodesOK(L) /\ PlacesOK(L, pos, N) /\ Linked(L, pos, N) /\ Ordered(L, pos)
    BY DEF Laid
  <1>2. L.level \in 1..MaxLevel /\ x # head_ /\ x \in DOMAIN L.node /\ head_ \in D
        /\ L.lenth \in Nat
    BY <1>1 DEF NodesOK, Elements
  <1>3. NodesOK(R) /\ Elements(R) = Elements(L) \ {x}
    BY <1>1, DeleteNodesOK
  <1>4. Linked(R, q, N - 1) /\ Mirrored(R, q, N - 1)
    BY <1>1, DeleteLinked, DeleteMirrored
  <1>5. /\ DOMAIN R.node = D /\ R.lenth = L.lenth + 1
        /\ \A n \in D : R.node[n].score = L.node[n].score
    BY <1>2, DeleteNodeFields
  <1>6. OnePlaceEach(D, q, N - 1)
    BY <1>1, ClosedPlaces
  <1>7. /\ N \in Nat /\ N <= L.lenth
        /\ pos[x] \in Nat /\ pos[x] <= N /\ pos[x] # 0 /\ pos[head_] = 0
    BY <1>1, <1>2 DEF PlacesOK, NodesOK
  <1>8. ASSUME NEW n \in D
        PROVE  /\ pos[n] \in Nat /\ pos[n] # pos[x]
               /\ q[n] = IF pos[x] < pos[n] THEN pos[n] - 1 ELSE pos[n]
    BY <1>1, <1>2 DEF Closed, PlacesOK
  <1> HIDE DEF R, q
  <1>9. q[head_] = 0
    BY <1>2, <1>7, <1>8
  <1>10. PlacesOK(R, q, N - 1)
    <2>1. N - 1 \in Nat /\ N - 1 <= R.lenth
      BY <1>2, <1>5, <1>7
    <2> HIDE DEF D
    <2> QED BY <2>1, <1>5, <1>6, <1>9 DEF PlacesOK, OnePlaceEach
  <1>11. Ordered(R, q)
    <2> SUFFICES ASSUME NEW n \in Elements(R), NEW o \in Elements(R), q[n] < q[o]
                 PROVE  R.node[n].score <= R.node[o].score
      BY DEF Ordered
    <2>1. n \in D /\ o \in D /\ n \in Elements(L) /\ o \in Elements(L)
      BY <1>3 DEF Elements
    <2>2. pos[n] < pos[o]
      BY <2>1, <1>7, <1>8
    <2> QED BY <2>1, <2>2, <1>1, <1>5 DEF Ordered
  <1> QED
    BY <1>3, <1>4, <1>10, <1>11 DEF Laid, R, q

LEMMA DeleteMemberKeepsLaid ==
    ASSUME NEW L, NEW pos, NEW N, Laid(L, pos, N), NEW s, NEW m
    PROVE  \/ DeleteMember(L, s, m) = L
           \/ Laid(DeleteMember(L, s, m), Closed(L, pos, Target(L, s, m)), N - 1)
  <1>1. CASE Target(L, s, m) = NULL
    BY <1>1 DEF DeleteMember
  <1>2. CASE Target(L, s, m) # NULL
    <2>1. /\ Target(L, s, m) \in Elements(L)
          /\ Over(L, pos, PathTo(L, s, m), Target(L, s, m))
      BY <1>2, PathOver
    <2>2. DeleteMember(L, s, m) = DeleteNode(L, Target(L, s, m), PathTo(L, s, m))
      BY <1>2 DEF DeleteMember
    <2>3. Laid(DeleteNode(L, Target(L, s, m), PathTo(L, s, m)),
               Closed(L, pos, Target(L, s, m)), N - 1)
      BY <2>1, DeleteKeepsLaid
    <2> QED BY <2>2, <2>3
  <1> QED BY <1>1, <1>2

-----------------------------------------------------------------------------
(* The invariant of every list Insert and Delete build from the empty one.  *)

WellLaid(L) == \E pos, N : Laid(L, pos, N)

LEMMA EmptyLaid == Laid(EmptyList, [n \in {head_} |-> 0], 0)
  <1> DEFINE L == EmptyList
             q == [n \in {head_} |-> 0]
  <1>1. /\ DOMAIN L.node = {head_} /\ Elements(L) = {}
        /\ L.tail = NULL /\ L.lenth = 0 /\ L.level = 1
        /\ L.node[head_].level = [i \in 1..MaxLevel |-> [forward |-> NULL, span |-> 0]]
    BY DEF EmptyList, Elements
  <1>2. MaxLevel \in Nat /\ 1 \in 1..MaxLevel
    BY LevelAssumption
  <1> HIDE DEF L
  <1>3. NodesOK(L)
    BY <1>1, <1>2 DEF NodesOK
  <1>4. PlacesOK(L, q, 0)
    BY <1>1 DEF PlacesOK
  <1>5. Ordered(L, q)
    BY <1>1 DEF Ordered
  <1>6. ASSUME NEW i \in 1..MaxLevel PROVE Forward(L, head_, i) = NULL /\ Span(L, head_, i) = 0
    BY <1>1 DEF Forward, Span
  <1>7. Linked(L, q, 0)
    <2>1. ASSUME NEW n \in DOMAIN L.node, NEW i \in DOMAIN L.node[n].level
          PROVE  LinkOK(L, q, 0, n, i)
      <3>1. n = head_ /\ i \in 1..MaxLevel /\ q[n] = 0
        BY <1>1
      <3>2. Forward(L, n, i) = NULL /\ Span(L, n, i) = 0
        BY <3>1, <1>6
      <3>3. \A o \in DOMAIN L.node : q[o] <= q[n]
        BY <3>1, <1>1
      <3>4. 0 - q[n] <= Span(L, n, i)
        BY <3>1, <3>2
      <3> HIDE DEF q
      <3> QED BY <3>2, <3>3, <3>4 DEF LinkOK
    <2>2. ASSUME NEW i \in L.level + 1..MaxLevel PROVE Forward(L, head_, i) = NULL
      BY <1>1, <1>2, <1>6
    <2> HIDE DEF q
    <2> QED BY <2>1, <2>2 DEF Linked
  <1>8. Mirrored(L, q, 0)
    BY <1>1 DEF Mirrored
  <1> QED
    BY <1>3, <1>4, <1>5, <1>7, <1>8 DEF Laid, L

LEMMA StepsKeepLaid ==
    ASSUME WellLaid(sl), [SLNext]_sl
    PROVE  WellLaid(sl')
  <1>1. PICK pos, N : Laid(sl, pos, N)
    BY DEF WellLaid
  <1>2. ASSUME NEW s \in Score, NEW m \in Member, Insert(s, m) PROVE WellLaid(sl')
    <2>1. PICK lvl \in 1..MaxLevel, x \in Node \ DOMAIN sl.node :
                sl' = InsertNode(sl, s, m, lvl, x)
      BY <1>2 DEF Insert
    <2>2. \E q : Laid(InsertNode(sl, s, m, lvl, x), q, N + 1)
      BY <1>1, InsertKeepsLaid
    <2> QED BY <2>1, <2>2 DEF WellLaid
  <1>3. ASSUME NEW s \in Score, NEW m \in Member, Delete(s, m) PROVE WellLaid(sl')
    <2>1. sl' = DeleteMember(sl, s, m)
      BY <1>3 DEF Delete
    <2>2. DeleteMember(sl, s, m) = sl \/ \E q : Laid(DeleteMember(sl, s, m), q, N - 1)
      BY <1>1, DeleteMemberKeepsLaid
    <2> QED BY <2>1, <2>2, <1>1 DEF WellLaid
  <1>4. CASE UNCHANGED sl
    <2>1. sl' = sl
      BY <1>4
    <2> QED BY <2>1
  <1> QED BY <1>2, <1>3, <1>4 DEF SLNext

\* Every list built by Insert and Delete is laid out.
THEOREM HeapLaid == SLSpec => []WellLaid(sl)
  <1>1. SLInit => WellLaid(sl)
    BY EmptyLaid DEF SLInit, WellLaid
  <1>2. WellLaid(sl) /\ [SLNext]_sl => WellLaid(sl)'
    BY StepsKeepLaid
  <1> QED BY <1>1, <1>2, PTL DEF SLSpec

-----------------------------------------------------------------------------
(* Chains: what the links of a level lead through, from their first node.   *)

\* c is the part of level i behind node n.
BehindIs(L, pos, i, n, c) ==
    /\ c \in Seq(Elements(L))
    /\ \A j \in DOMAIN c : Tall(L, c[j], i) /\ pos[n] < pos[c[j]]
    /\ \A j, k \in DOMAIN c : j < k => pos[c[j]] < pos[c[k]]
    /\ \A o \in Elements(L) : Tall(L, o, i) /\ pos[n] < pos[o] => \E j \in DOMAIN c : c[j] = o
    /\ i = 1 => \A j \in DOMAIN c : pos[c[j]] = pos[n] + j

LEMMA NothingBehind ==
    ASSUME NEW L, NEW pos, NEW N, NodesOK(L), PlacesOK(L, pos, N), Linked(L, pos, N),
           NEW i, NEW n, Tall(L, n, i), Forward(L, n, i) = NULL
    PROVE  BehindIs(L, pos, i, n, << >>)
  <1>1. LinkOK(L, pos, N, n, i)
    BY DEF Linked, Tall
  <1>2. \A o \in Elements(L) : Tall(L, o, i) => ~ (pos[n] < pos[o])
    <2> SUFFICES ASSUME NEW o \in Elements(L), Tall(L, o, i) PROVE ~ (pos[n] < pos[o])
      OBVIOUS
    <2>1. pos[o] <= pos[n]
      BY <1>1 DEF LinkOK, Elements
    <2>2. pos[o] \in Nat /\ pos[n] \in Nat
      BY DEF PlacesOK, Elements, Tall
    <2> QED BY <2>1, <2>2
  <1> QED
    BY <1>2 DEF BehindIs

LEMMA BehindGrows ==
    ASSUME NEW L, NEW pos, NEW N, NodesOK(L), PlacesOK(L, pos, N), Linked(L, pos, N),
           NEW i, NEW n, Tall(L, n, i), Forward(L, n, i) # NULL,
           NEW d, BehindIs(L, pos, i, Forward(L, n, i), d)
    PROVE  BehindIs(L, pos, i, n, <<Forward(L, n, i)>> \o d)
  <1> DEFINE f == Forward(L, n, i)
             c == <<f>> \o d
  <1>1. LinkOK(L, pos, N, n, i) /\ n \in DOMAIN L.node
    BY DEF Linked, Tall
  <1>2. /\ f \in Elements(L) /\ Tall(L, f, i) /\ pos[n] < pos[f]
        /\ \A o \in DOMAIN L.node : Tall(L, o, i) => pos[o] <= pos[n] \/ pos[f] <= pos[o]
    <2>1. f \in Elements(L)
      BY LinkType
    <2> QED BY <2>1, <1>1 DEF LinkOK
  <1>3. ASSUME NEW o \in Elements(L) PROVE o \in DOMAIN L.node /\ pos[o] \in Nat
    BY DEF PlacesOK, Elements
  <1>4. pos[n] \in Nat
    BY <1>1 DEF PlacesOK
  <1>5. d \in Seq(Elements(L)) /\ <<f>> \in Seq(Elements(L))
    BY <1>2 DEF BehindIs
  <1> HIDE DEF f
  <1>6. /\ c \in Seq(Elements(L)) /\ Len(d) \in Nat /\ DOMAIN d = 1..Len(d)
        /\ DOMAIN c = 1..Len(d) + 1 /\ c[1] = f
        /\ \A j \in 1..Len(d) : c[j + 1] = d[j]
    <2>1. Len(<<f>>) = 1 /\ <<f>>[1] = f /\ Len(d) \in Nat /\ DOMAIN d = 1..Len(d)
      BY <1>5
    <2>2. /\ c \in Seq(Elements(L)) /\ Len(c) = Len(<<f>>) + Len(d)
          /\ \A j \in 1..Len(<<f>>) + Len(d) :
                c[j] = IF j <= Len(<<f>>) THEN <<f>>[j] ELSE d[j - Len(<<f>>)]
      BY <1>5, ConcatProperties
    <2> HIDE DEF c
    <2>3. DOMAIN c = 1..Len(d) + 1
      BY <2>1, <2>2
    <2>4. c[1] = f
      BY <2>1, <2>2
    <2>5. ASSUME NEW j \in 1..Len(d) PROVE c[j + 1] = d[j]
      <3>1. j + 1 \in 1..1 + Len(d) /\ ~ (j + 1 <= 1) /\ (j + 1) - 1 = j
        BY <2>1
      <3> QED BY <3>1, <2>1, <2>2
    <2> QED BY <2>1, <2>2, <2>3, <2>4, <2>5
  <1> HIDE DEF c
  <1>7. \A j \in 1..Len(d) : d[j] \in Elements(L) /\ pos[d[j]] \in Nat
    BY <1>3, <1>5, <1>6
  <1>8. /\ \A j \in 1..Len(d) : Tall(L, d[j], i) /\ pos[f] < pos[d[j]]
        /\ \A j, k \in 1..Len(d) : j < k => pos[d[j]] < pos[d[k]]
        /\ \A o \in Elements(L) : Tall(L, o, i) /\ pos[f] < pos[o] =>
              \E j \in 1..Len(d) : d[j] = o
        /\ i = 1 => \A j \in 1..Len(d) : pos[d[j]] = pos[f] + j
    BY <1>6 DEF BehindIs, f
  <1>9. ASSUME NEW j \in DOMAIN c
        PROVE  j = 1 \/ (j - 1 \in 1..Len(d) /\ c[j] = d[j - 1])
    <2>1. j # 1 => j - 1 \in 1..Len(d) /\ (j - 1) + 1 = j
      BY <1>6
    <2> QED BY <2>1, <1>6
  <1>10. pos[f] \in Nat
    BY <1>2, <1>3
  <1>11. ASSUME NEW j \in DOMAIN c PROVE Tall(L, c[j], i) /\ pos[n] < pos[c[j]]
    <2>1. CASE j = 1
      BY <2>1, <1>2, <1>6
    <2>2. CASE j # 1
      <3>1. j - 1 \in 1..Len(d) /\ c[j] = d[j - 1]
        BY <2>2, <1>9
      <3> QED BY <3>1, <1>2, <1>4, <1>7, <1>8, <1>10
    <2> QED BY <2>1, <2>2
  <1>12. ASSUME NEW j \in DOMAIN c, NEW k \in DOMAIN c, j < k PROVE pos[c[j]] < pos[c[k]]
    <2>1. k # 1 /\ k - 1 \in 1..Len(d) /\ c[k] = d[k - 1]
      <3>1. k # 1
        BY <1>6, <1>12
      <3> QED BY <3>1, <1>9
    <2>2. CASE j = 1
      BY <2>1, <2>2, <1>6, <1>8
    <2>3. CASE j # 1
      <3>1. j - 1 \in 1..Len(d) /\ c[j] = d[j - 1]
        BY <2>3, <1>9
      <3>2. j - 1 < k - 1
        BY <1>6, <1>12
      <3> QED BY <2>1, <3>1, <3>2, <1>8
    <2> QED BY <2>2, <2>3
  <1>13. ASSUME NEW o \in Elements(L), Tall(L, o, i), pos[n] < pos[o]
         PROVE  \E j \in DOMAIN c : c[j] = o
    <2>1. o \in DOMAIN L.node /\ pos[o] \in Nat /\ pos[f] <= pos[o]
      BY <1>2, <1>3, <1>4, <1>13
    <2>2. CASE pos[f] = pos[o]
      <3>1. f = o
        BY <2>1, <2>2, <1>2, <1>3 DEF PlacesOK
      <3>2. 1 \in DOMAIN c
        BY <1>6
      <3> QED BY <3>1, <3>2, <1>6
    <2>3. CASE pos[f] < pos[o]
      <3>1. PICK j \in 1..Len(d) : d[j] = o
        BY <2>3, <1>8, <1>13
      <3>2. j + 1 \in DOMAIN c
        BY <1>6
      <3> QED BY <3>1, <3>2, <1>6
    <2> QED BY <2>1, <2>2, <2>3, <1>10
  <1>14. ASSUME i = 1, NEW j \in DOMAIN c PROVE pos[c[j]] = pos[n] + j
    <2>1. pos[f] = pos[n] + 1
      BY <1>1, <1>14, LowestLevel DEF f
    <2>2. CASE j = 1
      BY <2>1, <2>2, <1>6
    <2>3. CASE j # 1
      <3>1. j - 1 \in 1..Len(d) /\ c[j] = d[j - 1]
        BY <2>3, <1>9
      <3>2. pos[c[j]] = pos[f] + (j - 1)
        BY <3>1, <1>8, <1>14
      <3>3. j \in Nat
        BY <1>6
      <3> QED BY <3>2, <3>3, <2>1, <1>4
    <2> QED BY <2>2, <2>3
  <1> QED
    BY <1>6, <1>11, <1>12, <1>13, <1>14 DEF BehindIs, c, f

\* There are as many elements as places, and not more than addresses.
LEMMA ElementsCounted ==
    ASSUME NEW L, NEW pos, NEW N, NodesOK(L), PlacesOK(L, pos, N)
    PROVE  Cardinality(Elements(L)) = N /\ N <= Cardinality(Node) /\ Cardinality(Node) \in Nat
  <1> DEFINE g == [n \in Elements(L) |-> pos[n]]
  <1>1. Elements(L) \subseteq Node /\ IsFiniteSet(Elements(L)) /\ N \in Nat
        /\ Cardinality(Elements(L)) <= Cardinality(Node) /\ Cardinality(Node) \in Nat
    <2>1. Elements(L) \in SUBSET Node
      BY DEF NodesOK
    <2> QED BY <2>1, AddressesFinite, FS_Subset, FS_CardinalityType DEF PlacesOK
  <1>2. ASSUME NEW n \in Elements(L) PROVE pos[n] \in 1..N
    <2>1. n \in DOMAIN L.node /\ n # head_
      BY DEF Elements
    <2>2. pos[n] \in 0..N /\ pos[n] # 0
      BY <2>1 DEF PlacesOK, NodesOK
    <2> QED BY <2>2, <1>1
  <1>3. g \in Bijection(Elements(L), 1..N)
    <2>1. g \in [Elements(L) -> 1..N]
      BY <1>2
    <2>2. \A n, o \in Elements(L) : g[n] = g[o] => n = o
      BY DEF PlacesOK, Elements
    <2>3. ASSUME NEW k \in 1..N PROVE \E n \in Elements(L) : g[n] = k
      <3>1. k \in 0..N /\ k # 0
        BY <1>1
      <3>2. PICK n \in DOMAIN L.node : pos[n] = k
        BY <3>1 DEF PlacesOK
      <3>3. n \in Elements(L)
        BY <3>1, <3>2 DEF PlacesOK, Elements
      <3> QED BY <3>2, <3>3
    <2> HIDE DEF g
    <2> QED BY <2>1, <2>2, <2>3, Fun_IsBij
  <1>4. Cardinality(1..N) = Cardinality(Elements(L))
    <2>1. ExistsBijection(Elements(L), 1..N)
      <3> HIDE DEF g
      <3> QED BY <1>3, Fun_ExistsBij
    <2> QED BY <2>1, <1>1, FS_Bijection
  <1>5. Cardinality(1..N) = N
    BY <1>1, FS_Interval
  <1> QED BY <1>1, <1>4, <1>5

\* Where a chain goes on, and how many nodes it may still have.
Links(L, i, bound) ==
    [node : {n \in DOMAIN L.node : i \in DOMAIN L.node[n].level}, left : 0..bound]

\* Chain is what its definition says.
ChainFrom(L, i, bound, f, at) ==
    IF at.left = 0 \/ Forward(L, at.node, i) = NULL THEN << >>
    ELSE <<Forward(L, at.node, i)>>
            \o f[[node |-> Forward(L, at.node, i), left |-> at.left - 1]]

LEMMA ChainEquation ==
    ASSUME NEW L, NEW pos, NEW N, NodesOK(L), PlacesOK(L, pos, N), Linked(L, pos, N),
           NEW i \in 1..MaxLevel
    PROVE  LET bound == Cardinality(Node) + 1 IN
           \E f : /\ Chain(L, i) = f[[node |-> head_, left |-> bound]]
                  /\ \A at \in Links(L, i, bound) : f[at] = ChainFrom(L, i, bound, f, at)
  <1> DEFINE bound == Cardinality(Node) + 1
             D == Links(L, i, bound)
             From(f, at) == ChainFrom(L, i, bound, f, at)
             Next(at) == [node |-> Forward(L, at.node, i), left |-> at.left - 1]
             Upto(k, f) == \A at \in D : at.left <= k => f[at] = From(f, at)
             K == {k \in Nat : \E f : Upto(k, f)}
  <1>1. bound \in Nat
    BY ElementsCounted
  <1> HIDE DEF bound
  <1>2. ASSUME NEW at \in D
        PROVE  /\ at.left \in Nat /\ at.left <= bound
               /\ at.left # 0 /\ Forward(L, at.node, i) # NULL =>
                     Next(at) \in D /\ Next(at).left = at.left - 1
    <2>1. at.left \in 0..bound /\ Tall(L, at.node, i)
      BY DEF Links, Tall
    <2>2. ASSUME at.left # 0, Forward(L, at.node, i) # NULL PROVE Next(at) \in D
      <3>1. LinkOK(L, pos, N, at.node, i)
        BY <2>1 DEF Linked, Tall
      <3>2. Tall(L, Forward(L, at.node, i), i)
        BY <2>2, <3>1 DEF LinkOK
      <3>3. at.left - 1 \in 0..bound
        BY <2>1, <2>2, <1>1
      <3> QED BY <3>2, <3>3 DEF Links, Tall
    <2> QED BY <2>1, <2>2, <1>1
  <1>3. 0 \in K
    <2>1. Upto(0, [at \in D |-> << >>])
      <3> SUFFICES ASSUME NEW at \in D, at.left <= 0
                   PROVE  [a \in D |-> << >>][at] = From([a \in D |-> << >>], at)
        OBVIOUS
      <3>1. at.left = 0
        <4>1. at.left \in Nat
          BY <1>2
        <4> QED BY <4>1
      <3>2. From([a \in D |-> << >>], at) = << >>
        BY <3>1 DEF ChainFrom
      <3> HIDE DEF From, D
      <3> QED BY <3>2
    <2>2. \E f : Upto(0, f)
      <3> HIDE DEF Upto
      <3> QED BY <2>1
    <2> QED BY <2>2
  <1>4. ASSUME NEW k \in Nat, k \in K PROVE k + 1 \in K
    <2>1. PICK f : Upto(k, f)
      BY <1>4
    <2> DEFINE g == [at \in D |-> IF at.left <= k THEN f[at] ELSE From(f, at)]
    <2>2. ASSUME NEW at \in D, at.left <= k + 1 PROVE g[at] = From(g, at)
      <3>1. CASE at.left = 0 \/ Forward(L, at.node, i) = NULL
        <4>1. From(f, at) = << >> /\ From(g, at) = << >>
          BY <3>1 DEF ChainFrom
        <4>2. at.left <= k => f[at] = From(f, at)
          BY <2>1
        <4>3. g[at] = IF at.left <= k THEN f[at] ELSE From(f, at)
          OBVIOUS
        <4> HIDE DEF g, From
        <4> QED BY <4>1, <4>2, <4>3
      <3>2. CASE ~ (at.left = 0 \/ Forward(L, at.node, i) = NULL)
        <4>1. Next(at) \in D /\ Next(at).left <= k
          <5>1. Next(at) \in D /\ Next(at).left = at.left - 1 /\ at.left \in Nat
            BY <3>2, <1>2
          <5> HIDE DEF Next, D
          <5> QED BY <5>1, <2>2
        <4>2. g[Next(at)] = f[Next(at)]
          <5> HIDE DEF Next, D, From
          <5> QED BY <4>1
        <4>3. /\ From(f, at) = <<Forward(L, at.node, i)>> \o f[Next(at)]
              /\ From(g, at) = <<Forward(L, at.node, i)>> \o g[Next(at)]
          <5> HIDE DEF g
          <5> QED BY <3>2 DEF ChainFrom
        <4>4. at.left <= k => f[at] = From(f, at)
          BY <2>1
        <4>5. g[at] = IF at.left <= k THEN f[at] ELSE From(f, at)
          OBVIOUS
        <4> HIDE DEF g, From, Next
        <4> QED BY <4>2, <4>3, <4>4, <4>5
      <3> QED BY <3>1, <3>2
    <2>3. Upto(k + 1, g)
      <3> HIDE DEF g, From
      <3> QED BY <2>2
    <2>4. \E h : Upto(k + 1, h)
      <3> HIDE DEF g, Upto
      <3> QED BY <2>3
    <2> QED BY <2>4
  <1>5. \A k \in Nat : k \in K
    <2> HIDE DEF K
    <2> QED BY <1>3, <1>4, Upward
  <1>6. PICK f : Upto(bound, f)
    BY <1>1, <1>5
  <1> DEFINE g == [at \in D |-> f[at]]
  <1>7. ASSUME NEW at \in D PROVE g[at] = From(g, at)
    <2>1. f[at] = From(f, at)
      BY <1>2, <1>6
    <2>2. CASE at.left = 0 \/ Forward(L, at.node, i) = NULL
      <3>1. From(f, at) = << >> /\ From(g, at) = << >>
        BY <2>2 DEF ChainFrom
      <3>2. g[at] = f[at]
        OBVIOUS
      <3> HIDE DEF g, From
      <3> QED BY <2>1, <3>1, <3>2
    <2>3. CASE ~ (at.left = 0 \/ Forward(L, at.node, i) = NULL)
      <3>1. Next(at) \in D
        BY <2>3, <1>2
      <3>2. g[Next(at)] = f[Next(at)] /\ g[at] = f[at]
        <4> HIDE DEF Next, D
        <4> QED BY <3>1
      <3>3. /\ From(f, at) = <<Forward(L, at.node, i)>> \o f[Next(at)]
            /\ From(g, at) = <<Forward(L, at.node, i)>> \o g[Next(at)]
        <4> HIDE DEF g
        <4> QED BY <2>3 DEF ChainFrom
      <3> HIDE DEF g, From, Next
      <3> QED BY <2>1, <3>2, <3>3
    <2> QED BY <2>2, <2>3
  <1>8. g = [at \in D |-> From(g, at)]
    <2>1. [at \in D |-> g[at]] = [at \in D |-> From(g, at)]
      <3> HIDE DEF g, From
      <3> QED BY <1>7
    <2>2. g = [at \in D |-> g[at]]
      OBVIOUS
    <2> QED BY <2>1, <2>2
  <1> DEFINE after == CHOOSE h : h = [at \in D |-> From(h, at)]
  <1>9. after = [at \in D |-> From(after, at)]
    <2>1. \E h : h = [at \in D |-> From(h, at)]
      <3> HIDE DEF g, From
      <3> QED BY <1>8
    <2> HIDE DEF From
    <2> QED BY <2>1
  <1>10. Chain(L, i) = after[[node |-> head_, left |-> bound]]
    BY DEF Chain, ChainFrom, Links, bound
  <1>11. \A at \in D : after[at] = From(after, at)
    <2> HIDE DEF after, From
    <2> QED BY <1>9
  <1> HIDE DEF after
  <1> QED
    BY <1>10, <1>11 DEF bound

\* A chain is all of its level, in the order of the places.
LEMMA ChainIs ==
    ASSUME NEW L, NEW pos, NEW N, NodesOK(L), PlacesOK(L, pos, N), Linked(L, pos, N),
           NEW i \in 1..MaxLevel
    PROVE  BehindIs(L, pos, i, head_, Chain(L, i))
  <1> DEFINE bound == Cardinality(Node) + 1
             D == Links(L, i, bound)
  <1>1. PICK f : /\ Chain(L, i) = f[[node |-> head_, left |-> bound]]
                 /\ \A at \in D : f[at] = ChainFrom(L, i, bound, f, at)
    BY ChainEquation
  <1>2. bound \in Nat /\ N \in Nat /\ N <= bound
    <2>1. N <= Cardinality(Node) /\ Cardinality(Node) \in Nat /\ N \in Nat
      BY ElementsCounted DEF PlacesOK
    <2> QED BY <2>1
  <1> HIDE DEF bound
  <1>3. ASSUME NEW at \in D
        PROVE  /\ Tall(L, at.node, i) /\ at.left \in Nat /\ at.left <= bound
               /\ pos[at.node] \in Nat /\ pos[at.node] <= N
    <2>1. at.node \in DOMAIN L.node /\ i \in DOMAIN L.node[at.node].level /\ at.left \in 0..bound
      BY DEF Links
    <2>2. pos[at.node] \in 0..N
      BY <2>1 DEF PlacesOK
    <2> QED BY <2>1, <2>2, <1>2 DEF Tall
  <1> DEFINE S == {k \in Nat : \A at \in D : at.left = k /\ N - pos[at.node] <= k =>
                                  BehindIs(L, pos, i, at.node, f[at])}
  <1>4. ASSUME NEW at \in D, Forward(L, at.node, i) = NULL
        PROVE  BehindIs(L, pos, i, at.node, f[at])
    <2>1. f[at] = << >>
      BY <1>1, <1>4 DEF ChainFrom
    <2>2. BehindIs(L, pos, i, at.node, << >>)
      BY <1>3, <1>4, NothingBehind
    <2> QED BY <2>1, <2>2
  <1>5. ASSUME NEW at \in D, Forward(L, at.node, i) # NULL
        PROVE  /\ Tall(L, Forward(L, at.node, i), i)
               /\ pos[at.node] < pos[Forward(L, at.node, i)]
               /\ pos[Forward(L, at.node, i)] \in Nat /\ pos[Forward(L, at.node, i)] <= N
    <2>1. LinkOK(L, pos, N, at.node, i)
      BY <1>3 DEF Linked, Tall
    <2>2. /\ Tall(L, Forward(L, at.node, i), i)
          /\ pos[at.node] < pos[Forward(L, at.node, i)]
      BY <2>1, <1>5 DEF LinkOK
    <2>3. pos[Forward(L, at.node, i)] \in 0..N
      BY <2>2 DEF Tall, PlacesOK
    <2> QED BY <2>2, <2>3, <1>2
  <1>6. 0 \in S
    <2> SUFFICES ASSUME NEW at \in D, at.left = 0, N - pos[at.node] <= 0
                 PROVE  BehindIs(L, pos, i, at.node, f[at])
      OBVIOUS
    <2>1. Forward(L, at.node, i) = NULL
      <3> HIDE DEF D
      <3> QED BY <1>2, <1>3, <1>5
    <2> QED BY <2>1, <1>4
  <1>7. ASSUME NEW k \in Nat, k \in S PROVE k + 1 \in S
    <2> SUFFICES ASSUME NEW at \in D, at.left = k + 1, N - pos[at.node] <= k + 1
                 PROVE  BehindIs(L, pos, i, at.node, f[at])
      OBVIOUS
    <2>1. CASE Forward(L, at.node, i) = NULL
      BY <2>1, <1>4
    <2>2. CASE Forward(L, at.node, i) # NULL
      <3> DEFINE next == [node |-> Forward(L, at.node, i), left |-> at.left - 1]
      <3>1. /\ Tall(L, Forward(L, at.node, i), i)
            /\ pos[at.node] < pos[Forward(L, at.node, i)]
            /\ pos[Forward(L, at.node, i)] \in Nat
        <4> HIDE DEF D
        <4> QED BY <2>2, <1>5
      <3>2. at.left - 1 = k /\ at.left # 0 /\ k \in 0..bound
        <4>1. at.left <= bound /\ at.left = k + 1
          <5> HIDE DEF D
          <5> QED BY <1>3
        <4> QED BY <4>1, <1>2
      <3>3. next \in D /\ next.left = k /\ next.node = Forward(L, at.node, i)
        BY <3>1, <3>2 DEF Links, Tall
      <3>4. N - pos[next.node] <= k
        <4>1. pos[at.node] \in Nat
          <5> HIDE DEF D
          <5> QED BY <1>3
        <4> HIDE DEF next, D
        <4> QED BY <4>1, <3>1, <3>3, <1>2
      <3>5. BehindIs(L, pos, i, Forward(L, at.node, i), f[next])
        <4>1. BehindIs(L, pos, i, next.node, f[next])
          <5> HIDE DEF next, D
          <5> QED BY <3>3, <3>4, <1>7
        <4> QED BY <4>1, <3>3
      <3>6. f[at] = <<Forward(L, at.node, i)>> \o f[next]
        BY <2>2, <3>2, <1>1 DEF ChainFrom
      <3>7. Tall(L, at.node, i)
        BY <1>3
      <3> HIDE DEF next
      <3>8. BehindIs(L, pos, i, at.node, <<Forward(L, at.node, i)>> \o f[next])
        BY <2>2, <3>5, <3>7, BehindGrows
      <3> QED BY <3>6, <3>8
    <2> QED BY <2>1, <2>2
  <1>8. \A k \in Nat : k \in S
    <2> HIDE DEF S
    <2> QED BY <1>6, <1>7, Upward
  <1> DEFINE start == [node |-> head_, left |-> bound]
  <1>9. start \in D /\ start.left = bound /\ start.node = head_
    <2>1. /\ start \in [node : {n \in DOMAIN L.node : i \in DOMAIN L.node[n].level},
                       left : 0..bound]
          /\ start.left = bound /\ start.node = head_
      <3>1. head_ \in DOMAIN L.node /\ i \in DOMAIN L.node[head_].level
        BY DEF NodesOK
      <3>2. bound \in 0..bound
        BY <1>2
      <3> QED BY <3>1, <3>2
    <2> QED BY <2>1 DEF Links
  <1>10. N - pos[start.node] <= bound
    BY <1>2 DEF PlacesOK
  <1>11. BehindIs(L, pos, i, start.node, f[start])
    <2>1. bound \in S
      BY <1>2, <1>8
    <2> HIDE DEF start, D
    <2> QED BY <2>1, <1>9, <1>10
  <1> QED
    BY <1>1, <1>9, <1>11

\* Order lists the elements by place.
LEMMA OrderIs ==
    ASSUME NEW L, NEW pos, NEW N, NodesOK(L), PlacesOK(L, pos, N), Linked(L, pos, N)
    PROVE  /\ Order(L) \in Seq(Elements(L)) /\ DOMAIN Order(L) = 1..N /\ Len(Order(L)) = N
           /\ \A k \in 1..N : Order(L)[k] \in Elements(L) /\ pos[Order(L)[k]] = k
           /\ \A n \in Elements(L) : pos[n] \in 1..N /\ Order(L)[pos[n]] = n
           /\ \A n \in DOMAIN L.node : Position(L, n) = pos[n]
  <1> DEFINE c == Order(L)
  <1>1. BehindIs(L, pos, 1, head_, c)
    BY ChainIs, LevelAssumption DEF Order
  <1> HIDE DEF c
  <1>2. N \in Nat /\ pos[head_] = 0
    BY DEF PlacesOK
  <1>3. /\ c \in Seq(Elements(L)) /\ Len(c) \in Nat /\ DOMAIN c = 1..Len(c)
        /\ \A j \in DOMAIN c : c[j] \in Elements(L)
    BY <1>1 DEF BehindIs
  <1>4. \A j \in DOMAIN c : pos[c[j]] = j
    BY <1>1, <1>2, <1>3 DEF BehindIs
  <1>5. ASSUME NEW n \in Elements(L)
        PROVE  /\ pos[n] \in 1..N /\ n # head_ /\ n \in DOMAIN L.node
               /\ \E j \in DOMAIN c : c[j] = n
    <2>1. n \in DOMAIN L.node /\ n # head_
      BY DEF Elements
    <2>2. pos[n] \in 1..N
      <3>1. pos[n] \in 0..N /\ pos[n] # 0
        BY <2>1 DEF PlacesOK, NodesOK
      <3> QED BY <3>1, <1>2
    <2>3. Tall(L, n, 1) /\ pos[head_] < pos[n]
      BY <2>1, <2>2, <1>2, LowestLevel
    <2> QED BY <2>1, <2>2, <2>3, <1>1 DEF BehindIs
  <1>6. \A n \in Elements(L) : pos[n] \in DOMAIN c /\ c[pos[n]] = n
    BY <1>4, <1>5
  <1>7. Len(c) = N
    <2>1. Len(c) <= N
      <3>1. CASE Len(c) = 0
        BY <3>1, <1>2
      <3>2. CASE Len(c) # 0
        <4>1. Len(c) \in DOMAIN c
          BY <3>2, <1>3
        <4>2. pos[c[Len(c)]] = Len(c) /\ pos[c[Len(c)]] \in 1..N
          BY <4>1, <1>3, <1>4, <1>5
        <4> QED BY <4>2, <1>2
      <3> QED BY <3>1, <3>2
    <2>2. N <= Len(c)
      <3>1. CASE N = 0
        BY <3>1, <1>3
      <3>2. CASE N # 0
        <4>1. PICK n \in DOMAIN L.node : pos[n] = N
          BY <1>2 DEF PlacesOK
        <4>2. n \in Elements(L)
          BY <4>1, <3>2, <1>2 DEF Elements
        <4>3. N \in DOMAIN c
          BY <4>1, <4>2, <1>6
        <4> QED BY <4>3, <1>3
      <3> QED BY <3>1, <3>2
    <2>3. Len(c) \in Nat /\ N \in Nat
      BY <1>2, <1>3
    <2> QED BY <2>1, <2>2, <2>3
  <1>8. ASSUME NEW n \in DOMAIN L.node PROVE Position(L, n) = pos[n]
    <2>1. CASE n = head_
      BY <2>1, <1>2 DEF Position
    <2>2. CASE n # head_
      <3>1. n \in Elements(L)
        BY <2>2 DEF Elements
      <3>2. pos[n] \in DOMAIN c /\ c[pos[n]] = n /\ \A k \in DOMAIN c : c[k] = n => k = pos[n]
        BY <3>1, <1>4, <1>6
      <3>3. Position(L, n) = CHOOSE k \in DOMAIN c : c[k] = n
        BY <2>2 DEF Position, c
      <3> QED BY <3>2, <3>3
    <2> QED BY <2>1, <2>2
  <1> QED
    BY <1>3, <1>4, <1>5, <1>6, <1>7, <1>8 DEF c

-----------------------------------------------------------------------------
(* The invariants of SkipListProperties.                                    *)

LEMMA LaidParts ==
    ASSUME NEW L, NEW pos, NEW N, Laid(L, pos, N)
    PROVE  /\ NodesOK(L) /\ PlacesOK(L, pos, N) /\ Linked(L, pos, N)
           /\ Ordered(L, pos) /\ Mirrored(L, pos, N)
  BY DEF Laid

LEMMA LaidLinksOK ==
    ASSUME NEW pos, NEW N, Laid(sl, pos, N)
    PROVE  LinksOK
  <1>1. NodesOK(sl) /\ PlacesOK(sl, pos, N) /\ Linked(sl, pos, N) /\ Mirrored(sl, pos, N)
    BY LaidParts
  <1>2. ASSUME NEW n \in Elements(sl) PROVE sl.node[n].backward \in Elements(sl) \cup {NULL}
    <2>1. n \in DOMAIN sl.node /\ n # head_
      BY DEF Elements
    <2>2. pos[n] \in 0..N /\ pos[n] # 0 /\ N \in Nat
      BY <2>1, <1>1 DEF PlacesOK, NodesOK
    <2>3. pos[n] = 1 \/ pos[n] > 1
      BY <2>2
    <2> QED BY <2>3, <1>1 DEF Mirrored
  <1>3. sl.tail \in Elements(sl) \cup {NULL}
    <2>1. N = 0 \/ N > 0
      BY <1>1 DEF PlacesOK
    <2> QED BY <2>1, <1>1 DEF Mirrored
  <1>4. ASSUME NEW n \in DOMAIN sl.node, NEW i \in DOMAIN sl.node[n].level
        PROVE  /\ sl.node[n].level[i].span \in Nat
               /\ LET next == Forward(sl, n, i)
                  IN  next # NULL => next \in Elements(sl) /\ i \in DOMAIN sl.node[next].level
    <2>1. Tall(sl, n, i) /\ LinkOK(sl, pos, N, n, i)
      BY <1>1 DEF Tall, Linked
    <2>2. Forward(sl, n, i) \in Elements(sl) \cup {NULL} /\ Span(sl, n, i) \in Nat
      BY <2>1, <1>1, LinkType
    <2>3. Forward(sl, n, i) # NULL => Tall(sl, Forward(sl, n, i), i)
      BY <2>1 DEF LinkOK
    <2> QED BY <2>2, <2>3 DEF Tall, Span
  <1> QED
    BY <1>1, <1>2, <1>3, <1>4 DEF LinksOK, NodesOK

LEMMA LaidChainsNested ==
    ASSUME NEW pos, NEW N, Laid(sl, pos, N)
    PROVE  ChainsNested
  <1>1. NodesOK(sl) /\ PlacesOK(sl, pos, N) /\ Linked(sl, pos, N)
    BY LaidParts
  <1>2. /\ DOMAIN Order(sl) = 1..N
        /\ \A k \in 1..N : Order(sl)[k] \in Elements(sl) /\ pos[Order(sl)[k]] = k
        /\ \A n \in Elements(sl) : pos[n] \in 1..N /\ Order(sl)[pos[n]] = n
        /\ \A n \in DOMAIN sl.node : Position(sl, n) = pos[n]
    BY <1>1, OrderIs
  <1>3. IsInjective(Order(sl))
    BY <1>2 DEF IsInjective
  <1>4. ToSet(Order(sl)) = Elements(sl)
    BY <1>2 DEF ToSet
  <1>5. ASSUME NEW i \in 1..MaxLevel
        PROVE  LET chain == Chain(sl, i)
                   place == [j \in DOMAIN chain |-> Position(sl, chain[j])]
               IN  /\ ToSet(chain) = {n \in Elements(sl) : i \in DOMAIN sl.node[n].level}
                   /\ \A j, k \in DOMAIN place : j < k => place[j] < place[k]
    <2> DEFINE c == Chain(sl, i)
    <2>1. BehindIs(sl, pos, i, head_, c)
      BY <1>1, ChainIs
    <2> HIDE DEF c
    <2>2. /\ \A j \in DOMAIN c : c[j] \in Elements(sl)
          /\ \A j \in DOMAIN c : Tall(sl, c[j], i)
          /\ \A j, k \in DOMAIN c : j < k => pos[c[j]] < pos[c[k]]
      <3>1. c \in Seq(Elements(sl))
        BY <2>1 DEF BehindIs
      <3>2. c \in [1..Len(c) -> Elements(sl)] /\ DOMAIN c = 1..Len(c)
        BY <3>1
      <3> QED BY <3>2, <2>1 DEF BehindIs
    <2>3. \A j \in DOMAIN c : Position(sl, c[j]) = pos[c[j]]
      BY <2>2, <1>2 DEF Elements
    <2>4. ASSUME NEW n \in Elements(sl), Tall(sl, n, i) PROVE \E j \in DOMAIN c : c[j] = n
      <3>1. pos[head_] < pos[n]
        <4>1. pos[n] \in 1..N /\ pos[head_] = 0 /\ N \in Nat
          BY <1>1, <1>2 DEF PlacesOK
        <4> QED BY <4>1
      <3> QED BY <3>1, <2>1, <2>4 DEF BehindIs
    <2>5. ToSet(c) = {n \in Elements(sl) : i \in DOMAIN sl.node[n].level}
      BY <2>2, <2>4 DEF ToSet, Tall, Elements
    <2> QED BY <2>2, <2>3, <2>5 DEF c
  <1>6. \A i \in sl.level + 1..MaxLevel : Forward(sl, head_, i) = NULL
    BY <1>1 DEF Linked
  <1> QED
    BY <1>3, <1>4, <1>5, <1>6 DEF ChainsNested

LEMMA LaidSpansAreDistances ==
    ASSUME NEW pos, NEW N, Laid(sl, pos, N)
    PROVE  SpansAreDistances
  <1>1. NodesOK(sl) /\ PlacesOK(sl, pos, N) /\ Linked(sl, pos, N)
    BY LaidParts
  <1>2. \A n \in DOMAIN sl.node : Position(sl, n) = pos[n]
    BY <1>1, OrderIs
  <1> SUFFICES ASSUME NEW n \in DOMAIN sl.node, NEW i \in DOMAIN sl.node[n].level,
                      Forward(sl, n, i) # NULL
               PROVE  sl.node[n].level[i].span
                         = Position(sl, Forward(sl, n, i)) - Position(sl, n)
    BY DEF SpansAreDistances
  <1>3. LinkOK(sl, pos, N, n, i)
    BY <1>1 DEF Linked
  <1>4. /\ Forward(sl, n, i) \in DOMAIN sl.node
        /\ Span(sl, n, i) = pos[Forward(sl, n, i)] - pos[n]
    BY <1>3 DEF LinkOK, Tall
  <1> QED
    BY <1>2, <1>4 DEF Span

LEMMA LaidBackward ==
    ASSUME NEW pos, NEW N, Laid(sl, pos, N)
    PROVE  BackwardMirrorsForward
  <1> DEFINE c == Order(sl)
  <1>1. NodesOK(sl) /\ PlacesOK(sl, pos, N) /\ Linked(sl, pos, N) /\ Mirrored(sl, pos, N)
    BY LaidParts
  <1>2. /\ c \in Seq(Elements(sl)) /\ DOMAIN c = 1..N /\ Len(c) = N
        /\ \A k \in 1..N : c[k] \in Elements(sl) /\ pos[c[k]] = k
        /\ \A n \in Elements(sl) : pos[n] \in 1..N /\ c[pos[n]] = n
    BY <1>1, OrderIs
  <1> HIDE DEF c
  <1>3. N \in Nat
    BY <1>1 DEF PlacesOK
  <1>4. sl.tail = IF c = << >> THEN NULL ELSE Last(c)
    <2>1. CASE N = 0
      <3>1. c = << >>
        BY <2>1, <1>2
      <3> QED BY <2>1, <3>1, <1>1 DEF Mirrored
    <2>2. CASE N # 0
      <3>1. c # << >>
        BY <2>2, <1>2
      <3>2. sl.tail \in Elements(sl) /\ pos[sl.tail] = N
        BY <2>2, <1>1, <1>3 DEF Mirrored
      <3>3. c[N] = sl.tail
        BY <3>2, <1>2
      <3> QED BY <3>1, <3>3, <1>2 DEF Last
    <2> QED BY <2>1, <2>2
  <1>5. ASSUME NEW k \in DOMAIN c
        PROVE  sl.node[c[k]].backward = IF k = 1 THEN NULL ELSE c[k - 1]
    <2>1. k \in 1..N /\ c[k] \in Elements(sl) /\ pos[c[k]] = k
      BY <1>2
    <2>2. CASE k = 1
      BY <2>1, <2>2, <1>1 DEF Mirrored
    <2>3. CASE k # 1
      <3>1. k > 1 /\ k - 1 \in 1..N
        BY <2>1, <2>3, <1>3
      <3>2. sl.node[c[k]].backward \in Elements(sl) /\ pos[sl.node[c[k]].backward] = k - 1
        BY <2>1, <3>1, <1>1 DEF Mirrored
      <3>3. c[k - 1] = sl.node[c[k]].backward
        BY <3>2, <1>2
      <3> QED BY <3>3, <2>3
    <2> QED BY <2>2, <2>3
  <1> QED
    BY <1>4, <1>5 DEF BackwardMirrorsForward, c

-----------------------------------------------------------------------------
(* Queries.                                                                 *)

\* Where a walk ends, and which spot it came from.
LEMMA DescendEnds ==
    ASSUME NEW L, NEW pos, NEW N, NodesOK(L), PlacesOK(L, pos, N), Linked(L, pos, N), NEW On
    PROVE  LET at == Descend(L, On)[1] IN
           /\ at \in Spot(L, 1) /\ at.node \in DOMAIN L.node /\ at.rank = pos[at.node]
           /\ Forward(L, at.node, 1) = NULL \/ at \notin On[1]
           /\ at.node = head_ \/ Entered(L, pos, On, at.node)
  <1>1. 1 \in 1..L.level
    BY LevelAssumption DEF NodesOK
  <1>2. /\ Descend(L, On)[1] \in Spot(L, 1)
        /\ Descend(L, On)[1].rank = pos[Descend(L, On)[1].node]
        /\ WalkOK(L, pos, 1, On[1], Start(L, Descend(L, On), 1), Descend(L, On)[1])
    BY <1>1, DescendWalks
  <1>3. \/ Descend(L, On)[1].node = head_
        \/ Entered(L, pos, On, Descend(L, On)[1].node)
    BY <1>1, DescendEnters
  <1> QED
    BY <1>2, <1>3 DEF WalkOK, Spot

\* The walk of FirstInRangeByIdx ends before place min.
LEMMA IndexWalk ==
    ASSUME NEW L, NEW pos, NEW N, NodesOK(L), PlacesOK(L, pos, N), Linked(L, pos, N),
           NEW min \in Nat
    PROVE  LET on == [i \in 1..MaxLevel |->
                        {at \in Spot(L, i) : at.rank + Span(L, at.node, i) < min}]
               at == Descend(L, on)[1]
           IN  /\ at.node \in DOMAIN L.node /\ at.rank = pos[at.node]
               /\ at.rank = 0 \/ at.rank < min
               /\ Forward(L, at.node, 1) # NULL => min <= at.rank + 1
  <1> DEFINE on == [i \in 1..MaxLevel |->
                      {at \in Spot(L, i) : at.rank + Span(L, at.node, i) < min}]
             at == Descend(L, on)[1]
  <1>1. /\ at \in Spot(L, 1) /\ at.node \in DOMAIN L.node /\ at.rank = pos[at.node]
        /\ Forward(L, at.node, 1) = NULL \/ at \notin on[1]
        /\ at.node = head_ \/ Entered(L, pos, on, at.node)
    BY DescendEnds
  <1>2. /\ \A i \in 1..MaxLevel :
              on[i] = {a \in Spot(L, i) : a.rank + Span(L, a.node, i) < min}
        /\ 1 \in 1..MaxLevel /\ L.level \in 1..MaxLevel /\ MaxLevel \in Nat
    BY LevelAssumption DEF NodesOK
  <1> HIDE DEF at, on
  <1>3. ASSUME Forward(L, at.node, 1) # NULL PROVE min <= at.rank + 1
    <2>1. ~ (at.rank + Span(L, at.node, 1) < min)
      BY <1>1, <1>2, <1>3
    <2>2. LinkOK(L, pos, N, at.node, 1)
      BY <1>1 DEF Linked, Spot
    <2>3. Span(L, at.node, 1) = pos[Forward(L, at.node, 1)] - pos[at.node]
      BY <2>2, <1>3 DEF LinkOK
    <2>4. pos[Forward(L, at.node, 1)] = pos[at.node] + 1
      BY <1>1, <1>3, LowestLevel
    <2>5. pos[at.node] \in Nat
      BY <1>1 DEF PlacesOK
    <2> QED BY <2>1, <2>3, <2>4, <2>5, <1>1
  <1>4. ASSUME Entered(L, pos, on, at.node) PROVE at.rank < min
    <2>1. PICK k \in 1..L.level : \E w \in DOMAIN L.node :
              /\ Tall(L, w, k) /\ Forward(L, w, k) = at.node
              /\ [node |-> w, rank |-> pos[w]] \in on[k]
      BY <1>4 DEF Entered
    <2>2. PICK w \in DOMAIN L.node :
              /\ Tall(L, w, k) /\ Forward(L, w, k) = at.node
              /\ [node |-> w, rank |-> pos[w]] \in on[k]
      BY <2>1
    <2>3. k \in 1..MaxLevel
      BY <1>2
    <2>4. pos[w] + Span(L, w, k) < min
      <3>1. [node |-> w, rank |-> pos[w]]
               \in {a \in Spot(L, k) : a.rank + Span(L, a.node, k) < min}
        BY <2>2, <2>3, <1>2
      <3> QED BY <3>1
    <2>5. LinkOK(L, pos, N, w, k)
      BY <2>2 DEF Linked, Tall
    <2>6. Span(L, w, k) = pos[at.node] - pos[w]
      <3>1. at.node # NULL
        BY <1>1, AddressAssumption DEF NodesOK, Elements
      <3> QED BY <3>1, <2>2, <2>5 DEF LinkOK
    <2>7. pos[w] \in Nat /\ pos[at.node] \in Nat
      BY <1>1 DEF PlacesOK
    <2> QED BY <2>4, <2>6, <2>7, <1>1
  <1>5. at.node = head_ => at.rank = 0
    BY <1>1 DEF PlacesOK
  <1> QED
    BY <1>1, <1>3, <1>4, <1>5 DEF at, on

\* FirstInRangeByIdx by places, for any two ranks.
LEMMA LaidIndexed ==
    ASSUME NEW pos, NEW N, Laid(sl, pos, N), NEW min \in Nat, NEW max \in Nat
    PROVE  FirstInRangeByIdx(sl, min, max) =
             LET k == IF min = 0 THEN 1 ELSE min
             IN  CASE Order(sl) = << >>                      -> SEGV
                   [] k \in DOMAIN Order(sl) /\ min <= max /\ k <= max -> Order(sl)[k]
                   [] OTHER                                   -> NULL
  <1>1. NodesOK(sl) /\ PlacesOK(sl, pos, N) /\ Linked(sl, pos, N) /\ Mirrored(sl, pos, N)
    BY LaidParts
  <1>2. /\ DOMAIN Order(sl) = 1..N /\ Len(Order(sl)) = N /\ Order(sl) \in Seq(Elements(sl))
        /\ \A n \in Elements(sl) : pos[n] \in 1..N /\ Order(sl)[pos[n]] = n
    BY <1>1, OrderIs
  <1>3. N \in Nat /\ N <= sl.lenth /\ sl.lenth \in Nat /\ Cardinality(Node) \in Nat
    <2>1. Cardinality(Node) \in Nat
      BY <1>1, ElementsCounted
    <2> QED BY <2>1, <1>1 DEF PlacesOK, NodesOK
  <1>4. sl.tail = NULL <=> N = 0
    BY <1>1, <1>3, AddressAssumption DEF Mirrored, NodesOK
  <1>5. Order(sl) = << >> <=> N = 0
    BY <1>2
  <1> DEFINE on == [i \in 1..MaxLevel |->
                      {at \in Spot(sl, i) : at.rank + Span(sl, at.node, i) < min}]
             at == Descend(sl, on)[1]
             x == Forward(sl, at.node, 1)
             k == IF min = 0 THEN 1 ELSE min
  <1>6. min \in Nat /\ max \in Nat
    OBVIOUS
  <1>7. /\ at.node \in DOMAIN sl.node /\ at.rank = pos[at.node]
        /\ at.rank = 0 \/ at.rank < min
        /\ x # NULL => min <= at.rank + 1
    BY <1>1, <1>6, IndexWalk
  <1>8. FirstInRangeByIdx(sl, min, max) =
          IF sl.tail = NULL THEN SEGV
          ELSE IF max < min \/ min > sl.lenth \/ x = NULL \/ at.rank + 1 > max
               THEN NULL ELSE x
    BY DEF FirstInRangeByIdx
  <1> HIDE DEF at, on
  <1>9. at.rank \in Nat
    BY <1>1, <1>7 DEF PlacesOK
  <1>10. /\ x = NULL => at.rank = N
         /\ x # NULL => x \in Elements(sl) /\ pos[x] = at.rank + 1
    BY <1>1, <1>7, LowestLevel
  <1> HIDE DEF x
  <1>11. CASE N = 0
    BY <1>4, <1>5, <1>8, <1>11
  <1>12. CASE N # 0 /\ x = NULL
    <2>1. k \notin 1..N
      BY <1>3, <1>6, <1>7, <1>9, <1>10, <1>12
    <2>2. FirstInRangeByIdx(sl, min, max) = NULL
      BY <1>4, <1>8, <1>12
    <2> QED BY <2>1, <2>2, <1>2, <1>5, <1>12
  <1>13. CASE N # 0 /\ x # NULL
    <2>1. at.rank + 1 = k /\ k \in 1..N /\ Order(sl)[k] = x
      <3>1. at.rank + 1 = k
        BY <1>6, <1>7, <1>9, <1>13
      <3> QED BY <3>1, <1>2, <1>10, <1>13
    <2>2. min <= k /\ k <= sl.lenth
      BY <2>1, <1>3, <1>6
    <2>3. ~ (min > sl.lenth)
      BY <2>1, <2>2, <1>3, <1>6
    <2> HIDE DEF k
    <2>4. CASE min <= max /\ k <= max
      <3>1. FirstInRangeByIdx(sl, min, max) = x
        <4>1. ~ (max < min) /\ ~ (at.rank + 1 > max)
          BY <2>1, <2>4, <1>3, <1>6
        <4> QED BY <4>1, <2>3, <1>4, <1>8, <1>13
      <3> QED BY <3>1, <2>1, <2>4, <1>2, <1>5, <1>13 DEF k
    <2>5. CASE ~ (min <= max /\ k <= max)
      <3>1. FirstInRangeByIdx(sl, min, max) = NULL
        <4>1. max < min \/ at.rank + 1 > max
          BY <2>1, <2>5, <1>3, <1>6
        <4> QED BY <4>1, <1>4, <1>8, <1>13
      <3> QED BY <3>1, <2>5, <1>5, <1>13 DEF k
    <2> QED BY <2>4, <2>5
  <1> QED BY <1>11, <1>12, <1>13

LEMMA LaidIndexExact ==
    ASSUME NEW pos, NEW N, Laid(sl, pos, N)
    PROVE  IndexExact
  <1>1. Cardinality(Node) \in Nat
    BY LaidParts, ElementsCounted
  <1> QED BY <1>1, LaidIndexed DEF IndexExact

\* The walk of the score queries: all before its end are in P, all behind are
\* not, for a P that the order cuts in two.
LEMMA ScoreWalk ==
    ASSUME NEW L, NEW pos, NEW N, NodesOK(L), PlacesOK(L, pos, N), Linked(L, pos, N), NEW P,
           \A n, o \in Elements(L) : o \in P /\ pos[n] < pos[o] => n \in P
    PROVE  LET e == Descend(L, Onto(L, P))[1].node IN
           /\ e \in DOMAIN L.node /\ pos[e] \in 0..N
           /\ \A n \in Elements(L) : n \in P <=> pos[n] <= pos[e]
           /\ Forward(L, e, 1) = NULL => pos[e] = N
           /\ Forward(L, e, 1) # NULL => /\ Forward(L, e, 1) \in Elements(L)
                                         /\ pos[Forward(L, e, 1)] = pos[e] + 1
  <1> DEFINE e == Descend(L, Onto(L, P))[1].node
             x == Forward(L, e, 1)
  <1>1. 1 \in 1..L.level
    BY LevelAssumption DEF NodesOK
  <1>2. /\ Tall(L, e, 1) /\ (e = head_ \/ e \in P)
        /\ x # NULL => x \notin P
    BY <1>1, DescendOnto
  <1> HIDE DEF e
  <1>3. e \in DOMAIN L.node
    BY <1>2 DEF Tall
  <1>4. /\ x = NULL => pos[e] = N
        /\ x # NULL => x \in Elements(L) /\ pos[x] = pos[e] + 1
    BY <1>3, LowestLevel
  <1>5. pos[e] \in 0..N /\ N \in Nat
    BY <1>3 DEF PlacesOK
  <1> HIDE DEF x
  <1>6. ASSUME NEW n \in Elements(L)
        PROVE  /\ n \in DOMAIN L.node /\ pos[n] \in 0..N /\ pos[n] # 0
               /\ \A o \in DOMAIN L.node : pos[n] = pos[o] => n = o
    BY DEF PlacesOK, NodesOK, Elements
  <1>7. ASSUME NEW n \in Elements(L), pos[n] <= pos[e] PROVE n \in P
    <2>1. e # head_
      BY <1>5, <1>6, <1>7 DEF PlacesOK
    <2>2. e \in P /\ e \in Elements(L)
      BY <2>1, <1>2, <1>3 DEF Elements
    <2>3. CASE pos[n] = pos[e]
      BY <2>2, <2>3, <1>3, <1>6
    <2>4. CASE pos[n] < pos[e]
      BY <2>2, <2>4
    <2> QED BY <2>3, <2>4, <1>5, <1>6, <1>7
  <1>8. ASSUME NEW n \in Elements(L), pos[e] < pos[n] PROVE n \notin P
    <2>1. x # NULL
      BY <1>4, <1>5, <1>6, <1>8
    <2>2. x \notin P /\ x \in Elements(L) /\ pos[x] = pos[e] + 1
      BY <2>1, <1>2, <1>4
    <2>3. CASE pos[n] = pos[x]
      <3>1. n = x
        BY <2>2, <2>3, <1>6
      <3> QED BY <3>1, <2>2
    <2>4. CASE pos[x] < pos[n]
      BY <2>2, <2>4
    <2> QED BY <2>2, <2>3, <2>4, <1>5, <1>6, <1>8
  <1>9. \A n \in Elements(L) : n \in P <=> pos[n] <= pos[e]
    <2> SUFFICES ASSUME NEW n \in Elements(L) PROVE n \in P <=> pos[n] <= pos[e]
      OBVIOUS
    <2>1. pos[n] \in Nat /\ pos[e] \in Nat
      BY <1>5, <1>6
    <2>2. pos[n] <= pos[e] \/ pos[e] < pos[n]
      BY <2>1
    <2> QED BY <2>2, <2>1, <1>7, <1>8
  <1> QED
    BY <1>3, <1>4, <1>5, <1>9 DEF e, x

LEMMA LaidScoreRangeExact ==
    ASSUME NEW pos, NEW N, Laid(sl, pos, N)
    PROVE  ScoreRangeExact
  <1> SUFFICES ASSUME Order(sl) # << >>, NEW min \in QueryScore, NEW max \in QueryScore
               PROVE  LET hits == {k \in DOMAIN Order(sl) :
                                     sl.node[Order(sl)[k]].score \in min..max \cup max..min}
                      IN  IF hits = {} THEN FirstInRangeByScore(sl, min, max) = NULL
                          ELSE /\ FirstInRangeByScore(sl, min, max) = Order(sl)[Min(hits)]
                               /\ LastInRangeByScore(sl, min, max) = Order(sl)[Max(hits)]
    BY DEF ScoreRangeExact
  <1>1. /\ NodesOK(sl) /\ PlacesOK(sl, pos, N) /\ Linked(sl, pos, N)
        /\ Ordered(sl, pos) /\ Mirrored(sl, pos, N)
    BY LaidParts
  <1> DEFINE c == Order(sl)
             score(n) == sl.node[n].score
             low == Low(min, max)
             high == High(min, max)
             hits == {k \in DOMAIN c : score(c[k]) \in min..max \cup max..min}
  <1>2. /\ c \in Seq(Elements(sl)) /\ DOMAIN c = 1..N /\ Len(c) = N
        /\ \A k \in 1..N : c[k] \in Elements(sl) /\ pos[c[k]] = k
        /\ \A n \in Elements(sl) : pos[n] \in 1..N /\ c[pos[n]] = n
    BY <1>1, OrderIs
  <1>3. min \in Int /\ max \in Int /\ low \in Int /\ high \in Int /\ low <= high
        /\ min..max \cup max..min = low..high
    BY QueryAssumption DEF Low, High
  <1>4. N \in Nat /\ N # 0
    <2>1. N \in Nat
      BY <1>1 DEF PlacesOK
    <2>2. N = 0 => c = << >>
      BY <1>2
    <2> QED BY <2>1, <2>2
  <1> HIDE DEF c, low, high
  <1>5. sl.tail \in Elements(sl) /\ pos[sl.tail] = N /\ sl.tail # NULL
    BY <1>1, <1>4, AddressAssumption DEF Mirrored, NodesOK
  <1>6. ASSUME NEW n \in Elements(sl) PROVE score(n) \in Int /\ pos[n] \in 1..N
    BY <1>1, <1>2, ScoreAssumption DEF NodesOK
  <1>7. ASSUME NEW n \in Elements(sl), NEW o \in Elements(sl), pos[n] <= pos[o]
        PROVE  score(n) <= score(o)
    <2>1. CASE pos[n] = pos[o]
      <3>1. n = o
        BY <2>1, <1>2
      <3> QED BY <3>1, <1>6
    <2>2. CASE pos[n] < pos[o]
      BY <2>2, <1>1 DEF Ordered
    <2> QED BY <2>1, <2>2, <1>6, <1>7
  <1>8. \A k : k \in hits <=> k \in 1..N /\ low <= score(c[k]) /\ score(c[k]) <= high
    <2>1. \A k \in 1..N : score(c[k]) \in Int
      BY <1>2, <1>6
    <2> QED BY <2>1, <1>2, <1>3
  <1> HIDE DEF hits
  \* The walk to the lower bound.
  <1> DEFINE P == {n \in Elements(sl) : score(n) < low}
             e == Descend(sl, Onto(sl, P))[1].node
             x == Forward(sl, e, 1)
  <1>9. \A n, o \in Elements(sl) : o \in P /\ pos[n] < pos[o] => n \in P
    BY <1>3, <1>6, <1>7
  <1>10. /\ pos[e] \in 0..N
         /\ \A n \in Elements(sl) : n \in P <=> pos[n] <= pos[e]
         /\ x = NULL => pos[e] = N
         /\ x # NULL => x \in Elements(sl) /\ pos[x] = pos[e] + 1
    <2> HIDE DEF P
    <2> QED BY <1>1, <1>9, ScoreWalk
  <1>11. FirstInRangeByScore(sl, min, max) =
           CASE sl.tail = NULL                          -> SEGV
             [] sl.tail # NULL /\ low > score(sl.tail)  -> NULL
             [] OTHER -> IF x = NULL THEN ABORT
                         ELSE IF score(x) > high THEN NULL ELSE x
    BY DEF FirstInRangeByScore, low, high
  <1> HIDE DEF e
  <1>12. \A n \in Elements(sl) : score(n) < low <=> pos[n] <= pos[e]
    BY <1>10
  <1> HIDE DEF x, P
  <1>13. CASE low > score(sl.tail)
    <2>1. FirstInRangeByScore(sl, min, max) = NULL
      BY <1>5, <1>11, <1>13
    <2>2. hits = {}
      <3> SUFFICES ASSUME NEW k \in hits PROVE FALSE
        OBVIOUS
      <3>1. k \in 1..N /\ low <= score(c[k]) /\ c[k] \in Elements(sl) /\ pos[c[k]] = k
        BY <1>2, <1>8
      <3>2. pos[c[k]] <= pos[sl.tail]
        BY <3>1, <1>4, <1>5
      <3>3. score(c[k]) <= score(sl.tail)
        BY <3>1, <3>2, <1>5, <1>7
      <3>4. score(c[k]) \in Int /\ score(sl.tail) \in Int /\ low <= score(c[k])
        BY <3>1, <1>5, <1>6
      <3> HIDE DEF score
      <3> QED BY <3>3, <3>4, <1>3, <1>13
    <2> QED BY <2>1, <2>2 DEF hits, c
  <1>14. CASE ~ (low > score(sl.tail))
    <2>1. x \in Elements(sl) /\ x # NULL /\ pos[x] = pos[e] + 1 /\ low <= score(x)
          /\ c[pos[x]] = x /\ pos[x] \in 1..N
      <3>1. pos[e] # N
        BY <1>3, <1>5, <1>6, <1>12, <1>14
      <3>2. x # NULL
        BY <3>1, <1>10
      <3>3. x \in Elements(sl) /\ pos[x] = pos[e] + 1
        BY <3>2, <1>10
      <3>4. ~ (score(x) < low)
        BY <3>3, <1>10, <1>12
      <3> QED BY <3>2, <3>3, <3>4, <1>2, <1>3, <1>6
    <2>2. FirstInRangeByScore(sl, min, max) = IF score(x) > high THEN NULL ELSE x
      BY <2>1, <1>5, <1>11, <1>14
    <2>3. ASSUME NEW k \in hits
          PROVE  /\ pos[x] <= k /\ score(x) <= high /\ k \in 1..N
                 /\ c[k] \in Elements(sl) /\ pos[c[k]] = k
                 /\ low <= score(c[k]) /\ score(c[k]) <= high
      <3>1. /\ k \in 1..N /\ low <= score(c[k]) /\ score(c[k]) <= high
            /\ c[k] \in Elements(sl) /\ pos[c[k]] = k
        BY <1>2, <1>8
      <3>2. ~ (k <= pos[e])
        BY <3>1, <1>3, <1>6, <1>12
      <3>3. pos[x] <= k
        BY <3>1, <3>2, <2>1, <1>10
      <3>4. score(x) <= score(c[k])
        BY <3>1, <3>3, <2>1, <1>7
      <3>5. score(x) \in Int /\ score(c[k]) \in Int
        BY <3>1, <2>1, <1>6
      <3>6. score(x) <= high
        <4>1. score(c[k]) <= high
          BY <3>1
        <4> HIDE DEF score
        <4> QED BY <3>4, <3>5, <4>1, <1>3
      <3> QED BY <3>1, <3>3, <3>6
    <2>4. CASE score(x) > high
      <3>1. hits = {}
        BY <2>1, <2>3, <2>4, <1>3, <1>6
      <3> QED BY <3>1, <2>2, <2>4 DEF hits, c
    <2>5. CASE ~ (score(x) > high)
      <3>1. pos[x] \in hits
        <4>1. score(x) <= high
          BY <2>1, <2>5, <1>3, <1>6
        <4> QED BY <4>1, <2>1, <1>8
      <3>2. Min(hits) = pos[x]
        <4>1. \A k \in hits : pos[x] <= k
          BY <2>3
        <4>2. \A k \in hits : (\A j \in hits : k <= j) => k = pos[x]
          BY <3>1, <2>1, <2>3
        <4> QED BY <3>1, <4>1, <4>2 DEF Min
      <3>3. FirstInRangeByScore(sl, min, max) = c[Min(hits)]
        BY <3>2, <2>1, <2>2, <2>5
      <3>4. LastInRangeByScore(sl, min, max) = c[Max(hits)]
        <4> DEFINE Q == {n \in Elements(sl) : score(n) <= high}
                   d == Descend(sl, Onto(sl, Q))[1].node
        <4>1. \A n, o \in Elements(sl) : o \in Q /\ pos[n] < pos[o] => n \in Q
          <5> SUFFICES ASSUME NEW n \in Elements(sl), NEW o \in Elements(sl),
                              score(o) <= high, pos[n] < pos[o]
                       PROVE  score(n) <= high
            OBVIOUS
          <5>1. pos[n] <= pos[o]
            BY <1>4, <1>6
          <5>2. score(n) <= score(o) /\ score(n) \in Int /\ score(o) \in Int
            BY <5>1, <1>6, <1>7
          <5> HIDE DEF score
          <5> QED BY <5>2, <1>3
        <4>2. /\ d \in DOMAIN sl.node /\ pos[d] \in 0..N
              /\ \A n \in Elements(sl) : n \in Q <=> pos[n] <= pos[d]
          <5> HIDE DEF Q
          <5> QED BY <1>1, <4>1, ScoreWalk
        <4>3. LastInRangeByScore(sl, min, max) =
                IF sl.tail = NULL THEN SEGV
                ELSE IF low > score(sl.tail) THEN NULL
                ELSE IF high >= score(sl.tail) THEN sl.tail
                ELSE IF score(d) < low THEN NULL
                ELSE d
          BY DEF LastInRangeByScore, low, high
        <4> HIDE DEF d
        <4>4. \A n \in Elements(sl) : score(n) <= high <=> pos[n] <= pos[d]
          BY <4>2
        <4> HIDE DEF Q
        <4>5. ASSUME NEW g \in Elements(sl), score(g) <= high,
                     \A n \in Elements(sl) : score(n) <= high => pos[n] <= pos[g]
              PROVE  Max(hits) = pos[g] /\ c[Max(hits)] = g /\ low <= score(g)
          <5>1. pos[g] \in 1..N /\ c[pos[g]] = g /\ pos[x] <= pos[g]
            BY <4>5, <2>1, <2>5, <1>2, <1>3, <1>6
          <5>2. score(x) <= score(g) /\ low <= score(g)
            <6>1. score(x) <= score(g)
              BY <5>1, <2>1, <1>7
            <6>2. score(x) \in Int /\ score(g) \in Int /\ low <= score(x)
              BY <2>1, <1>6
            <6> HIDE DEF score
            <6> QED BY <6>1, <6>2, <1>3
          <5>3. pos[g] \in hits
            BY <5>1, <5>2, <4>5, <1>8
          <5>4. \A k \in hits : pos[g] >= k
            <6> SUFFICES ASSUME NEW k \in hits PROVE pos[g] >= k
              OBVIOUS
            <6>1. pos[c[k]] <= pos[g] /\ pos[c[k]] = k /\ k \in 1..N
              BY <2>3, <4>5
            <6> QED BY <6>1, <5>1
          <5>5. \A k \in hits : (\A j \in hits : k >= j) => k = pos[g]
            <6> SUFFICES ASSUME NEW k \in hits, k >= pos[g] PROVE k = pos[g]
              BY <5>3
            <6>1. pos[g] >= k /\ k \in 1..N
              BY <2>3, <5>4
            <6> QED BY <6>1, <5>1
          <5> QED BY <5>1, <5>2, <5>3, <5>4, <5>5 DEF Max
        <4>6. CASE high >= score(sl.tail)
          <5>1. LastInRangeByScore(sl, min, max) = sl.tail
            BY <4>3, <4>6, <1>5, <1>14
          <5>2. score(sl.tail) <= high
            BY <4>6, <1>3, <1>5, <1>6
          <5>3. \A n \in Elements(sl) : pos[n] <= pos[sl.tail]
            BY <1>4, <1>5, <1>6
          <5> QED BY <5>1, <5>2, <5>3, <4>5, <1>5
        <4>7. CASE ~ (high >= score(sl.tail))
          <5>1. pos[x] <= pos[d]
            BY <4>4, <2>1, <2>5, <1>3, <1>6
          <5>2. d \in Elements(sl)
            <6>1. pos[d] # 0
              BY <5>1, <4>2, <2>1, <1>4
            <6>2. d # head_
              BY <6>1, <1>1 DEF PlacesOK
            <6> QED BY <6>2, <4>2 DEF Elements
          <5>3. /\ score(d) <= high
                /\ \A n \in Elements(sl) : score(n) <= high => pos[n] <= pos[d]
            <6>1. pos[d] <= pos[d]
              BY <4>2, <1>4
            <6> QED BY <6>1, <5>2, <4>4
          <5>4. c[Max(hits)] = d /\ low <= score(d)
            BY <5>2, <5>3, <4>5
          <5>5. ~ (score(d) < low) /\ ~ (low > score(sl.tail))
            BY <5>2, <5>4, <1>3, <1>6, <1>14
          <5> QED BY <5>4, <5>5, <4>3, <4>7, <1>5
        <4> QED BY <4>6, <4>7
      <3> QED BY <3>1, <3>3, <3>4 DEF hits, c
    <2> QED BY <2>4, <2>5
  <1> QED BY <1>13, <1>14

\* No two elements hold the same member: the rule for callers above Insert.
Distinct(L) ==
    \A n, o \in Elements(L) : L.node[n].val = L.node[o].val => n = o

LEMMA LaidRankExactOrLost ==
    ASSUME NEW pos, NEW N, Laid(sl, pos, N), Distinct(sl)
    PROVE  RankExactOrLost
  <1> SUFFICES ASSUME NEW n \in Elements(sl)
               PROVE  LET s == sl.node[n].score
                          r == GetRank(sl, s, sl.node[n].val)
                          tied == \E o \in Elements(sl) \ {n} : sl.node[o].score = s
                      IN  r = Position(sl, n) \/ (r = 0 /\ tied)
    BY DEF RankExactOrLost
  <1> DEFINE s == sl.node[n].score
             m == sl.node[n].val
             isMember(o) == o # head_ /\ sl.node[o].val = m
             on == [i \in 1..MaxLevel |->
                      {at \in Spot(sl, i) :
                          /\ ~ isMember(at.node)
                          /\ sl.node[Forward(sl, at.node, i)].score <= s}]
             at == Descend(sl, on)[1]
             e == at.node
             x == Forward(sl, e, 1)
  <1>1. NodesOK(sl) /\ PlacesOK(sl, pos, N) /\ Linked(sl, pos, N) /\ Ordered(sl, pos)
    BY LaidParts
  <1>2. \A o \in DOMAIN sl.node : Position(sl, o) = pos[o]
    BY <1>1, OrderIs
  <1>3. /\ at \in Spot(sl, 1) /\ e \in DOMAIN sl.node /\ at.rank = pos[e]
        /\ x = NULL \/ at \notin on[1]
        /\ e = head_ \/ Entered(sl, pos, on, e)
    <2> HIDE DEF on, s, m, isMember
    <2> QED BY <1>1, DescendEnds
  <1>4. GetRank(sl, s, m) = IF isMember(e) THEN at.rank ELSE 0
    BY DEF GetRank
  <1>5. /\ \A i \in 1..MaxLevel :
              on[i] = {a \in Spot(sl, i) :
                          /\ ~ isMember(a.node)
                          /\ sl.node[Forward(sl, a.node, i)].score <= s}
        /\ 1 \in 1..MaxLevel /\ sl.level \in 1..MaxLevel /\ MaxLevel \in Nat
    BY <1>1, LevelAssumption DEF NodesOK
  <1> HIDE DEF at, on
  <1>6. n \in DOMAIN sl.node /\ n # head_
    BY DEF Elements
  <1>7. CASE isMember(e)
    <2>1. e = n
      BY <1>3, <1>7 DEF Distinct, Elements
    <2> QED BY <2>1, <1>2, <1>3, <1>4, <1>7
  <1>8. CASE ~ isMember(e)
    <2>1. GetRank(sl, s, m) = 0
      BY <1>4, <1>8
    <2>2. x # NULL => ~ (sl.node[x].score <= s)
      BY <1>3, <1>5, <1>8
    <2>3. /\ x = NULL => pos[e] = N
          /\ x # NULL => x \in Elements(sl) /\ pos[x] = pos[e] + 1
      BY <1>1, <1>3, LowestLevel
    <2>4. \A o \in DOMAIN sl.node : pos[o] \in 0..N
      BY <1>1 DEF PlacesOK
    <2>5. \A o \in Elements(sl) : sl.node[o].score \in Int
      BY <1>1, ScoreAssumption DEF NodesOK
    <2>6. N \in Nat
      BY <1>1 DEF PlacesOK
    <2>7. e # n
      BY <1>6, <1>8
    <2>8. pos[e] # pos[n]
      BY <2>7, <1>1, <1>3, <1>6 DEF PlacesOK
    <2>9. ASSUME pos[e] < pos[n] PROVE FALSE
      <3>1. x # NULL
        BY <2>3, <2>4, <2>6, <2>9, <1>3, <1>6
      <3>2. /\ x \in Elements(sl) /\ x \in DOMAIN sl.node /\ pos[x] = pos[e] + 1
            /\ ~ (sl.node[x].score <= s)
        BY <3>1, <2>2, <2>3 DEF Elements
      <3>3. pos[x] < pos[n] \/ pos[x] = pos[n]
        BY <3>2, <2>4, <2>6, <2>9, <1>3, <1>6
      <3>4. CASE pos[x] = pos[n]
        <4>1. x = n
          BY <3>2, <3>4, <1>1, <1>6 DEF PlacesOK
        <4>2. sl.node[n].score \in Int
          BY <2>5
        <4> QED BY <3>2, <4>1, <4>2
      <3>5. CASE pos[x] < pos[n]
        BY <3>2, <3>5, <1>1 DEF Ordered
      <3> QED BY <3>3, <3>4, <3>5
    <2>10. pos[n] < pos[e]
      BY <2>4, <2>6, <2>8, <2>9, <1>3, <1>6
    <2>11. e # head_ /\ e \in Elements(sl)
      <3>1. pos[head_] = 0 /\ pos[n] \in Nat
        BY <2>4, <2>6, <1>1, <1>6 DEF PlacesOK
      <3>2. e # head_
        BY <3>1, <2>10
      <3> QED BY <3>2, <1>3 DEF Elements
    <2>12. sl.node[e].score <= s
      <3>1. Entered(sl, pos, on, e)
        BY <2>11, <1>3
      <3>2. PICK k \in 1..sl.level : \E w \in DOMAIN sl.node :
                /\ Tall(sl, w, k) /\ Forward(sl, w, k) = e
                /\ [node |-> w, rank |-> pos[w]] \in on[k]
        BY <3>1 DEF Entered
      <3>3. PICK w \in DOMAIN sl.node :
                /\ Tall(sl, w, k) /\ Forward(sl, w, k) = e
                /\ [node |-> w, rank |-> pos[w]] \in on[k]
        BY <3>2
      <3>4. k \in 1..MaxLevel
        BY <1>5
      <3>5. [node |-> w, rank |-> pos[w]] \in
                {a \in Spot(sl, k) : /\ ~ isMember(a.node)
                                     /\ sl.node[Forward(sl, a.node, k)].score <= s}
        BY <3>3, <3>4, <1>5
      <3>6. sl.node[Forward(sl, w, k)].score <= s
        BY <3>5
      <3> QED BY <3>3, <3>6
    <2>13. s <= sl.node[e].score
      BY <2>10, <2>11, <1>1 DEF Ordered
    <2>14. sl.node[e].score = s
      <3>1. sl.node[e].score \in Int /\ s \in Int
        BY <2>5, <2>11
      <3> HIDE DEF s
      <3> QED BY <3>1, <2>12, <2>13
    <2> QED BY <2>1, <2>7, <2>11, <2>14
  <1> QED BY <1>7, <1>8

LEMMA StepsKeepDistinct ==
    ASSUME WellLaid(sl), Distinct(sl), [SLNext]_sl
    PROVE  Distinct(sl')
  <1>1. PICK pos, N : Laid(sl, pos, N)
    BY DEF WellLaid
  <1>2. NodesOK(sl)
    BY <1>1, LaidParts
  <1>3. ASSUME NEW s \in Score, NEW m \in Member, Insert(s, m) PROVE Distinct(sl')
    <2>1. m \notin Members(sl)
      BY <1>3 DEF Insert
    <2>2. PICK lvl \in 1..MaxLevel, x \in Node \ DOMAIN sl.node :
                sl' = InsertNode(sl, s, m, lvl, x)
      BY <1>3 DEF Insert
    <2>3. /\ DOMAIN sl'.node = DOMAIN sl.node \cup {x} /\ sl'.node[x].val = m
          /\ \A n \in DOMAIN sl.node \ {x} : sl'.node[n].val = sl.node[n].val
      BY <2>2, InsertNodeFields
    <2>4. \A n \in Elements(sl) : sl.node[n].val # m
      BY <2>1 DEF Members
    <2> QED BY <2>3, <2>4 DEF Distinct, Elements
  <1>4. ASSUME NEW s \in Score, NEW m \in Member, Delete(s, m) PROVE Distinct(sl')
    <2>1. sl' = DeleteMember(sl, s, m)
      BY <1>4 DEF Delete
    <2>2. CASE Target(sl, s, m) = NULL
      BY <2>1, <2>2 DEF DeleteMember
    <2>3. CASE Target(sl, s, m) # NULL
      <3> DEFINE x == Target(sl, s, m)
      <3>1. x \in Elements(sl) /\ sl' = DeleteNode(sl, x, PathTo(sl, s, m))
        BY <2>1, <2>3, <1>1, PathOver DEF DeleteMember
      <3> HIDE DEF x
      <3>2. head_ # x /\ sl.level \in 1..MaxLevel
        BY <3>1, <1>2 DEF Elements, NodesOK
      <3>3. /\ DOMAIN sl'.node = DOMAIN sl.node \ {x}
            /\ \A n \in DOMAIN sl.node \ {x} : sl'.node[n].val = sl.node[n].val
        BY <3>1, <3>2, DeleteNodeFields
      <3> QED BY <3>3 DEF Distinct, Elements
    <2> QED BY <2>2, <2>3
  <1>5. CASE UNCHANGED sl
    <2>1. sl' = sl
      BY <1>5
    <2> QED BY <2>1
  <1> QED BY <1>3, <1>4, <1>5 DEF SLNext

-----------------------------------------------------------------------------
(* Theorems.                                                                *)

\* Insert and Delete keep every link, tail_ and backward pointer on nodes of
\* the heap that are as tall as the link's level.
THEOREM LinksLeadToNodes == SLSpec => []LinksOK
  <1>1. WellLaid(sl) => LinksOK
    BY LaidLinksOK DEF WellLaid
  <1> QED BY <1>1, HeapLaid, PTL

\* Insert and Delete splice all levels alike: none loses a node, and level i is
\* the subsequence of the lowest level made of the nodes that tall.
THEOREM LevelsNested == SLSpec => []ChainsNested
  <1>1. WellLaid(sl) => ChainsNested
    BY LaidChainsNested DEF WellLaid
  <1> QED BY <1>1, HeapLaid, PTL

\* The spans Insert and DeleteNode maintain are the distances of their links,
\* although the lenth_ they start from drifts.
THEOREM SpansExact == SLSpec => []SpansAreDistances
  <1>1. WellLaid(sl) => SpansAreDistances
    BY LaidSpansAreDistances DEF WellLaid
  <1> QED BY <1>1, HeapLaid, PTL

\* backward and tail_ describe the list the forward links do.
THEOREM BackwardExact == SLSpec => []BackwardMirrorsForward
  <1>1. WellLaid(sl) => BackwardMirrorsForward
    BY LaidBackward DEF WellLaid
  <1> QED BY <1>1, HeapLaid, PTL

\* FirstInRangeByIdx returns the member at the position asked for.
THEOREM IndexQueriesExact == SLSpec => []IndexExact
  <1>1. WellLaid(sl) => IndexExact
    BY LaidIndexExact DEF WellLaid
  <1> QED BY <1>1, HeapLaid, PTL

\* FirstInRangeByScore and LastInRangeByScore delimit the members in the range,
\* and the assertion in the first holds.
THEOREM ScoreQueriesExact == SLSpec => []ScoreRangeExact
  <1>1. WellLaid(sl) => ScoreRangeExact
    BY LaidScoreRangeExact DEF WellLaid
  <1> QED BY <1>1, HeapLaid, PTL

\* GetRank errs only among members of one score, and then returns 0.
THEOREM RanksExactOrLost == SLSpec => []RankExactOrLost
  <1>1. SLInit => Distinct(sl)
    BY DEF SLInit, EmptyList, Distinct, Elements
  <1>2. WellLaid(sl) /\ Distinct(sl) /\ [SLNext]_sl => Distinct(sl)'
    BY StepsKeepDistinct
  <1>3. WellLaid(sl) /\ Distinct(sl) => RankExactOrLost
    BY LaidRankExactOrLost DEF WellLaid
  <1> QED BY <1>1, <1>2, <1>3, HeapLaid, PTL DEF SLSpec

-----------------------------------------------------------------------------
(* The heap implements ScoredList.                                          *)

EntryOf(L, n) == [score |-> L.node[n].score, val |-> L.node[n].val]

\* ListOf has the entry of a node at its place.
LEMMA ListIs ==
    ASSUME NEW L, NEW pos, NEW N, NodesOK(L), PlacesOK(L, pos, N), Linked(L, pos, N)
    PROVE  /\ ListOf(L) \in Seq([score : Score, val : Member])
           /\ Len(ListOf(L)) = N /\ DOMAIN ListOf(L) = 1..N
           /\ \A n \in Elements(L) : /\ pos[n] \in 1..N
                                     /\ ListOf(L)[pos[n]] = EntryOf(L, n)
           /\ \A k \in 1..N : \E n \in Elements(L) : pos[n] = k
  <1> DEFINE c == Order(L)
  <1>1. /\ DOMAIN c = 1..N
        /\ \A k \in 1..N : c[k] \in Elements(L) /\ pos[c[k]] = k
        /\ \A n \in Elements(L) : pos[n] \in 1..N /\ c[pos[n]] = n
    BY OrderIs
  <1>2. ListOf(L) = [k \in 1..N |-> EntryOf(L, c[k])]
    BY <1>1 DEF ListOf, EntryOf
  <1> HIDE DEF c
  <1>3. N \in Nat
    BY DEF PlacesOK
  <1>4. \A k \in 1..N : EntryOf(L, c[k]) \in [score : Score, val : Member]
    BY <1>1 DEF EntryOf, NodesOK
  <1>5. ListOf(L) \in [1..N -> [score : Score, val : Member]]
    BY <1>2, <1>4
  <1>6. ListOf(L) \in Seq([score : Score, val : Member]) /\ Len(ListOf(L)) = N
    <2> DEFINE S == [score : Score, val : Member]
               t == ListOf(L)
    <2>1. t \in [1..N -> S]
      BY <1>5
    <2> HIDE DEF S, t
    <2>2. t \in Seq(S) /\ Len(t) = N
      BY <2>1, <1>3
    <2> QED BY <2>2 DEF S, t
  <1>7. \A n \in Elements(L) : ListOf(L)[pos[n]] = EntryOf(L, n)
    BY <1>1, <1>2
  <1>8. DOMAIN ListOf(L) = 1..N
    BY <1>2
  <1> QED
    BY <1>1, <1>6, <1>7, <1>8

\* InsertAt entry by entry.
LEMMA InsertAtEntries ==
    ASSUME NEW S, NEW list \in Seq(S), NEW e \in S, NEW k \in 1..Len(list) + 1
    PROVE  InsertAt(list, k, e) =
              [j \in 1..Len(list) + 1 |->
                  IF j < k THEN list[j] ELSE IF j = k THEN e ELSE list[j - 1]]
  <1> DEFINE N == Len(list)
             a == SubSeq(list, 1, k - 1)
             b == SubSeq(list, k, N)
             r == InsertAt(list, k, e)
  <1>1. N \in Nat /\ k \in Nat /\ k - 1 \in 0..N /\ DOMAIN list = 1..N
    OBVIOUS
  <1>2. /\ a \in Seq(S) /\ Len(a) = k - 1
        /\ \A j \in 1..k - 1 : a[j] = list[j]
    BY <1>1
  <1>3. /\ b \in Seq(S) /\ Len(b) = N - k + 1
        /\ \A j \in 1..N - k + 1 : b[j] = list[k + j - 1]
    BY <1>1
  <1>4. r = (a \o <<e>>) \o b
    BY DEF InsertAt
  <1> HIDE DEF a, b, r, N
  <1> DEFINE f == a \o <<e>>
  <1>5. /\ f \in Seq(S) /\ Len(f) = k
        /\ \A j \in 1..k : f[j] = IF j < k THEN list[j] ELSE e
    <2>1. f \in Seq(S) /\ Len(f) = k
      BY <1>1, <1>2
    <2>2. ASSUME NEW j \in 1..k PROVE f[j] = IF j < k THEN list[j] ELSE e
      BY <1>1, <1>2
    <2> QED BY <2>1, <2>2
  <1>6. r = f \o b
    BY <1>4
  <1> HIDE DEF f
  <1>7. /\ r \in Seq(S) /\ Len(r) = Len(f) + Len(b)
        /\ \A j \in 1..Len(f) + Len(b) :
               r[j] = IF j <= Len(f) THEN f[j] ELSE b[j - Len(f)]
    <2>1. f \in Seq(S) /\ b \in Seq(S)
      BY <1>3, <1>5
    <2> QED BY <2>1, <1>6, ConcatProperties
  <1>8. r \in Seq(S) /\ Len(r) = N + 1
    <2> QED BY <1>7, <1>1, <1>3, <1>5
  <1>9. ASSUME NEW j \in 1..N + 1
        PROVE  r[j] = IF j < k THEN list[j] ELSE IF j = k THEN e ELSE list[j - 1]
    <2>1. CASE j <= k
      <3>1. r[j] = f[j]
        BY <2>1, <1>1, <1>3, <1>5, <1>7
      <3> QED BY <3>1, <2>1, <1>1, <1>5
    <2>2. CASE ~ (j <= k)
      <3>1. /\ j - k \in 1..N - k + 1 /\ k + (j - k) - 1 = j - 1
            /\ j \in Len(f) + 1..Len(f) + Len(b) /\ j - Len(f) = j - k
        BY <2>2, <1>1, <1>3, <1>5
      <3>2. r[j] = b[j - k]
        <4>1. j \in 1..Len(f) + Len(b) /\ ~ (j <= Len(f))
          BY <3>1, <1>1, <1>3, <1>5
        <4>2. r[j] = b[j - Len(f)]
          BY <4>1, <1>7
        <4> QED BY <4>2, <3>1
      <3>3. b[j - k] = list[k + (j - k) - 1]
        BY <3>1, <1>3
      <3>4. b[j - k] = list[j - 1]
        BY <3>1, <3>3
      <3>5. ~ (j < k) /\ j # k
        BY <2>2, <1>1
      <3> QED BY <3>2, <3>4, <3>5
    <2> QED BY <2>1, <2>2
  <1>10. r = [j \in 1..N + 1 |-> r[j]]
    BY <1>1, <1>8
  <1> QED
    BY <1>9, <1>10 DEF r, N

\* RemoveAt entry by entry.
LEMMA RemoveAtEntries ==
    ASSUME NEW S, NEW list \in Seq(S), NEW k \in 1..Len(list)
    PROVE  RemoveAt(list, k) =
              [j \in 1..Len(list) - 1 |-> IF j < k THEN list[j] ELSE list[j + 1]]
  <1> DEFINE N == Len(list)
             a == SubSeq(list, 1, k - 1)
             b == SubSeq(list, k + 1, N)
             r == RemoveAt(list, k)
  <1>1. N \in Nat /\ k \in Nat /\ k <= N /\ 1 <= k /\ DOMAIN list = 1..N
    OBVIOUS
  <1>2. /\ a \in Seq(S) /\ Len(a) = k - 1
        /\ \A j \in 1..k - 1 : a[j] = list[j]
    BY <1>1
  <1>3. /\ b \in Seq(S) /\ Len(b) = N - k
        /\ \A j \in 1..N - k : b[j] = list[k + j]
    <2>1. k + 1 \in 1..N + 1 /\ N - (k + 1) + 1 = N - k
      BY <1>1
    <2>2. /\ b \in Seq(S) /\ Len(b) = N - k
          /\ \A j \in 1..N - k : b[j] = list[(k + 1) + j - 1]
      <3> DEFINE h == k + 1
      <3>1. b = SubSeq(list, h, N) /\ h \in 1..N + 1 /\ N - h + 1 = N - k
        BY <2>1
      <3> HIDE DEF h, b
      <3>2. /\ b \in Seq(S) /\ Len(b) = N - h + 1
            /\ \A j \in 1..N - h + 1 : b[j] = list[h + j - 1]
        <4>1. h \in Int /\ N \in Int /\ \A i \in h..N : list[i] \in S
          BY <3>1, <1>1
        <4>2. Len(b) = IF h <= N THEN N - h + 1 ELSE 0
          BY <4>1, <3>1, SubSeqProperties
        <4>3. b \in Seq(S) /\ \A j \in 1..N - h + 1 : b[j] = list[h + j - 1]
          BY <4>1, <3>1, SubSeqProperties
        <4> QED BY <4>1, <4>2, <4>3, <3>1, <1>1
      <3> QED BY <3>1, <3>2 DEF h
    <2>3. \A j \in 1..N - k : (k + 1) + j - 1 = k + j
      BY <1>1
    <2> QED BY <2>2, <2>3
  <1>4. r = a \o b
    BY DEF RemoveAt
  <1> HIDE DEF a, b, r, N
  <1>5. /\ r \in Seq(S) /\ Len(r) = Len(a) + Len(b)
        /\ \A j \in 1..Len(a) + Len(b) :
               r[j] = IF j <= Len(a) THEN a[j] ELSE b[j - Len(a)]
    <2>1. a \in Seq(S) /\ b \in Seq(S)
      BY <1>2, <1>3
    <2> QED BY <2>1, <1>4, ConcatProperties
  <1>6. r \in Seq(S) /\ Len(r) = N - 1
    BY <1>1, <1>2, <1>3, <1>5
  <1>7. ASSUME NEW j \in 1..N - 1
        PROVE  r[j] = IF j < k THEN list[j] ELSE list[j + 1]
    <2>1. CASE j < k
      BY <2>1, <1>1, <1>2, <1>3, <1>5
    <2>2. CASE ~ (j < k)
      <3>1. /\ j - (k - 1) \in 1..N - k /\ k + (j - (k - 1)) = j + 1
            /\ j \in 1..Len(a) + Len(b) /\ ~ (j <= Len(a)) /\ j - Len(a) = j - (k - 1)
        BY <2>2, <1>1, <1>2, <1>3
      <3>2. r[j] = b[j - (k - 1)]
        BY <3>1, <1>5
      <3> QED BY <3>1, <3>2, <2>2, <1>3
    <2> QED BY <2>1, <2>2
  <1>8. r = [j \in 1..N - 1 |-> r[j]]
    BY <1>1, <1>6
  <1> QED
    BY <1>7, <1>8 DEF r, N

\* Insert puts the new entry behind those of its score and below, and before
\* those above.
LEMMA InsertLists ==
    ASSUME NEW L, NEW pos, NEW N, Laid(L, pos, N), NEW s \in Score, NEW m \in Member,
           m \notin Members(L), NEW lvl \in 1..MaxLevel, NEW x \in Node \ DOMAIN L.node
    PROVE  \E k \in 1..Len(ListOf(L)) + 1 :
              /\ \A i \in DOMAIN ListOf(L) : ListOf(L)[i].score <= s <=> i < k
              /\ ListOf(InsertNode(L, s, m, lvl, x))
                    = InsertAt(ListOf(L), k, [score |-> s, val |-> m])
  <1> DEFINE R == InsertNode(L, s, m, lvl, x)
             u == Predecessors(L, s, m, lvl)[1].node
             next == Predecessors(L, s, m, lvl)[1].link.forward
             K == pos[u]
             q == Opened(L, pos, x, K)
             old == ListOf(L)
             new == ListOf(R)
             e == [score |-> s, val |-> m]
             E == [score : Score, val : Member]
  <1>1. NodesOK(L) /\ PlacesOK(L, pos, N) /\ Linked(L, pos, N) /\ Ordered(L, pos)
    BY LaidParts
  <1>2. /\ Splice(L, pos, N, Predecessors(L, s, m, lvl), Top(L, lvl), K)
        /\ next # NULL => ~ Before(L, s, m, next)
    BY PredecessorsSplice
  <1>3. u \in DOMAIN L.node /\ next = Forward(L, u, 1)
    BY <1>2, LevelAssumption DEF Splice, Tall
  <1>4. K \in 0..N /\ Laid(R, q, N + 1)
    BY InsertKeepsLaid
  <1>5. NodesOK(R) /\ PlacesOK(R, q, N + 1) /\ Linked(R, q, N + 1) /\ Ordered(R, q)
    <2> HIDE DEF R, q
    <2> QED BY <1>4, LaidParts
  <1>6. /\ DOMAIN R.node = DOMAIN L.node \cup {x} /\ R.node[x].score = s /\ R.node[x].val = m
        /\ \A n \in DOMAIN L.node \ {x} : /\ R.node[n].score = L.node[n].score
                                          /\ R.node[n].val = L.node[n].val
    BY InsertNodeFields
  <1>7. x \notin DOMAIN L.node /\ x # head_ /\ Elements(R) = Elements(L) \cup {x}
    BY <1>6, AddressAssumption DEF Elements
  <1>19. old \in Seq(E)
    <2> HIDE DEF old
    <2> QED BY <1>1, ListIs DEF old
  <1>8. /\ Len(old) = N /\ DOMAIN old = 1..N
        /\ \A n \in Elements(L) : pos[n] \in 1..N /\ old[pos[n]] = EntryOf(L, n)
        /\ \A k \in 1..N : \E n \in Elements(L) : pos[n] = k
    BY <1>1, ListIs
  <1>9. /\ DOMAIN new = 1..N + 1
        /\ \A n \in Elements(R) : q[n] \in 1..N + 1 /\ new[q[n]] = EntryOf(R, n)
        /\ \A k \in 1..N + 1 : \E n \in Elements(R) : q[n] = k
    <2> HIDE DEF R, q
    <2> QED BY <1>5, ListIs
  <1>10. /\ EntryOf(R, x) = e /\ q[x] = K + 1 /\ e \in E
         /\ \A n \in Elements(L) : /\ EntryOf(R, n) = EntryOf(L, n)
                                   /\ q[n] = IF K < pos[n] THEN pos[n] + 1 ELSE pos[n]
    BY <1>6, <1>7 DEF EntryOf, Opened, Elements
  <1>11. N \in Nat /\ K \in Nat /\ K <= N
    BY <1>1, <1>4 DEF PlacesOK
  <1>12. /\ next = NULL => K = N
         /\ next # NULL => next \in Elements(L) /\ pos[next] = K + 1
    BY <1>1, <1>3, LowestLevel
  <1>13. ASSUME NEW n \in Elements(L) PROVE L.node[n].score <= s <=> pos[n] < K + 1
    <2>1. /\ L.node[n].score \in Int /\ s \in Int /\ pos[n] \in Nat /\ pos[n] <= N
          /\ R.node[n].score = L.node[n].score /\ R.node[x].score = s
          /\ n \in Elements(R) /\ x \in Elements(R)
      <3>1. L.node[n].score \in Int /\ s \in Int
        BY <1>1, ScoreAssumption DEF NodesOK
      <3>2. n \in DOMAIN L.node \ {x}
        BY <1>7 DEF Elements
      <3> HIDE DEF R, K
      <3>3. pos[n] \in Nat /\ pos[n] <= N
        BY <1>8, <1>11
      <3> QED BY <3>1, <3>2, <3>3, <1>6, <1>7
    <2>2. ASSUME pos[n] < K + 1 PROVE L.node[n].score <= s
      <3>1. q[n] < q[x]
        BY <2>1, <2>2, <1>10, <1>11
      <3> QED BY <3>1, <2>1, <1>5 DEF Ordered
    <2>3. ASSUME ~ (pos[n] < K + 1) PROVE ~ (L.node[n].score <= s)
      <3>1. next \in Elements(L) /\ pos[next] = K + 1 /\ ~ Before(L, s, m, next)
        <4>1. K # N
          BY <2>1, <2>3, <1>11
        <4>2. next # NULL
          BY <4>1, <1>12
        <4> HIDE DEF next, K, R, q, u
        <4> QED BY <4>2, <1>2, <1>12
      <3>2. L.node[next].val # m /\ L.node[next].score \in Int
        BY <3>1, <1>1, ScoreAssumption DEF Members, NodesOK
      <3>3. ~ (L.node[next].score <= s)
        BY <3>1, <3>2, <2>1 DEF Before
      <3>4. L.node[next].score <= L.node[n].score
        <4>1. CASE pos[next] = pos[n]
          <5>1. next = n
            BY <4>1, <3>1, <1>1 DEF PlacesOK, Elements
          <5> QED BY <5>1, <2>1
        <4>2. CASE pos[next] < pos[n]
          BY <4>2, <3>1, <1>1 DEF Ordered
        <4> QED BY <4>1, <4>2, <3>1, <2>1, <2>3, <1>11
      <3> QED BY <3>2, <3>3, <3>4, <2>1
    <2> QED BY <2>2, <2>3
  <1> HIDE DEF R, q, old, new, e, K, E
  <1>14. ASSUME NEW i \in DOMAIN old PROVE old[i].score <= s <=> i < K + 1
    <2>1. PICK n \in Elements(L) : pos[n] = i
      BY <1>8
    <2>2. old[i].score = L.node[n].score
      <3>1. old[i] = EntryOf(L, n)
        BY <2>1, <1>8
      <3> QED BY <3>1 DEF EntryOf
    <2> QED BY <2>1, <2>2, <1>13
  <1>15. ASSUME NEW j \in 1..N + 1
         PROVE  new[j] = IF j < K + 1 THEN old[j] ELSE IF j = K + 1 THEN e ELSE old[j - 1]
    <2>1. PICK n \in Elements(R) : q[n] = j
      BY <1>9
    <2>2. new[j] = EntryOf(R, n)
      BY <2>1, <1>9
    <2>3. CASE n = x
      <3>1. j = K + 1
        BY <2>1, <2>3, <1>10
      <3> QED BY <3>1, <2>2, <2>3, <1>10, <1>11
    <2>4. CASE n \in Elements(L)
      <3>1. /\ new[j] = old[pos[n]] /\ pos[n] \in Nat
            /\ j = IF K < pos[n] THEN pos[n] + 1 ELSE pos[n]
        BY <2>1, <2>2, <2>4, <1>8, <1>10, <1>11
      <3>2. CASE K < pos[n]
        BY <3>1, <3>2, <1>11
      <3>3. CASE ~ (K < pos[n])
        BY <3>1, <3>3, <1>11
      <3> QED BY <3>2, <3>3
    <2> QED BY <2>3, <2>4, <1>7
  <1>16. new = [j \in 1..N + 1 |->
                  IF j < K + 1 THEN old[j] ELSE IF j = K + 1 THEN e ELSE old[j - 1]]
    <2>1. new = [j \in 1..N + 1 |-> new[j]]
      BY <1>9 DEF new, ListOf
    <2> QED BY <2>1, <1>15
  <1>17. K + 1 \in 1..Len(old) + 1
    BY <1>8, <1>11
  <1>18. new = InsertAt(old, K + 1, e)
    <2>1. InsertAt(old, K + 1, e) =
             [j \in 1..Len(old) + 1 |->
                 IF j < K + 1 THEN old[j] ELSE IF j = K + 1 THEN e ELSE old[j - 1]]
      <3>1. e \in E
        BY <1>10
      <3> QED BY <3>1, <1>17, <1>19, InsertAtEntries
    <2> QED BY <2>1, <1>8, <1>16
  <1> QED
    BY <1>14, <1>17, <1>18 DEF old, new, e, R

\* Delete takes the entry of the node it unlinks out of the list.
LEMMA DeleteLists ==
    ASSUME NEW L, NEW pos, NEW N, Laid(L, pos, N),
           NEW x \in Elements(L), NEW update, Over(L, pos, update, x)
    PROVE  /\ pos[x] \in DOMAIN ListOf(L) /\ ListOf(L)[pos[x]] = EntryOf(L, x)
           /\ ListOf(DeleteNode(L, x, update)) = RemoveAt(ListOf(L), pos[x])
  <1> DEFINE R == DeleteNode(L, x, update)
             q == Closed(L, pos, x)
             old == ListOf(L)
             new == ListOf(R)
             p == pos[x]
             E == [score : Score, val : Member]
  <1>1. NodesOK(L) /\ PlacesOK(L, pos, N) /\ Linked(L, pos, N)
    BY LaidParts
  <1>2. Laid(R, q, N - 1)
    BY DeleteKeepsLaid
  <1>3. NodesOK(R) /\ PlacesOK(R, q, N - 1) /\ Linked(R, q, N - 1)
    <2> HIDE DEF R, q
    <2> QED BY <1>2, LaidParts
  <1>4. L.level \in 1..MaxLevel /\ x # head_ /\ x \in DOMAIN L.node /\ N \in Nat
    BY <1>1 DEF NodesOK, Elements, PlacesOK
  <1>5. /\ DOMAIN R.node = DOMAIN L.node \ {x}
        /\ \A n \in DOMAIN L.node \ {x} : /\ R.node[n].score = L.node[n].score
                                          /\ R.node[n].val = L.node[n].val
    BY <1>4, DeleteNodeFields
  <1>6. /\ Len(old) = N /\ DOMAIN old = 1..N
        /\ \A n \in Elements(L) : pos[n] \in 1..N /\ old[pos[n]] = EntryOf(L, n)
    BY <1>1, ListIs
  <1>7. old \in Seq(E)
    <2> HIDE DEF old
    <2> QED BY <1>1, ListIs DEF old
  <1>8. /\ DOMAIN new = 1..N - 1
        /\ \A n \in Elements(R) : q[n] \in 1..N - 1 /\ new[q[n]] = EntryOf(R, n)
        /\ \A k \in 1..N - 1 : \E n \in Elements(R) : q[n] = k
    <2> HIDE DEF R, q
    <2> QED BY <1>3, ListIs
  <1>9. ASSUME NEW n \in Elements(R)
        PROVE  /\ n \in Elements(L) /\ EntryOf(R, n) = EntryOf(L, n)
               /\ q[n] = IF p < pos[n] THEN pos[n] - 1 ELSE pos[n]
               /\ pos[n] # p /\ pos[n] \in 1..N
    <2>1. n \in DOMAIN L.node \ {x} /\ n # head_ /\ n \in Elements(L)
      BY <1>5 DEF Elements
    <2>2. EntryOf(R, n) = EntryOf(L, n)
      BY <2>1, <1>5 DEF EntryOf
    <2>3. q[n] = IF p < pos[n] THEN pos[n] - 1 ELSE pos[n]
      BY <2>1 DEF Closed
    <2>4. pos[n] # p
      BY <2>1, <1>1, <1>4 DEF PlacesOK
    <2> QED BY <2>1, <2>2, <2>3, <2>4, <1>6
  <1>10. p \in 1..N
    BY <1>6
  <1>11. new = [j \in 1..N - 1 |-> new[j]]
    BY <1>8 DEF ListOf
  <1> HIDE DEF R, q, old, new, p, E
  <1>12. ASSUME NEW j \in 1..N - 1
         PROVE  new[j] = IF j < p THEN old[j] ELSE old[j + 1]
    <2>1. PICK n \in Elements(R) : q[n] = j
      BY <1>8
    <2>2. new[j] = old[pos[n]]
      BY <2>1, <1>6, <1>8, <1>9
    <2>3. /\ pos[n] \in Nat /\ p \in Nat /\ pos[n] # p
          /\ j = IF p < pos[n] THEN pos[n] - 1 ELSE pos[n]
      BY <2>1, <1>4, <1>9, <1>10
    <2>4. IF j < p THEN pos[n] = j ELSE pos[n] = j + 1
      BY <2>3
    <2> QED BY <2>2, <2>4
  <1>13. RemoveAt(old, p) = [j \in 1..N - 1 |-> IF j < p THEN old[j] ELSE old[j + 1]]
    <2>1. p \in 1..Len(old)
      BY <1>6, <1>10
    <2>2. RemoveAt(old, p)
             = [j \in 1..Len(old) - 1 |-> IF j < p THEN old[j] ELSE old[j + 1]]
      BY <2>1, <1>7, RemoveAtEntries
    <2> QED BY <2>2, <1>6
  <1>14. new = RemoveAt(old, p)
    BY <1>11, <1>12, <1>13
  <1> QED
    BY <1>6, <1>10, <1>14 DEF old, new, p, R

\* Where Delete finds nothing the list has no such entry, or another one of its
\* score.
LEMMA TargetMissed ==
    ASSUME NEW L, NEW pos, NEW N, Laid(L, pos, N), Distinct(L), NEW s, NEW m,
           Target(L, s, m) = NULL, NEW n \in Elements(L),
           L.node[n].score = s, L.node[n].val = m
    PROVE  \E o \in Elements(L) : L.node[o].score = s /\ L.node[o].val # m
  <1> DEFINE P == {o \in Elements(L) : Before(L, s, m, o)}
             u == PathTo(L, s, m)[1].node
             x == Forward(L, u, 1)
  <1> SUFFICES ASSUME \A o \in Elements(L) : L.node[o].score = s => L.node[o].val = m
               PROVE  FALSE
    OBVIOUS
  <1>1. NodesOK(L) /\ PlacesOK(L, pos, N) /\ Linked(L, pos, N) /\ Ordered(L, pos)
    BY LaidParts
  <1>2. 1 \in 1..L.level
    BY <1>1, LevelAssumption DEF NodesOK
  <1>3. /\ Tall(L, u, 1)
        /\ u = head_ \/ u \in P
        /\ x # NULL => x \notin P
    BY <1>1, <1>2, DescendOnto DEF PathTo
  <1>4. Target(L, s, m) = IF x \in Elements(L) /\ L.node[x].score = s /\ L.node[x].val = m
                          THEN x ELSE NULL
    BY DEF Target
  <1> HIDE DEF u
  <1>5. u \in DOMAIN L.node /\ n \in DOMAIN L.node /\ n # head_
    BY <1>3 DEF Tall, Elements
  <1>6. /\ x = NULL => pos[u] = N
        /\ x # NULL => x \in Elements(L) /\ pos[x] = pos[u] + 1
    BY <1>1, <1>5, LowestLevel
  <1>7. /\ pos[u] \in Nat /\ pos[n] \in Nat /\ pos[n] <= N /\ pos[n] # 0 /\ pos[head_] = 0
        /\ N \in Nat
    BY <1>1, <1>5 DEF PlacesOK, NodesOK
  <1>8. \A o \in Elements(L) : L.node[o].score \in Int
    BY <1>1, ScoreAssumption DEF NodesOK
  <1>9. pos[u] < pos[n]
    <2>1. CASE u = head_
      BY <2>1, <1>7
    <2>2. CASE u \in P
      <3>1. u \in Elements(L) /\ L.node[u].score < s
        BY <2>2 DEF Before
      <3>2. ~ (L.node[n].score <= L.node[u].score)
        BY <3>1, <1>8
      <3>3. ~ (pos[n] < pos[u])
        BY <3>1, <3>2, <1>1 DEF Ordered
      <3>4. u # n
        BY <3>1, <1>8
      <3>5. pos[u] # pos[n]
        BY <3>4, <1>1, <1>5 DEF PlacesOK
      <3> QED BY <3>3, <3>5, <1>7
    <2> QED BY <2>1, <2>2, <1>3
  <1>10. x \in Elements(L) /\ pos[x] <= pos[n] /\ pos[x] \in Nat /\ x # NULL
    BY <1>6, <1>7, <1>9
  <1>11. x = n
    <2>1. CASE pos[x] = pos[n]
      BY <2>1, <1>1, <1>5, <1>10 DEF PlacesOK, Elements
    <2>2. CASE pos[x] < pos[n]
      <3>1. L.node[x].score <= s
        BY <2>2, <1>1, <1>10 DEF Ordered
      <3>2. ~ (L.node[x].score < s)
        BY <1>3, <1>10 DEF Before
      <3>3. L.node[x].score = s
        BY <3>1, <3>2, <1>8, <1>10
      <3>4. L.node[x].val = m
        BY <3>3, <1>10
      <3> QED BY <3>4, <1>10 DEF Distinct
    <2> QED BY <2>1, <2>2, <1>7, <1>10
  <1>12. n # NULL
    BY <1>10, <1>11
  <1> QED
    BY <1>4, <1>11, <1>12

LEMMA StepsAreListSteps ==
    ASSUME WellLaid(sl), Distinct(sl), [SLNext]_sl
    PROVE  Abstract!Next \/ ListOf(sl') = ListOf(sl)
  <1> DEFINE old == ListOf(sl)
  <1>1. PICK pos, N : Laid(sl, pos, N)
    BY DEF WellLaid
  <1>2. NodesOK(sl) /\ PlacesOK(sl, pos, N) /\ Linked(sl, pos, N)
    BY <1>1, LaidParts
  <1>3. /\ DOMAIN old = 1..N
        /\ \A n \in Elements(sl) : pos[n] \in DOMAIN old /\ old[pos[n]] = EntryOf(sl, n)
        /\ \A k \in 1..N : \E n \in Elements(sl) : pos[n] = k
    BY <1>2, ListIs
  <1>4. \A i \in DOMAIN old : \E n \in Elements(sl) : pos[n] = i /\ old[i] = EntryOf(sl, n)
    BY <1>3
  <1>5. ListOf(sl)' = ListOf(sl')
    OBVIOUS
  <1>6. /\ \A l, k, e : Abstract!InsertAt(l, k, e) = InsertAt(l, k, e)
        /\ \A l, k : Abstract!RemoveAt(l, k) = RemoveAt(l, k)
    BY DEF InsertAt, Abstract!InsertAt, RemoveAt, Abstract!RemoveAt
  <1> HIDE DEF old
  <1>7. ASSUME NEW s \in Score, NEW m \in Member, Insert(s, m) PROVE Abstract!Insert(s, m)
    <2>1. m \notin Members(sl)
      BY <1>7 DEF Insert
    <2>2. PICK lvl \in 1..MaxLevel, x \in Node \ DOMAIN sl.node :
                sl' = InsertNode(sl, s, m, lvl, x)
      BY <1>7 DEF Insert
    <2>3. \A i \in DOMAIN old : old[i].val # m
      BY <2>1, <1>4 DEF Members, EntryOf
    <2>4. \E k \in 1..Len(old) + 1 :
             /\ \A i \in DOMAIN old : old[i].score <= s <=> i < k
             /\ ListOf(InsertNode(sl, s, m, lvl, x))
                   = InsertAt(old, k, [score |-> s, val |-> m])
      BY <1>1, <2>1, InsertLists DEF old
    <2>5. \E k \in 1..Len(old) + 1 :
             /\ \A i \in DOMAIN old : old[i].score <= s <=> i < k
             /\ ListOf(sl)' = InsertAt(old, k, [score |-> s, val |-> m])
      <3>1. ListOf(sl)' = ListOf(InsertNode(sl, s, m, lvl, x))
        BY <2>2, <1>5
      <3> QED BY <3>1, <2>4
    <2> QED BY <2>3, <2>5, <1>6 DEF Abstract!Insert, old
  <1>8. ASSUME NEW s \in Score, NEW m \in Member, Delete(s, m) PROVE Abstract!Delete(s, m)
    <2>1. sl' = DeleteMember(sl, s, m)
      BY <1>8 DEF Delete
    <2>2. CASE Target(sl, s, m) = NULL
      <3>1. ListOf(sl') = old
        BY <2>1, <2>2 DEF DeleteMember, old
      <3>2. ASSUME NEW i \in DOMAIN old, old[i] = [score |-> s, val |-> m]
            PROVE  \E j \in DOMAIN old : old[j].score = s /\ old[j].val # m
        <4>1. PICK n \in Elements(sl) : old[i] = EntryOf(sl, n)
          BY <1>4
        <4>2. sl.node[n].score = s /\ sl.node[n].val = m
          BY <4>1, <3>2 DEF EntryOf
        <4>3. PICK o \in Elements(sl) : sl.node[o].score = s /\ sl.node[o].val # m
          BY <4>2, <1>1, <2>2, TargetMissed
        <4>4. pos[o] \in DOMAIN old /\ old[pos[o]] = EntryOf(sl, o)
          BY <1>3
        <4> QED BY <4>3, <4>4 DEF EntryOf
      <3>3. Abstract!At(s, m) = {} \/ Abstract!Tied(s, m)
        BY <3>2 DEF Abstract!At, Abstract!Tied, old
      <3> QED BY <3>1, <3>3 DEF Abstract!Delete, old
    <2>3. CASE Target(sl, s, m) # NULL
      <3> DEFINE x == Target(sl, s, m)
                 update == PathTo(sl, s, m)
      <3>1. /\ x \in Elements(sl) /\ sl.node[x].score = s /\ sl.node[x].val = m
            /\ Over(sl, pos, update, x)
        BY <2>3, <1>1, PathOver
      <3>2. sl' = DeleteNode(sl, x, update)
        BY <2>1, <2>3 DEF DeleteMember
      <3> HIDE DEF x, update
      <3>3. /\ pos[x] \in DOMAIN old /\ old[pos[x]] = EntryOf(sl, x)
            /\ ListOf(sl)' = RemoveAt(old, pos[x])
        BY <3>1, <3>2, <1>1, <1>5, DeleteLists DEF old
      <3>4. pos[x] \in Abstract!At(s, m)
        <4>1. old[pos[x]] = [score |-> s, val |-> m]
          BY <3>1, <3>3 DEF EntryOf
        <4> QED BY <4>1, <3>3 DEF Abstract!At, old
      <3> QED BY <3>3, <3>4, <1>6 DEF Abstract!Delete, old
    <2> QED BY <2>2, <2>3
  <1>9. CASE UNCHANGED sl
    <2>1. sl' = sl
      BY <1>9
    <2> QED BY <2>1
  <1> QED BY <1>7, <1>8, <1>9 DEF SLNext, Abstract!Next

\* The skip list, on all its levels, is the list of scored members its callers
\* take it for: Insert and Delete do to it what ScoredList says.
THEOREM RefinesScoredList == SLSpec => ImplementsScoredList
  <1>1. SLInit => Abstract!Init
    <2> SUFFICES ASSUME SLInit PROVE ListOf(sl) = << >>
      BY DEF Abstract!Init
    <2>1. /\ NodesOK(sl) /\ Linked(sl, [n \in {head_} |-> 0], 0)
          /\ PlacesOK(sl, [n \in {head_} |-> 0], 0)
      BY EmptyLaid, LaidParts DEF SLInit
    <2>2. ListOf(sl) \in Seq([score : Score, val : Member]) /\ Len(ListOf(sl)) = 0
      BY <2>1, ListIs
    <2> QED BY <2>2, EmptySeq
  <1>2. SLInit => WellLaid(sl) /\ Distinct(sl)
    BY EmptyLaid DEF SLInit, WellLaid, EmptyList, Distinct, Elements
  <1>3. WellLaid(sl) /\ Distinct(sl) /\ [SLNext]_sl => WellLaid(sl)' /\ Distinct(sl)'
    BY StepsKeepLaid, StepsKeepDistinct
  <1>4. WellLaid(sl) /\ Distinct(sl) /\ [SLNext]_sl => [Abstract!Next]_(ListOf(sl))
    BY StepsAreListSteps
  <1> QED
    BY <1>1, <1>2, <1>3, <1>4, PTL DEF SLSpec, ImplementsScoredList, Abstract!Spec
=============================================================================
